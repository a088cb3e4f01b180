----------------------------- MODULE QuoteHost -----------------------------
(***************************************************************************)
(* HQTEST: the dialog (CHQTESTDlg), its timer and the quotation threads    *)
(* (CQuotation), composed with the connection table of TDXHQ.dll.  The     *)
(* threads are the pool's Clients; thread w quotes its slice of the watch  *)
(* list, stocks 0..NumStock(w)-1 (module StockPartition shows that every   *)
(* stock is in one slice), and stores their bars in one database file per  *)
(* stock.                                                                  *)
(*                                                                         *)
(* A call of TDXHQ_GetSecurityBars is one step with the outcomes that      *)
(* module TdxFetch allows: the reply, an error code, an error that leaves  *)
(* the connection out of step (a cut head), and after that anything; a     *)
(* reset inside a body kills the process.  Time is counted in minutes.     *)
(***************************************************************************)
EXTENDS TdxConnPool, FiniteSets

CONSTANTS
  TREADNUM,   \* number of threads (20 in the code)
  Last,       \* the thread that is created last, with the rest of the list
  MAXSTOCK,   \* entries of CHQTESTDlg::stockcode (3000 in the code)
  RowCounts,  \* row counts the table "watching" may have
  Trading,    \* minutes for which IsTraderTime() holds
  HourLen,    \* minutes per hour (60 in the code)
  MaxMin,     \* bound: last minute of a behaviour
  MaxMisses,  \* bound: answers of one round that are not stored
  Cuts,       \* TRUE: recv() may cut a head
  RedisFails  \* TRUE: redis may throw, in the constructor or in a command

ASSUME HostAssumption ==
  /\ TREADNUM \in Nat \ {0} /\ Last \in Clients
  /\ MAXSTOCK \in Nat /\ RowCounts \subseteq Nat
  /\ HourLen \in Nat \ {0}
  /\ MaxMin \in Nat /\ MaxMisses \in Nat
  /\ Cuts \in BOOLEAN /\ RedisFails \in BOOLEAN

VARIABLES
  ui,      \* progress of OnInitDialog: "mysql", "threads", "run"; "dead"
  m_istock,\* number of stocks loaded
  now,     \* wall clock, in minutes
  preMin,  \* minute of the hour of the last trigger
  flag,    \* [Clients -> g_bGetQuotation]
  wpc,     \* [Clients -> where CQuotation::Run is]
  i,       \* [Clients -> loop counter over the stocks]
  stored,  \* [Stocks -> [Tables -> minute of the last answer that was stored]]
  skew,    \* [Clients -> a head was cut on its connection]
  seen,    \* history: [Clients -> minute its current or last round began]
  missed,  \* history: [Clients -> stocks and tables of the current or last
           \*   round for which the call failed or its rows were not stored]
  trig,    \* history: [Clients -> last trigger that found it idle]
  blame    \* history: redis threw

hostvars == <<ui, m_istock, now, preMin, flag, wpc, i, stored, skew, seen,
              missed, trig, blame>>
allvars == <<vars, hostvars>>

Tables == {"Min30", "Min5"}
Stocks == Clients \X (0 .. MAXSTOCK - 1)

Never == -1
Junk  == -2

HostTypeOK ==
  /\ TypeOK
  /\ ui \in {"mysql", "threads", "run", "dead"}
  /\ m_istock \in Nat
  /\ now \in 0 .. MaxMin
  /\ preMin \in 0 .. HourLen - 1
  /\ flag \in [Clients -> BOOLEAN]
  /\ wpc \in [Clients -> {"none", "new", "idle", "connect", "stock", "Min30",
                          "Min5", "hung"}]
  /\ i \in [Clients -> Nat]
  /\ stored \in [Stocks -> [Tables -> {Never, Junk} \cup 0 .. MaxMin]]
  /\ skew \in [Clients -> BOOLEAN]
  /\ seen \in [Clients -> {Never} \cup 0 .. MaxMin]
  /\ missed \in [Clients -> SUBSET (Nat \X Tables)]
  /\ trig \in [Clients -> {Never} \cup 0 .. MaxMin]
  /\ blame \in BOOLEAN

HostInit ==
  /\ Init
  /\ ui = "mysql"
  /\ m_istock = 0
  /\ now = 0 /\ preMin = 0
  /\ flag = [w \in Clients |-> FALSE]
  /\ wpc = [w \in Clients |-> "none"]
  /\ i = [w \in Clients |-> 0]
  /\ stored = [s \in Stocks |-> [t \in Tables |-> Never]]
  /\ skew = [w \in Clients |-> FALSE]
  /\ seen = [w \in Clients |-> Never]
  /\ missed = [w \in Clients |-> {}]
  /\ trig = [w \in Clients |-> Never]
  /\ blame = FALSE

-----------------------------------------------------------------------------
(* The dialog.                                                              *)

(* MySQL cannot be reached: OnInitDialog returns before it creates threads  *)
(* or sets the timer.                                                       *)
MysqlFails ==
  /\ ui = "mysql"
  /\ ui' = "dead"
  /\ UNCHANGED vars
  /\ UNCHANGED <<m_istock, now, preMin, flag, wpc, i, stored, skew, seen,
                 missed, trig, blame>>

(* OnInitDialog dies while it loads the stocks: mysql_store_result has no   *)
(* result to give, or the fetch loop writes past stockcode.                 *)
LoadDies ==
  /\ ui = "mysql"
  /\ \/ UNCHANGED m_istock
     \/ \E rows \in RowCounts : rows > MAXSTOCK /\ m_istock' = rows
  /\ ui' = "dead"
  /\ fault' = TRUE
  /\ UNCHANGED <<nIP, nCurentIP, nConnectID, skHQ, pmtx, initRet, pc, slot,
                 conID, dials>>
  /\ UNCHANGED <<now, preMin, flag, wpc, i, stored, skew, seen, missed, trig,
                 blame>>

(* The redis::client that the constructor of CQuotation makes throws, for   *)
(* this or that thread; nothing catches it.                                 *)
ConstructorThrows ==
  /\ RedisFails
  /\ ui = "mysql"
  /\ \E rows \in RowCounts : rows <= MAXSTOCK /\ m_istock' = rows
  /\ ui' = "dead"
  /\ fault' = TRUE
  /\ blame' = TRUE
  /\ UNCHANGED <<nIP, nCurentIP, nConnectID, skHQ, pmtx, initRet, pc, slot,
                 conID, dials>>
  /\ UNCHANGED <<now, preMin, flag, wpc, i, stored, skew, seen, missed, trig>>

(* How many stocks thread w is given.                                       *)
NumStock(w) ==
  IF w = Last THEN m_istock - (TREADNUM - 1) * (m_istock \div TREADNUM)
              ELSE m_istock \div TREADNUM

(* The stocks are loaded and one thread per slice is created; each will run *)
(* InitInstance on its own.  Without a rest there is no last thread, and    *)
(* its pquo[] is never set.                                                 *)
CreateThreads ==
  /\ ui = "mysql"
  /\ \E rows \in RowCounts :
       /\ rows <= MAXSTOCK
       /\ m_istock' = rows
       /\ wpc' = [w \in Clients |->
                    IF w # Last \/ (TREADNUM - 1) * (rows \div TREADNUM) < rows
                      THEN "new" ELSE "none"]
  /\ ui' = "threads"
  /\ UNCHANGED vars
  /\ UNCHANGED <<now, preMin, flag, i, stored, skew, seen, missed, trig, blame>>

(* Only then is TDXHQ_Init called, its result ignored, and the timer set.   *)
InitTdx ==
  /\ ui = "threads"
  /\ InitNoConfig \/ \E k \in IniLines : InitOK(k)
  /\ ui' = "run"
  /\ preMin' = now % HourLen
  /\ UNCHANGED <<m_istock, now, flag, wpc, i, stored, skew, seen, missed,
                 trig, blame>>

Clock ==
  /\ now < MaxMin
  /\ now' = now + 1
  /\ UNCHANGED vars
  /\ UNCHANGED <<ui, m_istock, preMin, flag, wpc, i, stored, skew, seen,
                 missed, trig, blame>>

IsTraderTime == now \in Trading

(* Mutant: the loop over pquo[] stops one short of TREADNUM.                *)
OnTimerMissesOne ==
  /\ ui = "run" /\ ~fault
  /\ IsTraderTime
  /\ preMin # now % HourLen
  /\ preMin' = now % HourLen
  /\ \E last \in Clients :
       flag' = [w \in Clients |-> IF w = last THEN flag[w] ELSE wpc[w] # "none"]
  /\ trig' = [w \in Clients |-> IF wpc[w] = "idle" THEN now ELSE trig[w]]
  /\ UNCHANGED vars
  /\ UNCHANGED <<ui, m_istock, now, wpc, i, stored, skew, seen, missed,
                 blame>>

(* The first timer message of a new minute raises every thread's flag (and  *)
(* writes through the unset pointer of a thread that was never created).    *)
OnTimer ==
  /\ ui = "run" /\ ~fault
  /\ IsTraderTime
  /\ preMin # now % HourLen
  /\ preMin' = now % HourLen
  /\ flag' = [w \in Clients |-> wpc[w] # "none"]
  /\ trig' = [w \in Clients |-> IF wpc[w] = "idle" THEN now ELSE trig[w]]
  /\ UNCHANGED vars
  /\ UNCHANGED <<ui, m_istock, now, wpc, i, stored, skew, seen, missed,
                 blame>>

(* The unset pointer is no address the process may write to.                *)
OnTimerDies ==
  /\ ui = "run" /\ ~fault
  /\ IsTraderTime
  /\ preMin # now % HourLen
  /\ wpc[Last] = "none"
  /\ fault' = TRUE
  /\ UNCHANGED <<nIP, nCurentIP, nConnectID, skHQ, pmtx, initRet, pc, slot,
                 conID, dials>>
  /\ UNCHANGED hostvars

-----------------------------------------------------------------------------
(* The quotation threads.                                                   *)

(* Mutant: InitInstance leaves the flag as the allocator left it.           *)
InitInstanceNoReset(w) ==
  /\ wpc[w] = "new"
  /\ wpc' = [wpc EXCEPT ![w] = "idle"]
  /\ flag' = [flag EXCEPT ![w] = TRUE]
  /\ conID' = [conID EXCEPT ![w] = -1]
  /\ UNCHANGED <<nIP, nCurentIP, nConnectID, skHQ, pmtx, initRet, fault, pc,
                 slot, dials>>
  /\ UNCHANGED <<ui, m_istock, now, preMin, i, stored, skew, seen, missed,
                 trig, blame>>

(* InitInstance, at any time after the thread was created: a flag raised    *)
(* before is lost.                                                          *)
InitInstance(w) ==
  /\ wpc[w] = "new"
  /\ wpc' = [wpc EXCEPT ![w] = "idle"]
  /\ flag' = [flag EXCEPT ![w] = FALSE]
  /\ conID' = [conID EXCEPT ![w] = -1]
  /\ UNCHANGED <<nIP, nCurentIP, nConnectID, skHQ, pmtx, initRet, fault, pc,
                 slot, dials>>
  /\ UNCHANGED <<ui, m_istock, now, preMin, i, stored, skew, seen, missed,
                 trig, blame>>

(* Run sees the flag and begins a round.                                    *)
StartRound(w) ==
  /\ wpc[w] = "idle" /\ flag[w] /\ ~fault
  /\ wpc' = [wpc EXCEPT ![w] = "connect"]
  /\ seen' = [seen EXCEPT ![w] = now]
  /\ missed' = [missed EXCEPT ![w] = {}]
  /\ UNCHANGED vars
  /\ UNCHANGED <<ui, m_istock, now, preMin, flag, i, stored, skew, trig,
                 blame>>

(* while (conID < 0) conID = TDXHQ_Connect();                               *)
Connecting(w) ==
  /\ wpc[w] = "connect"
  /\ ConnectEnter(w) \/ ConnectNullMutex(w) \/ ConnectOK(w) \/ ConnectFail(w)
  /\ UNCHANGED hostvars

(* Mutant: the counter is not reset between rounds.                         *)
ConnectedKeepsCount(w) ==
  /\ wpc[w] = "connect" /\ pc[w] = "out" /\ conID[w] >= 0 /\ ~fault
  /\ wpc' = [wpc EXCEPT ![w] = "stock"]
  /\ UNCHANGED vars
  /\ UNCHANGED <<ui, m_istock, now, preMin, flag, i, stored, skew, seen,
                 missed, trig, blame>>

(* The loop over the stocks begins.                                         *)
Connected(w) ==
  /\ wpc[w] = "connect" /\ pc[w] = "out" /\ conID[w] >= 0 /\ ~fault
  /\ wpc' = [wpc EXCEPT ![w] = "stock"]
  /\ i' = [i EXCEPT ![w] = 0]
  /\ UNCHANGED vars
  /\ UNCHANGED <<ui, m_istock, now, preMin, flag, stored, skew, seen, missed,
                 trig, blame>>

(* The database is opened and four redis commands are sent.                 *)
BeginStock(w) ==
  /\ wpc[w] = "stock" /\ i[w] < NumStock(w) /\ ~fault
  /\ wpc' = [wpc EXCEPT ![w] = "Min30"]
  /\ UNCHANGED vars
  /\ UNCHANGED <<ui, m_istock, now, preMin, flag, i, stored, skew, seen,
                 missed, trig, blame>>

(* A redis command throws; nothing catches it.                              *)
RedisThrows(w) ==
  /\ RedisFails
  /\ wpc[w] = "stock" /\ i[w] < NumStock(w) /\ ~fault
  /\ fault' = TRUE
  /\ blame' = TRUE
  /\ UNCHANGED <<nIP, nCurentIP, nConnectID, skHQ, pmtx, initRet, pc, slot,
                 conID, dials>>
  /\ UNCHANGED <<ui, m_istock, now, preMin, flag, wpc, i, stored, skew, seen,
                 missed, trig>>

(* After the call for table t: the call for the other one, or, the database *)
(* closed, the next stock.                                                  *)
AfterFetch(w, t) ==
  IF t = "Min30"
    THEN wpc' = [wpc EXCEPT ![w] = "Min5"] /\ UNCHANGED i
    ELSE wpc' = [wpc EXCEPT ![w] = "stock"] /\ i' = [i EXCEPT ![w] = @ + 1]

(* The rows of an answer replace those of the table.                        *)
Replace(w, t, m) == stored' = [stored EXCEPT ![<<w, i[w]>>][t] = m]

(* The round leaves this table of the stock as it was.                      *)
Misses(w, t) == missed' = [missed EXCEPT ![w] = @ \cup {<<i[w], t>>}]

Link(w) == skHQ[conID[w]]

(* TDXHQ_GetSecurityBars returns the reply and its rows are stored; or it   *)
(* has no rows, or sqlite3_exec fails on some of them (no database, or a    *)
(* locked one), which is only traced.                                       *)
FetchOK(w, t) ==
  /\ wpc[w] = t /\ ~fault /\ ~skew[w]
  /\ Link(w) = "connected"
  /\ \/ Replace(w, t, now) /\ UNCHANGED missed
     \/ /\ Cardinality(missed[w]) < MaxMisses
        /\ Misses(w, t) /\ UNCHANGED stored
  /\ AfterFetch(w, t)
  /\ UNCHANGED vars
  /\ UNCHANGED <<ui, m_istock, now, preMin, flag, skew, seen, trig,
                 blame>>

(* Mutant: szResult is not zeroed, and the previous rows are stored again.  *)
FetchErrorStale(w, t) ==
  /\ wpc[w] = t /\ ~fault
  /\ Link(w) = "lost"
  /\ Misses(w, t)
  /\ Replace(w, t, now)
  /\ AfterFetch(w, t)
  /\ UNCHANGED vars
  /\ UNCHANGED <<ui, m_istock, now, preMin, flag, skew, seen, trig, blame>>

(* It returns an error code, which the thread ignores; szResult was zeroed, *)
(* so there are no rows.                                                    *)
FetchError(w, t) ==
  /\ wpc[w] = t /\ ~fault
  /\ Link(w) = "lost"
  /\ Misses(w, t)
  /\ AfterFetch(w, t)
  /\ UNCHANGED vars
  /\ UNCHANGED <<ui, m_istock, now, preMin, flag, stored, skew, seen, trig,
                 blame>>

(* The head of the reply is cut: an error code, and a connection out of     *)
(* step from now on.                                                        *)
FetchCut(w, t) ==
  /\ Cuts
  /\ wpc[w] = t /\ ~fault /\ ~skew[w]
  /\ skew' = [skew EXCEPT ![w] = TRUE]
  /\ AfterFetch(w, t)
  /\ UNCHANGED vars
  /\ UNCHANGED <<ui, m_istock, now, preMin, flag, stored, seen, missed, trig,
                 blame>>

(* A call on a connection out of step: rows of another query or no rows at  *)
(* all are stored, an error is returned, or recv() blocks for ever.         *)
FetchSkewed(w, t) ==
  /\ wpc[w] = t /\ ~fault /\ skew[w]
  /\ \/ AfterFetch(w, t) /\ (UNCHANGED stored \/ Replace(w, t, Junk))
     \/ wpc' = [wpc EXCEPT ![w] = "hung"] /\ UNCHANGED <<i, stored>>
  /\ UNCHANGED vars
  /\ UNCHANGED <<ui, m_istock, now, preMin, flag, skew, seen, missed, trig,
                 blame>>

(* The process dies in the call: a reset inside a body, or bytes that are   *)
(* no reply.                                                                *)
FetchDies(w, t) ==
  /\ wpc[w] = t /\ ~fault
  /\ skew[w] \/ Link(w) = "lost"
  /\ fault' = TRUE
  /\ UNCHANGED <<nIP, nCurentIP, nConnectID, skHQ, pmtx, initRet, pc, slot,
                 conID, dials>>
  /\ UNCHANGED hostvars

(* The round ends.  The connection is kept, whatever became of it, and a    *)
(* flag raised during the round is erased.                                  *)
EndRound(w) ==
  /\ wpc[w] = "stock" /\ i[w] >= NumStock(w) /\ ~fault
  /\ wpc' = [wpc EXCEPT ![w] = "idle"]
  /\ flag' = [flag EXCEPT ![w] = FALSE]
  /\ UNCHANGED vars
  /\ UNCHANGED <<ui, m_istock, now, preMin, i, stored, skew, seen, missed,
                 trig, blame>>

(* The server drops a connection.                                           *)
ServerDrops(n) == PeerClose(n) /\ UNCHANGED hostvars

Run(w) ==
  \/ InitInstance(w) \/ StartRound(w) \/ Connecting(w) \/ Connected(w)
  \/ BeginStock(w) \/ EndRound(w)
  \/ \E t \in Tables : FetchOK(w, t) \/ FetchError(w, t) \/ FetchSkewed(w, t)

Mishap(w) ==
  RedisThrows(w) \/ \E t \in Tables : FetchCut(w, t) \/ FetchDies(w, t)

AllNext ==
  \/ MysqlFails \/ LoadDies \/ ConstructorThrows \/ CreateThreads \/ InitTdx
  \/ Clock \/ OnTimer \/ OnTimerDies
  \/ \E w \in Clients : Run(w) \/ Mishap(w)
  \/ \E n \in Slots : ServerDrops(n)

AllSpec == HostInit /\ [][AllNext]_allvars

(* Every thread runs.                                                       *)
FairAllSpec == AllSpec /\ \A w \in Clients : WF_allvars(Run(w))

-----------------------------------------------------------------------------
(* When a round has ended, every stock of the thread's slice has, in both   *)
(* tables, bars at least as new as the round, but for the tables whose own  *)
(* call failed in that round or whose rows were not stored: a failure does  *)
(* not reach other stocks or tables.  A connection out of step voids it.    *)
RoundFresh ==
  \A w \in Clients :
    wpc[w] = "idle" /\ seen[w] # Never /\ ~skew[w] =>
      \A k \in 0 .. NumStock(w) - 1 : \A t \in Tables :
        stored[<<w, k>>][t] >= seen[w] \/ <<k, t>> \in missed[w]

(* A trigger that finds a thread idle is served: when the thread is idle    *)
(* again without a flag, it has begun a round since.  (A trigger that comes *)
(* during a round is erased by EndRound.)                                   *)
IdleTriggerServed ==
  \A w \in Clients : wpc[w] = "idle" /\ ~flag[w] => seen[w] >= trig[w]

(* Threads exist before TDXHQ_Init has run, yet none calls the DLL before.  *)
NoCallBeforeInit ==
  initRet = 0 => \A w \in Clients : wpc[w] \in {"none", "new", "idle"}

(* What can kill the program: no TDXHQ.ini or too long a one, a watch list  *)
(* that could not be fetched, is empty or is longer than stockcode, redis,  *)
(* a dropped connection, or a connection out of step.  The state is well    *)
(* typed.                                                                   *)
FaultCauses ==
  /\ HostTypeOK
  /\ fault => \/ initRet = TDXHQ_ERROR_COFG \/ nIP > MAXIP
              \/ m_istock \notin 1 .. MAXSTOCK \/ blame
              \/ \E w \in Clients : skew[w]
              \/ \E n \in Slots : skHQ[n] = "lost"

(* A thread whose connection was dropped stores nothing any more: conID     *)
(* stays, so the loop around TDXHQ_Connect is never entered again.          *)
DroppedThreadIsSilent ==
  [][\A w \in Clients :
       conID[w] >= 0 /\ skHQ[conID[w]] = "lost" /\ ~skew[w] =>
         /\ conID'[w] = conID[w]
         /\ \A s \in Stocks : s[1] = w => stored'[s] = stored[s]]_allvars

(* Every round ends, also on a dropped connection, provided servers accept  *)
(* and no connection gets out of step.                                      *)
RoundEnds ==
  \A w \in Clients :
    (wpc[w] = "connect") ~> (wpc[w] = "idle" \/ fault \/ skew[w])
=============================================================================
