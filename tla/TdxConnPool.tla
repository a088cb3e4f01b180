---------------------------- MODULE TdxConnPool ----------------------------
(***************************************************************************)
(* The connection table of TDXHQ.dll (TDXHQ/TDXHQ.cpp): the globals nIP,   *)
(* nCurentIP, nConnectID, skHQ[] and pmtx, and the exported operations     *)
(* TDXHQ_Init, TDXHQ_Connect and TDXHQ_DisConnect, called by the threads   *)
(* of a host program.                                                      *)
(*                                                                         *)
(* skHQ[i] holds INVALID or the state the operating system keeps for the   *)
(* socket whose handle is in slot i.  No handle is ever copied from one    *)
(* slot to another, so the slot identifies the socket.                     *)
(***************************************************************************)
EXTENDS Integers

CONSTANTS
  Clients,     \* threads of the host program that call the DLL
  CONNECTNUM,  \* number of slots of skHQ (1000 in the code)
  MAXIP,       \* number of entries of IPS (100 in the code)
  IniLines,    \* line counts a readable TDXHQ.ini may have
  Up,          \* table indices whose server accepts every connection
  Flaky,       \* table indices whose server may accept or refuse
  SocketFails, \* TRUE: socket() itself may fail
  NoMutex,     \* value of pmtx before TDXHQ_Init: a null pointer
  Free,        \* value of pmtx when no thread holds the mutex
  MaxDials     \* bound on the connection attempts made to one entry of IPS

ASSUME PoolAssumption ==
  /\ CONNECTNUM \in Nat \ {0}
  /\ MAXIP \in Nat \ {0}
  /\ IniLines \subseteq Nat
  /\ SocketFails \in BOOLEAN
  /\ MaxDials \in Nat
  /\ Clients \cap {NoMutex, Free} = {} /\ NoMutex # Free

Slots == 0 .. CONNECTNUM - 1

\* Return codes of TDXHQ.h
TDXHQ_ERROR_OK   == -1
TDXHQ_ERROR_CONT == -4
TDXHQ_ERROR_COFG == -5

INVALID == "INVALID_SOCKET"

VARIABLES
  nIP,         \* number of addresses read from TDXHQ.ini
  nCurentIP,   \* index into IPS of the address dialled last
  nConnectID,  \* slot used by the last TDXHQ_Connect
  skHQ,        \* [Slots -> socket state]
  pmtx,        \* NoMutex before TDXHQ_Init, Free, or the thread inside the lock
  initRet,     \* what TDXHQ_Init returned, 0 before the call
  fault,       \* the process died (null dereference, write past an array)
  pc,          \* "out" or "connect": the thread is blocked in connect()
  slot,        \* [Clients -> slot passed to connect()]
  conID,       \* [Clients -> the caller's copy of the connection id]
  dials        \* history: [0..MAXIP -> attempts made to that entry of IPS]

vars == <<nIP, nCurentIP, nConnectID, skHQ, pmtx, initRet, fault, pc, slot,
          conID, dials>>

SocketStates == {INVALID, "open", "connected", "lost"}

TypeOK ==
  /\ nIP \in Nat
  /\ nCurentIP \in 0 .. MAXIP
  /\ nConnectID \in Slots
  /\ skHQ \in [Slots -> SocketStates]
  /\ pmtx \in {NoMutex, Free} \cup Clients
  /\ initRet \in {0, TDXHQ_ERROR_OK, TDXHQ_ERROR_COFG}
  /\ fault \in BOOLEAN
  /\ pc \in [Clients -> {"out", "connect"}]
  /\ slot \in [Clients -> Slots]
  /\ conID \in [Clients -> Slots \cup {-1, TDXHQ_ERROR_CONT}]
  /\ dials \in [0 .. MAXIP -> Nat]

-----------------------------------------------------------------------------
(* Globals are zero before TDXHQ_Init; CQuotation::InitInstance sets conID  *)
(* to -1 before the thread makes its first call.                            *)
Init ==
  /\ nIP = 0 /\ nCurentIP = 0 /\ nConnectID = 0
  /\ skHQ = [i \in Slots |-> INVALID]
  /\ pmtx = NoMutex
  /\ initRet = 0
  /\ fault = FALSE
  /\ pc = [c \in Clients |-> "out"]
  /\ slot = [c \in Clients |-> 0]
  /\ conID = [c \in Clients |-> -1]
  /\ dials = [a \in 0 .. MAXIP |-> 0]

(* TDXHQ_Init when TDXHQ.ini cannot be opened: pmtx stays null.             *)
InitNoConfig ==
  /\ initRet = 0
  /\ initRet' = TDXHQ_ERROR_COFG
  /\ UNCHANGED <<nIP, nCurentIP, nConnectID, skHQ, pmtx, fault, pc, slot,
                 conID, dials>>

(* Mutant: the mutex is not created.                                        *)
InitOKNoMutex(k) ==
  /\ initRet = 0
  /\ nIP' = k
  /\ nCurentIP' = 0
  /\ nConnectID' = 0
  /\ skHQ' = [j \in Slots |-> INVALID]
  /\ initRet' = TDXHQ_ERROR_OK
  /\ fault' = (k > MAXIP)
  /\ UNCHANGED <<pmtx, pc, slot, conID, dials>>

(* TDXHQ_Init with a file of k lines.  There is no bound check on k: lines  *)
(* past MAXIP are written behind IPS, modelled as a fault.                  *)
InitOK(k) ==
  /\ initRet = 0
  /\ nIP' = k
  /\ nCurentIP' = 0
  /\ nConnectID' = 0
  /\ skHQ' = [i \in Slots |-> INVALID]
  /\ pmtx' = Free
  /\ initRet' = TDXHQ_ERROR_OK
  /\ fault' = (k > MAXIP)
  /\ UNCHANGED <<pc, slot, conID, dials>>

-----------------------------------------------------------------------------
(* Mutant: a full table is searched round-robin instead of retrying the     *)
(* slot of the previous call.                                               *)
PickSlotNextWhenFull ==
  \/ \E i \in Slots :
       /\ skHQ[i] = INVALID
       /\ \A j \in 0 .. i - 1 : skHQ[j] # INVALID
       /\ nConnectID' = i
  \/ /\ \A i \in Slots : skHQ[i] # INVALID
     /\ nConnectID' = (nConnectID + 1) % CONNECTNUM

(* The slot scan of TDXHQ_Connect: the first INVALID slot, or the slot of   *)
(* the previous call when the table is full.                                *)
PickSlot ==
  \/ \E i \in Slots :
       /\ skHQ[i] = INVALID
       /\ \A j \in 0 .. i - 1 : skHQ[j] # INVALID
       /\ nConnectID' = i
  \/ /\ \A i \in Slots : skHQ[i] # INVALID
     /\ UNCHANGED nConnectID

(* socket() is called only for an INVALID slot, and may itself fail.        *)
OpenSocket ==
  IF skHQ[nConnectID'] = INVALID
    THEN \E s \in {"open"} \cup (IF SocketFails THEN {INVALID} ELSE {}) :
           skHQ' = [skHQ EXCEPT ![nConnectID'] = s]
    ELSE UNCHANGED skHQ

(* Mutant: the increment is lost on the wrap-around.                        *)
NextIPSkipsWrap ==
  IF nIP > 0 THEN (IF nCurentIP >= nIP THEN 0 ELSE nCurentIP + 1) ELSE nCurentIP

(* The round-robin over the addresses; note that it yields 1..nIP.          *)
NextIP == IF nIP > 0 THEN (nCurentIP % nIP) + 1 ELSE nCurentIP

(* Mutant: TDXHQ_Connect without pmtx->Lock().                              *)
ConnectEnterUnlocked(c) ==
  /\ initRet # 0 /\ ~fault
  /\ pc[c] = "out" /\ conID[c] < 0
  /\ pmtx # NoMutex
  /\ dials[NextIP] < MaxDials
  /\ pmtx' = c
  /\ PickSlot
  /\ OpenSocket
  /\ nCurentIP' = NextIP
  /\ slot' = [slot EXCEPT ![c] = nConnectID']
  /\ dials' = [dials EXCEPT ![NextIP] = @ + 1]
  /\ pc' = [pc EXCEPT ![c] = "connect"]
  /\ UNCHANGED <<nIP, initRet, fault, conID>>

(* TDXHQ_Connect up to the blocking connect(): Lock, scan, socket, rotate.  *)
ConnectEnter(c) ==
  /\ initRet # 0 /\ ~fault
  /\ pc[c] = "out" /\ conID[c] < 0
  /\ pmtx = Free
  /\ dials[NextIP] < MaxDials
  /\ pmtx' = c
  /\ PickSlot
  /\ OpenSocket
  /\ nCurentIP' = NextIP
  /\ slot' = [slot EXCEPT ![c] = nConnectID']
  /\ dials' = [dials EXCEPT ![NextIP] = @ + 1]
  /\ pc' = [pc EXCEPT ![c] = "connect"]
  /\ UNCHANGED <<nIP, initRet, fault, conID>>

(* pmtx->Lock() after a failed TDXHQ_Init dereferences a null pointer.      *)
ConnectNullMutex(c) ==
  /\ initRet # 0 /\ ~fault
  /\ pc[c] = "out" /\ conID[c] < 0
  /\ pmtx = NoMutex
  /\ fault' = TRUE
  /\ UNCHANGED <<nIP, nCurentIP, nConnectID, skHQ, pmtx, initRet, pc, slot,
                 conID, dials>>

(* What connect() to entry a of IPS may do.  Entries nIP..MAXIP-1 are zero  *)
(* and always refused; entry MAXIP lies behind the array.                   *)
MayAccept(a)  == \/ a < nIP /\ a \in Up \cup Flaky
                 \/ a >= MAXIP
MustAccept(a) == a < nIP /\ a \in Up

(* connect() succeeds on a socket that was never connected; the id returned *)
(* is nConnectID as it is now.                                              *)
ConnectOK(c) ==
  /\ pc[c] = "connect" /\ ~fault
  /\ skHQ[slot[c]] = "open"
  /\ MayAccept(nCurentIP)
  /\ skHQ' = [skHQ EXCEPT ![slot[c]] = "connected"]
  /\ conID' = [conID EXCEPT ![c] = nConnectID]
  /\ pmtx' = Free
  /\ pc' = [pc EXCEPT ![c] = "out"]
  /\ UNCHANGED <<nIP, nCurentIP, nConnectID, initRet, fault, slot, dials>>

(* Mutant: a failed connect() returns without pmtx->Unlock().               *)
ConnectFailKeepsLock(c) ==
  /\ pc[c] = "connect" /\ ~fault
  /\ ~(skHQ[slot[c]] = "open" /\ MustAccept(nCurentIP))
  /\ conID' = [conID EXCEPT ![c] = TDXHQ_ERROR_CONT]
  /\ pc' = [pc EXCEPT ![c] = "out"]
  /\ UNCHANGED <<nIP, nCurentIP, nConnectID, skHQ, pmtx, initRet, fault, slot,
                 dials>>

(* connect() fails: refused, INVALID handle, or already connected.  The     *)
(* socket stays in the table.                                               *)
ConnectFail(c) ==
  /\ pc[c] = "connect" /\ ~fault
  /\ ~(skHQ[slot[c]] = "open" /\ MustAccept(nCurentIP))
  /\ conID' = [conID EXCEPT ![c] = TDXHQ_ERROR_CONT]
  /\ pmtx' = Free
  /\ pc' = [pc EXCEPT ![c] = "out"]
  /\ UNCHANGED <<nIP, nCurentIP, nConnectID, skHQ, initRet, fault, slot, dials>>

(* Mutant: the slot is not reset to INVALID_SOCKET.                         *)
DisConnectKeepsSlot(c) ==
  /\ pc[c] = "out" /\ ~fault
  /\ conID[c] >= 0
  /\ pmtx = Free
  /\ conID' = [conID EXCEPT ![c] = -1]
  /\ UNCHANGED <<nIP, nCurentIP, nConnectID, skHQ, pmtx, initRet, fault, pc,
                 slot, dials>>

(* TDXHQ_DisConnect of the caller's own id, which the caller then forgets.  *)
DisConnect(c) ==
  /\ pc[c] = "out" /\ ~fault
  /\ conID[c] >= 0
  /\ pmtx = Free
  /\ skHQ' = [skHQ EXCEPT ![conID[c]] = INVALID]
  /\ conID' = [conID EXCEPT ![c] = -1]
  /\ UNCHANGED <<nIP, nCurentIP, nConnectID, pmtx, initRet, fault, pc, slot,
                 dials>>

(* The server drops an established connection.                              *)
PeerClose(i) ==
  /\ ~fault
  /\ skHQ[i] = "connected"
  /\ skHQ' = [skHQ EXCEPT ![i] = "lost"]
  /\ UNCHANGED <<nIP, nCurentIP, nConnectID, pmtx, initRet, fault, pc, slot,
                 conID, dials>>

Next ==
  \/ InitNoConfig
  \/ \E k \in IniLines : InitOK(k)
  \/ \E c \in Clients :
       \/ ConnectEnter(c) \/ ConnectNullMutex(c)
       \/ ConnectOK(c) \/ ConnectFail(c)
       \/ DisConnect(c)
  \/ \E i \in Slots : PeerClose(i)

Spec == Init /\ [][Next]_vars

-----------------------------------------------------------------------------
(* Mutual exclusion makes ids private: two threads whose TDXHQ_Connect      *)
(* overlap never get the same id, although the id is read from the global   *)
(* nConnectID only after the blocking connect().                            *)
UniqueOwner ==
  \A c, d \in Clients :
    c # d /\ conID[c] >= 0 => conID[c] # conID[d]

(* Every established connection of the table is known to the caller that    *)
(* holds its id, and every id held denotes a connection that was            *)
(* established: failed dials and DisConnect lose or invent none.            *)
HeldIffEstablished ==
  \A i \in Slots :
    skHQ[i] \in {"connected", "lost"} <=> \E c \in Clients : conID[c] = i

(* The rotation of nCurentIP spreads the dials evenly over entries 1..nIP   *)
(* of IPS, whatever the threads' interleaving; entry 0, the first line of   *)
(* TDXHQ.ini, is never dialled.                                             *)
EvenRotation ==
  nIP > 0 =>
    /\ dials[0] = 0
    /\ ~fault => \A a, b \in 1 .. nIP : dials[a] <= dials[b] + 1

(* The table has run out: no slot is INVALID and the slot the next call     *)
(* would retry is taken.                                                    *)
Exhausted ==
  /\ \A i \in Slots : skHQ[i] # INVALID
  /\ skHQ[nConnectID] \in {"connected", "lost"}

(* Sockets of failed dials are never closed, so exhaustion is final: until  *)
(* some thread calls TDXHQ_DisConnect no call of TDXHQ_Connect succeeds     *)
(* any more, however many slots hold sockets that never connected.          *)
ExhaustionIsFinal ==
  [][Exhausted /\ (\A c \in Clients : conID[c] >= 0 => conID'[c] = conID[c])
       => /\ Exhausted'
          /\ \A c \in Clients : conID'[c] >= 0 => conID[c] = conID'[c]]_vars

(* "IPS[100]; // places for 100 IPs": the address passed to connect() is an *)
(* entry of the table, unless the ini file has as many lines as the table   *)
(* has entries; the rotation then dials the place behind the last one.      *)
AddressInTable ==
  \A c \in Clients : pc[c] = "connect" => nCurentIP < MAXIP \/ nIP = MAXIP

(* The detailed pool implements the abstract lease.                         *)
Lease == INSTANCE ConnLease WITH
           Ids   <- Slots,
           lease <- [c \in Clients |-> IF conID[c] >= 0 THEN conID[c] ELSE -1]

(* Every step of the pool grants a free id, takes one back or leaves the    *)
(* holders as they are.                                                     *)
ImplementsLease == Lease!LeaseSpec
=============================================================================
