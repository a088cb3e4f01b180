----------------------------- MODULE RedisClient -----------------------------
(***************************************************************************)
(* redis::base_client over one or more connections: every method as the     *)
(* commands it sends and the replies it waits for, servers that answer each *)
(* connection in order, connections that break, and callers that catch an   *)
(* exception and go on with the same client.                                *)
(*                                                                         *)
(* RedisReader shows that a receive function consumes one reply; here it    *)
(* does so in one step.  A call is a sequence of steps: send(con, commands)  *)
(* and recv(con, receive function).  Keys are numbers from 1; 0 is the text  *)
(* missing_value.                                                           *)
(***************************************************************************)
EXTENDS RedisCommands, FiniteSetsExt, SequencesExt

CONSTANTS
  Socks,    \* the connections, 1 .. n in the order of their sockets
  Home,     \* get_socket(key): a function from the keys to Socks
  Loads     \* what callers do with a client: [first, later, keys, dbs, calls], the
            \* methods of the first and of later calls, the lists of keys and the
            \* numbers (databases, timeout_seconds) they pass, and a bound on the calls

ASSUME ClientAssumption ==
  /\ IsFiniteSet(Socks) /\ Socks = 1 .. Cardinality(Socks) /\ Socks # {}
  /\ \A l \in Loads :
       /\ l.first \cup l.later \subseteq Methods
       /\ \A ks \in l.keys :
            /\ ks \in Seq(Nat) /\ ks # <<>>
            /\ \A k \in DOMAIN ks : ks[k] > 0 /\ Home[ks[k]] \in Socks
       /\ 0 \in l.dbs /\ l.dbs \subseteq Nat /\ l.calls \in Nat

VARIABLES
  load,      \* the member of Loads this behaviour is about
  req, rep,  \* per connection: commands not served, replies not read
  multi,     \* per connection, server: commands queued since MULTI, and flags
  up,        \* the connection works
  sel, db,   \* the database selected at the server; dbindex of connection_data
  call,      \* the running or last call
  steps,     \* what is left of it
  ret,       \* "run", "ok", "throw", "closed" (connection_error), "refused" (before a send)
  out,       \* texts delivered by exec() and mget(), by position
  truth,     \* every reply this call read says the command was carried out
  ncalls,
  strayed,   \* history: the call that threw with replies unread, per connection
  odd,       \* history: a foreign reply was read, or only a part of one
  stale      \* history: select() threw, or was given a stale copy of the data

vars == <<load, req, rep, multi, up, sel, db, call, steps, ret, out, truth, ncalls,
          strayed, odd, stale>>
server == <<load, req, multi, up, sel>>

NoCon == -1    \* the socket get_socket(keys) returns for keys of several servers
Clear == [on |-> FALSE, queue |-> <<>>, bad |-> FALSE, watch |-> FALSE]

Init ==
  /\ load \in Loads
  /\ req = [c \in Socks |-> <<>>] /\ rep = [c \in Socks |-> <<>>]
  /\ multi = [c \in Socks |-> Clear] /\ up = [c \in Socks |-> TRUE]
  /\ sel = [c \in Socks |-> 0] /\ db = [c \in Socks |-> 0]
  /\ call = [m |-> "none", keys |-> <<>>, arg |-> 0, copy |-> 0]
  /\ steps = <<>> /\ ret = "ok" /\ out = <<>> /\ truth = TRUE /\ ncalls = 0
  /\ strayed = [c \in Socks |-> "no"] /\ odd = [c \in Socks |-> FALSE]
  /\ stale = [c \in Socks |-> FALSE]

-----------------------------------------------------------------------------
(* Calls as sequences of steps *)

\* The n-th command of this call to connection c
Cmd(verb, ks, c, n) == [verb |-> verb, keys |-> ks, id |-> <<ncalls, c, n>>]

send(c, cmds) == [op |-> "send", con |-> c, cmds |-> cmds, reader |-> "", id |-> <<>>, at |-> <<>>]

\* at: the positions of the result the texts go to
recv(c, reader, n, at) ==
  [op |-> "recv", con |-> c, cmds |-> <<>>, reader |-> reader, id |-> <<ncalls, c, n>>, at |-> at]

\* The members of a set of numbers in their order
Sorted(S) ==
  CHOOSE s \in [1 .. Cardinality(S) -> S] : \A k \in DOMAIN s : \A j \in 1 .. k - 1 : s[j] < s[k]

All == Sorted(Socks)

\* The connections of some keys, in the order of the map's sockets
Sockets(ks) == Sorted({Home[ks[k]] : k \in DOMAIN ks})

\* The positions in ks of the keys of connection c
indices(ks, c) == Sorted({k \in DOMAIN ks : Home[ks[k]] = c})
Own(ks, c) == [k \in DOMAIN indices(ks, c) |-> ks[indices(ks, c)[k]]]

\* get_socket(keys)
get_socket(ks) == IF Len(Sockets(ks)) = 1 THEN Home[ks[1]] ELSE NoCon

\* Send to all, then receive from all
Spread(cs, verb, reader, ks(_), at(_)) ==
  [k \in 1 .. Len(cs) |-> send(cs[k], <<Cmd(verb, ks(cs[k]), cs[k], 1)>>)]
    \o [k \in 1 .. Len(cs) |-> recv(cs[k], reader, 1, at(cs[k]))]

Nothing(c) == <<>>

InTurn(cs, verb, reader) ==
  FlattenSeq([k \in 1 .. Len(cs) |->
    <<send(cs[k], <<Cmd(verb, <<>>, cs[k], 1)>>), recv(cs[k], reader, 1, <<>>)>>])

\* Mutant: the answers to the last EXPIRE are not read
msetex_short(ks) ==
  LET cs == Sockets(ks)
      n(c) == Len(Own(ks, c))
      cmds(c) == <<Cmd("MSET", Own(ks, c), c, 1)>>
                   \o [k \in 1 .. n(c) |-> Cmd("EXPIRE", <<Own(ks, c)[k]>>, c, k + 1)]
      recvs(c) == <<recv(c, "ok", 1, <<>>)>>
                    \o [k \in 1 .. n(c) - 1 |-> recv(c, "intok", k + 1, <<>>)]
  IN  [k \in 1 .. Len(cs) |-> send(cs[k], cmds(cs[k]))]
        \o FlattenSeq([k \in 1 .. Len(cs) |-> recvs(cs[k])])

\* One MSET and an EXPIRE for each key, for each server
msetex(ks) ==
  LET cs == Sockets(ks)
      n(c) == Len(Own(ks, c))
      cmds(c) == <<Cmd("MSET", Own(ks, c), c, 1)>>
                   \o [k \in 1 .. n(c) |-> Cmd("EXPIRE", <<Own(ks, c)[k]>>, c, k + 1)]
      recvs(c) == <<recv(c, "ok", 1, <<>>)>>
                    \o [k \in 1 .. n(c) |-> recv(c, "intok", k + 1, <<>>)]
  IN  [k \in 1 .. Len(cs) |-> send(cs[k], cmds(cs[k]))]
        \o FlattenSeq([k \in 1 .. Len(cs) |-> recvs(cs[k])])

\* How many of the first k keys belong to the server of the k-th
Rank(ks, k) == Cardinality({j \in 1 .. k : Home[ks[j]] = Home[ks[k]]})

\* Mutant: the replies are taken server by server
exec_by_server(ks) ==
  LET cs == Sockets(ks)
      cmds(c) == [k \in DOMAIN Own(ks, c) |-> Cmd("GET", <<Own(ks, c)[k]>>, c, k)]
      order == FlattenSeq([k \in DOMAIN cs |-> indices(ks, cs[k])])
  IN  [k \in 1 .. Len(cs) |-> send(cs[k], cmds(cs[k]))]
        \o [k \in DOMAIN ks |->
              recv(Home[ks[order[k]]], "generic", Rank(ks, order[k]), <<k>>)]

\* Mutant: the replies are taken from the last command to the first
exec_reversed(ks) ==
  LET cs == Sockets(ks)
      cmds(c) == [k \in DOMAIN Own(ks, c) |-> Cmd("GET", <<Own(ks, c)[k]>>, c, k)]
      b(k) == Len(ks) + 1 - k
  IN  [k \in 1 .. Len(cs) |-> send(cs[k], cmds(cs[k]))]
        \o [k \in DOMAIN ks |-> recv(Home[ks[b(k)]], "generic", Rank(ks, b(k)), <<b(k)>>)]

\* exec(vector): one send for each server, the replies in the commands' order
exec(ks) ==
  LET cs == Sockets(ks)
      cmds(c) == [k \in DOMAIN Own(ks, c) |-> Cmd("GET", <<Own(ks, c)[k]>>, c, k)]
  IN  [k \in 1 .. Len(cs) |-> send(cs[k], cmds(cs[k]))]
        \o [k \in DOMAIN ks |-> recv(Home[ks[k]], "generic", Rank(ks, k), <<k>>)]

\* exec_transaction: MULTI, the commands and EXEC in one send; +OK, the QUEUED
\* lines, the head of EXEC's reply, and its elements
exec_transaction(ks) ==
  LET c == get_socket(ks)
      n == Len(ks)
  IN  <<send(c, <<Cmd("MULTI", <<>>, c, 1)>>
                  \o [k \in DOMAIN ks |-> Cmd("GET", <<ks[k]>>, c, k + 1)]
                  \o <<Cmd("EXEC", <<>>, c, n + 2)>>),
        recv(c, "ok", 1, <<>>)>>
        \o [k \in DOMAIN ks |-> recv(c, "queued", k + 1, <<>>)]
        \o <<recv(c, "head", n + 2, <<>>)>>
        \o [k \in DOMAIN ks |-> recv(c, "generic", n + 2 + k, <<k>>)]

\* Mutant: one reply more is read than there are commands
sadd_range_more(k) ==
  <<send(Home[k], [j \in 1 .. 2 |-> Cmd("SADD", <<k>>, Home[k], j)])>>
    \o [j \in 1 .. 3 |-> recv(Home[k], "int", j, <<>>)]

\* sadd(key, begin, end): a SADD for each value in one send
sadd_range(k) ==
  <<send(Home[k], [j \in 1 .. 2 |-> Cmd("SADD", <<k>>, Home[k], j)])>>
    \o [j \in 1 .. 2 |-> recv(Home[k], "int", j, <<>>)]

\* Methods that throw when their keys are on several servers, and methods that
\* then try the socket -1
Together == {"exec_transaction", "blpop_any", "sdiffstore", "zunionstore", "zinterstore"}
Elsewhere == {"msetnx", "sdiff", "mset"}

\* What the command is about: a database, keys, or keys and timeout_seconds
Args(m, ks, d) ==
  CASE m = "select_con" -> <<d>>
    [] m \in DOMAIN BlockingMethods -> Append(ks, d)
    [] OTHER -> ks

Plan(m, ks, d) ==
  CASE m \in DOMAIN Single ->
         LET c == IF m \in Together \cup Elsewhere THEN get_socket(ks) ELSE Home[ks[1]]
             a == Args(m, ks, d)
         IN  <<send(c, <<Cmd(Single[m][1], a, c, 1)>>), recv(c, Single[m][2], 1, <<>>)>>
    [] m \in DOMAIN FanOut ->
         Spread(All, FanOut[m][1], FanOut[m][2], LAMBDA c : <<d>>, Nothing)
    [] m \in DOMAIN OneByOne -> InTurn(All, OneByOne[m][1], OneByOne[m][2])
    [] m \in DOMAIN PerServer ->
         Spread(Sockets(ks), PerServer[m][1], PerServer[m][2],
                LAMBDA c : Own(ks, c), LAMBDA c : IF m = "mget" THEN indices(ks, c) ELSE <<>>)
    [] m = "mset" ->    \* all keys go to get_socket(keys)
         LET c == get_socket(ks)
         IN  <<send(c, <<Cmd("MSET", ks, c, 1)>>), recv(c, "ok", 1, <<>>)>>
    [] m = "msetex" -> msetex(ks)
    [] m = "exec" -> exec(ks)
    [] m = "exec_transaction" -> exec_transaction(ks)
    [] m = "sadd_range" -> sadd_range(ks[1])

\* Calls that read more than one reply
ManyReplies ==
  {"msetex", "exec", "exec_transaction", "sadd_range"} \cup DOMAIN FanOut \cup DOMAIN PerServer

-----------------------------------------------------------------------------
(* The client *)

\* The call is over.  left: what is unread on each connection then
Finish(how, left) ==
  /\ ret' = how /\ steps' = <<>>
  /\ strayed' = [c \in Socks |->
       IF how # "ok" /\ left[c] # <<>> /\ strayed[c] = "no" THEN call.m ELSE strayed[c]]

Pending(c) == rep[c] \o req[c]

\* A call; nothing is claimed of a connection after a foreign reply was read from
\* it, so no further call is made there.  copy is the dbindex of the connection_data a caller passes to select()
Start(m, ks, d, copy) ==
  /\ ret # "run" /\ ncalls < load.calls
  /\ LET p == Plan(m, ks, d)
     IN  /\ \A k \in DOMAIN p : p[k].con # NoCon => ~odd[p[k].con]
         /\ call' = [m |-> m, keys |-> ks, arg |-> d, copy |-> copy]
         /\ ncalls' = ncalls + 1
         /\ out' = [k \in DOMAIN ks |-> missing_value] /\ truth' = TRUE
         /\ IF \/ m \in Together /\ get_socket(ks) = NoCon
               \/ m = "flushall" /\ Cardinality(Socks) > 1
            THEN ret' = "refused" /\ steps' = <<>>     \* not in cluster mode
            ELSE ret' = "run" /\ steps' = p
  /\ UNCHANGED <<load, req, rep, multi, up, sel, db, strayed, odd, stale>>

\* send_: a socket that is gone throws, at once or when the answer is read
Send ==
  /\ ret = "run" /\ Head(steps).op = "send"
  /\ LET s == Head(steps)
     IN  \/ /\ s.con \in Socks
            /\ req' = IF up[s.con] THEN [req EXCEPT ![s.con] = @ \o s.cmds] ELSE req
            /\ steps' = Tail(steps)
            /\ UNCHANGED <<ret, strayed>>
         \/ /\ s.con \notin {c \in Socks : up[c]}
            /\ Finish("closed", [c \in Socks |-> Pending(c)])
            /\ UNCHANGED req
  /\ UNCHANGED <<load, rep, multi, up, sel, db, call, out, truth, ncalls, odd, stale>>

\* What the call does with a reply: a receive function, or one of the two
\* comparisons in exec_transaction
Takes(s, r) ==
  CASE s.reader = "queued" -> r.t = "+" /\ r.v = QUEUED
    [] s.reader = "head" -> r.t \in {"*", "nomulti"}
    [] OTHER -> /\ Accepts(s.reader, r) \/ Catches(call.m, r)
                /\ Converts(call.m, Outcome(s.reader, r))

\* A part of the reply stays behind
Parts(s, r) ==
  IF s.reader \in {"queued", "head"} THEN r.t = "$" \/ r.e # <<>> ELSE Leaves(s.reader, r)

\* The texts of the reply go to their positions
Scatter(s, r) ==
  LET d == Outcome(s.reader, r).data
  IN  [k \in DOMAIN out |->
         IF \E j \in DOMAIN s.at : s.at[j] = k /\ j \in DOMAIN d
         THEN d[CHOOSE j \in DOMAIN s.at : s.at[j] = k] ELSE out[k]]

\* Mutant: select() for one connection forgets the record
Records_all_only(c) == call.m = "select"

\* select() keeps the number in its own record of the connection; the overload
\* for one connection looks for the record that equals the one passed
Records(c) == call.m = "select" \/ (call.m = "select_con" /\ call.copy = db[c])

Recv ==
  /\ ret = "run" /\ Head(steps).op = "recv"
  /\ LET s == Head(steps)
         c == s.con
         h == Head(rep[c])
         good == Takes(s, h.reply)
     IN  /\ rep[c] # <<>>
         /\ rep' = [rep EXCEPT ![c] = Tail(@)]
         /\ odd' = [odd EXCEPT ![c] = @ \/ h.id # s.id \/ Parts(s, h.reply)]
         /\ truth' = (truth /\ h.done)
         /\ out' = IF good THEN Scatter(s, h.reply) ELSE out
         /\ db' = IF good /\ Records(c) THEN [db EXCEPT ![c] = call.arg] ELSE db
         /\ stale' = IF \/ call.m \in {"select", "select_con"} /\ ~good
                        \/ call.m = "select_con" /\ call.copy # db[c]
                     THEN [stale EXCEPT ![c] = TRUE] ELSE stale
         /\ IF ~good THEN Finish("throw", [k \in Socks |-> rep'[k] \o req[k]])
            ELSE IF Len(steps) = 1 THEN Finish("ok", rep')
            ELSE steps' = Tail(steps) /\ UNCHANGED <<ret, strayed>>
  /\ UNCHANGED <<server, call, ncalls>>

\* The connection is gone and nothing is left to read.  shutdown() expects that.
RecvClosed ==
  /\ ret = "run" /\ Head(steps).op = "recv"
  /\ LET c == Head(steps).con
     IN  /\ ~up[c] /\ rep[c] = <<>>
         /\ IF call.m \in {"shutdown", "shutdown_con"}
            THEN IF Len(steps) = 1 THEN Finish("ok", rep)
                 ELSE steps' = Tail(steps) /\ UNCHANGED <<ret, strayed>>
            ELSE Finish("closed", [k \in Socks |-> Pending(k)])
         /\ stale' = IF call.m \in {"select", "select_con"}
                     THEN [stale EXCEPT ![c] = TRUE] ELSE stale
  /\ UNCHANGED <<server, rep, db, call, out, truth, ncalls, odd>>

-----------------------------------------------------------------------------
(* The servers: external *)

Reply(c, answer, id) == [rep EXCEPT ![c] = Append(@, [reply |-> answer.reply, done |-> answer.done, id |-> id])]

\* A command outside of MULTI and EXEC
Serve(c) ==
  /\ up[c] /\ req[c] # <<>> /\ ~multi[c].on
  /\ LET q == Head(req[c])
     IN  /\ q.verb # "SHUTDOWN"
         /\ \E a \in Answers(q.verb, q.keys) :
              /\ rep' = Reply(c, a, q.id)
              /\ sel' = IF q.verb = "SELECT" /\ a.done THEN [sel EXCEPT ![c] = q.keys[1]] ELSE sel
              /\ multi' = [multi EXCEPT ![c].on = (q.verb = "MULTI" /\ a.done),
                                        ![c].watch = @ \/ (q.verb = "WATCH" /\ a.done)]
  /\ req' = [req EXCEPT ![c] = Tail(@)]
  /\ UNCHANGED <<load, up, db, call, steps, ret, out, truth, ncalls, strayed, odd, stale>>

\* Inside: the command is queued or refused
Enqueue(c) ==
  /\ up[c] /\ req[c] # <<>> /\ multi[c].on
  /\ LET q == Head(req[c])
     IN  /\ q.verb # "EXEC"
         /\ \/ /\ rep' = Reply(c, Done(Status(QUEUED)), q.id)
               /\ multi' = [multi EXCEPT ![c].queue = Append(@, q)]
            \/ /\ rep' = Reply(c, Refused(Err(0)), q.id)
               /\ multi' = [multi EXCEPT ![c].bad = TRUE]
  /\ req' = [req EXCEPT ![c] = Tail(@)]
  /\ UNCHANGED <<load, up, sel, db, call, steps, ret, out, truth, ncalls, strayed, odd, stale>>

\* EXEC: the head of a list and the answers, no list because a watched key
\* changed, or an error
Exec(c) ==
  /\ up[c] /\ req[c] # <<>> /\ Head(req[c]).verb = "EXEC"
  /\ LET q == Head(req[c])
         n == Len(multi[c].queue)
         id(k) == <<q.id[1], c, q.id[3] + k>>
         refuse(r) == rep' = Reply(c, Refused(r), q.id)
     IN  \/ ~multi[c].on /\ refuse(Err(0))
         \/ multi[c].bad /\ refuse(Err(1))
         \/ multi[c].watch /\ refuse(NilMulti)
         \/ /\ multi[c].on
            /\ \E a \in [1 .. n -> Answers("GET", <<1>>)] :
                 rep' = [rep EXCEPT ![c] = @
                   \o <<[reply |-> Multi(<<>>), done |-> TRUE, id |-> q.id]>>
                   \o [k \in 1 .. n |->
                         [reply |-> IF a[k].reply.t = "$" THEN Bulk(multi[c].queue[k].keys[1])
                                    ELSE a[k].reply,
                          done |-> a[k].done, id |-> id(k)]]]
  /\ multi' = [multi EXCEPT ![c] = Clear]
  /\ req' = [req EXCEPT ![c] = Tail(@)]
  /\ UNCHANGED <<load, up, sel, db, call, steps, ret, out, truth, ncalls, strayed, odd, stale>>

\* The connection ends, by SHUTDOWN or a failure; the last replies may be lost
Break(c) ==
  /\ up[c] /\ up' = [up EXCEPT ![c] = FALSE]
  /\ req' = [req EXCEPT ![c] = <<>>]
  /\ \E k \in 0 .. Len(rep[c]) : rep' = [rep EXCEPT ![c] = SubSeq(@, 1, k)]
  /\ UNCHANGED <<load, multi, sel, db, call, steps, ret, out, truth, ncalls, strayed, odd, stale>>

-----------------------------------------------------------------------------
Client == Send \/ Recv \/ RecvClosed
Servers == \E c \in Socks : Serve(c) \/ Enqueue(c) \/ Exec(c)
Shutdown == \E c \in Socks : req[c] # <<>> /\ Head(req[c]).verb = "SHUTDOWN" /\ Break(c)

Begin ==
  \E m \in (IF ncalls = 0 THEN load.first ELSE load.later), ks \in load.keys, d \in load.dbs :
    \E copy \in {0, db[Home[ks[1]]]} :
      /\ m \notin {"select", "select_con"} => copy = 0 /\ (d = 0 \/ m \in DOMAIN BlockingMethods)
      /\ Start(m, ks, d, copy)

Next == Begin \/ Client \/ Servers \/ Shutdown \/ \E c \in Socks : Break(c)

Spec == Init /\ [][Next]_vars

\* A BLPOP or BRPOP without time limit is answered when somebody pushes an
\* element, which nothing guarantees
Unlimited(q) == q.verb \in {"BLPOP", "BRPOP"} /\ q.keys[Len(q.keys)] = 0
Answering == \E c \in Socks : (Serve(c) /\ ~Unlimited(Head(req[c]))) \/ Enqueue(c) \/ Exec(c)

\* The caller's thread runs, and servers answer what they can or the connection ends
FairSpec == Spec /\ WF_vars(Client) /\ WF_vars(Answering) /\ WF_vars(Shutdown)

-----------------------------------------------------------------------------
Idle == ret # "run"

\* The queues hold commands and replies, the call what it is made of
TypeOK ==
  /\ \A c \in Socks : /\ sel[c] \in load.dbs /\ db[c] \in load.dbs
                     /\ up[c] \in BOOLEAN /\ odd[c] \in BOOLEAN /\ stale[c] \in BOOLEAN
  /\ ret \in {"run", "ok", "throw", "closed", "refused"} /\ truth \in BOOLEAN
  /\ (ret = "run") = (steps # <<>>)
  /\ ncalls \in 0 .. load.calls

\* Between calls nothing is pending on a connection, unless a call that reads
\* several replies threw before it had read them all.  A call that reads one
\* reply stays in step even when it throws (send_ and recv_..._reply_ in every
\* method).
InStep ==
  TypeOK /\ \A c \in Socks :
    /\ (Idle /\ up[c] /\ Pending(c) # <<>>) => strayed[c] # "no"
    /\ strayed[c] \in {"no"} \cup ManyReplies

\* A call reads the replies to its own commands, and all of each, on every
\* connection that no earlier call left out of step: fan-outs, pipelines over
\* several servers and transactions pair them rightly.
OwnReplies == \A c \in Socks : odd[c] => strayed[c] # "no"

\* exec() and mget() put every text where its key was, whichever server it came
\* from and in whatever order the servers answered
GatherRight ==
  (Idle /\ ret = "ok" /\ call.m \in {"exec", "exec_transaction", "mget"}
     /\ \A c \in Socks : ~odd[c]) =>
  \A k \in DOMAIN out : out[k] \in {missing_value, call.keys[k]}

\* Methods that return nothing, so that returning is their only answer
VoidMethods == {m \in DOMAIN Single : Single[m][2] \in {"ok", "intok"}}

\* Methods that throw although the server did what they asked: zadd when it
\* changes the score of a member it finds, msetnx always, zrangebyscore with
\* scores when it finds members, lrem_exact when it removed fewer elements,
\* bgsave and info when they do not know the answer's wording
Distrustful == {"zadd", "msetnx", "zrangebyscore_scores", "lrem_exact", "bgsave_con", "info"}

\* A method that throws because of its reply was refused by the server, and a
\* method that returns nothing was not, but for the six Distrustful ones
TellsTruth ==
  (call.m \in DOMAIN Single /\ \A c \in Socks : ~odd[c]) =>
    /\ ret = "throw" => ~truth \/ call.m \in Distrustful
    /\ ret = "ok" /\ call.m \in VoidMethods => truth

\* The client's record of the selected database is right, so that clone() selects
\* the same one, unless a select() threw or was given a copy of the connection's
\* data that was out of date
RecordedDatabase ==
  \A c \in Socks : (Idle /\ up[c] /\ strayed[c] = "no" /\ ~stale[c]) => db[c] = sel[c]

\* EXEC was answered with no list, because of a WATCH, and exec_transaction is
\* about to read the first of its elements; everything before was done
Prevented ==
  /\ call.m = "exec_transaction" /\ ~truth
  /\ Head(steps).reader = "generic" /\ Len(steps) = Len(call.keys)

\* A pop that was called without time limit (timeout_seconds = 0, the default)
\* is about to read its element
Popping == call.m \in DOMAIN BlockingMethods /\ call.arg = 0 /\ Head(steps).op = "recv"

\* One of the two waits on a connection that works and has nothing for it
Stuck ==
  /\ ret = "run" /\ (Prevented \/ Popping)
  /\ up[Head(steps).con] /\ rep[Head(steps).con] = <<>>

\* Every call returns or throws (liveness), but for as long as a transaction that
\* a WATCH prevented or a pop without time limit is stuck (recv() has no timeout)
CallReturns == (ret = "run" /\ ~Stuck) ~> (Idle \/ Stuck)
=============================================================================
