------------------------- MODULE RedisClient_proofs -------------------------
(***************************************************************************)
(* base_client in step with its servers, whatever the connections, keys,     *)
(* methods and calls: InStep, OwnReplies, RecordedDatabase and TellsTruth.   *)
(*                                                                         *)
(* The inductive invariant ClientInv says of a connection no call has left   *)
(* out of step that the replies which wait there, and those to the commands  *)
(* which wait there, are the next the call reads, each with a receive        *)
(* function that takes all of it.  Proved in four parts: sequences and the   *)
(* table of commands; what a step of the client or of the server does to     *)
(* that; the actions; the steps of every method (Plan).  RecordInv (the      *)
(* database select() recorded) and TruthInv (what a call tells of the reply  *)
(* it read) stand on ClientInv.                                              *)
(***************************************************************************)
EXTENDS RedisClient, SequenceTheorems, FiniteSetTheorems, WellFoundedInduction, TLAPS

-----------------------------------------------------------------------------
(* The inductive invariant.  The parts are about a sequence p of steps left of  *)
(* call g, and about connection c with replies rp, commands rq, state mu of the *)
(* server and u the connection's.                                              *)
IsSeq(p) == p \in Seq(Range(p))

IsRecv(s, c) == s.op = "recv" /\ s.con = c
IsSend(s, c) == s.op = "send" /\ s.con = c

(* A receive function for reply n of the call on c.                            *)
Waits(s, g, c, n) == IsRecv(s, c) /\ s.id = <<g, c, n>>

(* The receive function is right for the answers to the command.               *)
Pair(q, s) ==
  /\ q.verb = "EXEC" => s.reader = "head"
  /\ q.verb = "MULTI" => s.reader = "ok"
  /\ s.reader = "queued" \/ \A a \in Answers(q.verb, q.keys) : ~Parts(s, a.reply)

Awaited(p, g, c, q, n) ==
  q.id = <<g, c, n>> /\ \E s \in Range(p) : Waits(s, g, c, n) /\ Pair(q, s)

Queued(p, g, c, n) == \E s \in Range(p) : Waits(s, g, c, n) /\ s.reader = "queued"
Element(p, g, c, n) == \E s \in Range(p) : Waits(s, g, c, n) /\ s.reader = "generic"

(* A transaction is sent as a whole, and the elements of its result are awaited. *)
Batch(p, g, c, qs) ==
  /\ \A j \in DOMAIN qs : qs[j].verb = "MULTI" =>
       j = 1 /\ qs[1].id = <<g, c, 1>> /\ qs[Len(qs)].verb = "EXEC"
  /\ \A j \in DOMAIN qs : qs[j].verb = "EXEC" =>
       j = Len(qs) /\ \A i \in 1 .. qs[j].id[3] - 2 : Element(p, g, c, qs[j].id[3] + i)

(* select()'s number is one of the databases.                                  *)
Commands(dbs, qs) == IsSeq(qs) /\ \A q \in Range(qs) : q.verb = "SELECT" => q.keys[1] \in dbs

Sends(p, g, dbs, s) ==
  /\ Commands(dbs, s.cmds)
  /\ \A j \in DOMAIN s.cmds : Awaited(p, g, s.con, s.cmds[j], j)
  /\ Batch(p, g, s.con, s.cmds)
  /\ \A j \in DOMAIN s.cmds : Queued(p, g, s.con, j) => s.cmds[1].verb = "MULTI"

StepOK(p, g, dbs, s) ==
  /\ s.con \in Socks
  /\ \/ s.op = "recv" /\ \E n \in Nat : n > 0 /\ s.id = <<g, s.con, n>>
     \/ s.op = "send" /\ Sends(p, g, dbs, s)

(* A connection's steps are a send and then receive functions, in the order of  *)
(* the replies.                                                                *)
InOrder(p) ==
  \A k \in DOMAIN p : \A j \in 1 .. k - 1 : p[j].con = p[k].con =>
    p[k].op = "recv" /\ (p[j].op = "recv" => p[j].id[3] < p[k].id[3])

(* Every receive function follows its send at once.                            *)
Alternating(p) == \A k \in 2 .. Len(p) : p[k].op = "recv" => IsSend(p[k - 1], p[k].con)

Good(p, g, dbs, many) ==
  /\ p[Len(p)].op = "recv"
  /\ \A s \in Range(p) : StepOK(p, g, dbs, s)
  /\ InOrder(p)
  /\ many \/ Alternating(p)

(* The call fails at its first send: there is no such socket.                   *)
Nowhere(p) == p[1].op = "send" /\ \A s \in Range(p) : s.con = NoCon

PlanOK(p, g, dbs, many) == IsSeq(p) /\ p # <<>> /\ (Nowhere(p) \/ Good(p, g, dbs, many))

(* The first reply is a refusal, which the call takes for an exception.          *)
Doomed(p, c, rp) ==
  rp # <<>> /\ rp[1].reply = Err(0)
    /\ \E s \in Range(p) : IsRecv(s, c) /\ s.id = rp[1].id /\ s.reader = "ok"

Reads(p, g, c, r, n, doomed) ==
  r.id = <<g, c, n>>
    /\ \E s \in Range(p) : Waits(s, g, c, n) /\ (doomed \/ ~Parts(s, r.reply))

(* b replies of the call were read from c; those that wait and those to the      *)
(* commands that wait are the next the call reads.                               *)
Matched(p, g, c, b, rp, rq, mu, u) ==
  /\ \A s \in Range(p) : IsRecv(s, c) => s.id[3] > b
  /\ \A j \in DOMAIN rp : Reads(p, g, c, rp[j], b + j, Doomed(p, c, rp))
  /\ \A j \in DOMAIN rq : Awaited(p, g, c, rq[j], b + Len(rp) + j)
  /\ Batch(p, g, c, rq)
  /\ \A j \in DOMAIN rq : Queued(p, g, c, b + Len(rp) + j) =>
       Doomed(p, c, rp) \/ mu.on \/ rq[1].verb = "MULTI"
  /\ mu.on /\ u =>
       /\ rq # <<>> /\ rq[Len(rq)].verb = "EXEC"
       /\ Len(mu.queue) + Len(rq) + 1 <= rq[Len(rq)].id[3]

Quiet(rp, rq, mu, u) == rp = <<>> /\ rq = <<>> /\ (u => ~mu.on)

(* Connection c is in step with the call.                                        *)
Line(p, g, c, rp, rq, mu, u) ==
  /\ (\E s \in Range(p) : IsSend(s, c)) => Quiet(rp, rq, mu, u)
  /\ \E b \in Nat : Matched(p, g, c, b, rp, rq, mu, u)

ConInv(c) ==
  /\ ~odd[c]
  /\ ret # "run" => Quiet(rep[c], req[c], multi[c], up[c])
  /\ ret = "run" => Line(steps, ncalls - 1, c, rep[c], req[c], multi[c], up[c])

ServerInv ==
  /\ DOMAIN req = Socks /\ DOMAIN rep = Socks /\ DOMAIN multi = Socks /\ DOMAIN up = Socks
  /\ DOMAIN sel = Socks
  /\ \A c \in Socks :
       /\ Commands(load.dbs, req[c]) /\ IsSeq(rep[c]) /\ (~up[c] => req[c] = <<>>)
       /\ multi[c] \in [on : BOOLEAN, queue : {multi[c].queue}, bad : BOOLEAN, watch : BOOLEAN]
       /\ IsSeq(multi[c].queue) /\ (~multi[c].on => multi[c].queue = <<>>)

CallInv ==
  /\ load \in Loads /\ call.arg \in load.dbs
  /\ DOMAIN db = Socks /\ DOMAIN strayed = Socks /\ DOMAIN odd = Socks /\ DOMAIN stale = Socks
  /\ ret = "run" => ncalls > 0 /\ PlanOK(steps, ncalls - 1, load.dbs, call.m \in ManyReplies)

ClientInv ==
  /\ TypeOK /\ ServerInv /\ CallInv
  /\ \A c \in Socks : strayed[c] \in {"no"} \cup ManyReplies
  /\ \A c \in Socks : strayed[c] = "no" => ConInv(c)

-----------------------------------------------------------------------------
(* The table of commands: the receive function of a method leaves nothing of   *)
(* any answer to its command.                                                  *)
Texts == TextVerbs \cup {"ZINCRBY", "INFO"}
Lists == ListVerbs \cup {"BLPOP", "BRPOP", "MGET"}

Compatible(v, f) ==
  /\ v \in Texts => f \in {"bulk", "generic"}
  /\ v \in Lists => f \in {"multi", "generic"}

(* A row of the table: the verb and the receive function of method m.            *)
Verbs ==
  OkVerbs \cup TestVerbs \cup CountVerbs \cup Texts \cup Lists
    \cup {"TYPE", "BGSAVE", "ZRANK", "ZREVRANK", "SHUTDOWN", "EXEC"}
Suits(v, f) ==
  \/ f = "ok" /\ v \in OkVerbs \cup {"SHUTDOWN", "MSETNX"}
  \/ f = "intok" /\ v \in TestVerbs \cup {"ZADD"}
  \/ f = "int" /\ v \in TestVerbs \cup CountVerbs \cup {"ZRANK", "ZREVRANK"}
  \/ f = "bulk" /\ v \in Texts
  \/ f = "multi" /\ v \in Lists
  \/ f = "single" /\ v \in {"TYPE", "BGSAVE"}
  \/ f = "generic" /\ v \in {"GET", "WATCH"}
Entry(v, f) ==
  /\ v \in Verbs /\ v \notin {"MULTI", "EXEC"} /\ f \notin {"queued", "head"}
  /\ v \in Texts => f \in {"bulk", "generic"}
  /\ v \in Lists => f \in {"multi", "generic"}
  /\ Suits(v, f)
Row(m, e) ==
  /\ Entry(e[1], e[2]) /\ m # "select"
  /\ IF m = "select_con" THEN e = <<"SELECT", "ok">> ELSE e[1] # "SELECT"

(* A row of a method that sends one command; the methods that send several.        *)
Several ==
  {"keys", "dbsize", "select", "flushdb", "save", "bgsave", "lastsave", "shutdown", "mset_pairs",
   "mget", "del_range", "sinter", "sunion", "mset", "msetex", "exec", "exec_transaction", "sadd_range"}
OwnRow(m, e) ==
  /\ Row(m, e) /\ m \notin Several
  /\ e[1] = "MSETNX" => m = "msetnx"
  /\ e[1] = "ZADD" => m = "zadd"
  /\ e[1] = "INFO" => m = "info"
  /\ m \in {"zscore", "zincrby"} => e[2] = "bulk"
  /\ m \in {"blpop_any", "blpop", "brpop"} => e[1] \in {"BLPOP", "BRPOP"}

LEMMA LightFits ==
  ASSUME NEW r, NEW f, r.t \notin {"$", "*"}
  PROVE  ~Leaves(f, r)
BY DEF Leaves

LEMMA TextFits ==
  ASSUME NEW r, NEW f, r.t # "*", f \in {"bulk", "generic"}
  PROVE  ~Leaves(f, r)
BY DEF Leaves

LEMMA ListFits ==
  ASSUME NEW r, NEW f, r.t = "*", f \in {"multi", "generic"},
         \A k \in 1 .. Len(r.e) : IsBulk(r.e[k]), Len(r.e) \in Nat
  PROVE  ~Leaves(f, r)
BY DEF Leaves

LEMMA AnswersFit ==
  ASSUME NEW v, NEW ks, NEW f, Compatible(v, f), NEW a \in Answers(v, ks),
         ks \in Seq(Nat)
  PROVE  ~Leaves(f, a.reply)
<1>1. Refused(Err(0)).reply.t = "-" /\ Done(Status(OK)).reply.t = "+" /\ Done(Status(WORD)).reply.t = "+" /\ Done(Status(STARTED)).reply.t = "+"
      /\ Refused(Nil).reply.t = "nil" /\ Refused(NilMulti).reply.t = "nomulti"
      /\ \A n : Done(Num(n)).reply.t = ":" /\ Refused(Num(n)).reply.t = ":" /\ Done(Bulk(n)).reply.t = "$"
  BY DEF Refused, Done, Err, Status, Nil, NilMulti, Num, Bulk
<1>2. \A n : IsBulk(Bulk(n))
  BY DEF Bulk, IsBulk
<1>3. IsBulk(Nil)
  BY DEF Nil, IsBulk
<1>4. CASE v \in Lists
  <2>1. CASE v \in ListVerbs
    <3>1. a \in {Refused(Err(0)), Done(Multi(<<>>)), Done(Multi(<<Bulk(1), Bulk(2)>>))}
      BY <2>1 DEF Answers, ListVerbs, OkVerbs, TestVerbs, CountVerbs, TextVerbs
    <3>2. CASE a = Refused(Err(0))
      BY <1>1, <3>2, LightFits
    <3>3. CASE a = Done(Multi(<<>>))
      <4>1. a.reply.t = "*" /\ a.reply.e = <<>>
        BY <3>3 DEF Done, Multi
      <4>2. QED
        BY <1>4, <4>1, ListFits DEF Compatible
    <3>4. CASE a = Done(Multi(<<Bulk(1), Bulk(2)>>))
      <4>1. a.reply.t = "*" /\ a.reply.e = <<Bulk(1), Bulk(2)>>
        BY <3>4 DEF Done, Multi
      <4>2. Len(a.reply.e) = 2 /\ \A k \in 1 .. 2 : IsBulk(a.reply.e[k])
        BY <1>2, <4>1
      <4>3. QED
        BY <1>4, <4>1, <4>2, ListFits DEF Compatible
    <3>5. QED
      BY <3>1, <3>2, <3>3, <3>4
  <2>2. CASE v \in {"BLPOP", "BRPOP"}
    <3>1. a \in {Refused(Err(0)), Refused(NilMulti), Done(Multi(<<Bulk(ks[1]), Bulk(2)>>))}
      BY <2>2 DEF Answers, ListVerbs, OkVerbs, TestVerbs, CountVerbs, TextVerbs
    <3>2. CASE a \in {Refused(Err(0)), Refused(NilMulti)}
      BY <1>1, <3>2, LightFits
    <3>3. CASE a = Done(Multi(<<Bulk(ks[1]), Bulk(2)>>))
      <4>1. a.reply.t = "*" /\ a.reply.e = <<Bulk(ks[1]), Bulk(2)>>
        BY <3>3 DEF Done, Multi
      <4>2. Len(a.reply.e) = 2 /\ \A k \in 1 .. 2 : IsBulk(a.reply.e[k])
        BY <1>2, <4>1
      <4>3. QED
        BY <1>4, <4>1, <4>2, ListFits DEF Compatible
    <3>4. QED
      BY <3>1, <3>2, <3>3
  <2>3. CASE v = "MGET"
    <3>1. a = Refused(Err(0)) \/ \E h \in SUBSET DOMAIN ks :
            a = Done(Multi([k \in DOMAIN ks |-> IF k \in h THEN Bulk(ks[k]) ELSE Nil]))
      BY <2>3 DEF Answers, ListVerbs, OkVerbs, TestVerbs, CountVerbs, TextVerbs
    <3>2. CASE a = Refused(Err(0))
      BY <1>1, <3>2, LightFits
    <3>3. ASSUME NEW h \in SUBSET DOMAIN ks,
                 a = Done(Multi([k \in DOMAIN ks |-> IF k \in h THEN Bulk(ks[k]) ELSE Nil]))
          PROVE  ~Leaves(f, a.reply)
      <4> DEFINE e == [k \in DOMAIN ks |-> IF k \in h THEN Bulk(ks[k]) ELSE Nil]
      <4>1. a.reply.t = "*" /\ a.reply.e = e
        BY <3>3 DEF Done, Multi
      <4>2. DOMAIN ks = 1 .. Len(ks) /\ Len(ks) \in Nat
        BY LenProperties
      <4>3. Len(e) = Len(ks)
        BY <4>2
      <4>4. \A k \in 1 .. Len(ks) : IsBulk(e[k])
        BY <1>2, <1>3, <4>2
      <4> HIDE DEF e
      <4>5. QED
        BY <1>4, <4>1, <4>2, <4>3, <4>4, ListFits DEF Compatible
    <3>4. QED
      BY <3>1, <3>2, <3>3
  <2>4. QED
    BY <1>4, <2>1, <2>2, <2>3 DEF Lists
<1>5. CASE v \in Texts
  <2>1. a \in {Refused(Err(0)), Done(Bulk(ks[1])), Done(Bulk(CONFIG)), Done(Bulk(OTHER_LINES)), Refused(Nil)}
    <3>1. CASE v \in TextVerbs
      BY <3>1 DEF Answers, ListVerbs, OkVerbs, TestVerbs, CountVerbs, TextVerbs
    <3>2. CASE v \in {"ZINCRBY", "INFO"}
      BY <3>2 DEF Answers, ListVerbs, OkVerbs, TestVerbs, CountVerbs, TextVerbs
    <3>3. QED
      BY <1>5, <3>1, <3>2 DEF Texts
  <2>2. a.reply.t # "*"
    BY <1>1, <2>1
  <2>3. QED
    BY <1>5, <2>2, TextFits DEF Compatible
<1>6. CASE v \notin Lists /\ v \notin Texts
  <2>1. a \in {Refused(Err(0)), Done(Status(OK)), Done(Status(WORD)), Done(Status(STARTED)), Done(Num(0)),
             Done(Num(1)), Done(Num(2)), Refused(Num(0)), Refused(Nil)}
    BY <1>6 DEF Answers, Texts, Lists
  <2>2. QED
    BY <1>1, <2>1, LightFits
<1>7. QED
  BY <1>4, <1>5, <1>6

LEMMA StoreMethodsRows == \A m \in DOMAIN StoreMethods : OwnRow(m, StoreMethods[m])
<1>1. DOMAIN StoreMethods = {"auth", "set"}
  BY DEF StoreMethods
<1>2. StoreMethods["auth"] = <<"AUTH", "ok">> /\ StoreMethods["set"] = <<"SET", "ok">>
  BY DEF StoreMethods
<1>3. Entry("AUTH", "ok") /\ Entry("SET", "ok")
  BY DEF Entry, Suits, Verbs, OkVerbs, TestVerbs, CountVerbs, Texts, Lists, TextVerbs, ListVerbs
<1>4. QED
  BY <1>1, <1>2, <1>3 DEF Row, OwnRow, Several

LEMMA GetMethodsRows == \A m \in DOMAIN GetMethods : OwnRow(m, GetMethods[m])
<1>1. DOMAIN GetMethods = {"get", "getset"}
  BY DEF GetMethods
<1>2. GetMethods["get"] = <<"GET", "bulk">> /\ GetMethods["getset"] = <<"GETSET", "bulk">>
  BY DEF GetMethods
<1>3. Entry("GET", "bulk") /\ Entry("GETSET", "bulk")
  BY DEF Entry, Suits, Verbs, OkVerbs, TestVerbs, CountVerbs, Texts, Lists, TextVerbs, ListVerbs
<1>4. QED
  BY <1>1, <1>2, <1>3 DEF Row, OwnRow, Several

LEMMA GenericMethodsRows == \A m \in DOMAIN GenericMethods : OwnRow(m, GenericMethods[m])
<1>1. DOMAIN GenericMethods = {"exec_one", "exec_watch"}
  BY DEF GenericMethods
<1>2. GenericMethods["exec_one"] = <<"GET", "generic">> /\ GenericMethods["exec_watch"] =
         <<"WATCH", "generic">>
  BY DEF GenericMethods
<1>3. Entry("GET", "generic") /\ Entry("WATCH", "generic")
  BY DEF Entry, Suits, Verbs, OkVerbs, TestVerbs, CountVerbs, Texts, Lists, TextVerbs, ListVerbs
<1>4. QED
  BY <1>1, <1>2, <1>3 DEF Row, OwnRow, Several

LEMMA StringMethodsRows == \A m \in DOMAIN StringMethods : OwnRow(m, StringMethods[m])
<1>1. DOMAIN StringMethods = {"setnx", "msetnx", "setex", "append", "substr", "incr",
         "incrby", "decr", "decrby", "exists", "del"}
  BY DEF StringMethods
<1>2. StringMethods["setnx"] = <<"SETNX", "int">> /\ StringMethods["msetnx"] = <<"MSETNX",
         "ok">> /\ StringMethods["setex"] = <<"SETEX", "ok">> /\ StringMethods["append"]
         = <<"APPEND", "int">> /\ StringMethods["substr"] = <<"SUBSTR", "bulk">> /\
         StringMethods["incr"] = <<"INCR", "int">> /\ StringMethods["incrby"] =
         <<"INCRBY", "int">> /\ StringMethods["decr"] = <<"DECR", "int">> /\
         StringMethods["decrby"] = <<"DECRBY", "int">> /\ StringMethods["exists"] =
         <<"EXISTS", "int">> /\ StringMethods["del"] = <<"DEL", "int">>
  BY DEF StringMethods
<1>3. Entry("SETNX", "int") /\ Entry("MSETNX", "ok") /\ Entry("SETEX", "ok") /\
         Entry("APPEND", "int") /\ Entry("SUBSTR", "bulk") /\ Entry("INCR", "int") /\
         Entry("INCRBY", "int") /\ Entry("DECR", "int") /\ Entry("DECRBY", "int") /\
         Entry("EXISTS", "int") /\ Entry("DEL", "int")
  BY DEF Entry, Suits, Verbs, OkVerbs, TestVerbs, CountVerbs, Texts, Lists, TextVerbs, ListVerbs
<1>4. QED
  BY <1>1, <1>2, <1>3 DEF Row, OwnRow, Several

LEMMA LookupMethodsRows == \A m \in DOMAIN LookupMethods : OwnRow(m, LookupMethods[m])
<1>1. DOMAIN LookupMethods = {"type", "randomkey"}
  BY DEF LookupMethods
<1>2. LookupMethods["type"] = <<"TYPE", "single">> /\ LookupMethods["randomkey"] =
         <<"RANDOMKEY", "bulk">>
  BY DEF LookupMethods
<1>3. Entry("TYPE", "single") /\ Entry("RANDOMKEY", "bulk")
  BY DEF Entry, Suits, Verbs, OkVerbs, TestVerbs, CountVerbs, Texts, Lists, TextVerbs, ListVerbs
<1>4. QED
  BY <1>1, <1>2, <1>3 DEF Row, OwnRow, Several

LEMMA KeyMethodsRows == \A m \in DOMAIN KeyMethods : OwnRow(m, KeyMethods[m])
<1>1. DOMAIN KeyMethods = {"rename", "renamenx", "dbsize_con", "expire", "ttl"}
  BY DEF KeyMethods
<1>2. KeyMethods["rename"] = <<"RENAME", "ok">> /\ KeyMethods["renamenx"] = <<"RENAMENX",
         "int">> /\ KeyMethods["dbsize_con"] = <<"DBSIZE", "int">> /\
         KeyMethods["expire"] = <<"EXPIRE", "intok">> /\ KeyMethods["ttl"] = <<"TTL",
         "int">>
  BY DEF KeyMethods
<1>3. Entry("RENAME", "ok") /\ Entry("RENAMENX", "int") /\ Entry("DBSIZE", "int") /\
         Entry("EXPIRE", "intok") /\ Entry("TTL", "int")
  BY DEF Entry, Suits, Verbs, OkVerbs, TestVerbs, CountVerbs, Texts, Lists, TextVerbs, ListVerbs
<1>4. QED
  BY <1>1, <1>2, <1>3 DEF Row, OwnRow, Several

LEMMA ListMethodsRows == \A m \in DOMAIN ListMethods : OwnRow(m, ListMethods[m])
<1>1. DOMAIN ListMethods = {"rpush", "lpush", "llen", "lrange", "ltrim", "lindex",
         "lset", "lrem", "lpop", "rpop"}
  BY DEF ListMethods
<1>2. ListMethods["rpush"] = <<"RPUSH", "int">> /\ ListMethods["lpush"] = <<"LPUSH", "int">>
         /\ ListMethods["llen"] = <<"LLEN", "int">> /\ ListMethods["lrange"] =
         <<"LRANGE", "multi">> /\ ListMethods["ltrim"] = <<"LTRIM", "ok">> /\
         ListMethods["lindex"] = <<"LINDEX", "bulk">> /\ ListMethods["lset"] = <<"LSET",
         "ok">> /\ ListMethods["lrem"] = <<"LREM", "int">> /\ ListMethods["lpop"] =
         <<"LPOP", "bulk">> /\ ListMethods["rpop"] = <<"RPOP", "bulk">>
  BY DEF ListMethods
<1>3. Entry("RPUSH", "int") /\ Entry("LPUSH", "int") /\ Entry("LLEN", "int") /\
         Entry("LRANGE", "multi") /\ Entry("LTRIM", "ok") /\ Entry("LINDEX", "bulk") /\
         Entry("LSET", "ok") /\ Entry("LREM", "int") /\ Entry("LPOP", "bulk") /\
         Entry("RPOP", "bulk")
  BY DEF Entry, Suits, Verbs, OkVerbs, TestVerbs, CountVerbs, Texts, Lists, TextVerbs, ListVerbs
<1>4. QED
  BY <1>1, <1>2, <1>3 DEF Row, OwnRow, Several

LEMMA ExactMethodsRows == \A m \in DOMAIN ExactMethods : OwnRow(m, ExactMethods[m])
<1>1. DOMAIN ExactMethods = {"lrem_exact"}
  BY DEF ExactMethods
<1>2. ExactMethods["lrem_exact"] = <<"LREM", "int">>
  BY DEF ExactMethods
<1>3. Entry("LREM", "int")
  BY DEF Entry, Suits, Verbs, OkVerbs, TestVerbs, CountVerbs, Texts, Lists, TextVerbs, ListVerbs
<1>4. QED
  BY <1>1, <1>2, <1>3 DEF Row, OwnRow, Several

LEMMA BlockingMethodsRows == \A m \in DOMAIN BlockingMethods : OwnRow(m, BlockingMethods[m])
<1>1. DOMAIN BlockingMethods = {"blpop_any", "blpop", "brpop"}
  BY DEF BlockingMethods
<1>2. BlockingMethods["blpop_any"] = <<"BLPOP", "multi">> /\ BlockingMethods["blpop"] =
         <<"BLPOP", "multi">> /\ BlockingMethods["brpop"] = <<"BRPOP", "multi">>
  BY DEF BlockingMethods
<1>3. Entry("BLPOP", "multi") /\ Entry("BLPOP", "multi") /\ Entry("BRPOP", "multi")
  BY DEF Entry, Suits, Verbs, OkVerbs, TestVerbs, CountVerbs, Texts, Lists, TextVerbs, ListVerbs
<1>4. QED
  BY <1>1, <1>2, <1>3 DEF Row, OwnRow, Several

LEMMA SetMethodsRows == \A m \in DOMAIN SetMethods : OwnRow(m, SetMethods[m])
<1>1. DOMAIN SetMethods = {"sadd", "srem", "spop", "smove", "scard", "sismember"}
  BY DEF SetMethods
<1>2. SetMethods["sadd"] = <<"SADD", "int">> /\ SetMethods["srem"] = <<"SREM", "intok">> /\
         SetMethods["spop"] = <<"SPOP", "bulk">> /\ SetMethods["smove"] = <<"SMOVE",
         "intok">> /\ SetMethods["scard"] = <<"SCARD", "int">> /\
         SetMethods["sismember"] = <<"SISMEMBER", "int">>
  BY DEF SetMethods
<1>3. Entry("SADD", "int") /\ Entry("SREM", "intok") /\ Entry("SPOP", "bulk") /\
         Entry("SMOVE", "intok") /\ Entry("SCARD", "int") /\ Entry("SISMEMBER", "int")
  BY DEF Entry, Suits, Verbs, OkVerbs, TestVerbs, CountVerbs, Texts, Lists, TextVerbs, ListVerbs
<1>4. QED
  BY <1>1, <1>2, <1>3 DEF Row, OwnRow, Several

LEMMA SetAlgebraRows == \A m \in DOMAIN SetAlgebra : OwnRow(m, SetAlgebra[m])
<1>1. DOMAIN SetAlgebra = {"sdiff", "sdiffstore", "smembers", "srandmember"}
  BY DEF SetAlgebra
<1>2. SetAlgebra["sdiff"] = <<"SDIFF", "multi">> /\ SetAlgebra["sdiffstore"] = <<"SDIFFSTORE",
         "int">> /\ SetAlgebra["smembers"] = <<"SMEMBERS", "multi">> /\
         SetAlgebra["srandmember"] = <<"SPOP", "bulk">>
  BY DEF SetAlgebra
<1>3. Entry("SDIFF", "multi") /\ Entry("SDIFFSTORE", "int") /\ Entry("SMEMBERS", "multi") /\
         Entry("SPOP", "bulk")
  BY DEF Entry, Suits, Verbs, OkVerbs, TestVerbs, CountVerbs, Texts, Lists, TextVerbs, ListVerbs
<1>4. QED
  BY <1>1, <1>2, <1>3 DEF Row, OwnRow, Several

LEMMA SortedSetMethodsRows == \A m \in DOMAIN SortedSetMethods : OwnRow(m, SortedSetMethods[m])
<1>1. DOMAIN SortedSetMethods = {"zadd", "zrem", "zincrby", "zrank", "zrevrank",
         "zrange", "zrevrange"}
  BY DEF SortedSetMethods
<1>2. SortedSetMethods["zadd"] = <<"ZADD", "intok">> /\ SortedSetMethods["zrem"] = <<"ZREM",
         "intok">> /\ SortedSetMethods["zincrby"] = <<"ZINCRBY", "bulk">> /\
         SortedSetMethods["zrank"] = <<"ZRANK", "int">> /\ SortedSetMethods["zrevrank"]
         = <<"ZREVRANK", "int">> /\ SortedSetMethods["zrange"] = <<"ZRANGE", "multi">>
         /\ SortedSetMethods["zrevrange"] = <<"ZREVRANGE", "multi">>
  BY DEF SortedSetMethods
<1>3. Entry("ZADD", "intok") /\ Entry("ZREM", "intok") /\ Entry("ZINCRBY", "bulk") /\
         Entry("ZRANK", "int") /\ Entry("ZREVRANK", "int") /\ Entry("ZRANGE", "multi")
         /\ Entry("ZREVRANGE", "multi")
  BY DEF Entry, Suits, Verbs, OkVerbs, TestVerbs, CountVerbs, Texts, Lists, TextVerbs, ListVerbs
<1>4. QED
  BY <1>1, <1>2, <1>3 DEF Row, OwnRow, Several

LEMMA ScoreMethodsRows == \A m \in DOMAIN ScoreMethods : OwnRow(m, ScoreMethods[m])
<1>1. DOMAIN ScoreMethods = {"zrangebyscore", "zrangebyscore_scores", "zcount",
         "zremrangebyrank", "zremrangebyscore", "zcard", "zscore"}
  BY DEF ScoreMethods
<1>2. ScoreMethods["zrangebyscore"] = <<"ZRANGEBYSCORE", "multi">> /\
         ScoreMethods["zrangebyscore_scores"] = <<"ZRANGEBYSCORE", "multi">> /\
         ScoreMethods["zcount"] = <<"ZCOUNT", "int">> /\ ScoreMethods["zremrangebyrank"]
         = <<"ZREMRANGEBYRANK", "int">> /\ ScoreMethods["zremrangebyscore"] =
         <<"ZREMRANGEBYSCORE", "int">> /\ ScoreMethods["zcard"] = <<"ZCARD", "int">> /\
         ScoreMethods["zscore"] = <<"ZSCORE", "bulk">>
  BY DEF ScoreMethods
<1>3. Entry("ZRANGEBYSCORE", "multi") /\ Entry("ZRANGEBYSCORE", "multi") /\ Entry("ZCOUNT",
         "int") /\ Entry("ZREMRANGEBYRANK", "int") /\ Entry("ZREMRANGEBYSCORE", "int")
         /\ Entry("ZCARD", "int") /\ Entry("ZSCORE", "bulk")
  BY DEF Entry, Suits, Verbs, OkVerbs, TestVerbs, CountVerbs, Texts, Lists, TextVerbs, ListVerbs
<1>4. QED
  BY <1>1, <1>2, <1>3 DEF Row, OwnRow, Several

LEMMA AggregateMethodsRows == \A m \in DOMAIN AggregateMethods : OwnRow(m, AggregateMethods[m])
<1>1. DOMAIN AggregateMethods = {"zunionstore", "zinterstore"}
  BY DEF AggregateMethods
<1>2. AggregateMethods["zunionstore"] = <<"ZUNIONSTORE", "int">> /\
         AggregateMethods["zinterstore"] = <<"ZINTERSTORE", "int">>
  BY DEF AggregateMethods
<1>3. Entry("ZUNIONSTORE", "int") /\ Entry("ZINTERSTORE", "int")
  BY DEF Entry, Suits, Verbs, OkVerbs, TestVerbs, CountVerbs, Texts, Lists, TextVerbs, ListVerbs
<1>4. QED
  BY <1>1, <1>2, <1>3 DEF Row, OwnRow, Several

LEMMA HashMethodsRows == \A m \in DOMAIN HashMethods : OwnRow(m, HashMethods[m])
<1>1. DOMAIN HashMethods = {"hset", "hget", "hsetnx", "hmset", "hmget", "hincrby",
         "hexists", "hdel", "hlen", "hkeys", "hvals", "hgetall"}
  BY DEF HashMethods
<1>2. HashMethods["hset"] = <<"HSET", "int">> /\ HashMethods["hget"] = <<"HGET", "bulk">> /\
         HashMethods["hsetnx"] = <<"HSETNX", "int">> /\ HashMethods["hmset"] =
         <<"HMSET", "ok">> /\ HashMethods["hmget"] = <<"HMGET", "multi">> /\
         HashMethods["hincrby"] = <<"HINCRBY", "int">> /\ HashMethods["hexists"] =
         <<"HEXISTS", "int">> /\ HashMethods["hdel"] = <<"HDEL", "int">> /\
         HashMethods["hlen"] = <<"HLEN", "int">> /\ HashMethods["hkeys"] = <<"HKEYS",
         "multi">> /\ HashMethods["hvals"] = <<"HVALS", "multi">> /\
         HashMethods["hgetall"] = <<"HGETALL", "multi">>
  BY DEF HashMethods
<1>3. Entry("HSET", "int") /\ Entry("HGET", "bulk") /\ Entry("HSETNX", "int") /\
         Entry("HMSET", "ok") /\ Entry("HMGET", "multi") /\ Entry("HINCRBY", "int") /\
         Entry("HEXISTS", "int") /\ Entry("HDEL", "int") /\ Entry("HLEN", "int") /\
         Entry("HKEYS", "multi") /\ Entry("HVALS", "multi") /\ Entry("HGETALL", "multi")
  BY DEF Entry, Suits, Verbs, OkVerbs, TestVerbs, CountVerbs, Texts, Lists, TextVerbs, ListVerbs
<1>4. QED
  BY <1>1, <1>2, <1>3 DEF Row, OwnRow, Several

LEMMA DatabaseMethodsRows == \A m \in DOMAIN DatabaseMethods : OwnRow(m, DatabaseMethods[m])
<1>1. DOMAIN DatabaseMethods = {"select_con", "move", "flushdb_con", "flushall"}
  BY DEF DatabaseMethods
<1>2. DatabaseMethods["select_con"] = <<"SELECT", "ok">> /\ DatabaseMethods["move"] =
         <<"MOVE", "intok">> /\ DatabaseMethods["flushdb_con"] = <<"FLUSHDB", "ok">> /\
         DatabaseMethods["flushall"] = <<"FLUSHALL", "ok">>
  BY DEF DatabaseMethods
<1>3. Entry("SELECT", "ok") /\ Entry("MOVE", "intok") /\ Entry("FLUSHDB", "ok") /\
         Entry("FLUSHALL", "ok")
  BY DEF Entry, Suits, Verbs, OkVerbs, TestVerbs, CountVerbs, Texts, Lists, TextVerbs, ListVerbs
<1>4. QED
  BY <1>1, <1>2, <1>3 DEF Row, OwnRow, Several

LEMMA SortMethodsRows == \A m \in DOMAIN SortMethods : OwnRow(m, SortMethods[m])
<1>1. DOMAIN SortMethods = {"sort"}
  BY DEF SortMethods
<1>2. SortMethods["sort"] = <<"SORT", "multi">>
  BY DEF SortMethods
<1>3. Entry("SORT", "multi")
  BY DEF Entry, Suits, Verbs, OkVerbs, TestVerbs, CountVerbs, Texts, Lists, TextVerbs, ListVerbs
<1>4. QED
  BY <1>1, <1>2, <1>3 DEF Row, OwnRow, Several

LEMMA ServerMethodsRows == \A m \in DOMAIN ServerMethods : OwnRow(m, ServerMethods[m])
<1>1. DOMAIN ServerMethods = {"save_con", "bgsave_con", "lastsave_con", "shutdown_con",
         "info", "publish"}
  BY DEF ServerMethods
<1>2. ServerMethods["save_con"] = <<"SAVE", "ok">> /\ ServerMethods["bgsave_con"] =
         <<"BGSAVE", "single">> /\ ServerMethods["lastsave_con"] = <<"LASTSAVE", "int">>
         /\ ServerMethods["shutdown_con"] = <<"SHUTDOWN", "ok">> /\
         ServerMethods["info"] = <<"INFO", "bulk">> /\ ServerMethods["publish"] =
         <<"PUBLISH", "int">>
  BY DEF ServerMethods
<1>3. Entry("SAVE", "ok") /\ Entry("BGSAVE", "single") /\ Entry("LASTSAVE", "int") /\
         Entry("SHUTDOWN", "ok") /\ Entry("INFO", "bulk") /\ Entry("PUBLISH", "int")
  BY DEF Entry, Suits, Verbs, OkVerbs, TestVerbs, CountVerbs, Texts, Lists, TextVerbs, ListVerbs
<1>4. QED
  BY <1>1, <1>2, <1>3 DEF Row, OwnRow, Several

LEMMA FanOutRows ==
  \A m \in DOMAIN FanOut :
    /\ Entry(FanOut[m][1], FanOut[m][2])
    /\ IF m = "select" THEN FanOut[m] = <<"SELECT", "ok">> ELSE FanOut[m][1] # "SELECT"
<1>1. DOMAIN FanOut = {"keys", "dbsize", "select", "flushdb", "save", "bgsave"}
  BY DEF FanOut
<1>2. FanOut["keys"] = <<"KEYS", "multi">> /\ FanOut["dbsize"] = <<"DBSIZE", "int">> /\
         FanOut["select"] = <<"SELECT", "ok">> /\ FanOut["flushdb"] = <<"FLUSHDB",
         "ok">> /\ FanOut["save"] = <<"SAVE", "ok">> /\ FanOut["bgsave"] = <<"BGSAVE",
         "single">>
  BY DEF FanOut
<1>3. Entry("KEYS", "multi") /\ Entry("DBSIZE", "int") /\ Entry("SELECT", "ok") /\
         Entry("FLUSHDB", "ok") /\ Entry("SAVE", "ok") /\ Entry("BGSAVE", "single")
  BY DEF Entry, Suits, Verbs, OkVerbs, TestVerbs, CountVerbs, Texts, Lists, TextVerbs, ListVerbs
<1>4. QED
  BY <1>1, <1>2, <1>3

LEMMA OneByOneRows == \A m \in DOMAIN OneByOne : Row(m, OneByOne[m])
<1>1. DOMAIN OneByOne = {"lastsave", "shutdown"}
  BY DEF OneByOne
<1>2. OneByOne["lastsave"] = <<"LASTSAVE", "int">> /\ OneByOne["shutdown"] = <<"SHUTDOWN",
         "ok">>
  BY DEF OneByOne
<1>3. Entry("LASTSAVE", "int") /\ Entry("SHUTDOWN", "ok")
  BY DEF Entry, Suits, Verbs, OkVerbs, TestVerbs, CountVerbs, Texts, Lists, TextVerbs, ListVerbs
<1>4. QED
  BY <1>1, <1>2, <1>3 DEF Row

LEMMA PerServerRows == \A m \in DOMAIN PerServer : Row(m, PerServer[m])
<1>1. DOMAIN PerServer = {"mset_pairs", "mget", "del_range", "sinter", "sunion"}
  BY DEF PerServer
<1>2. PerServer["mset_pairs"] = <<"MSET", "ok">> /\ PerServer["mget"] = <<"MGET", "multi">> /\
         PerServer["del_range"] = <<"DEL", "int">> /\ PerServer["sinter"] = <<"SINTER",
         "multi">> /\ PerServer["sunion"] = <<"SUNION", "multi">>
  BY DEF PerServer
<1>3. Entry("MSET", "ok") /\ Entry("MGET", "multi") /\ Entry("DEL", "int") /\ Entry("SINTER",
         "multi") /\ Entry("SUNION", "multi")
  BY DEF Entry, Suits, Verbs, OkVerbs, TestVerbs, CountVerbs, Texts, Lists, TextVerbs, ListVerbs
<1>4. QED
  BY <1>1, <1>2, <1>3 DEF Row

-----------------------------------------------------------------------------
(* Sequences of any elements.                                                    *)
LEMMA SeqIs ==
  ASSUME NEW S, NEW p \in Seq(S)
  PROVE  /\ IsSeq(p) /\ Len(p) \in Nat /\ DOMAIN p = 1 .. Len(p)
         /\ Range(p) \subseteq S /\ (p = <<>> <=> Len(p) = 0)
<1>1. p \in Seq(Range(p)) /\ Range(p) \subseteq S
  BY SeqOfRange, RangeOfSeq
<1>2. QED
  BY <1>1, LenProperties, EmptySeq DEF IsSeq

LEMMA RangeHas ==
  ASSUME NEW p
  PROVE  \A s : s \in Range(p) <=> \E k \in DOMAIN p : p[k] = s
BY DEF Range

LEMMA EmptyIs ==
  IsSeq(<<>>) /\ Range(<<>>) = {} /\ Len(<<>>) = 0 /\ DOMAIN <<>> = {}
<1> DEFINE e == <<>>
<1>1. PICK S : S = {}
  OBVIOUS
<1>2. e \in Seq(S) /\ Len(e) = 0
  BY EmptySeq
<1> HIDE DEF e
<1>3. IsSeq(e) /\ Range(e) \subseteq S /\ DOMAIN e = 1 .. Len(e)
  BY <1>2, SeqIs
<1>4. Range(e) = {} /\ DOMAIN e = {}
  BY <1>1, <1>2, <1>3
<1>5. QED
  BY <1>2, <1>3, <1>4 DEF e

LEMMA TailIs ==
  ASSUME NEW p, IsSeq(p), p # <<>>
  PROVE  /\ Len(p) \in Nat /\ Len(p) > 0 /\ DOMAIN p = 1 .. Len(p) /\ Head(p) = p[1]
         /\ IsSeq(Tail(p)) /\ Len(Tail(p)) = Len(p) - 1 /\ DOMAIN Tail(p) = 1 .. Len(p) - 1
         /\ \A k \in 1 .. Len(p) - 1 : k + 1 \in 1 .. Len(p) /\ Tail(p)[k] = p[k + 1]
         /\ Range(p) = {p[1]} \cup Range(Tail(p))
         /\ Tail(p) = <<>> <=> Len(p) = 1
<1>1. p \in Seq(Range(p))
  BY DEF IsSeq
<1>2. /\ Len(p) \in Nat /\ Len(p) > 0 /\ DOMAIN p = 1 .. Len(p)
  BY <1>1, SeqIs
<1>3. /\ Tail(p) \in Seq(Range(p)) /\ Len(Tail(p)) = Len(p) - 1
      /\ \A k \in 1 .. Len(p) - 1 : Tail(p)[k] = p[k + 1]
  BY <1>1, HeadTailProperties
<1>4. IsSeq(Tail(p)) /\ DOMAIN Tail(p) = 1 .. Len(p) - 1 /\ (Tail(p) = <<>> <=> Len(p) = 1)
  <2>1. /\ IsSeq(Tail(p)) /\ DOMAIN Tail(p) = 1 .. Len(Tail(p))
        /\ Tail(p) = <<>> <=> Len(Tail(p)) = 0
    BY <1>3, SeqIs
  <2>2. QED
    BY <1>2, <1>3, <2>1
<1>5. \A k \in 1 .. Len(p) - 1 : k + 1 \in 1 .. Len(p)
  BY <1>2
<1>6. Range(p) = {p[1]} \cup Range(Tail(p))
  <2>1. ASSUME NEW s \in Range(p) PROVE s = p[1] \/ s \in Range(Tail(p))
    <3>1. PICK k \in 1 .. Len(p) : s = p[k]
      BY <1>2, <2>1 DEF Range
    <3>2. CASE k # 1
      <4>1. k - 1 \in 1 .. Len(p) - 1 /\ (k - 1) + 1 = k
        BY <1>2, <3>2
      <4>2. Tail(p)[k - 1] = s
        BY <1>3, <3>1, <4>1
      <4>3. QED
        BY <1>4, <4>1, <4>2, RangeHas
    <3>3. QED
      BY <3>1, <3>2
  <2>2. 1 \in DOMAIN p
    BY <1>2
  <2>3. ASSUME NEW s \in Range(Tail(p)) PROVE s \in Range(p)
    <3>1. PICK k \in 1 .. Len(p) - 1 : s = Tail(p)[k]
      BY <1>4, <2>3 DEF Range
    <3>2. QED
      BY <1>2, <1>3, <1>5, <3>1, RangeHas
  <2>4. QED
    BY <2>1, <2>2, <2>3, RangeHas
<1>7. QED
  BY <1>2, <1>3, <1>4, <1>5, <1>6

LEMMA AppendIs ==
  ASSUME NEW p, IsSeq(p), NEW e
  PROVE  /\ IsSeq(Append(p, e)) /\ Len(p) \in Nat /\ Len(Append(p, e)) = Len(p) + 1
         /\ DOMAIN Append(p, e) = 1 .. Len(p) + 1 /\ DOMAIN p = 1 .. Len(p)
         /\ \A k \in 1 .. Len(p) : Append(p, e)[k] = p[k]
         /\ Append(p, e)[Len(p) + 1] = e /\ Append(p, e) # <<>>
<1> DEFINE S == Range(p) \cup {e}
<1>1. p \in Seq(S) /\ e \in S
  BY SeqMonotonic DEF IsSeq
<1> HIDE DEF S
<1>2. /\ Append(p, e) \in Seq(S) /\ Append(p, e) # << >>
      /\ Len(Append(p, e)) = Len(p)+1
      /\ \A i \in 1.. Len(p) : Append(p, e)[i] = p[i]
      /\ Append(p, e)[Len(p)+1] = e
  BY <1>1, AppendProperties
<1>3. QED
  BY <1>1, <1>2, SeqIs

LEMMA JoinIs ==
  ASSUME NEW p, IsSeq(p), NEW r, IsSeq(r)
  PROVE  /\ IsSeq(p \o r) /\ Len(p) \in Nat /\ Len(r) \in Nat /\ Len(p \o r) = Len(p) + Len(r)
         /\ DOMAIN (p \o r) = 1 .. Len(p) + Len(r)
         /\ DOMAIN p = 1 .. Len(p) /\ DOMAIN r = 1 .. Len(r)
         /\ \A k \in 1 .. Len(p) + Len(r) : (p \o r)[k] = IF k <= Len(p) THEN p[k] ELSE r[k - Len(p)]
         /\ \A k \in 1 .. Len(r) : (p \o r)[Len(p) + k] = r[k]
         /\ Range(p \o r) = Range(p) \cup Range(r)
<1> DEFINE S == Range(p) \cup Range(r)
<1>1. p \in Seq(S) /\ r \in Seq(S)
  BY SeqMonotonic DEF IsSeq
<1> HIDE DEF S
<1>2. /\ p \o r \in Seq(S) /\ Len(p \o r) = Len(p) + Len(r)
      /\ \A k \in 1 .. Len(p) + Len(r) : (p \o r)[k] = IF k <= Len(p) THEN p[k] ELSE r[k - Len(p)]
  BY <1>1, ConcatProperties
<1>3. Len(p) \in Nat /\ Len(r) \in Nat
  BY <1>1, LenProperties
<1>4. ASSUME NEW k \in 1 .. Len(r) PROVE (p \o r)[Len(p) + k] = r[k]
  <2>1. Len(p) + k \in 1 .. Len(p) + Len(r) /\ ~(Len(p) + k <= Len(p)) /\ Len(p) + k - Len(p) = k
    BY <1>3
  <2>2. QED
    BY <1>2, <2>1
<1>5. IsSeq(p \o r) /\ DOMAIN (p \o r) = 1 .. Len(p) + Len(r)
  <2>1. IsSeq(p \o r) /\ DOMAIN (p \o r) = 1 .. Len(p \o r)
    BY <1>2, SeqIs
  <2>2. QED
    BY <1>2, <2>1
<1>6. Range(p \o r) = Range(p) \cup Range(r)
  BY <1>1, RangeConcatenation
<1>7. DOMAIN p = 1 .. Len(p) /\ DOMAIN r = 1 .. Len(r)
  BY <1>1, LenProperties
<1>8. QED
  BY <1>2, <1>3, <1>4, <1>5, <1>6, <1>7

-----------------------------------------------------------------------------
(* One step of the call less.                                                    *)

(* All receive functions on c for replies after d are in t too.                  *)
Keeps(p, t, c, d) ==
  Range(t) \subseteq Range(p) /\ \A s \in Range(p) : IsRecv(s, c) /\ s.id[3] > d => s \in Range(t)

LEMMA WaitsKept ==
  ASSUME NEW p, NEW t, NEW c, NEW d \in Nat, Keeps(p, t, c, d), NEW g, NEW n \in Nat, n > d
  PROVE  \A s : s \in Range(p) /\ Waits(s, g, c, n) <=> s \in Range(t) /\ Waits(s, g, c, n)
BY DEF Keeps, Waits

LEMMA AwaitedKept ==
  ASSUME NEW p, NEW t, NEW c, NEW d \in Nat, Keeps(p, t, c, d), NEW g, NEW n \in Nat, n > d
  PROVE  /\ \A q : Awaited(p, g, c, q, n) => Awaited(t, g, c, q, n)
         /\ Queued(t, g, c, n) => Queued(p, g, c, n)
         /\ Element(p, g, c, n) => Element(t, g, c, n)
         /\ \A r, x : Reads(p, g, c, r, n, x) => Reads(t, g, c, r, n, x)
BY WaitsKept, Zenon DEF Awaited, Queued, Element, Reads

LEMMA BatchKept ==
  ASSUME NEW p, NEW t, NEW c, NEW d \in Nat, Keeps(p, t, c, d), NEW g, NEW qs, NEW b \in Nat,
         \A j \in DOMAIN qs : j \in Nat /\ j > 0 /\ qs[j].id = <<g, c, b + j>>, b >= d,
         Batch(p, g, c, qs)
  PROVE  Batch(t, g, c, qs)
<1>1. ASSUME NEW j \in DOMAIN qs, qs[j].verb = "EXEC", NEW i \in 1 .. qs[j].id[3] - 2
      PROVE  Element(t, g, c, qs[j].id[3] + i)
  <2>1. qs[j].id[3] \in Nat /\ qs[j].id[3] > d
    <3>1. qs[j].id[3] = b + j /\ j \in Nat /\ j > 0
      OBVIOUS
    <3>2. QED
      BY <3>1
  <2>2. qs[j].id[3] + i \in Nat /\ qs[j].id[3] + i > d
    BY <2>1
  <2>3. Element(p, g, c, qs[j].id[3] + i)
    BY <1>1 DEF Batch
  <2>4. QED
    BY <2>2, <2>3, AwaitedKept
<1>2. QED
  BY <1>1 DEF Batch

LEMMA DoomedKept ==
  ASSUME NEW p, NEW t, NEW c, NEW d \in Nat, Keeps(p, t, c, d), NEW rp, rp[1].id[3] > d
  PROVE  Doomed(p, c, rp) <=> Doomed(t, c, rp)
BY DEF Doomed, Keeps

LEMMA MatchedKept ==
  ASSUME NEW p, NEW t, NEW c, Keeps(p, t, c, 0), NEW g, NEW b \in Nat, NEW rp, IsSeq(rp),
         NEW rq, IsSeq(rq), NEW mu, NEW u, Matched(p, g, c, b, rp, rq, mu, u)
  PROVE  Matched(t, g, c, b, rp, rq, mu, u)
<1>1. Len(rp) \in Nat /\ DOMAIN rp = 1 .. Len(rp) /\ Len(rq) \in Nat /\ DOMAIN rq = 1 .. Len(rq)
      /\ (rp = <<>> <=> Len(rp) = 0)
  BY SeqIs DEF IsSeq
<1>2. Doomed(p, c, rp) <=> Doomed(t, c, rp)
  <2>1. CASE rp = <<>>
    BY <2>1 DEF Doomed
  <2>2. CASE rp # <<>>
    <3>1. 1 \in DOMAIN rp
      BY <1>1, <2>2
    <3>2. rp[1].id = <<g, c, b + 1>>
      BY <3>1 DEF Matched, Reads
    <3>3. rp[1].id[3] > 0
      BY <3>2
    <3>4. QED
      BY <3>3, DoomedKept
  <2>3. QED
    BY <2>1, <2>2
<1>3. \A s \in Range(t) : IsRecv(s, c) => s.id[3] > b
  BY DEF Matched, Keeps
<1>4. ASSUME NEW j \in DOMAIN rp PROVE Reads(t, g, c, rp[j], b + j, Doomed(t, c, rp))
  <2>1. b + j \in Nat /\ b + j > 0
    BY <1>1
  <2>2. Reads(p, g, c, rp[j], b + j, Doomed(p, c, rp))
    BY DEF Matched
  <2>3. Reads(t, g, c, rp[j], b + j, Doomed(p, c, rp))
    BY <2>1, <2>2, AwaitedKept
  <2>4. QED
    BY <1>2, <2>3 DEF Reads
<1>5. ASSUME NEW j \in DOMAIN rq
      PROVE  /\ Awaited(t, g, c, rq[j], b + Len(rp) + j)
             /\ Queued(t, g, c, b + Len(rp) + j) =>
                  Doomed(t, c, rp) \/ mu.on \/ rq[1].verb = "MULTI"
  <2>1. b + Len(rp) + j \in Nat /\ b + Len(rp) + j > 0
    BY <1>1
  <2>2. Awaited(p, g, c, rq[j], b + Len(rp) + j)
        /\ (Queued(p, g, c, b + Len(rp) + j) => Doomed(p, c, rp) \/ mu.on \/ rq[1].verb = "MULTI")
    BY DEF Matched
  <2>3. QED
    BY <1>2, <2>1, <2>2, AwaitedKept
<1>6. Batch(t, g, c, rq)
  <2>1. \A j \in DOMAIN rq : j \in Nat /\ j > 0 /\ rq[j].id = <<g, c, (b + Len(rp)) + j>>
    BY <1>1 DEF Matched, Awaited
  <2>2. b + Len(rp) \in Nat /\ b + Len(rp) >= 0 /\ 0 \in Nat
    BY <1>1
  <2>3. Batch(p, g, c, rq)
    BY DEF Matched
  <2>4. QED
    BY <2>1, <2>2, <2>3, BatchKept
<1>7. mu.on /\ u =>
       /\ rq # <<>> /\ rq[Len(rq)].verb = "EXEC"
       /\ Len(mu.queue) + Len(rq) + 1 <= rq[Len(rq)].id[3]
  BY DEF Matched
<1>8. QED
  BY <1>3, <1>4, <1>5, <1>6, <1>7 DEF Matched

LEMMA LineKept ==
  ASSUME NEW p, NEW t, NEW c, Keeps(p, t, c, 0), NEW g, NEW rp, IsSeq(rp),
         NEW rq, IsSeq(rq), NEW mu, NEW u, Line(p, g, c, rp, rq, mu, u)
  PROVE  Line(t, g, c, rp, rq, mu, u)
<1>1. PICK b \in Nat : Matched(p, g, c, b, rp, rq, mu, u)
  BY DEF Line
<1>2. Matched(t, g, c, b, rp, rq, mu, u)
  BY <1>1, MatchedKept
<1>3. (\E s \in Range(t) : IsSend(s, c)) => Quiet(rp, rq, mu, u)
  BY DEF Line, Keeps
<1>4. QED
  BY <1>2, <1>3 DEF Line

(* The steps after the first.                                                    *)
LEMMA FirstIsFirst ==
  ASSUME NEW p, IsSeq(p), p # <<>>, InOrder(p), NEW s \in Range(Tail(p)), s.con = p[1].con
  PROVE  s.op = "recv" /\ (p[1].op = "recv" => p[1].id[3] < s.id[3])
<1>1. DOMAIN Tail(p) = 1 .. Len(p) - 1
  BY TailIs
<1>2. PICK k \in 1 .. Len(p) - 1 : s = Tail(p)[k]
  BY <1>1 DEF Range
<1>3. Len(p) \in Nat /\ DOMAIN p = 1 .. Len(p) /\ s = p[k + 1] /\ k + 1 \in 1 .. Len(p)
  BY <1>2, TailIs
<1>4. k + 1 \in DOMAIN p /\ 1 \in 1 .. (k + 1) - 1
  BY <1>3
<1>5. QED
  BY <1>3, <1>4 DEF InOrder

LEMMA TailKeeps ==
  ASSUME NEW p, IsSeq(p), p # <<>>, NEW c, ~IsRecv(p[1], c)
  PROVE  Keeps(p, Tail(p), c, 0)
<1>1. Range(p) = {p[1]} \cup Range(Tail(p))
  BY TailIs
<1>2. QED
  BY <1>1 DEF Keeps

LEMMA SendsKept ==
  ASSUME NEW p, NEW t, NEW g, NEW dbs, NEW s, Keeps(p, t, s.con, 0), Sends(p, g, dbs, s)
  PROVE  Sends(t, g, dbs, s)
<1>1. Commands(dbs, s.cmds)
  BY DEF Sends
<1>2. Len(s.cmds) \in Nat /\ DOMAIN s.cmds = 1 .. Len(s.cmds)
  BY <1>1, SeqIs DEF Commands, IsSeq
<1>3. ASSUME NEW j \in DOMAIN s.cmds
      PROVE  /\ Awaited(t, g, s.con, s.cmds[j], j)
             /\ Queued(t, g, s.con, j) => s.cmds[1].verb = "MULTI"
  <2>1. j \in Nat /\ j > 0
    BY <1>2
  <2>2. Awaited(p, g, s.con, s.cmds[j], j) /\ (Queued(p, g, s.con, j) => s.cmds[1].verb = "MULTI")
    BY DEF Sends
  <2>3. QED
    BY <2>1, <2>2, AwaitedKept
<1>4. Batch(t, g, s.con, s.cmds)
  <2>1. \A j \in DOMAIN s.cmds : j \in Nat /\ j > 0 /\ s.cmds[j].id = <<g, s.con, 0 + j>>
    BY <1>2 DEF Sends, Awaited
  <2>2. Batch(p, g, s.con, s.cmds) /\ 0 \in Nat /\ 0 >= 0
    BY DEF Sends
  <2>3. QED
    BY <2>1, <2>2, BatchKept
<1>5. QED
  BY <1>1, <1>3, <1>4 DEF Sends

LEMMA GoodTail ==
  ASSUME NEW p, IsSeq(p), p # <<>>, NEW g, NEW dbs, NEW many, Good(p, g, dbs, many), Len(p) # 1
  PROVE  IsSeq(Tail(p)) /\ Tail(p) # <<>> /\ Good(Tail(p), g, dbs, many)
<1> DEFINE t == Tail(p)
           n == Len(p) - 1
<1>1. /\ n \in Nat /\ n > 0 /\ IsSeq(t) /\ Len(t) = n /\ DOMAIN t = 1 .. n /\ t # <<>>
      /\ \A k \in 1 .. n : t[k] = p[k + 1] /\ k + 1 \in DOMAIN p
      /\ Range(p) = {p[1]} \cup Range(t) /\ n + 1 = Len(p) /\ DOMAIN p = 1 .. Len(p) /\ Len(p) \in Nat
  BY TailIs
<1>2. InOrder(p)
  BY DEF Good
<1>3. \A s \in Range(t) : s.con = p[1].con => s.op = "recv"
  BY <1>2, FirstIsFirst
<1>4. \A c : ~IsRecv(p[1], c) => Keeps(p, t, c, 0)
  BY TailKeeps
<1> HIDE DEF t, n
<1>5. t[Len(t)].op = "recv"
  <2>1. t[n] = p[n + 1]
    BY <1>1
  <2>2. QED
    BY <1>1, <2>1 DEF Good
<1>6. ASSUME NEW s \in Range(t) PROVE StepOK(t, g, dbs, s)
  <2>1. StepOK(p, g, dbs, s)
    BY <1>1 DEF Good
  <2>2. CASE s.op = "send" /\ Sends(p, g, dbs, s)
    <3>1. ~IsRecv(p[1], s.con)
      BY <1>3, <2>2 DEF IsRecv
    <3>2. Sends(t, g, dbs, s)
      BY <1>4, <2>2, <3>1, SendsKept
    <3>3. QED
      BY <2>1, <2>2, <3>2 DEF StepOK
  <2>3. QED
    BY <2>1, <2>2 DEF StepOK
<1>7. InOrder(t)
  <2>1. ASSUME NEW k \in DOMAIN t, NEW j \in 1 .. k - 1, t[j].con = t[k].con
        PROVE  t[k].op = "recv" /\ (t[j].op = "recv" => t[j].id[3] < t[k].id[3])
    <3>1. k \in 1 .. n /\ j \in 1 .. n /\ j + 1 \in 1 .. (k + 1) - 1
      BY <1>1
    <3>2. t[j] = p[j + 1] /\ t[k] = p[k + 1] /\ k + 1 \in DOMAIN p
      BY <1>1, <3>1
    <3>3. QED
      BY <1>2, <2>1, <3>1, <3>2 DEF InOrder
  <2>2. QED
    BY <2>1 DEF InOrder
<1>8. many \/ Alternating(t)
  <2>1. ASSUME Alternating(p), NEW k \in 2 .. n, t[k].op = "recv" PROVE IsSend(t[k - 1], t[k].con)
    <3>1. k \in 1 .. n /\ k - 1 \in 1 .. n /\ k + 1 \in 2 .. Len(p) /\ (k - 1) + 1 = (k + 1) - 1
      BY <1>1
    <3>2. t[k] = p[k + 1] /\ t[k - 1] = p[(k + 1) - 1]
      BY <1>1, <3>1
    <3>3. QED
      BY <2>1, <3>1, <3>2 DEF Alternating
  <2>2. QED
    BY <1>1, <2>1 DEF Good, Alternating
<1>9. Good(t, g, dbs, many)
  BY <1>5, <1>6, <1>7, <1>8 DEF Good
<1>10. QED
  BY <1>1, <1>9 DEF t

(* Reading a reply.                                                              *)
LEMMA LineRecv ==
  ASSUME NEW p, IsSeq(p), p # <<>>, InOrder(p), NEW g, NEW c, NEW rp, IsSeq(rp), rp # <<>>,
         NEW rq, IsSeq(rq), NEW mu, NEW u, Line(p, g, c, rp, rq, mu, u),
         IsRecv(p[1], c), NEW i \in Nat, p[1].id = <<g, c, i>>
  PROVE  /\ rp[1].id = p[1].id /\ ~Parts(p[1], rp[1].reply)
         /\ Doomed(p, c, rp) => p[1].reader = "ok"
         /\ \A s \in Range(p) : ~IsSend(s, c)
         /\ ~Doomed(p, c, rp) => Line(Tail(p), g, c, Tail(rp), rq, mu, u)
<1> DEFINE t == Tail(p)
<1>1. Range(p) = {p[1]} \cup Range(t) /\ p[1] \in Range(p)
  BY TailIs
<1>2. ASSUME NEW s \in Range(t), s.con = c PROVE s.op = "recv" /\ i < s.id[3]
  BY <1>2, FirstIsFirst DEF IsRecv
<1> HIDE DEF t
<1>3. \A s \in Range(p) : ~IsSend(s, c)
  BY <1>1, <1>2 DEF IsSend, IsRecv
<1>4. /\ Len(rp) \in Nat /\ DOMAIN rp = 1 .. Len(rp) /\ Len(rp) > 0
      /\ Len(rq) \in Nat /\ DOMAIN rq = 1 .. Len(rq)
  BY SeqIs DEF IsSeq
<1>5. PICK b \in Nat : Matched(p, g, c, b, rp, rq, mu, u)
  BY DEF Line
<1>6. Reads(p, g, c, rp[1], b + 1, Doomed(p, c, rp))
  <2>1. 1 \in DOMAIN rp
    BY <1>4
  <2>2. QED
    BY <1>5, <2>1 DEF Matched
<1>7. PICK s \in Range(p) : Waits(s, g, c, b + 1) /\ (Doomed(p, c, rp) \/ ~Parts(s, rp[1].reply))
  BY <1>6 DEF Reads
<1>8. rp[1].id = <<g, c, b + 1>>
  BY <1>6 DEF Reads
<1>9. i > b
  <2>1. p[1].id[3] > b
    BY <1>1, <1>5 DEF Matched
  <2>2. QED
    BY <2>1
<1>10. \A z \in Range(p) : IsRecv(z, c) /\ z.id = <<g, c, b + 1>> => z = p[1]
  <2> SUFFICES ASSUME NEW z \in Range(p), IsRecv(z, c), z.id = <<g, c, b + 1>>, z # p[1] PROVE FALSE
    OBVIOUS
  <2>1. z \in Range(t)
    BY <1>1
  <2>2. i < z.id[3] /\ z.id[3] = b + 1
    BY <1>2, <2>1 DEF IsRecv
  <2>3. QED
    BY <1>9, <2>2
<1>11. s = p[1]
  BY <1>7, <1>10 DEF Waits
<1>12. i = b + 1
  <2>1. p[1].id[3] = b + 1
    BY <1>7, <1>11 DEF Waits
  <2>2. QED
    BY <2>1
<1>13. Doomed(p, c, rp) => p[1].reader = "ok" /\ rp[1].reply = Err(0)
  BY <1>8, <1>10 DEF Doomed
<1>14. ~Parts(p[1], rp[1].reply)
  <2>1. CASE Doomed(p, c, rp)
    <3>1. p[1].reader = "ok" /\ rp[1].reply = Err(0)
      BY <1>13, <2>1
    <3>2. rp[1].reply.t = "-"
      BY <3>1 DEF Err
    <3>3. QED
      BY <3>1, <3>2 DEF Parts, Leaves
  <2>2. CASE ~Doomed(p, c, rp)
    BY <1>7, <1>11, <2>2
  <2>3. QED
    BY <2>1, <2>2
<1>15. ASSUME ~Doomed(p, c, rp) PROVE Line(t, g, c, Tail(rp), rq, mu, u)
  <2> DEFINE d == b + 1
             tr == Tail(rp)
             m == Len(rp) - 1
  <2>1. d \in Nat /\ m \in Nat /\ Len(tr) = m /\ DOMAIN tr = 1 .. m
        /\ \A j \in 1 .. m : tr[j] = rp[j + 1] /\ j + 1 \in DOMAIN rp
    BY TailIs
  <2>2. d = b + 1 /\ Len(rp) = m + 1
    BY <1>4
  <2>3. Keeps(p, t, c, d)
    BY <1>1, <1>12 DEF Keeps
  <2> HIDE DEF tr, m, d
  <2>4. \A z \in Range(t) : IsRecv(z, c) => z.id[3] > d
    BY <1>2, <1>12, <2>2 DEF IsRecv
  <2>5. ASSUME NEW j \in DOMAIN tr PROVE Reads(t, g, c, tr[j], d + j, Doomed(t, c, tr))
    <3>1. j \in 1 .. m
      BY <2>1
    <3>2. b + (j + 1) = d + j /\ d + j \in Nat /\ d + j > d
      <4>1. j \in Nat /\ j > 0
        BY <2>1, <3>1
      <4>2. \A x \in Nat : x > 0 => b + (x + 1) = d + x /\ d + x \in Nat /\ d + x > d
        BY <2>2
      <4>3. QED
        BY <4>1, <4>2
    <3>3. Reads(p, g, c, rp[j + 1], b + (j + 1), Doomed(p, c, rp))
      BY <1>5, <2>1, <3>1 DEF Matched
    <3>4. Reads(p, g, c, tr[j], d + j, FALSE)
      <4>1. Reads(p, g, c, rp[j + 1], d + j, Doomed(p, c, rp)) /\ tr[j] = rp[j + 1]
        BY <2>1, <3>1, <3>2, <3>3
      <4>2. QED
        BY <1>15, <4>1 DEF Reads
    <3>5. Reads(t, g, c, tr[j], d + j, FALSE)
      BY <2>1, <2>3, <3>2, <3>4, AwaitedKept
    <3>6. QED
      BY <3>5 DEF Reads
  <2>6. ASSUME NEW j \in DOMAIN rq
        PROVE  /\ Awaited(t, g, c, rq[j], d + m + j)
               /\ Queued(t, g, c, d + m + j) => mu.on \/ rq[1].verb = "MULTI"
    <3>1. d + m + j \in Nat /\ d + m + j > d /\ b + Len(rp) + j = d + m + j
      BY <1>4, <2>1, <2>2
    <3>2. Awaited(p, g, c, rq[j], b + Len(rp) + j)
          /\ (Queued(p, g, c, b + Len(rp) + j) => mu.on \/ rq[1].verb = "MULTI")
      BY <1>5, <1>15 DEF Matched
    <3>3. QED
      BY <2>1, <2>3, <3>1, <3>2, AwaitedKept
  <2>7. Batch(t, g, c, rq)
    <3>1. \A j \in DOMAIN rq : j \in Nat /\ j > 0 /\ rq[j].id = <<g, c, (b + Len(rp)) + j>>
      BY <1>4, <1>5 DEF Matched, Awaited
    <3>2. b + Len(rp) \in Nat /\ b + Len(rp) >= d
      BY <1>4, <2>2
    <3>3. Batch(p, g, c, rq)
      BY <1>5 DEF Matched
    <3>4. QED
      BY <2>1, <2>3, <3>1, <3>2, <3>3, BatchKept
  <2>8. mu.on /\ u =>
         /\ rq # <<>> /\ rq[Len(rq)].verb = "EXEC"
         /\ Len(mu.queue) + Len(rq) + 1 <= rq[Len(rq)].id[3]
    BY <1>5 DEF Matched
  <2>9. Matched(t, g, c, d, tr, rq, mu, u)
    BY <2>1, <2>4, <2>5, <2>6, <2>7, <2>8 DEF Matched
  <2>10. \A z \in Range(t) : ~IsSend(z, c)
    BY <1>1, <1>3
  <2>11. QED
    BY <2>1, <2>9, <2>10 DEF Line, tr
<1>16. QED
  BY <1>3, <1>7, <1>8, <1>11, <1>13, <1>14, <1>15 DEF Waits, t

(* Sending commands.                                                             *)
LEMMA LineSend ==
  ASSUME NEW p, IsSeq(p), p # <<>>, InOrder(p), NEW g, NEW dbs, NEW c, IsSend(p[1], c),
         Sends(p, g, dbs, p[1]), \A s \in Range(p) : IsRecv(s, c) => s.id[3] > 0,
         NEW rp, NEW rq, NEW mu, NEW u, Line(p, g, c, rp, rq, mu, u), IsSeq(rp), IsSeq(rq)
  PROVE  /\ Line(Tail(p), g, c, rp, rq, mu, u)
         /\ u => Line(Tail(p), g, c, rp, rq \o p[1].cmds, mu, u)
<1> DEFINE t == Tail(p)
           qs == p[1].cmds
<1>1. Range(p) = {p[1]} \cup Range(t) /\ p[1] \in Range(p)
  BY TailIs
<1>2. Keeps(p, t, c, 0)
  <2>1. ~IsRecv(p[1], c)
    BY DEF IsRecv, IsSend
  <2>2. QED
    BY <2>1, TailKeeps
<1>3. Quiet(rp, rq, mu, u)
  BY <1>1 DEF Line
<1>4. \A s \in Range(t) : ~IsSend(s, c)
  BY FirstIsFirst DEF IsSend
<1>5. Line(t, g, c, rp, rq, mu, u)
  BY <1>2, LineKept
<1>6. Sends(t, g, dbs, p[1])
  BY <1>2, SendsKept DEF IsSend
<1>7. IsSeq(qs) /\ rq \o qs = qs
  <2>1. IsSeq(qs)
    BY DEF Sends, Commands
  <2>2. qs \in Seq(Range(qs))
    BY <2>1 DEF IsSeq
  <2>3. <<>> \o qs = qs
    BY <2>2, ConcatEmptySeq
  <2>4. QED
    BY <1>3, <2>1, <2>3 DEF Quiet
<1> HIDE DEF t, qs
<1>8. ASSUME u PROVE Line(t, g, c, rp, qs, mu, u)
  <2>1. rp = <<>> /\ Len(rp) = 0 /\ DOMAIN rp = {} /\ ~mu.on
    BY <1>3, <1>8, EmptyIs DEF Quiet
  <2>2. Len(qs) \in Nat /\ DOMAIN qs = 1 .. Len(qs)
    BY <1>7, SeqIs DEF IsSeq
  <2>3. \A s \in Range(t) : IsRecv(s, c) => s.id[3] > 0
    BY <1>1
  <2>4. ASSUME NEW j \in DOMAIN qs
        PROVE  /\ Awaited(t, g, c, qs[j], 0 + Len(rp) + j)
               /\ Queued(t, g, c, 0 + Len(rp) + j) => qs[1].verb = "MULTI"
    <3>1. 0 + Len(rp) + j = j
      BY <2>1, <2>2
    <3>2. Awaited(t, g, c, qs[j], j) /\ (Queued(t, g, c, j) => qs[1].verb = "MULTI")
      BY <1>6, <2>4 DEF Sends, IsSend, qs
    <3>3. QED
      BY <3>1, <3>2
  <2>5. Batch(t, g, c, qs)
    BY <1>6 DEF Sends, IsSend, qs
  <2>6. Matched(t, g, c, 0, rp, qs, mu, u)
    BY <2>1, <2>3, <2>4, <2>5 DEF Matched
  <2>7. QED
    BY <1>4, <2>6 DEF Line
<1>9. QED
  BY <1>5, <1>7, <1>8 DEF t, qs

(* A call begins.                                                                *)
LEMMA LineStart ==
  ASSUME NEW p, NEW g, NEW c, NEW rp, NEW rq, NEW mu, NEW u, Quiet(rp, rq, mu, u),
         \A s \in Range(p) : IsRecv(s, c) => s.id[3] > 0
  PROVE  Line(p, g, c, rp, rq, mu, u)
<1>1. DOMAIN rp = {} /\ DOMAIN rq = {} /\ ~(mu.on /\ u)
  BY EmptyIs DEF Quiet
<1>2. Matched(p, g, c, 0, rp, rq, mu, u)
  BY <1>1 DEF Matched, Batch
<1>3. QED
  BY <1>2 DEF Line

(* A call that awaits nothing more on c leaves nothing there.                    *)
LEMMA LineEnd ==
  ASSUME NEW p, NEW g, NEW c, NEW rp, IsSeq(rp), NEW rq, IsSeq(rq), NEW mu, NEW u,
         Line(p, g, c, rp, rq, mu, u), \A s \in Range(p) : ~IsRecv(s, c)
  PROVE  Quiet(rp, rq, mu, u)
<1>1. PICK b \in Nat : Matched(p, g, c, b, rp, rq, mu, u)
  BY DEF Line
<1>2. DOMAIN rp = {} /\ DOMAIN rq = {}
  BY <1>1 DEF Matched, Awaited, Reads, Waits
<1>3. DOMAIN rp = 1 .. Len(rp) /\ DOMAIN rq = 1 .. Len(rq) /\ Len(rp) \in Nat /\ Len(rq) \in Nat
      /\ (rp = <<>> <=> Len(rp) = 0) /\ (rq = <<>> <=> Len(rq) = 0)
  BY SeqIs DEF IsSeq
<1>4. rp = <<>> /\ rq = <<>>
  BY <1>2, <1>3
<1>5. QED
  BY <1>1, <1>4 DEF Matched, Quiet

-----------------------------------------------------------------------------
(* What the server does.                                                         *)
LEMMA StillDoomed ==
  ASSUME NEW p, NEW c, NEW rp, Doomed(p, c, rp), NEW rz, rz # <<>>, rz[1] = rp[1]
  PROVE  Doomed(p, c, rz)
BY DEF Doomed

LEMMA StillReads ==
  ASSUME NEW p, NEW g, NEW c, NEW r, NEW n, NEW x, NEW y, Reads(p, g, c, r, n, x), x => y
  PROVE  Reads(p, g, c, r, n, y)
BY DEF Reads

(* The first command is answered.                                                *)
LEMMA Answered ==
  ASSUME NEW p, NEW g, NEW c, NEW b \in Nat, NEW rp, IsSeq(rp), NEW rq, IsSeq(rq), rq # <<>>,
         NEW mu, NEW u, Matched(p, g, c, b, rp, rq, mu, u),
         NEW r, Reads(p, g, c, r, b + Len(rp) + 1, Doomed(p, c, Append(rp, r))),
         NEW nu,
         \A j \in DOMAIN rq : j > 1 /\ Queued(p, g, c, b + Len(rp) + j) =>
           Doomed(p, c, Append(rp, r)) \/ nu.on,
         nu.on /\ u =>
           /\ Tail(rq) # <<>> /\ rq[Len(rq)].verb = "EXEC"
           /\ Len(nu.queue) + Len(Tail(rq)) + 1 <= rq[Len(rq)].id[3]
  PROVE  Matched(p, g, c, b, Append(rp, r), Tail(rq), nu, u)
<1> DEFINE rz == Append(rp, r)
           tq == Tail(rq)
           m == Len(rq) - 1
<1>1. /\ m \in Nat /\ Len(tq) = m /\ DOMAIN tq = 1 .. m /\ Len(rq) \in Nat /\ Len(rq) > 0
      /\ \A j \in 1 .. m : tq[j] = rq[j + 1] /\ j + 1 \in DOMAIN rq
      /\ (tq = <<>> <=> Len(rq) = 1) /\ m + 1 = Len(rq) /\ DOMAIN rq = 1 .. Len(rq)
  BY TailIs
<1>2. /\ Len(rp) \in Nat /\ Len(rz) = Len(rp) + 1 /\ DOMAIN rz = 1 .. Len(rp) + 1
      /\ DOMAIN rp = 1 .. Len(rp) /\ rz # <<>> /\ rz[Len(rp) + 1] = r
      /\ \A j \in 1 .. Len(rp) : rz[j] = rp[j]
  BY AppendIs
<1> HIDE DEF rz, tq, m
<1>3. Doomed(p, c, rp) => Doomed(p, c, rz)
  <2> SUFFICES ASSUME Doomed(p, c, rp) PROVE Doomed(p, c, rz)
    OBVIOUS
  <2>1. rp # <<>>
    BY DEF Doomed
  <2>2. Len(rp) > 0
    BY <2>1, SeqIs DEF IsSeq
  <2>3. rz[1] = rp[1]
    BY <1>2, <2>2
  <2>4. QED
    BY <1>2, <2>3, StillDoomed
<1>4. ASSUME NEW j \in DOMAIN rz PROVE Reads(p, g, c, rz[j], b + j, Doomed(p, c, rz))
  <2>1. CASE j = Len(rp) + 1
    <3>1. b + j = b + Len(rp) + 1 /\ rz[j] = r
      BY <1>2, <2>1
    <3>2. QED
      BY <3>1 DEF rz
  <2>2. CASE j # Len(rp) + 1
    <3>1. j \in 1 .. Len(rp)
      BY <1>2, <2>2
    <3>2. Reads(p, g, c, rp[j], b + j, Doomed(p, c, rp)) /\ rz[j] = rp[j]
      BY <1>2, <3>1 DEF Matched
    <3>3. QED
      BY <1>3, <3>2, StillReads
  <2>3. QED
    BY <2>1, <2>2
<1>5. ASSUME NEW j \in DOMAIN tq
      PROVE  /\ Awaited(p, g, c, tq[j], b + Len(rz) + j)
             /\ Queued(p, g, c, b + Len(rz) + j) => Doomed(p, c, rz) \/ nu.on \/ tq[1].verb = "MULTI"
  <2>1. j \in Nat /\ j > 0 /\ j \in 1 .. m
    BY <1>1
  <2>2. tq[j] = rq[j + 1] /\ j + 1 \in DOMAIN rq /\ j + 1 > 1
    BY <1>1, <2>1
  <2>3. b + Len(rz) + j = b + Len(rp) + (j + 1)
    BY <1>2, <2>1
  <2>4. Awaited(p, g, c, rq[j + 1], b + Len(rp) + (j + 1))
    BY <2>2 DEF Matched
  <2>5. Queued(p, g, c, b + Len(rp) + (j + 1)) => Doomed(p, c, rz) \/ nu.on
    BY <2>2 DEF rz
  <2>6. QED
    BY <2>2, <2>3, <2>4, <2>5
<1>6. Batch(p, g, c, tq)
  <2>1. Batch(p, g, c, rq)
    BY DEF Matched
  <2>2. ASSUME NEW j \in DOMAIN tq
        PROVE  /\ tq[j].verb # "MULTI"
               /\ tq[j].verb = "EXEC" =>
                    /\ j = Len(tq)
                    /\ \A i \in 1 .. tq[j].id[3] - 2 : Element(p, g, c, tq[j].id[3] + i)
    <3>1. j \in 1 .. m /\ j + 1 # 1
      BY <1>1
    <3>2. tq[j] = rq[j + 1] /\ j + 1 \in DOMAIN rq
      BY <1>1, <3>1
    <3>3. tq[j].verb # "MULTI"
      BY <2>1, <3>1, <3>2 DEF Batch
    <3>4. tq[j].verb = "EXEC" => j + 1 = Len(rq)
           /\ \A i \in 1 .. tq[j].id[3] - 2 : Element(p, g, c, tq[j].id[3] + i)
      BY <2>1, <3>2 DEF Batch
    <3>5. j + 1 = Len(rq) => j = Len(tq)
      BY <1>1, <3>1
    <3>6. QED
      BY <3>3, <3>4, <3>5
  <2>3. QED
    BY <2>2 DEF Batch
<1>7. nu.on /\ u =>
       /\ tq # <<>> /\ tq[Len(tq)].verb = "EXEC"
       /\ Len(nu.queue) + Len(tq) + 1 <= tq[Len(tq)].id[3]
  <2>1. tq # <<>> => tq[Len(tq)] = rq[Len(rq)]
    <3>1. tq # <<>> => m \in 1 .. m
      BY <1>1
    <3>2. QED
      BY <1>1, <3>1
  <2>2. QED
    BY <2>1 DEF tq
<1>8. \A s \in Range(p) : IsRecv(s, c) => s.id[3] > b
  BY DEF Matched
<1>9. Matched(p, g, c, b, rz, tq, nu, u)
  BY <1>4, <1>5, <1>6, <1>7, <1>8 DEF Matched
<1>10. QED
  BY <1>9 DEF rz, tq

LEMMA LineServe ==
  ASSUME NEW p, NEW g, NEW c, NEW rp, IsSeq(rp), NEW rq, IsSeq(rq), rq # <<>>,
         NEW mu, NEW u, Line(p, g, c, rp, rq, mu, u), ~mu.on,
         NEW a \in Answers(rq[1].verb, rq[1].keys),
         NEW r, r.id = rq[1].id, r.reply = a.reply,
         NEW nu, nu.on = (rq[1].verb = "MULTI" /\ a.done), nu.queue = <<>>
  PROVE  Line(p, g, c, Append(rp, r), Tail(rq), nu, u)
<1> DEFINE rz == Append(rp, r)
<1>1. /\ Len(rz) = Len(rp) + 1 /\ DOMAIN rz = 1 .. Len(rp) + 1 /\ rz # <<>> /\ rz[Len(rp) + 1] = r
      /\ \A j \in 1 .. Len(rp) : rz[j] = rp[j]
  BY AppendIs
<1> HIDE DEF rz
<1> DEFINE q == rq[1]
<1>2. PICK b \in Nat : Matched(p, g, c, b, rp, rq, mu, u)
  BY DEF Line
<1>3. /\ Len(rp) \in Nat /\ DOMAIN rp = 1 .. Len(rp) /\ (rp = <<>> <=> Len(rp) = 0)
      /\ Len(rq) \in Nat /\ DOMAIN rq = 1 .. Len(rq) /\ Len(rq) > 0
  BY SeqIs DEF IsSeq
<1>4. \A s \in Range(p) : ~IsSend(s, c)
  BY DEF Line, Quiet
<1> DEFINE n == b + Len(rp) + 1
<1>5. Awaited(p, g, c, q, n) /\ (Queued(p, g, c, n) => Doomed(p, c, rp) \/ q.verb = "MULTI")
  <2>1. 1 \in DOMAIN rq
    BY <1>3
  <2>2. QED
    BY <1>2, <2>1 DEF Matched
<1>6. PICK s \in Range(p) : Waits(s, g, c, n) /\ Pair(q, s)
  BY <1>5 DEF Awaited
<1>7. r.id = <<g, c, n>>
  BY <1>5 DEF Awaited
<1>8. Doomed(p, c, rp) => Doomed(p, c, rz)
  <2> SUFFICES ASSUME Doomed(p, c, rp) PROVE Doomed(p, c, rz)
    OBVIOUS
  <2>1. rp # <<>>
    BY DEF Doomed
  <2>2. rz[1] = rp[1]
    BY <1>3, <1>1, <2>1
  <2>3. QED
    BY <1>1, <2>2, StillDoomed
<1>9. /\ Len(Tail(rq)) = Len(rq) - 1 /\ (Tail(rq) = <<>> <=> Len(rq) = 1)
  BY TailIs
<1> HIDE DEF q, n
<1>10. CASE q.verb = "MULTI"
  <2>1. q.id = <<g, c, 1>> /\ rq[Len(rq)].verb = "EXEC"
    <3>1. 1 \in DOMAIN rq /\ rq[1].verb = "MULTI"
      BY <1>3, <1>10 DEF q
    <3>2. Batch(p, g, c, rq)
      BY <1>2 DEF Matched
    <3>3. QED
      BY <3>1, <3>2 DEF Batch, q
  <2>2. b = 0 /\ Len(rp) = 0
    <3>1. n = 1
      BY <1>5, <2>1 DEF Awaited
    <3>2. QED
      BY <1>3, <3>1 DEF n
  <2>3. s.reader = "ok"
    BY <1>6, <1>10 DEF Pair
  <2>4. a \in {Refused(Err(0)), Done(Status(OK))}
    BY <1>10 DEF Answers, OkVerbs, TestVerbs, CountVerbs, TextVerbs, ListVerbs, q
  <2>5. r.reply.t \in {"-", "+"}
    BY <2>4 DEF Refused, Done, Err, Status
  <2>6. ~Parts(s, r.reply)
    BY <2>3, <2>5 DEF Parts, Leaves
  <2>7. Reads(p, g, c, r, n, Doomed(p, c, rz))
    BY <1>6, <1>7, <2>6 DEF Reads
  <2>8. a = Refused(Err(0)) => Doomed(p, c, rz)
    <3>1. a = Refused(Err(0)) => r.reply = Err(0)
      BY DEF Refused
    <3>2. rz[1] = r
      BY <1>1, <2>2
    <3>3. IsRecv(s, c) /\ s.id = r.id
      BY <1>6, <1>7 DEF Waits
    <3>4. QED
      BY <1>6, <1>1, <2>3, <3>1, <3>2, <3>3 DEF Doomed
  <2>9. a = Done(Status(OK)) => nu.on
    <3>1. a = Done(Status(OK)) => a.done = TRUE
      BY DEF Done
    <3>2. QED
      BY <1>10, <3>1 DEF q
  <2>10. Doomed(p, c, rz) \/ nu.on
    BY <2>4, <2>8, <2>9
  <2>11. /\ Tail(rq) # <<>> /\ rq[Len(rq)].verb = "EXEC"
         /\ Len(nu.queue) + Len(Tail(rq)) + 1 <= rq[Len(rq)].id[3]
    <3>1. Len(rq) # 1
      BY <1>10, <2>1 DEF q
    <3>2. rq[Len(rq)].id[3] = b + Len(rp) + Len(rq)
      <4>1. Len(rq) \in DOMAIN rq
        BY <1>3
      <4>2. rq[Len(rq)].id = <<g, c, b + Len(rp) + Len(rq)>>
        BY <1>2, <4>1 DEF Matched, Awaited
      <4>3. QED
        BY <4>2
    <3>3. Len(nu.queue) = 0
      BY EmptyIs
    <3>4. QED
      BY <1>3, <1>9, <2>1, <2>2, <3>1, <3>2, <3>3
  <2>12. Matched(p, g, c, b, rz, Tail(rq), nu, u)
    BY <1>2, <2>7, <2>10, <2>11, Answered DEF rz, n
  <2>13. QED
    BY <1>4, <2>12 DEF Line, rz
<1>11. CASE q.verb # "MULTI"
  <2>1. ~nu.on
    BY <1>11 DEF q
  <2>2. Reads(p, g, c, r, n, Doomed(p, c, rz))
    <3>1. CASE s.reader = "queued"
      <4>1. Doomed(p, c, rz)
        BY <1>5, <1>6, <1>8, <1>11, <3>1 DEF Queued
      <4>2. QED
        BY <1>6, <1>7, <4>1 DEF Reads
    <3>2. CASE s.reader # "queued"
      <4>1. ~Parts(s, a.reply)
        BY <1>6, <3>2 DEF Pair, q
      <4>2. QED
        BY <1>6, <1>7, <4>1 DEF Reads
    <3>3. QED
      BY <3>1, <3>2
  <2>3. ASSUME NEW j \in DOMAIN rq, Queued(p, g, c, b + Len(rp) + j) PROVE Doomed(p, c, rz)
    BY <1>2, <1>8, <1>11, <2>3 DEF Matched, q
  <2>4. Matched(p, g, c, b, rz, Tail(rq), nu, u)
    BY <1>2, <2>1, <2>2, <2>3, Answered DEF rz, n
  <2>5. QED
    BY <1>4, <2>4 DEF Line, rz
<1>12. QED
  BY <1>10, <1>11

(* A command in a transaction is queued or refused.                              *)
LEMMA LineEnqueue ==
  ASSUME NEW p, NEW g, NEW c, NEW rp, IsSeq(rp), NEW rq, IsSeq(rq), rq # <<>>,
         NEW mu, NEW u, u, Line(p, g, c, rp, rq, mu, u), mu.on, rq[1].verb # "EXEC",
         NEW r, r.id = rq[1].id, r.reply \in {Status(QUEUED), Err(0)},
         NEW nu, nu.on, Len(mu.queue) \in Nat, Len(nu.queue) \in Nat,
         Len(nu.queue) <= Len(mu.queue) + 1
  PROVE  Line(p, g, c, Append(rp, r), Tail(rq), nu, u)
<1>1. PICK b \in Nat : Matched(p, g, c, b, rp, rq, mu, u)
  BY DEF Line
<1>2. /\ Len(rp) \in Nat /\ Len(rq) \in Nat /\ DOMAIN rq = 1 .. Len(rq) /\ Len(rq) > 0
  BY SeqIs DEF IsSeq
<1>3. \A s \in Range(p) : ~IsSend(s, c)
  BY DEF Line, Quiet
<1>4. Awaited(p, g, c, rq[1], b + Len(rp) + 1)
  <2>1. 1 \in DOMAIN rq
    BY <1>2
  <2>2. QED
    BY <1>1, <2>1 DEF Matched
<1>5. PICK s \in Range(p) : Waits(s, g, c, b + Len(rp) + 1)
  BY <1>4 DEF Awaited
<1>6. ~Parts(s, r.reply)
  <2>1. r.reply.t \in {"+", "-"} /\ r.reply.e = <<>>
    BY DEF Status, Err
  <2>2. QED
    BY <2>1 DEF Parts, Leaves
<1>7. Reads(p, g, c, r, b + Len(rp) + 1, Doomed(p, c, Append(rp, r)))
  BY <1>4, <1>5, <1>6 DEF Reads, Awaited
<1>8. /\ Tail(rq) # <<>> /\ rq[Len(rq)].verb = "EXEC"
      /\ Len(nu.queue) + Len(Tail(rq)) + 1 <= rq[Len(rq)].id[3]
  <2>1. rq[Len(rq)].verb = "EXEC" /\ Len(mu.queue) + Len(rq) + 1 <= rq[Len(rq)].id[3]
    BY <1>1 DEF Matched
  <2>2. Len(rq) # 1
    BY <2>1
  <2>3. Tail(rq) # <<>> /\ Len(Tail(rq)) = Len(rq) - 1
    BY <2>2, TailIs
  <2>4. rq[Len(rq)].id[3] \in Nat
    <3>1. Len(rq) \in DOMAIN rq
      BY <1>2
    <3>2. rq[Len(rq)].id = <<g, c, b + Len(rp) + Len(rq)>>
      BY <1>1, <3>1 DEF Matched, Awaited
    <3>3. QED
      BY <1>2, <3>2
  <2>5. PICK l \in Nat, z \in Nat : l = Len(rq) /\ z = rq[Len(rq)].id[3]
    BY <1>2, <2>4
  <2>6. PICK x \in Nat, y \in Nat : x = Len(mu.queue) /\ y = Len(nu.queue)
    OBVIOUS
  <2>7. x + l + 1 <= z /\ y <= x + 1
    BY <2>1, <2>5, <2>6
  <2>8. y + (l - 1) + 1 <= z
    BY <2>7
  <2>9. QED
    BY <2>1, <2>3, <2>5, <2>6, <2>8
<1>9. Matched(p, g, c, b, Append(rp, r), Tail(rq), nu, u)
  BY <1>1, <1>7, <1>8, Answered
<1>10. QED
  BY <1>3, <1>9 DEF Line

(* EXEC is refused.                                                              *)
LEMMA LineRefuse ==
  ASSUME NEW p, NEW g, NEW c, NEW rp, IsSeq(rp), NEW rq, IsSeq(rq), rq # <<>>,
         NEW mu, NEW u, Line(p, g, c, rp, rq, mu, u), rq[1].verb = "EXEC",
         NEW r, r.id = rq[1].id, r.reply \in {Err(0), Err(1), NilMulti}, NEW nu, ~nu.on
  PROVE  Line(p, g, c, Append(rp, r), Tail(rq), nu, u)
<1>1. PICK b \in Nat : Matched(p, g, c, b, rp, rq, mu, u)
  BY DEF Line
<1>2. /\ Len(rp) \in Nat /\ Len(rq) \in Nat /\ DOMAIN rq = 1 .. Len(rq) /\ Len(rq) > 0
  BY SeqIs DEF IsSeq
<1>3. \A s \in Range(p) : ~IsSend(s, c)
  BY DEF Line, Quiet
<1>4. Awaited(p, g, c, rq[1], b + Len(rp) + 1) /\ Len(rq) = 1
  <2>1. 1 \in DOMAIN rq
    BY <1>2
  <2>2. Awaited(p, g, c, rq[1], b + Len(rp) + 1)
    BY <1>1, <2>1 DEF Matched
  <2>3. Batch(p, g, c, rq)
    BY <1>1 DEF Matched
  <2>4. QED
    BY <2>1, <2>2, <2>3 DEF Batch
<1>5. PICK s \in Range(p) : Waits(s, g, c, b + Len(rp) + 1)
  BY <1>4 DEF Awaited
<1>6. ~Parts(s, r.reply)
  <2>1. r.reply.t \in {"-", "nomulti"} /\ r.reply.e = <<>>
    BY DEF NilMulti, Err
  <2>2. QED
    BY <2>1 DEF Parts, Leaves
<1>7. Reads(p, g, c, r, b + Len(rp) + 1, Doomed(p, c, Append(rp, r)))
  BY <1>4, <1>5, <1>6 DEF Reads, Awaited
<1>8. \A j \in DOMAIN rq : ~(j > 1)
  BY <1>2, <1>4
<1>9. Matched(p, g, c, b, Append(rp, r), Tail(rq), nu, u)
  BY <1>1, <1>7, <1>8, Answered
<1>10. QED
  BY <1>3, <1>9 DEF Line

LEMMA Beyond ==
  ASSUME NEW m \in Nat, NEW n \in Nat, NEW b \in Nat
  PROVE  /\ m + 1 + n # 0 /\ b + m + 1 \in Nat
         /\ b + m + 1 = b + (m + 1) /\ \A k \in 1 .. n : b + (m + 1 + k) = b + m + 1 + k
OBVIOUS

LEMMA ThreeParts ==
  ASSUME NEW m \in Nat, NEW n \in Nat
  PROVE  \A j \in 1 .. m + 1 + n : j \in 1 .. m \/ j = m + 1 \/ \E k \in 1 .. n : j = m + 1 + k
<1>1. ASSUME NEW j \in 1 .. m + 1 + n, j \notin 1 .. m, j # m + 1
      PROVE  \E k \in 1 .. n : j = m + 1 + k
  <2>1. j - (m + 1) \in 1 .. n /\ j = m + 1 + (j - (m + 1))
    BY <1>1
  <2>2. QED
    BY <2>1
<1>2. QED
  BY <1>1

(* EXEC is carried out: the head of the list and the elements.                    *)
Lengths(rz, rp, mu, m, n) == m = Len(rp) /\ n = Len(mu.queue) /\ Len(rz) = m + 1 + n
Results(rz, rp, id, c, m, n) ==
  /\ \A j \in 1 .. m : rz[j] = rp[j]
  /\ rz[m + 1].reply.t = "*" /\ rz[m + 1].reply.e = <<>> /\ rz[m + 1].id = id
  /\ \A k \in 1 .. n : /\ rz[m + 1 + k].id = <<id[1], c, id[3] + k>>
                        /\ rz[m + 1 + k].reply.t # "*"

LEMMA LineExec ==
  ASSUME NEW p, NEW g, NEW c, NEW rp, IsSeq(rp), NEW rq, IsSeq(rq), rq # <<>>,
         NEW mu, NEW u, u, Line(p, g, c, rp, rq, mu, u), mu.on, rq[1].verb = "EXEC",
         NEW m \in Nat, NEW n \in Nat, NEW rz, IsSeq(rz), Lengths(rz, rp, mu, m, n),
         Results(rz, rp, rq[1].id, c, m, n), NEW nu, ~nu.on
  PROVE  Line(p, g, c, rz, Tail(rq), nu, u)
<1>1. PICK b \in Nat : Matched(p, g, c, b, rp, rq, mu, u)
  BY DEF Line
<1>2. /\ m \in Nat /\ Len(rq) \in Nat /\ DOMAIN rq = 1 .. Len(rq) /\ Len(rq) > 0
      /\ DOMAIN rp = 1 .. m /\ DOMAIN rz = 1 .. m + 1 + n
      /\ (rp = <<>> <=> m = 0) /\ (rz = <<>> <=> Len(rz) = 0)
  <2>1. /\ DOMAIN rz = 1 .. Len(rz) /\ (rz = <<>> <=> Len(rz) = 0)
    BY SeqIs DEF IsSeq
  <2>2. /\ Len(rq) \in Nat /\ DOMAIN rq = 1 .. Len(rq) /\ Len(rq) > 0
        /\ DOMAIN rp = 1 .. m /\ (rp = <<>> <=> m = 0)
    BY SeqIs DEF IsSeq, Lengths
  <2>3. QED
    BY <2>1, <2>2 DEF Lengths
<1>3. \A s \in Range(p) : ~IsSend(s, c)
  BY DEF Line, Quiet
<1> DEFINE e == b + m + 1
<1>4. Awaited(p, g, c, rq[1], e) /\ Len(rq) = 1
      /\ \A i \in 1 .. rq[1].id[3] - 2 : Element(p, g, c, rq[1].id[3] + i)
  <2>1. 1 \in DOMAIN rq
    BY <1>2
  <2>2. Awaited(p, g, c, rq[1], b + m + 1)
    BY <1>1, <2>1 DEF Matched, Lengths
  <2>3. Batch(p, g, c, rq)
    BY <1>1 DEF Matched
  <2>4. QED
    BY <2>1, <2>2, <2>3 DEF Batch
<1>5. e \in Nat /\ e = b + (m + 1) /\ \A k \in 1 .. n : b + (m + 1 + k) = e + k
  BY Beyond
<1>6. \A j \in 1 .. m + 1 + n : j \in 1 .. m \/ j = m + 1 \/ \E k \in 1 .. n : j = m + 1 + k
  BY ThreeParts, Zenon
<1> HIDE DEF e
<1>7. rq[1].id = <<g, c, e>> /\ rq[1].id[1] = g /\ rq[1].id[3] = e
  BY <1>4 DEF Awaited
<1>8. n <= e - 2
  <2>1. Len(mu.queue) + Len(rq) + 1 <= rq[Len(rq)].id[3]
    BY <1>1 DEF Matched
  <2>2. n + 1 + 1 <= e
    BY <1>4, <1>7, <2>1 DEF Lengths
  <2>3. QED
    BY <1>5, <2>2
<1>9. Doomed(p, c, rp) => Doomed(p, c, rz)
  <2> SUFFICES ASSUME Doomed(p, c, rp) PROVE Doomed(p, c, rz)
    OBVIOUS
  <2>1. rp # <<>>
    BY DEF Doomed
  <2>2. 1 \in 1 .. m
    BY <1>2, <2>1
  <2>3. rz[1] = rp[1]
    BY <2>2 DEF Results
  <2>4. Len(rz) # 0
    <3>1. m + 1 + n # 0
      BY Beyond
    <3>2. QED
      BY <3>1 DEF Lengths
  <2>5. QED
    BY <1>2, <2>3, <2>4, StillDoomed
<1>10. Reads(p, g, c, rz[m + 1], e, Doomed(p, c, rz))
  <2>1. PICK s \in Range(p) : Waits(s, g, c, e) /\ s.reader = "head"
    BY <1>4 DEF Awaited, Pair
  <2>2. ~Parts(s, rz[m + 1].reply)
    BY <2>1 DEF Parts, Results
  <2>3. QED
    BY <1>7, <2>1, <2>2 DEF Reads, Results
<1>11. ASSUME NEW k \in 1 .. n PROVE Reads(p, g, c, rz[m + 1 + k], e + k, Doomed(p, c, rz))
  <2>1. k \in 1 .. rq[1].id[3] - 2
    BY <1>5, <1>7, <1>8
  <2>2. PICK s \in Range(p) : Waits(s, g, c, e + k) /\ s.reader = "generic"
    BY <1>4, <1>7, <2>1 DEF Element
  <2>3. ~Parts(s, rz[m + 1 + k].reply)
    BY <2>2, TextFits DEF Parts, Results
  <2>4. QED
    BY <1>7, <2>2, <2>3 DEF Reads, Results
<1>12. ASSUME NEW j \in DOMAIN rz PROVE Reads(p, g, c, rz[j], b + j, Doomed(p, c, rz))
  <2>1. CASE j \in 1 .. m
    <3>1. Reads(p, g, c, rp[j], b + j, Doomed(p, c, rp))
      BY <1>1, <1>2, <2>1 DEF Matched
    <3>2. rz[j] = rp[j]
      BY <2>1 DEF Results
    <3>3. QED
      BY <1>9, <3>1, <3>2, StillReads
  <2>2. CASE j = m + 1
    <3>1. b + j = e
      BY <1>5, <2>2
    <3>2. QED
      BY <1>10, <2>2, <3>1
  <2>3. CASE \E k \in 1 .. n : j = m + 1 + k
    <3>1. PICK k \in 1 .. n : j = m + 1 + k
      BY <2>3
    <3>2. b + j = e + k
      BY <1>5, <3>1
    <3>3. QED
      BY <1>11, <3>1, <3>2
  <2>4. j \in 1 .. m + 1 + n
    BY <1>2
  <2>5. j \in 1 .. m \/ j = m + 1 \/ \E k \in 1 .. n : j = m + 1 + k
    BY <1>6, <2>4, Zenon
  <2>6. QED
    BY <2>1, <2>2, <2>3, <2>5
<1>13. Tail(rq) = <<>> /\ DOMAIN Tail(rq) = {}
  BY <1>4, TailIs, EmptyIs
<1>14. \A s \in Range(p) : IsRecv(s, c) => s.id[3] > b
  BY <1>1 DEF Matched
<1>15. Matched(p, g, c, b, rz, Tail(rq), nu, u)
  BY <1>12, <1>13, <1>14 DEF Matched, Batch
<1>16. QED
  BY <1>3, <1>15 DEF Line

(* The connection breaks.                                                        *)
LEMMA LineBreak ==
  ASSUME NEW p, NEW g, NEW c, NEW rp, IsSeq(rp), NEW rq, IsSeq(rq), NEW mu, NEW u,
         Line(p, g, c, rp, rq, mu, u), NEW k \in 0 .. Len(rp), NEW rz, IsSeq(rz), Len(rz) = k,
         \A j \in 1 .. k : rz[j] = rp[j]
  PROVE  Line(p, g, c, rz, <<>>, mu, FALSE)
<1>1. PICK b \in Nat : Matched(p, g, c, b, rp, rq, mu, u)
  BY DEF Line
<1>2. /\ Len(rp) \in Nat /\ DOMAIN rp = 1 .. Len(rp) /\ DOMAIN rz = 1 .. k
      /\ (rp = <<>> <=> Len(rp) = 0) /\ (rz = <<>> <=> k = 0)
  BY SeqIs DEF IsSeq
<1>3. DOMAIN <<>> = {}
  BY EmptyIs
<1>4. ASSUME NEW j \in DOMAIN rz PROVE Reads(p, g, c, rz[j], b + j, Doomed(p, c, rz))
  <2>1. j \in DOMAIN rp /\ rz # <<>> /\ rz[1] = rp[1] /\ rz[j] = rp[j]
    BY <1>2
  <2>2. Reads(p, g, c, rp[j], b + j, Doomed(p, c, rp))
    BY <1>1, <2>1 DEF Matched
  <2>3. Doomed(p, c, rp) => Doomed(p, c, rz)
    BY <2>1, StillDoomed
  <2>4. QED
    BY <2>1, <2>2, <2>3, StillReads
<1>5. \A s \in Range(p) : IsRecv(s, c) => s.id[3] > b
  BY <1>1 DEF Matched
<1>6. Matched(p, g, c, b, rz, <<>>, mu, FALSE)
  BY <1>3, <1>4, <1>5 DEF Matched, Batch
<1>7. rp = <<>> => rz = <<>>
  BY <1>2
<1>8. QED
  BY <1>6, <1>7 DEF Line, Quiet

-----------------------------------------------------------------------------
(* The actions preserve the invariant.                                           *)
Multis(v) ==
  /\ v \in [on : BOOLEAN, queue : {v.queue}, bad : BOOLEAN, watch : BOOLEAN]
  /\ IsSeq(v.queue) /\ (~v.on => v.queue = <<>>)

Elsewhere_ok(c) ==
  /\ DOMAIN req' = Socks /\ DOMAIN rep' = Socks /\ DOMAIN multi' = Socks
  /\ DOMAIN up' = Socks /\ DOMAIN sel' = Socks
  /\ \A d \in Socks : d # c =>
       req'[d] = req[d] /\ rep'[d] = rep[d] /\ multi'[d] = multi[d] /\ up'[d] = up[d] /\ sel'[d] = sel[d]

LEMMA OneServer ==
  ASSUME ClientInv, NEW c \in Socks, Elsewhere_ok(c),
         UNCHANGED <<load, db, call, steps, ret, out, truth, ncalls, strayed, odd, stale>>,
         Commands(load.dbs, req'[c]), IsSeq(rep'[c]), Multis(multi'[c]),
         sel'[c] \in load.dbs, up'[c] \in BOOLEAN, ~up'[c] => req'[c] = <<>>,
         strayed[c] = "no" =>
           /\ ret # "run" => Quiet(rep'[c], req'[c], multi'[c], up'[c])
           /\ ret = "run" => Line(steps, ncalls - 1, c, rep'[c], req'[c], multi'[c], up'[c])
  PROVE  ClientInv'
<1>1. TypeOK'
  BY DEF ClientInv, TypeOK, Elsewhere_ok
<1>2. ServerInv'
  <2>1. \A d \in Socks : /\ Commands(load'.dbs, req'[d]) /\ IsSeq(rep'[d]) /\ (~up'[d] => req'[d] = <<>>)
                         /\ Multis(multi'[d])
    BY DEF ClientInv, ServerInv, Elsewhere_ok, Multis
  <2>2. QED
    BY <2>1 DEF ServerInv, Elsewhere_ok, Multis
<1>3. CallInv'
  BY DEF ClientInv, CallInv
<1>4. \A d \in Socks : strayed'[d] \in {"no"} \cup ManyReplies
  BY DEF ClientInv
<1>5. ASSUME NEW d \in Socks, strayed'[d] = "no" PROVE ConInv(d)'
  <2>1. ConInv(d) /\ strayed[d] = "no"
    BY <1>5 DEF ClientInv
  <2>2. CASE d = c
    BY <2>1, <2>2 DEF ConInv
  <2>3. CASE d # c
    BY <2>1, <2>3 DEF ConInv, Elsewhere_ok
  <2>4. QED
    BY <2>2, <2>3
<1>6. QED
  BY <1>1, <1>2, <1>3, <1>4, <1>5 DEF ClientInv

LEMMA ConnectionIs ==
  ASSUME ClientInv, NEW c \in Socks
  PROVE  /\ DOMAIN req = Socks /\ DOMAIN rep = Socks /\ DOMAIN multi = Socks /\ DOMAIN up = Socks
         /\ DOMAIN sel = Socks /\ Commands(load.dbs, req[c]) /\ IsSeq(req[c]) /\ IsSeq(rep[c])
         /\ Multis(multi[c]) /\ (~up[c] => req[c] = <<>>)
         /\ up[c] \in BOOLEAN /\ sel[c] \in load.dbs
         /\ strayed[c] = "no" /\ (rep[c] # <<>> \/ req[c] # <<>>) =>
              ret = "run" /\ Line(steps, ncalls - 1, c, rep[c], req[c], multi[c], up[c])
BY DEF ClientInv, ServerInv, TypeOK, ConInv, Quiet, Commands, Multis

LEMMA TailCommands ==
  ASSUME NEW dbs, NEW qs, Commands(dbs, qs), qs # <<>>
  PROVE  Commands(dbs, Tail(qs)) /\ (qs[1].verb = "SELECT" => qs[1].keys[1] \in dbs)
<1>1. IsSeq(Tail(qs)) /\ Range(qs) = {qs[1]} \cup Range(Tail(qs))
  BY TailIs DEF Commands
<1>2. QED
  BY <1>1 DEF Commands

LEMMA ServeStep ==
  ASSUME ClientInv, NEW c \in Socks, Serve(c)
  PROVE  ClientInv'
<1> DEFINE rq == req[c]
           rp == rep[c]
           q == rq[1]
<1>1. /\ DOMAIN req = Socks /\ DOMAIN rep = Socks /\ DOMAIN multi = Socks /\ DOMAIN up = Socks
      /\ DOMAIN sel = Socks /\ Commands(load.dbs, rq) /\ IsSeq(rq) /\ IsSeq(rp)
      /\ Multis(multi[c]) /\ up[c] \in BOOLEAN /\ sel[c] \in load.dbs
  BY ConnectionIs
<1>2. up[c] /\ rq # <<>> /\ ~multi[c].on
  BY DEF Serve
<1>3. Head(rq) = q
  BY <1>1, <1>2, TailIs
<1>4. PICK a \in Answers(q.verb, q.keys) :
        /\ rep' = Reply(c, a, q.id)
        /\ sel' = IF q.verb = "SELECT" /\ a.done THEN [sel EXCEPT ![c] = q.keys[1]] ELSE sel
        /\ multi' = [multi EXCEPT ![c].on = (q.verb = "MULTI" /\ a.done),
                                  ![c].watch = @ \/ (q.verb = "WATCH" /\ a.done)]
  BY <1>3 DEF Serve
<1> DEFINE r == [reply |-> a.reply, done |-> a.done, id |-> q.id]
<1>5. DOMAIN rep' = Socks /\ rep'[c] = Append(rp, r) /\ \A d \in Socks : d # c => rep'[d] = rep[d]
  BY <1>1, <1>4 DEF Reply
<1>6. DOMAIN req' = Socks /\ req'[c] = Tail(rq) /\ \A d \in Socks : d # c => req'[d] = req[d]
  BY <1>1 DEF Serve
<1>7. /\ UNCHANGED <<load, db, call, steps, ret, out, truth, ncalls, strayed, odd, stale>>
      /\ up' = up
  BY DEF Serve
<1>8. r.id = q.id /\ r.reply = a.reply
  OBVIOUS
<1> HIDE DEF r
<1>9. /\ DOMAIN multi' = Socks /\ \A d \in Socks : d # c => multi'[d] = multi[d]
      /\ multi'[c] = [multi[c] EXCEPT !.on = (q.verb = "MULTI" /\ a.done),
                                      !.watch = @ \/ (q.verb = "WATCH" /\ a.done)]
  BY <1>1, <1>4
<1>10. /\ multi'[c].on = (q.verb = "MULTI" /\ a.done) /\ multi'[c].queue = <<>>
       /\ Multis(multi'[c])
  <2>1. multi[c] \in [on : BOOLEAN, queue : {multi[c].queue}, bad : BOOLEAN, watch : BOOLEAN]
        /\ multi[c].queue = <<>> /\ IsSeq(multi[c].queue)
    BY <1>1, <1>2 DEF Multis
  <2>2. PICK y : y = multi[c].queue
    OBVIOUS
  <2>3. multi'[c].on = (q.verb = "MULTI" /\ a.done) /\ multi'[c].queue = y
        /\ multi'[c] \in [on : BOOLEAN, queue : {y}, bad : BOOLEAN, watch : BOOLEAN]
    BY <1>9, <2>1, <2>2
  <2>4. QED
    BY <2>1, <2>2, <2>3 DEF Multis
<1>11. Commands(load.dbs, Tail(rq)) /\ (q.verb = "SELECT" => q.keys[1] \in load.dbs)
  BY <1>1, <1>2, TailCommands
<1>12. DOMAIN sel' = Socks /\ sel'[c] \in load.dbs /\ \A d \in Socks : d # c => sel'[d] = sel[d]
  BY <1>1, <1>4, <1>11
<1>13. IsSeq(rep'[c])
  BY <1>1, <1>5, AppendIs
<1>14. ASSUME strayed[c] = "no"
       PROVE  ret = "run" /\ Line(steps, ncalls - 1, c, rep'[c], req'[c], multi'[c], up'[c])
  <2>1. ret = "run" /\ Line(steps, ncalls - 1, c, rp, rq, multi[c], up[c])
    BY <1>2, <1>14, ConnectionIs
  <2> HIDE DEF rp, rq
  <2>2. Line(steps, ncalls - 1, c, Append(rp, r), Tail(rq), multi'[c], up[c])
    BY <1>1, <1>2, <1>8, <1>10, <2>1, LineServe
  <2>3. QED
    BY <1>5, <1>6, <1>7, <2>1, <2>2
<1>15. Elsewhere_ok(c)
  BY <1>1, <1>5, <1>6, <1>7, <1>9, <1>12 DEF Elsewhere_ok
<1>16. QED
  BY <1>1, <1>2, <1>6, <1>7, <1>10, <1>11, <1>12, <1>13, <1>14, <1>15, OneServer

LEMMA EnqueueStep ==
  ASSUME ClientInv, NEW c \in Socks, Enqueue(c)
  PROVE  ClientInv'
<1> DEFINE rq == req[c]
           rp == rep[c]
           q == rq[1]
<1>1. /\ DOMAIN req = Socks /\ DOMAIN rep = Socks /\ DOMAIN multi = Socks /\ DOMAIN up = Socks
      /\ DOMAIN sel = Socks /\ Commands(load.dbs, rq) /\ IsSeq(rq) /\ IsSeq(rp)
      /\ Multis(multi[c]) /\ up[c] \in BOOLEAN /\ sel[c] \in load.dbs
  BY ConnectionIs
<1>2. up[c] /\ rq # <<>> /\ multi[c].on
  BY DEF Enqueue
<1>3. Head(rq) = q
  BY <1>1, <1>2, TailIs
<1>4. q.verb # "EXEC"
  BY <1>3 DEF Enqueue
<1>5. IsSeq(multi[c].queue) /\ Len(multi[c].queue) \in Nat
  <2>1. IsSeq(multi[c].queue)
    BY <1>1 DEF Multis
  <2>2. QED
    BY <2>1, SeqIs DEF IsSeq
<1>6. \E a, y :
        /\ a.reply \in {Status(QUEUED), Err(0)} /\ rep' = Reply(c, a, q.id)
        /\ y \in {multi[c].queue, Append(multi[c].queue, q)}
        /\ DOMAIN multi' = Socks /\ \A d \in Socks : d # c => multi'[d] = multi[d]
        /\ multi'[c].on /\ multi'[c].queue = y
        /\ multi'[c] \in [on : BOOLEAN, queue : {y}, bad : BOOLEAN, watch : BOOLEAN]
  <2>1. PICK x : x = multi[c].queue
    OBVIOUS
  <2>2. multi[c] \in [on : BOOLEAN, queue : {x}, bad : BOOLEAN, watch : BOOLEAN]
    BY <1>1, <2>1 DEF Multis
  <2>3. Done(Status(QUEUED)).reply = Status(QUEUED) /\ Refused(Err(0)).reply = Err(0)
    BY DEF Done, Refused
  <2>4. ASSUME rep' = Reply(c, Done(Status(QUEUED)), q.id),
               multi' = [multi EXCEPT ![c].queue = Append(@, q)]
        PROVE  \E a, y :
        /\ a.reply \in {Status(QUEUED), Err(0)} /\ rep' = Reply(c, a, q.id)
        /\ y \in {multi[c].queue, Append(multi[c].queue, q)}
        /\ DOMAIN multi' = Socks /\ \A d \in Socks : d # c => multi'[d] = multi[d]
        /\ multi'[c].on /\ multi'[c].queue = y
        /\ multi'[c] \in [on : BOOLEAN, queue : {y}, bad : BOOLEAN, watch : BOOLEAN]
    <3>1. PICK y : y = Append(multi[c].queue, q)
      OBVIOUS
    <3>2. /\ DOMAIN multi' = Socks /\ (\A d \in Socks : d # c => multi'[d] = multi[d])
          /\ multi'[c] = [multi[c] EXCEPT !.queue = y]
      BY <1>1, <2>4, <3>1
    <3>3. /\ multi'[c].on /\ multi'[c].queue = y
          /\ multi'[c] \in [on : BOOLEAN, queue : {y}, bad : BOOLEAN, watch : BOOLEAN]
      BY <1>2, <2>2, <3>2
    <3>4. QED
      BY <2>3, <2>4, <3>1, <3>2, <3>3
  <2>5. ASSUME rep' = Reply(c, Refused(Err(0)), q.id),
               multi' = [multi EXCEPT ![c].bad = TRUE]
        PROVE  \E a, y :
        /\ a.reply \in {Status(QUEUED), Err(0)} /\ rep' = Reply(c, a, q.id)
        /\ y \in {multi[c].queue, Append(multi[c].queue, q)}
        /\ DOMAIN multi' = Socks /\ \A d \in Socks : d # c => multi'[d] = multi[d]
        /\ multi'[c].on /\ multi'[c].queue = y
        /\ multi'[c] \in [on : BOOLEAN, queue : {y}, bad : BOOLEAN, watch : BOOLEAN]
    <3>1. /\ DOMAIN multi' = Socks /\ (\A d \in Socks : d # c => multi'[d] = multi[d])
          /\ multi'[c] = [multi[c] EXCEPT !.bad = TRUE]
      BY <1>1, <2>5
    <3>2. /\ multi'[c].on /\ multi'[c].queue = x
          /\ multi'[c] \in [on : BOOLEAN, queue : {x}, bad : BOOLEAN, watch : BOOLEAN]
      BY <1>2, <2>1, <2>2, <3>1
    <3>3. QED
      BY <2>1, <2>3, <2>5, <3>1, <3>2
  <2>6. \/ /\ rep' = Reply(c, Done(Status(QUEUED)), q.id)
           /\ multi' = [multi EXCEPT ![c].queue = Append(@, q)]
        \/ /\ rep' = Reply(c, Refused(Err(0)), q.id)
           /\ multi' = [multi EXCEPT ![c].bad = TRUE]
    BY <1>3 DEF Enqueue
  <2>7. QED
    BY <2>4, <2>5, <2>6
<1>7. PICK a, y :
        /\ a.reply \in {Status(QUEUED), Err(0)} /\ rep' = Reply(c, a, q.id)
        /\ y \in {multi[c].queue, Append(multi[c].queue, q)}
        /\ DOMAIN multi' = Socks /\ \A d \in Socks : d # c => multi'[d] = multi[d]
        /\ multi'[c].on /\ multi'[c].queue = y
        /\ multi'[c] \in [on : BOOLEAN, queue : {y}, bad : BOOLEAN, watch : BOOLEAN]
  BY <1>6
<1> DEFINE r == [reply |-> a.reply, done |-> a.done, id |-> q.id]
<1>8. DOMAIN rep' = Socks /\ rep'[c] = Append(rp, r) /\ \A d \in Socks : d # c => rep'[d] = rep[d]
  BY <1>1, <1>7 DEF Reply
<1>9. DOMAIN req' = Socks /\ req'[c] = Tail(rq) /\ \A d \in Socks : d # c => req'[d] = req[d]
  BY <1>1 DEF Enqueue
<1>10. /\ UNCHANGED <<load, db, call, steps, ret, out, truth, ncalls, strayed, odd, stale>>
      /\ up' = up /\ sel' = sel
  BY DEF Enqueue
<1>11. r.id = q.id /\ r.reply \in {Status(QUEUED), Err(0)}
  BY <1>7
<1> HIDE DEF r
<1>12. IsSeq(y) /\ Len(y) \in Nat /\ Len(y) <= Len(multi[c].queue) + 1
  <2>1. CASE y = multi[c].queue
    BY <1>5, <2>1
  <2>2. CASE y = Append(multi[c].queue, q)
    <3>1. IsSeq(y) /\ Len(y) = Len(multi[c].queue) + 1
      BY <1>5, <2>2, AppendIs
    <3>2. QED
      BY <1>5, <3>1
  <2>3. QED
    BY <1>7, <2>1, <2>2
<1>13. multi'[c].on /\ multi'[c].queue = y /\ Multis(multi'[c])
  BY <1>7, <1>12 DEF Multis
<1>14. Commands(load.dbs, Tail(rq))
  BY <1>1, <1>2, TailCommands
<1>15. IsSeq(rep'[c])
  BY <1>1, <1>8, AppendIs
<1>16. ASSUME strayed[c] = "no"
       PROVE  ret = "run" /\ Line(steps, ncalls - 1, c, rep'[c], req'[c], multi'[c], up'[c])
  <2>1. ret = "run" /\ Line(steps, ncalls - 1, c, rp, rq, multi[c], up[c])
    BY <1>2, <1>16, ConnectionIs
  <2> HIDE DEF rp, rq
  <2>2. Line(steps, ncalls - 1, c, Append(rp, r), Tail(rq), multi'[c], up[c])
    BY <1>1, <1>2, <1>4, <1>11, <1>5, <1>12, <1>13, <2>1, LineEnqueue
  <2>3. QED
    BY <1>8, <1>9, <1>10, <2>1, <2>2
<1>17. Elsewhere_ok(c)
  BY <1>1, <1>7, <1>8, <1>9, <1>10 DEF Elsewhere_ok
<1>18. QED
  BY <1>1, <1>2, <1>9, <1>10, <1>13, <1>14, <1>15, <1>16, <1>17, OneServer

LEMMA FunctionIsSeq ==
  ASSUME NEW n \in Nat, NEW f, f = [k \in 1 .. n |-> f[k]]
  PROVE  IsSeq(f) /\ Len(f) = n /\ DOMAIN f = 1 .. n
<1>1. DOMAIN f = 1 .. n
  OBVIOUS
<1>2. f \in [1 .. n -> Range(f)]
  BY <1>1 DEF Range
<1>3. f \in Seq(Range(f))
  BY <1>2, SeqDef
<1>4. Len(f) \in Nat /\ 1 .. Len(f) = 1 .. n
  BY <1>1, <1>3, LenProperties
<1>5. Len(f) = n
  BY <1>4
<1>6. QED
  BY <1>1, <1>3, <1>5 DEF IsSeq

LEMMA OneIsSeq ==
  ASSUME NEW h
  PROVE  IsSeq(<<h>>) /\ Len(<<h>>) = 1 /\ <<h>>[1] = h /\ Range(<<h>>) = {h} /\ DOMAIN <<h>> = {1}
<1> DEFINE f == <<h>>
<1>1. f = [k \in 1 .. 1 |-> f[k]] /\ f[1] = h
  OBVIOUS
<1> HIDE DEF f
<1>2. IsSeq(f) /\ Len(f) = 1 /\ DOMAIN f = 1 .. 1
  BY <1>1, FunctionIsSeq
<1>3. Range(f) = {h} /\ DOMAIN f = {1}
  BY <1>1, <1>2 DEF Range
<1>4. QED
  BY <1>1, <1>2, <1>3 DEF f

LEMMA ElementIs ==
  ASSUME NEW a \in Answers("GET", << 1 >>), NEW x
  PROVE  (IF a.reply.t = "$" THEN Bulk(x) ELSE a.reply).t # "*"
<1>1. "GET" \in TextVerbs /\ \A v \in TextVerbs : v \notin OkVerbs \cup {"TYPE", "BGSAVE"} \cup TestVerbs \cup CountVerbs
  BY DEF TextVerbs, OkVerbs, TestVerbs, CountVerbs
<1>2. a \in {Refused(Err(0)), Done(Bulk(<< 1 >>[1])), Refused(Nil)}
  BY DEF Answers, OkVerbs, TestVerbs, CountVerbs, TextVerbs, ListVerbs
<1>3. Refused(Err(0)).reply.t = "-" /\ Refused(Nil).reply.t = "nil" /\ Bulk(x).t = "$"
      /\ \A n : Done(Bulk(n)).reply.t = "$"
  BY DEF Refused, Done, Err, Nil, Bulk
<1>4. QED
  BY <1>2, <1>3

LEMMA ExecStep ==
  ASSUME ClientInv, NEW c \in Socks, Exec(c)
  PROVE  ClientInv'
<1> DEFINE rq == req[c]
           rp == rep[c]
           q == rq[1]
           mu == multi[c]
<1>1. /\ DOMAIN req = Socks /\ DOMAIN rep = Socks /\ DOMAIN multi = Socks /\ DOMAIN up = Socks
      /\ DOMAIN sel = Socks /\ Commands(load.dbs, rq) /\ IsSeq(rq) /\ IsSeq(rp)
      /\ Multis(mu) /\ up[c] \in BOOLEAN /\ sel[c] \in load.dbs
  BY ConnectionIs
<1>2. up[c] /\ rq # <<>>
  BY DEF Exec
<1>3. Head(rq) = q
  BY <1>1, <1>2, TailIs
<1>4. q.verb = "EXEC"
  BY <1>3 DEF Exec
<1>5. DOMAIN req' = Socks /\ req'[c] = Tail(rq) /\ \A d \in Socks : d # c => req'[d] = req[d]
  BY <1>1 DEF Exec
<1>6. /\ UNCHANGED <<load, db, call, steps, ret, out, truth, ncalls, strayed, odd, stale>>
      /\ up' = up /\ sel' = sel
  BY DEF Exec
<1>7. /\ DOMAIN multi' = Socks /\ \A d \in Socks : d # c => multi'[d] = multi[d]
      /\ multi'[c] = Clear
  BY <1>1 DEF Exec
<1>8. ~multi'[c].on /\ Multis(multi'[c])
  <2>1. PICK v : v = <<>>
    OBVIOUS
  <2>2. Clear = [on |-> FALSE, queue |-> v, bad |-> FALSE, watch |-> FALSE]
    BY <2>1 DEF Clear
  <2>3. IsSeq(v)
    BY <2>1, EmptyIs
  <2>4. Clear.queue = v /\ ~Clear.on /\ Clear \in [on : BOOLEAN, queue : {v}, bad : BOOLEAN, watch : BOOLEAN]
    BY <2>2
  <2>5. QED
    BY <1>7, <2>1, <2>3, <2>4 DEF Multis
<1>9. Commands(load.dbs, Tail(rq))
  BY <1>1, <1>2, TailCommands
<1>10. strayed[c] = "no" => ret = "run" /\ Line(steps, ncalls - 1, c, rp, rq, mu, up[c])
  BY <1>2, ConnectionIs
<1> SUFFICES /\ DOMAIN rep' = Socks /\ \A d \in Socks : d # c => rep'[d] = rep[d]
             /\ IsSeq(rep'[c])
             /\ strayed[c] = "no" => Line(steps, ncalls - 1, c, rep'[c], Tail(rq), multi'[c], up[c])
  <2>1. Elsewhere_ok(c)
    BY <1>1, <1>5, <1>6, <1>7 DEF Elsewhere_ok
  <2>2. QED
    BY <1>1, <1>2, <1>5, <1>6, <1>8, <1>9, <1>10, <2>1, OneServer
<1>11. ASSUME NEW e \in {Err(0), Err(1), NilMulti}, rep' = Reply(c, Refused(e), q.id)
       PROVE  /\ DOMAIN rep' = Socks /\ \A d \in Socks : d # c => rep'[d] = rep[d]
              /\ IsSeq(rep'[c])
              /\ strayed[c] = "no" => Line(steps, ncalls - 1, c, rep'[c], Tail(rq), multi'[c], up[c])
  <2> DEFINE r == [reply |-> Refused(e).reply, done |-> Refused(e).done, id |-> q.id]
  <2>1. DOMAIN rep' = Socks /\ rep'[c] = Append(rp, r) /\ \A d \in Socks : d # c => rep'[d] = rep[d]
    BY <1>1, <1>11 DEF Reply
  <2>2. r.id = q.id /\ r.reply \in {Err(0), Err(1), NilMulti}
    BY <1>11 DEF Refused
  <2> HIDE DEF r
  <2>3. IsSeq(rep'[c])
    BY <1>1, <2>1, AppendIs
  <2> HIDE DEF rp, rq, mu
  <2>4. strayed[c] = "no" => Line(steps, ncalls - 1, c, Append(rp, r), Tail(rq), multi'[c], up[c])
    BY <1>1, <1>2, <1>4, <1>8, <1>10, <2>2, LineRefuse
  <2>5. QED
    BY <2>1, <2>3, <2>4
<1> DEFINE n == Len(mu.queue)
           m == Len(rp)
           h == [reply |-> Multi(<<>>), done |-> TRUE, id |-> q.id]
<1>12. ASSUME mu.on, NEW a \in [1 .. n -> Answers("GET", << 1 >>)],
              rep' = [rep EXCEPT ![c] = @ \o <<h>>
                   \o [k \in 1 .. n |->
                         [reply |-> IF a[k].reply.t = "$" THEN Bulk(mu.queue[k].keys[1])
                                    ELSE a[k].reply,
                          done |-> a[k].done, id |-> <<q.id[1], c, q.id[3] + k>>]]]
       PROVE  /\ DOMAIN rep' = Socks /\ \A d \in Socks : d # c => rep'[d] = rep[d]
              /\ IsSeq(rep'[c])
              /\ strayed[c] = "no" => Line(steps, ncalls - 1, c, rep'[c], Tail(rq), multi'[c], up[c])
  <2> DEFINE es == [k \in 1 .. n |->
                     [reply |-> IF a[k].reply.t = "$" THEN Bulk(mu.queue[k].keys[1])
                                ELSE a[k].reply,
                      done |-> a[k].done, id |-> <<q.id[1], c, q.id[3] + k>>]]
             rz == rp \o <<h>> \o es
  <2>1. DOMAIN rep' = Socks /\ rep'[c] = rz /\ \A d \in Socks : d # c => rep'[d] = rep[d]
    BY <1>1, <1>12
  <2>2. n \in Nat /\ m \in Nat
    BY <1>1, SeqIs DEF Multis, IsSeq
  <2>3. h.id = q.id /\ h.reply.t = "*" /\ h.reply.e = <<>>
    <3>1. PICK v : v = <<>>
      OBVIOUS
    <3>2. h = [reply |-> [t |-> "*", v |-> 0, e |-> v], done |-> TRUE, id |-> q.id]
      BY <3>1 DEF Multi
    <3>3. QED
      BY <3>1, <3>2
  <2>4. ASSUME NEW k \in 1 .. n PROVE es[k].id = <<q.id[1], c, q.id[3] + k>> /\ es[k].reply.t # "*"
    <3>1. a[k] \in Answers("GET", << 1 >>)
      OBVIOUS
    <3>2. es[k].reply = IF a[k].reply.t = "$" THEN Bulk(mu.queue[k].keys[1]) ELSE a[k].reply
      OBVIOUS
    <3>3. es[k].id = <<q.id[1], c, q.id[3] + k>>
      OBVIOUS
    <3>4. QED
      BY <3>1, <3>2, <3>3, ElementIs
  <2>5. IsSeq(es) /\ Len(es) = n
    <3>1. es = [k \in 1 .. n |-> es[k]]
      OBVIOUS
    <3> HIDE DEF es
    <3>2. QED
      BY <2>2, <3>1, FunctionIsSeq
  <2> HIDE DEF es, h
  <2>6. IsSeq(<<h>>) /\ Len(<<h>>) = 1 /\ <<h>>[1] = h
    BY OneIsSeq
  <2> DEFINE ry == rp \o <<h>>
  <2>7. IsSeq(ry) /\ Len(ry) = m + 1 /\ (\A j \in 1 .. m : ry[j] = rp[j]) /\ ry[m + 1] = h
    <3>1. /\ IsSeq(ry) /\ Len(ry) = m + 1
          /\ \A j \in 1 .. m + 1 : ry[j] = IF j <= m THEN rp[j] ELSE <<h>>[j - m]
      BY <1>1, <2>6, JoinIs
    <3>2. \A j \in 1 .. m : ry[j] = rp[j]
      BY <2>2, <3>1
    <3>3. m + 1 \in 1 .. m + 1 /\ ~(m + 1 <= m) /\ m + 1 - m = 1
      BY <2>2
    <3>4. QED
      BY <2>6, <3>1, <3>2, <3>3
  <2> HIDE DEF ry
  <2>8. /\ IsSeq(rz) /\ Len(rz) = m + 1 + n
        /\ (\A j \in 1 .. m + 1 : rz[j] = ry[j]) /\ (\A k \in 1 .. n : rz[m + 1 + k] = es[k])
    <3> HIDE DEF m, n, rz, rp, rq, mu
    <3>1. /\ IsSeq(ry \o es) /\ Len(ry \o es) = (m + 1) + n
          /\ \A j \in 1 .. (m + 1) + n : (ry \o es)[j] = IF j <= m + 1 THEN ry[j] ELSE es[j - (m + 1)]
          /\ \A k \in 1 .. n : (ry \o es)[(m + 1) + k] = es[k]
      <4>1. IsSeq(ry) /\ IsSeq(es)
        BY <2>5, <2>7
      <4>2. Len(ry) = m + 1 /\ Len(es) = n
        BY <2>5, <2>7
      <4>3. /\ IsSeq(ry \o es) /\ Len(ry \o es) = Len(ry) + Len(es)
            /\ \A j \in 1 .. Len(ry) + Len(es) : (ry \o es)[j] = IF j <= Len(ry) THEN ry[j] ELSE es[j - Len(ry)]
            /\ \A k \in 1 .. Len(es) : (ry \o es)[Len(ry) + k] = es[k]
        BY <4>1, JoinIs
      <4>4. QED
        BY <4>2, <4>3, Zenon
    <3>2. rz = ry \o es
      BY DEF ry, rz
    <3>3. \A j \in 1 .. m + 1 : j \in 1 .. (m + 1) + n /\ j <= m + 1
      BY <2>2
    <3>4. QED
      BY <3>1, <3>2, <3>3
  <2> HIDE DEF rz
  <2>9. Lengths(rz, rp, mu, m, n)
    BY <2>8 DEF Lengths
  <2>10. Results(rz, rp, q.id, c, m, n)
    <3>1. \A j \in 1 .. m : rz[j] = rp[j]
      <4>1. \A j \in 1 .. m : j \in 1 .. m + 1
        BY <2>2
      <4>2. QED
        BY <2>7, <2>8, <4>1
    <3>2. rz[m + 1] = h
      <4>1. m + 1 \in 1 .. m + 1
        BY <2>2
      <4>2. QED
        BY <2>7, <2>8, <4>1
    <3>3. \A k \in 1 .. n : rz[m + 1 + k].id = <<q.id[1], c, q.id[3] + k>> /\ rz[m + 1 + k].reply.t # "*"
      BY <2>4, <2>8
    <3>4. QED
      BY <2>3, <3>1, <3>2, <3>3, Zenon DEF Results
  <2> HIDE DEF rp, rq, mu, m, n
  <2>11. strayed[c] = "no" => Line(steps, ncalls - 1, c, rz, Tail(rq), multi'[c], up[c])
    BY <1>1, <1>2, <1>4, <1>8, <1>10, <1>12, <2>2, <2>8, <2>9, <2>10, LineExec
  <2>12. QED
    BY <2>1, <2>8, <2>11
<1>13. \/ \E e \in {Err(0), Err(1), NilMulti} : rep' = Reply(c, Refused(e), q.id)
       \/ /\ mu.on
          /\ \E a \in [1 .. n -> Answers("GET", << 1 >>)] :
              rep' = [rep EXCEPT ![c] = @ \o <<h>>
                   \o [k \in 1 .. n |->
                         [reply |-> IF a[k].reply.t = "$" THEN Bulk(mu.queue[k].keys[1])
                                    ELSE a[k].reply,
                          done |-> a[k].done, id |-> <<q.id[1], c, q.id[3] + k>>]]]
  BY <1>3, ZenonT(60) DEF Exec
<1>14. QED
  BY <1>11, <1>12, <1>13

LEMMA BreakStep ==
  ASSUME ClientInv, NEW c \in Socks, Break(c)
  PROVE  ClientInv'
<1> DEFINE rp == rep[c]
<1>1. /\ DOMAIN req = Socks /\ DOMAIN rep = Socks /\ DOMAIN multi = Socks /\ DOMAIN up = Socks
      /\ DOMAIN sel = Socks /\ IsSeq(req[c]) /\ IsSeq(rp) /\ Multis(multi[c]) /\ sel[c] \in load.dbs
  BY ConnectionIs
<1>2. PICK k \in 0 .. Len(rp) : rep' = [rep EXCEPT ![c] = SubSeq(@, 1, k)]
  BY DEF Break
<1> DEFINE rz == SubSeq(rp, 1, k)
<1>3. DOMAIN rep' = Socks /\ rep'[c] = rz /\ \A d \in Socks : d # c => rep'[d] = rep[d]
  BY <1>1, <1>2
<1>4. /\ DOMAIN req' = Socks /\ req'[c] = <<>> /\ \A d \in Socks : d # c => req'[d] = req[d]
      /\ DOMAIN up' = Socks /\ up'[c] = FALSE /\ \A d \in Socks : d # c => up'[d] = up[d]
  BY <1>1 DEF Break
<1>5. /\ UNCHANGED <<load, db, call, steps, ret, out, truth, ncalls, strayed, odd, stale>>
      /\ multi' = multi /\ sel' = sel
  BY DEF Break
<1>6. /\ Len(rp) \in Nat /\ DOMAIN rp = 1 .. Len(rp) /\ (rp = <<>> <=> Len(rp) = 0) /\ rp \in Seq(Range(rp))
  BY <1>1, SeqIs DEF IsSeq
<1>7. IsSeq(rz) /\ Len(rz) = k /\ \A j \in 1 .. k : rz[j] = rp[j]
  <2>1. k \in Int /\ 0 <= k /\ k <= Len(rp)
    BY <1>6
  <2>2. \A j \in 1 .. k : rp[j] \in Range(rp)
    BY <1>6, <2>1 DEF Range
  <2>3. /\ rz \in Seq(Range(rp))
        /\ Len(rz) = IF 1 <= k THEN k - 1 + 1 ELSE 0
        /\ \A j \in 1 .. k - 1 + 1 : rz[j] = rp[1 + j - 1]
    BY <2>1, <2>2, SubSeqProperties
  <2> HIDE DEF rz, rp
  <2>4. Len(rz) = k
    BY <2>1, <2>3
  <2>5. IsSeq(rz)
    BY <2>3, SeqIs
  <2>6. ASSUME NEW j \in 1 .. k PROVE rz[j] = rp[j]
    <3>1. j \in 1 .. k - 1 + 1 /\ 1 + j - 1 = j
      BY <2>1
    <3>2. QED
      BY <2>3, <3>1
  <2>7. QED
    BY <2>4, <2>5, <2>6
<1>8. Commands(load.dbs, <<>>)
  BY EmptyIs DEF Commands
<1>9. ASSUME strayed[c] = "no", ret = "run"
      PROVE  Line(steps, ncalls - 1, c, rz, <<>>, multi[c], FALSE)
  <2>1. Line(steps, ncalls - 1, c, rp, req[c], multi[c], up[c])
    BY <1>9 DEF ClientInv, ConInv
  <2> HIDE DEF rz, rp
  <2>2. QED
    BY <1>1, <1>2, <1>7, <2>1, LineBreak
<1>10. ASSUME strayed[c] = "no", ret # "run"
       PROVE  Quiet(rz, <<>>, multi[c], FALSE)
  <2>1. rp = <<>>
    BY <1>10 DEF ClientInv, ConInv, Quiet
  <2>2. k = 0
    BY <1>6, <2>1
  <2>3. rz = <<>>
    <3>1. 0 \in Int /\ 1 \in Int /\ 0 < 1
      OBVIOUS
    <3>2. SubSeq(rp, 1, 0) = <<>>
      BY <3>1, SubSeqEmpty
    <3>3. QED
      BY <2>2, <3>2
  <2>4. QED
    BY <2>3 DEF Quiet
<1>11. Elsewhere_ok(c)
  BY <1>1, <1>3, <1>4, <1>5 DEF Elsewhere_ok
<1> HIDE DEF rz, rp
<1>12. QED
  BY <1>1, <1>3, <1>4, <1>5, <1>7, <1>8, <1>9, <1>10, <1>11, OneServer

-----------------------------------------------------------------------------
(* The client's own steps.                                                       *)
LEMMA SendOrNoMore ==
  ASSUME NEW p, IsSeq(p), p # <<>>, Alternating(p), NEW c
  PROVE  (\E s \in Range(p) : IsSend(s, c)) \/ (\A s \in Range(Tail(p)) : ~IsRecv(s, c))
<1> SUFFICES ASSUME NEW s \in Range(Tail(p)), IsRecv(s, c) PROVE \E z \in Range(p) : IsSend(z, c)
  OBVIOUS
<1>1. /\ DOMAIN Tail(p) = 1 .. Len(p) - 1 /\ Len(p) \in Nat /\ DOMAIN p = 1 .. Len(p)
      /\ \A k \in 1 .. Len(p) - 1 : Tail(p)[k] = p[k + 1]
  BY TailIs
<1>2. PICK k \in 1 .. Len(p) - 1 : s = Tail(p)[k]
  BY <1>1 DEF Range
<1>3. s = p[k + 1] /\ k + 1 \in 2 .. Len(p) /\ (k + 1) - 1 = k /\ k \in DOMAIN p
  BY <1>1, <1>2
<1>4. IsSend(p[k], c)
  BY <1>3 DEF Alternating, IsRecv
<1>5. p[k] \in Range(p)
  BY <1>3, RangeHas
<1>6. QED
  BY <1>4, <1>5

LEMMA LineLast ==
  ASSUME NEW p, IsSeq(p), p # <<>>, InOrder(p), NEW g, NEW c, NEW rp, IsSeq(rp), rp # <<>>,
         NEW rq, IsSeq(rq), NEW mu, NEW u, Line(p, g, c, rp, rq, mu, u),
         IsRecv(p[1], c), NEW i \in Nat, p[1].id = <<g, c, i>>,
         \A s \in Range(Tail(p)) : ~IsRecv(s, c)
  PROVE  Quiet(Tail(rp), rq, mu, u)
<1>1. PICK b \in Nat : Matched(p, g, c, b, rp, rq, mu, u)
  BY DEF Line
<1>2. \A s \in Range(p) : IsRecv(s, c) => s = p[1]
  BY TailIs
<1>3. /\ Len(rp) \in Nat /\ DOMAIN rp = 1 .. Len(rp) /\ Len(rp) > 0
      /\ Len(rq) \in Nat /\ DOMAIN rq = 1 .. Len(rq) /\ (rq = <<>> <=> Len(rq) = 0)
  BY SeqIs DEF IsSeq
<1>4. i = b + 1
  <2>1. 1 \in DOMAIN rp
    BY <1>3
  <2>2. PICK s \in Range(p) : Waits(s, g, c, b + 1)
    BY <1>1, <2>1 DEF Matched, Reads
  <2>3. QED
    BY <1>2, <2>2 DEF Waits
<1>5. \A j \in DOMAIN rp : j = 1
  <2> SUFFICES ASSUME NEW j \in DOMAIN rp PROVE j = 1
    OBVIOUS
  <2>1. PICK s \in Range(p) : Waits(s, g, c, b + j)
    BY <1>1 DEF Matched, Reads
  <2>2. b + j = i
    BY <1>2, <2>1 DEF Waits
  <2>3. QED
    BY <1>3, <1>4, <2>2
<1>6. Len(rp) = 1
  <2>1. Len(rp) \in DOMAIN rp
    BY <1>3
  <2>2. QED
    BY <1>5, <2>1
<1>7. DOMAIN rq = {}
  <2> SUFFICES ASSUME NEW j \in DOMAIN rq PROVE FALSE
    OBVIOUS
  <2>1. PICK s \in Range(p) : Waits(s, g, c, b + Len(rp) + j)
    BY <1>1 DEF Matched, Awaited
  <2>2. b + Len(rp) + j = i
    BY <1>2, <2>1 DEF Waits
  <2>3. QED
    BY <1>3, <1>4, <1>6, <2>2
<1>8. rq = <<>>
  BY <1>3, <1>7
<1>9. Tail(rp) = <<>>
  BY <1>6, TailIs
<1>10. QED
  BY <1>1, <1>8, <1>9 DEF Matched, Quiet

(* What every step of the client leaves well-formed.                             *)
Typed ==
  /\ UNCHANGED <<load, multi, up, sel, call, ncalls>>
  /\ DOMAIN req' = Socks /\ DOMAIN rep' = Socks /\ DOMAIN db' = Socks /\ DOMAIN odd' = Socks
  /\ DOMAIN stale' = Socks /\ truth' \in BOOLEAN
  /\ \A c \in Socks :
       /\ Commands(load.dbs, req'[c]) /\ IsSeq(rep'[c]) /\ (~up[c] => req'[c] = <<>>)
       /\ db'[c] \in load.dbs /\ odd'[c] \in BOOLEAN /\ stale'[c] \in BOOLEAN
       /\ strayed[c] = "no" => ~odd'[c]

LEMMA ServerInvKept ==
  ASSUME ClientInv, Typed
  PROVE  ServerInv'
<1>1. \A c \in Socks :
        /\ Commands(load'.dbs, req'[c]) /\ IsSeq(rep'[c]) /\ (~up'[c] => req'[c] = <<>>)
        /\ multi'[c] = multi[c]
  BY DEF Typed
<1>2. QED
  BY <1>1 DEF ServerInv, ClientInv, Typed

LEMMA Continued ==
  ASSUME ClientInv, ret = "run", Typed, steps' = Tail(steps), UNCHANGED <<ret, strayed>>,
         Good(steps, ncalls - 1, load.dbs, call.m \in ManyReplies), Len(steps) # 1,
         \A c \in Socks : strayed[c] = "no" =>
           Line(Tail(steps), ncalls - 1, c, rep'[c], req'[c], multi[c], up[c])
  PROVE  ClientInv'
<1>1. IsSeq(steps) /\ steps # <<>> /\ ncalls > 0
  BY DEF ClientInv, CallInv, PlanOK
<1>2. IsSeq(Tail(steps)) /\ Tail(steps) # <<>> /\ Good(Tail(steps), ncalls - 1, load.dbs, call.m \in ManyReplies)
  BY <1>1, GoodTail
<1>3. PlanOK(steps', ncalls' - 1, load'.dbs, call'.m \in ManyReplies)
  BY <1>2 DEF PlanOK, Typed
<1>4. CallInv'
  BY <1>1, <1>3 DEF CallInv, ClientInv, Typed
<1>5. ServerInv'
  BY ServerInvKept
<1>6. TypeOK'
  BY <1>1, <1>2 DEF TypeOK, ClientInv, Typed
<1>7. ASSUME NEW c \in Socks, strayed'[c] = "no" PROVE ConInv(c)'
  BY <1>7 DEF ConInv, Typed
<1>8. QED
  BY <1>4, <1>5, <1>6, <1>7 DEF ClientInv

LEMMA Finished ==
  ASSUME ClientInv, ret = "run", Typed, NEW how \in {"ok", "throw", "closed"}, NEW left, Finish(how, left),
         how # "ok" => \A c \in Socks : left[c] = rep'[c] \o req'[c],
         \A c \in Socks : strayed[c] = "no" /\ req'[c] = <<>> /\ up[c] => ~multi[c].on,
         how = "ok" \/ call.m \notin ManyReplies =>
           \A c \in Socks : strayed[c] = "no" => rep'[c] = <<>> /\ req'[c] = <<>>
  PROVE  ClientInv'
<1>1. /\ ret' = how /\ ret' # "run" /\ steps' = <<>> /\ DOMAIN strayed' = Socks
      /\ \A c \in Socks : strayed'[c] =
           IF how # "ok" /\ left[c] # <<>> /\ strayed[c] = "no" THEN call.m ELSE strayed[c]
  BY DEF Finish
<1>2. ServerInv'
  BY ServerInvKept
<1>3. CallInv'
  BY <1>1 DEF CallInv, ClientInv, Typed
<1>4. TypeOK'
  BY <1>1 DEF TypeOK, ClientInv, Typed
<1>5. \A c \in Socks : rep'[c] \o req'[c] = <<>> <=> rep'[c] = <<>> /\ req'[c] = <<>>
  <2> SUFFICES ASSUME NEW c \in Socks PROVE rep'[c] \o req'[c] = <<>> <=> rep'[c] = <<>> /\ req'[c] = <<>>
    OBVIOUS
  <2>1. IsSeq(rep'[c]) /\ IsSeq(req'[c])
    BY DEF Typed, Commands
  <2>2. PICK x, y : x = rep'[c] /\ y = req'[c]
    OBVIOUS
  <2>3. IsSeq(x \o y) /\ Len(x) \in Nat /\ Len(y) \in Nat /\ Len(x \o y) = Len(x) + Len(y)
    BY <2>1, <2>2, JoinIs
  <2>4. (x = <<>> <=> Len(x) = 0) /\ (y = <<>> <=> Len(y) = 0) /\ (x \o y = <<>> <=> Len(x \o y) = 0)
    BY <2>1, <2>2, <2>3, SeqIs DEF IsSeq
  <2>5. QED
    BY <2>2, <2>3, <2>4
<1>6. ASSUME NEW c \in Socks PROVE strayed'[c] \in {"no"} \cup ManyReplies
  <2>1. strayed[c] \in {"no"} \cup ManyReplies
    BY DEF ClientInv
  <2>2. CASE how # "ok" /\ left[c] # <<>> /\ strayed[c] = "no"
    <3>1. call.m \in ManyReplies
      BY <1>5, <2>2
    <3>2. QED
      BY <1>1, <2>2, <3>1
  <2>3. QED
    BY <1>1, <2>1, <2>2
<1>7. ASSUME NEW c \in Socks, strayed'[c] = "no" PROVE ConInv(c)'
  <2>1. strayed[c] = "no" /\ (how # "ok" => left[c] = <<>>)
    <3>1. "no" \notin ManyReplies
      BY DEF ManyReplies, FanOut, PerServer
    <3>2. how # "ok" /\ left[c] # <<>> /\ strayed[c] = "no" => call.m \in ManyReplies
      BY <1>5
    <3>3. QED
      BY <1>1, <1>7, <3>1, <3>2
  <2>2. rep'[c] = <<>> /\ req'[c] = <<>>
    BY <1>5, <2>1
  <2>3. up[c] => ~multi[c].on
    BY <2>1, <2>2
  <2>4. Quiet(rep'[c], req'[c], multi'[c], up'[c])
    BY <2>2, <2>3 DEF Quiet, Typed
  <2>5. ~odd'[c]
    BY <2>1 DEF Typed
  <2>6. QED
    BY <1>1, <2>4, <2>5 DEF ConInv
<1>8. QED
  BY <1>2, <1>3, <1>4, <1>6, <1>7 DEF ClientInv

LEMMA RunIs ==
  ASSUME ClientInv, ret = "run"
  PROVE  /\ IsSeq(steps) /\ steps # <<>> /\ Head(steps) = steps[1] /\ steps[1] \in Range(steps)
         /\ PlanOK(steps, ncalls - 1, load.dbs, call.m \in ManyReplies)
         /\ \A c \in Socks : IsSeq(rep[c]) /\ IsSeq(req[c]) /\ (~up[c] => req[c] = <<>>)
         /\ \A c \in Socks : strayed[c] = "no" =>
              /\ ~odd[c] /\ Line(steps, ncalls - 1, c, rep[c], req[c], multi[c], up[c])
              /\ req[c] = <<>> /\ up[c] => ~multi[c].on
<1>1. IsSeq(steps) /\ steps # <<>> /\ PlanOK(steps, ncalls - 1, load.dbs, call.m \in ManyReplies)
  BY DEF ClientInv, CallInv, PlanOK
<1>2. Head(steps) = steps[1] /\ steps[1] \in Range(steps)
  BY <1>1, TailIs
<1>3. \A c \in Socks : IsSeq(rep[c]) /\ IsSeq(req[c]) /\ (~up[c] => req[c] = <<>>)
  BY DEF ClientInv, ServerInv, Commands
<1>4. \A c \in Socks : strayed[c] = "no" => ~odd[c] /\ Line(steps, ncalls - 1, c, rep[c], req[c], multi[c], up[c])
  BY DEF ClientInv, ConInv
<1>5. ASSUME NEW c \in Socks, strayed[c] = "no", req[c] = <<>>, up[c] PROVE ~multi[c].on
  BY <1>4, <1>5 DEF Line, Matched
<1>6. QED
  BY <1>1, <1>2, <1>3, <1>4, <1>5

LEMMA NoSocket == NoCon \notin Socks
<1>1. PICK n : n = Cardinality(Socks)
  OBVIOUS
<1>2. Socks = 1 .. n
  BY <1>1, ClientAssumption
<1>3. QED
  BY <1>2 DEF NoCon

LEMMA NotNowhere ==
  ASSUME NEW p, p # <<>>, IsSeq(p), NEW g, NEW dbs, NEW many, PlanOK(p, g, dbs, many),
         p[1].op = "recv" \/ p[1].con \in Socks
  PROVE  /\ Good(p, g, dbs, many) /\ InOrder(p) /\ (many \/ Alternating(p)) /\ p[1].con \in Socks
         /\ StepOK(p, g, dbs, p[1])
         /\ \A s \in Range(p) : \A c : IsRecv(s, c) => s.id[3] > 0
         /\ p[1].op = "recv" => \E n \in Nat : p[1].id = <<g, p[1].con, n>>
         /\ p[1].op = "send" => Len(p) # 1 /\ Sends(p, g, dbs, p[1])
<1>1. p[1] \in Range(p)
  BY TailIs
<1>2. NoCon \notin Socks
  BY NoSocket
<1>3. ~Nowhere(p)
  <2>1. p[1].con \in Socks => ~Nowhere(p)
    BY <1>1, <1>2 DEF Nowhere
  <2>2. p[1].op = "recv" => ~Nowhere(p)
    BY DEF Nowhere
  <2>3. QED
    BY <2>1, <2>2
<1>4. Good(p, g, dbs, many)
  BY <1>3 DEF PlanOK
<1>5. StepOK(p, g, dbs, p[1])
  BY <1>1, <1>4 DEF Good
<1>6. ASSUME NEW s \in Range(p), NEW c, IsRecv(s, c) PROVE s.id[3] > 0
  <2>1. StepOK(p, g, dbs, s)
    BY <1>4 DEF Good
  <2>2. QED
    BY <1>6, <2>1 DEF StepOK, IsRecv
<1>7. p[1].op = "send" => Len(p) # 1 /\ Sends(p, g, dbs, p[1])
  BY <1>4, <1>5 DEF Good, StepOK
<1>8. p[1].op = "recv" => \E n \in Nat : p[1].id = <<g, p[1].con, n>>
  BY <1>5 DEF StepOK
<1>9. QED
  BY <1>4, <1>5, <1>6, <1>7, <1>8 DEF Good, StepOK

(* A call that reads one reply at a time leaves nothing on the other connections. *)
LEMMA OthersQuiet ==
  ASSUME NEW p, IsSeq(p), p # <<>>, Alternating(p), NEW g, NEW c, ~IsRecv(p[1], c),
         NEW rp, IsSeq(rp), NEW rq, IsSeq(rq), NEW mu, NEW u, Line(p, g, c, rp, rq, mu, u)
  PROVE  Quiet(rp, rq, mu, u)
<1>1. CASE \E s \in Range(p) : IsSend(s, c)
  BY <1>1 DEF Line
<1>2. CASE \A s \in Range(Tail(p)) : ~IsRecv(s, c)
  <2>1. \A s \in Range(p) : ~IsRecv(s, c)
    BY <1>2, TailIs
  <2>2. QED
    BY <2>1, LineEnd
<1>3. QED
  BY <1>1, <1>2, SendOrNoMore

LEMMA JoinCommands ==
  ASSUME NEW dbs, NEW x, NEW y, Commands(dbs, x), Commands(dbs, y)
  PROVE  Commands(dbs, x \o y)
BY JoinIs DEF Commands

LEMMA SendStep ==
  ASSUME ClientInv, Send
  PROVE  ClientInv'
<1>1. ret = "run" /\ Head(steps).op = "send"
  BY DEF Send
<1> DEFINE s == steps[1]
           g == ncalls - 1
           many == call.m \in ManyReplies
<1>2. /\ IsSeq(steps) /\ steps # <<>> /\ Head(steps) = s /\ PlanOK(steps, g, load.dbs, many)
      /\ \A c \in Socks : IsSeq(rep[c]) /\ IsSeq(req[c]) /\ (~up[c] => req[c] = <<>>)
      /\ \A c \in Socks : strayed[c] = "no" =>
           /\ ~odd[c] /\ Line(steps, g, c, rep[c], req[c], multi[c], up[c])
           /\ req[c] = <<>> /\ up[c] => ~multi[c].on
  BY <1>1, RunIs
<1>3. s.op = "send"
  BY <1>1, <1>2
<1>4. /\ UNCHANGED <<load, rep, multi, up, sel, db, call, out, truth, ncalls, odd, stale>>
      /\ \/ /\ s.con \in Socks
            /\ req' = IF up[s.con] THEN [req EXCEPT ![s.con] = @ \o s.cmds] ELSE req
            /\ steps' = Tail(steps)
            /\ UNCHANGED <<ret, strayed>>
         \/ /\ s.con \notin {c \in Socks : up[c]}
            /\ Finish("closed", [c \in Socks |-> Pending(c)])
            /\ UNCHANGED req
  BY <1>2 DEF Send
<1> HIDE DEF s, g, many
<1>5. CASE /\ s.con \in Socks
           /\ req' = IF up[s.con] THEN [req EXCEPT ![s.con] = @ \o s.cmds] ELSE req
           /\ steps' = Tail(steps)
           /\ UNCHANGED <<ret, strayed>>
  <2>1. /\ Good(steps, g, load.dbs, many) /\ InOrder(steps) /\ Len(steps) # 1 /\ Sends(steps, g, load.dbs, s)
        /\ \A z \in Range(steps) : \A c : IsRecv(z, c) => z.id[3] > 0
    BY <1>2, <1>3, <1>5, NotNowhere DEF s
  <2>2. Commands(load.dbs, s.cmds)
    BY <2>1 DEF Sends
  <2>3. /\ DOMAIN req = Socks /\ DOMAIN req' = Socks
        /\ \A c \in Socks : req'[c] = IF c = s.con /\ up[c] THEN req[c] \o s.cmds ELSE req[c]
    BY <1>5 DEF ClientInv, ServerInv
  <2>4. \A c \in Socks : Commands(load.dbs, req[c])
    BY DEF ClientInv, ServerInv
  <2>5. ASSUME NEW c \in Socks PROVE Commands(load.dbs, req'[c])
    <3>1. Commands(load.dbs, req[c]) /\ Commands(load.dbs, req[c] \o s.cmds)
      BY <2>2, <2>4, JoinCommands
    <3>2. req'[c] = req[c] \/ req'[c] = req[c] \o s.cmds
      BY <2>3
    <3>3. QED
      BY <3>1, <3>2
  <2>6. Typed
    <3>1. \A c \in Socks : ~up[c] => req'[c] = <<>>
      BY <1>2, <2>3
    <3>2. QED
      BY <1>2, <1>4, <2>3, <2>5, <3>1 DEF Typed, ClientInv, ServerInv, CallInv, TypeOK
  <2>7. ASSUME NEW c \in Socks, strayed[c] = "no"
        PROVE  Line(Tail(steps), g, c, rep'[c], req'[c], multi[c], up[c])
    <3>1. Line(steps, g, c, rep[c], req[c], multi[c], up[c]) /\ IsSeq(rep[c]) /\ IsSeq(req[c]) /\ rep' = rep
      BY <1>2, <1>4, <2>7
    <3>2. CASE c = s.con
      <4>1. IsSend(steps[1], c)
        BY <1>3, <3>2 DEF IsSend, s
      <4>2. Sends(steps, g, load.dbs, steps[1])
        BY <2>1 DEF s
      <4>3. \A z \in Range(steps) : IsRecv(z, c) => z.id[3] > 0
        BY <2>1
      <4>4. /\ Line(Tail(steps), g, c, rep[c], req[c], multi[c], up[c])
            /\ up[c] => Line(Tail(steps), g, c, rep[c], req[c] \o steps[1].cmds, multi[c], up[c])
        BY <1>2, <2>1, <3>1, <4>1, <4>2, <4>3, LineSend
      <4>5. QED
        BY <2>3, <3>1, <3>2, <4>4 DEF s
    <3>3. CASE c # s.con
      <4>1. ~IsRecv(steps[1], c)
        BY <1>3 DEF IsRecv, s
      <4>2. Keeps(steps, Tail(steps), c, 0)
        BY <1>2, <4>1, TailKeeps
      <4>3. Line(Tail(steps), g, c, rep[c], req[c], multi[c], up[c])
        BY <3>1, <4>2, LineKept
      <4>4. QED
        BY <2>3, <3>1, <3>3, <4>3
    <3>4. QED
      BY <3>2, <3>3
  <2>8. QED
    BY <1>1, <1>5, <2>1, <2>6, <2>7, Continued DEF g, many
<1>6. CASE /\ Finish("closed", [c \in Socks |-> Pending(c)])
           /\ UNCHANGED req
  <2>1. Typed
    BY <1>2, <1>4, <1>6 DEF Typed, ClientInv, ServerInv, CallInv, TypeOK
  <2>2. PICK left : left = [c \in Socks |-> Pending(c)]
    OBVIOUS
  <2>3. \A c \in Socks : left[c] = rep'[c] \o req'[c]
    BY <1>4, <1>6, <2>2 DEF Pending
  <2>4. ASSUME ~many, NEW c \in Socks, strayed[c] = "no" PROVE rep'[c] = <<>> /\ req'[c] = <<>>
    <3>1. Line(steps, g, c, rep[c], req[c], multi[c], up[c]) /\ IsSeq(rep[c]) /\ IsSeq(req[c])
      BY <1>2, <2>4
    <3>2. ~IsRecv(steps[1], c)
      BY <1>3 DEF IsRecv, s
    <3>3. Quiet(rep[c], req[c], multi[c], up[c])
      <4>1. CASE Nowhere(steps)
        <5>1. NoCon \notin Socks
          BY NoSocket
        <5>2. \A z \in Range(steps) : ~IsRecv(z, c)
          BY <4>1, <5>1 DEF Nowhere, IsRecv
        <5>3. QED
          BY <3>1, <5>2, LineEnd
      <4>2. CASE Good(steps, g, load.dbs, many)
        <5>1. Alternating(steps)
          BY <2>4, <4>2 DEF Good
        <5>2. QED
          BY <1>2, <3>1, <3>2, <5>1, OthersQuiet
      <4>3. QED
        BY <1>2, <4>1, <4>2 DEF PlanOK
    <3>4. QED
      BY <1>4, <1>6, <3>3 DEF Quiet
  <2>5. \A c \in Socks : strayed[c] = "no" /\ req'[c] = <<>> /\ up[c] => ~multi[c].on
    BY <1>2, <1>6
  <2>6. Finish("closed", left)
    BY <1>6, <2>2
  <2>7. QED
    BY <1>1, <2>1, <2>3, <2>4, <2>5, <2>6, Finished DEF many
<1>7. QED
  BY <1>4, <1>5, <1>6

(* A refusal is an exception.                                                     *)
LEMMA DoomedThrows ==
  ASSUME NEW s, s.reader = "ok", NEW r, r = Err(0)
  PROVE  ~Takes(s, r)
BY DEF Takes, Accepts, Catches, Err

LEMMA RecvStep ==
  ASSUME ClientInv, Recv
  PROVE  ClientInv'
<1>1. ret = "run" /\ Head(steps).op = "recv"
  BY DEF Recv
<1> DEFINE s == steps[1]
           c == s.con
           g == ncalls - 1
           many == call.m \in ManyReplies
           h == rep[c][1]
           good == Takes(s, h.reply)
<1>2. /\ IsSeq(steps) /\ steps # <<>> /\ Head(steps) = s /\ PlanOK(steps, g, load.dbs, many)
      /\ \A k \in Socks : IsSeq(rep[k]) /\ IsSeq(req[k]) /\ (~up[k] => req[k] = <<>>)
      /\ \A k \in Socks : strayed[k] = "no" =>
           /\ ~odd[k] /\ Line(steps, g, k, rep[k], req[k], multi[k], up[k])
           /\ req[k] = <<>> /\ up[k] => ~multi[k].on
  BY <1>1, RunIs
<1>3. s.op = "recv"
  BY <1>1, <1>2
<1> HIDE DEF s, c, g, many, h, good
<1>4. /\ Good(steps, g, load.dbs, many) /\ InOrder(steps) /\ (many \/ Alternating(steps)) /\ c \in Socks
      /\ \E n \in Nat : s.id = <<g, c, n>>
  BY <1>2, <1>3, NotNowhere DEF s, c
<1>5. rep[c] # <<>>
  BY <1>2 DEF Recv, c
<1>6. Head(rep[c]) = h
  BY <1>2, <1>4, <1>5, TailIs DEF h
<1>7. /\ rep' = [rep EXCEPT ![c] = Tail(@)]
      /\ odd' = [odd EXCEPT ![c] = @ \/ h.id # s.id \/ Parts(s, h.reply)]
      /\ truth' = (truth /\ h.done)
      /\ db' = IF good /\ Records(c) THEN [db EXCEPT ![c] = call.arg] ELSE db
      /\ stale' = IF \/ call.m \in {"select", "select_con"} /\ ~good
                     \/ call.m = "select_con" /\ call.copy # db[c]
                  THEN [stale EXCEPT ![c] = TRUE] ELSE stale
      /\ IF ~good THEN Finish("throw", [k \in Socks |-> rep'[k] \o req[k]])
         ELSE IF Len(steps) = 1 THEN Finish("ok", rep')
         ELSE steps' = Tail(steps) /\ UNCHANGED <<ret, strayed>>
      /\ UNCHANGED <<load, req, multi, up, sel, call, ncalls>>
  BY <1>2, <1>6 DEF Recv, server, c, good
<1>8. PICK n \in Nat : s.id = <<g, c, n>>
  BY <1>4
<1>9. IsRecv(steps[1], c) /\ steps[1].id = <<g, c, n>>
  BY <1>3, <1>8 DEF IsRecv, s, c
<1>10. ASSUME strayed[c] = "no"
       PROVE  /\ h.id = s.id /\ ~Parts(s, h.reply)
              /\ good => Line(Tail(steps), g, c, Tail(rep[c]), req[c], multi[c], up[c])
              /\ \A z \in Range(steps) : ~IsSend(z, c)
  <2>1. IsSeq(rep[c]) /\ IsSeq(req[c]) /\ Line(steps, g, c, rep[c], req[c], multi[c], up[c])
    BY <1>2, <1>4, <1>10
  <2>2. /\ rep[c][1].id = steps[1].id /\ ~Parts(steps[1], rep[c][1].reply)
        /\ Doomed(steps, c, rep[c]) => steps[1].reader = "ok"
        /\ \A z \in Range(steps) : ~IsSend(z, c)
        /\ ~Doomed(steps, c, rep[c]) => Line(Tail(steps), g, c, Tail(rep[c]), req[c], multi[c], up[c])
    BY <1>2, <1>4, <1>5, <1>9, <2>1, LineRecv
  <2>3. ~(Doomed(steps, c, rep[c]) /\ good)
    BY <2>2, DoomedThrows DEF Doomed, good, h, s
  <2>4. QED
    BY <2>2, <2>3 DEF s, h
<1>11. /\ DOMAIN rep = Socks /\ DOMAIN odd = Socks /\ DOMAIN db = Socks /\ DOMAIN stale = Socks
       /\ DOMAIN req = Socks /\ call.arg \in load.dbs
       /\ \A k \in Socks : /\ Commands(load.dbs, req[k]) /\ db[k] \in load.dbs
                           /\ odd[k] \in BOOLEAN /\ stale[k] \in BOOLEAN
  BY DEF ClientInv, ServerInv, CallInv, TypeOK
<1>12. /\ DOMAIN rep' = Socks /\ rep'[c] = Tail(rep[c])
       /\ \A k \in Socks : k # c => rep'[k] = rep[k]
  BY <1>4, <1>7, <1>11
<1>13. Typed
  <2>1. \A k \in Socks : IsSeq(rep'[k])
    BY <1>2, <1>4, <1>5, <1>12, TailIs
  <2>2. DOMAIN odd' = Socks /\ \A k \in Socks : odd'[k] \in BOOLEAN /\ (strayed[k] = "no" => ~odd'[k])
    <3>1. DOMAIN odd' = Socks /\ \A k \in Socks : k # c => odd'[k] = odd[k]
      BY <1>4, <1>7, <1>11
    <3>2. odd'[c] = (odd[c] \/ h.id # s.id \/ Parts(s, h.reply))
      BY <1>4, <1>7, <1>11
    <3>3. odd'[c] \in BOOLEAN
      BY <3>2, Zenon
    <3>4. strayed[c] = "no" => ~odd'[c]
      BY <1>2, <1>4, <1>10, <3>2
    <3>5. QED
      BY <1>2, <1>11, <3>1, <3>3, <3>4
  <2>3. truth' \in BOOLEAN
    BY <1>7, Zenon
  <2>4. DOMAIN db' = Socks /\ \A k \in Socks : db'[k] \in load.dbs
    BY <1>4, <1>7, <1>11
  <2>5. DOMAIN stale' = Socks /\ \A k \in Socks : stale'[k] \in BOOLEAN
    <3>1. stale' = [stale EXCEPT ![c] = TRUE] \/ stale' = stale
      BY <1>7
    <3>2. QED
      BY <1>4, <1>11, <3>1
  <2>6. QED
    BY <1>2, <1>7, <1>11, <1>12, <2>1, <2>2, <2>3, <2>4, <2>5 DEF Typed
<1>14. ASSUME NEW k \in Socks, k # c, strayed[k] = "no"
       PROVE  /\ IsSeq(rep[k]) /\ IsSeq(req[k]) /\ Line(steps, g, k, rep[k], req[k], multi[k], up[k])
              /\ ~IsRecv(steps[1], k)
  BY <1>2, <1>14 DEF IsRecv, c, s
<1>15. \A k \in Socks : strayed[k] = "no" /\ req'[k] = <<>> /\ up[k] => ~multi[k].on
  BY <1>2, <1>7
<1>16. ASSUME strayed[c] = "no", \A z \in Range(Tail(steps)) : ~IsRecv(z, c)
       PROVE  rep'[c] = <<>> /\ req'[c] = <<>>
  <2>1. IsSeq(rep[c]) /\ IsSeq(req[c]) /\ Line(steps, g, c, rep[c], req[c], multi[c], up[c])
    BY <1>2, <1>4, <1>16
  <2>2. Quiet(Tail(rep[c]), req[c], multi[c], up[c])
    BY <1>2, <1>4, <1>5, <1>9, <1>16, <2>1, LineLast
  <2>3. QED
    BY <1>7, <1>12, <2>2 DEF Quiet
<1>17. CASE ~good
  <2>1. PICK left : left = [k \in Socks |-> rep'[k] \o req[k]]
    OBVIOUS
  <2>2. Finish("throw", left) /\ \A k \in Socks : left[k] = rep'[k] \o req'[k]
    BY <1>7, <1>17, <2>1
  <2>3. ASSUME ~many, NEW k \in Socks, strayed[k] = "no" PROVE rep'[k] = <<>> /\ req'[k] = <<>>
    <3>1. Alternating(steps)
      BY <1>4, <2>3
    <3>2. CASE k = c
      <4>1. \A z \in Range(steps) : ~IsSend(z, c)
        BY <1>10, <2>3, <3>2
      <4>2. \A z \in Range(Tail(steps)) : ~IsRecv(z, c)
        BY <1>2, <3>1, <4>1, SendOrNoMore
      <4>3. QED
        BY <1>16, <2>3, <3>2, <4>2
    <3>3. CASE k # c
      <4>1. Quiet(rep[k], req[k], multi[k], up[k])
        BY <1>2, <1>14, <2>3, <3>1, <3>3, OthersQuiet
      <4>2. QED
        BY <1>7, <1>12, <3>3, <4>1 DEF Quiet
    <3>4. QED
      BY <3>2, <3>3
  <2>4. QED
    BY <1>1, <1>13, <1>15, <2>2, <2>3, Finished DEF many
<1>18. CASE good /\ Len(steps) = 1
  <2>1. Range(Tail(steps)) = {} /\ \A z \in Range(steps) : z = steps[1]
    <3>1. Tail(steps) = <<>> /\ Range(steps) = {steps[1]} \cup Range(Tail(steps))
      BY <1>2, <1>18, TailIs
    <3>2. QED
      BY <3>1, EmptyIs
  <2>2. ASSUME NEW k \in Socks, strayed[k] = "no" PROVE rep'[k] = <<>> /\ req'[k] = <<>>
    <3>1. CASE k = c
      BY <1>16, <2>1, <2>2, <3>1
    <3>2. CASE k # c
      <4>1. \A z \in Range(steps) : ~IsRecv(z, k)
        BY <1>14, <2>1, <2>2, <3>2
      <4>2. Quiet(rep[k], req[k], multi[k], up[k])
        BY <1>14, <2>2, <3>2, <4>1, LineEnd
      <4>3. QED
        BY <1>7, <1>12, <3>2, <4>2 DEF Quiet
    <3>3. QED
      BY <3>1, <3>2
  <2>3. PICK left : left = rep'
    OBVIOUS
  <2>4. Finish("ok", left)
    BY <1>7, <1>18, <2>3
  <2>5. QED
    BY <1>1, <1>13, <1>15, <2>2, <2>4, Finished
<1>19. CASE good /\ Len(steps) # 1
  <2>1. ASSUME NEW k \in Socks, strayed[k] = "no"
        PROVE  Line(Tail(steps), g, k, rep'[k], req'[k], multi[k], up[k])
    <3>1. CASE k = c
      BY <1>7, <1>10, <1>12, <1>19, <2>1, <3>1
    <3>2. CASE k # c
      <4>1. Keeps(steps, Tail(steps), k, 0)
        BY <1>2, <1>14, <2>1, <3>2, TailKeeps
      <4>2. Line(Tail(steps), g, k, rep[k], req[k], multi[k], up[k])
        BY <1>14, <2>1, <3>2, <4>1, LineKept
      <4>3. QED
        BY <1>7, <1>12, <3>2, <4>2
    <3>3. QED
      BY <3>1, <3>2
  <2>2. steps' = Tail(steps) /\ UNCHANGED <<ret, strayed>>
    BY <1>7, <1>19
  <2>3. QED
    BY <1>1, <1>4, <1>13, <1>19, <2>1, <2>2, Continued DEF g, many
<1>20. QED
  BY <1>17, <1>18, <1>19

LEMMA RecvClosedStep ==
  ASSUME ClientInv, RecvClosed
  PROVE  ClientInv'
<1>1. ret = "run" /\ Head(steps).op = "recv"
  BY DEF RecvClosed
<1> DEFINE s == steps[1]
           c == s.con
           g == ncalls - 1
           many == call.m \in ManyReplies
<1>2. /\ IsSeq(steps) /\ steps # <<>> /\ Head(steps) = s /\ PlanOK(steps, g, load.dbs, many)
      /\ \A k \in Socks : IsSeq(rep[k]) /\ IsSeq(req[k]) /\ (~up[k] => req[k] = <<>>)
      /\ \A k \in Socks : strayed[k] = "no" =>
           /\ ~odd[k] /\ Line(steps, g, k, rep[k], req[k], multi[k], up[k])
           /\ req[k] = <<>> /\ up[k] => ~multi[k].on
  BY <1>1, RunIs
<1>3. s.op = "recv"
  BY <1>1, <1>2
<1> HIDE DEF s, c, g, many
<1>4. /\ Good(steps, g, load.dbs, many) /\ (many \/ Alternating(steps)) /\ c \in Socks
      /\ \A z \in Range(steps) : \A k : IsRecv(z, k) => z.id[3] > 0
  BY <1>2, <1>3, NotNowhere DEF s, c
<1>5. /\ ~up[c] /\ rep[c] = <<>> /\ req[c] = <<>>
      /\ \/ Finish("ok", rep) /\ Len(steps) = 1
         \/ steps' = Tail(steps) /\ Len(steps) # 1 /\ UNCHANGED <<ret, strayed>>
         \/ Finish("closed", [k \in Socks |-> Pending(k)])
      /\ stale' = [stale EXCEPT ![c] = TRUE] \/ stale' = stale
      /\ UNCHANGED <<load, req, multi, up, sel, rep, db, call, out, truth, ncalls, odd>>
  <2>1. /\ ~up[c] /\ rep[c] = <<>>
        /\ \/ Finish("ok", rep) /\ Len(steps) = 1
           \/ steps' = Tail(steps) /\ Len(steps) # 1 /\ UNCHANGED <<ret, strayed>>
           \/ Finish("closed", [k \in Socks |-> Pending(k)])
        /\ stale' = [stale EXCEPT ![c] = TRUE] \/ stale' = stale
        /\ UNCHANGED <<load, req, multi, up, sel, rep, db, call, out, truth, ncalls, odd>>
    BY <1>2 DEF RecvClosed, server, c
  <2>2. QED
    BY <1>2, <1>4, <2>1
<1>6. Typed
  <2>1. DOMAIN stale' = Socks /\ \A k \in Socks : stale'[k] \in BOOLEAN
    BY <1>5 DEF ClientInv, CallInv, TypeOK
  <2>2. QED
    BY <1>2, <1>5, <2>1 DEF Typed, ClientInv, ServerInv, CallInv, TypeOK
<1>7. ASSUME NEW k \in Socks, k # c, strayed[k] = "no"
      PROVE  /\ IsSeq(rep[k]) /\ IsSeq(req[k]) /\ Line(steps, g, k, rep[k], req[k], multi[k], up[k])
             /\ ~IsRecv(steps[1], k)
  BY <1>2, <1>7 DEF IsRecv, c, s
<1>8. \A k \in Socks : strayed[k] = "no" /\ req'[k] = <<>> /\ up[k] => ~multi[k].on
  BY <1>2, <1>5
<1>9. CASE Finish("ok", rep) /\ Len(steps) = 1
  <2>1. \A z \in Range(steps) : z = steps[1]
    <3>1. Tail(steps) = <<>> /\ Range(steps) = {steps[1]} \cup Range(Tail(steps))
      BY <1>2, <1>9, TailIs
    <3>2. QED
      BY <3>1, EmptyIs
  <2>2. ASSUME NEW k \in Socks, strayed[k] = "no" PROVE rep'[k] = <<>> /\ req'[k] = <<>>
    <3>1. CASE k = c
      BY <1>5, <3>1
    <3>2. CASE k # c
      <4>1. \A z \in Range(steps) : ~IsRecv(z, k)
        BY <1>7, <2>1, <2>2, <3>2
      <4>2. Quiet(rep[k], req[k], multi[k], up[k])
        BY <1>7, <2>2, <3>2, <4>1, LineEnd
      <4>3. QED
        BY <1>5, <4>2 DEF Quiet
    <3>3. QED
      BY <3>1, <3>2
  <2>3. QED
    BY <1>1, <1>6, <1>8, <1>9, <2>2, Finished
<1>10. CASE steps' = Tail(steps) /\ Len(steps) # 1 /\ UNCHANGED <<ret, strayed>>
  <2>1. ASSUME NEW k \in Socks, strayed[k] = "no"
        PROVE  Line(Tail(steps), g, k, rep'[k], req'[k], multi[k], up[k])
    <3>1. CASE k = c
      <4>1. Quiet(rep[k], req[k], multi[k], up[k])
        BY <1>5, <3>1 DEF Quiet
      <4>2. \A z \in Range(Tail(steps)) : IsRecv(z, k) => z.id[3] > 0
        BY <1>2, <1>4, TailIs
      <4>3. Line(Tail(steps), g, k, rep[k], req[k], multi[k], up[k])
        BY <4>1, <4>2, LineStart
      <4>4. QED
        BY <1>5, <4>3
    <3>2. CASE k # c
      <4>1. Keeps(steps, Tail(steps), k, 0)
        BY <1>2, <1>7, <2>1, <3>2, TailKeeps
      <4>2. Line(Tail(steps), g, k, rep[k], req[k], multi[k], up[k])
        BY <1>7, <2>1, <3>2, <4>1, LineKept
      <4>3. QED
        BY <1>5, <4>2
    <3>3. QED
      BY <3>1, <3>2
  <2>2. QED
    BY <1>1, <1>4, <1>6, <1>10, <2>1, Continued DEF g, many
<1>11. CASE Finish("closed", [k \in Socks |-> Pending(k)])
  <2>1. PICK left : left = [k \in Socks |-> Pending(k)]
    OBVIOUS
  <2>2. Finish("closed", left) /\ \A k \in Socks : left[k] = rep'[k] \o req'[k]
    BY <1>5, <1>11, <2>1 DEF Pending
  <2>3. ASSUME ~many, NEW k \in Socks, strayed[k] = "no" PROVE rep'[k] = <<>> /\ req'[k] = <<>>
    <3>1. Alternating(steps)
      BY <1>4, <2>3
    <3>2. CASE k = c
      BY <1>5, <3>2
    <3>3. CASE k # c
      <4>1. Quiet(rep[k], req[k], multi[k], up[k])
        BY <1>2, <1>7, <2>3, <3>1, <3>3, OthersQuiet
      <4>2. QED
        BY <1>5, <4>1 DEF Quiet
    <3>4. QED
      BY <3>2, <3>3
  <2>4. QED
    BY <1>1, <1>6, <1>8, <2>2, <2>3, Finished DEF many
<1>12. QED
  BY <1>5, <1>9, <1>10, <1>11

LEMMA StartStep ==
  ASSUME ClientInv, NEW m, NEW ks, NEW d \in load.dbs, NEW copy, Start(m, ks, d, copy),
         PlanOK(Plan(m, ks, d), ncalls, load.dbs, m \in ManyReplies)
  PROVE  ClientInv'
<1> DEFINE p == Plan(m, ks, d)
<1>1. /\ ret # "run" /\ ncalls < load.calls /\ call'.m = m /\ call'.arg = d /\ ncalls' = ncalls + 1
      /\ truth' = TRUE /\ ((ret' = "refused" /\ steps' = <<>>) \/ (ret' = "run" /\ steps' = p))
      /\ UNCHANGED <<load, req, rep, multi, up, sel, db, strayed, odd, stale>>
  BY DEF Start
<1> HIDE DEF p
<1>2. p # <<>> /\ PlanOK(p, ncalls, load.dbs, m \in ManyReplies)
  BY DEF PlanOK, p
<1>3. ncalls \in Nat /\ load.calls \in Nat /\ ncalls \in 0 .. load.calls
  <2>1. load.calls \in Nat /\ ncalls \in 0 .. load.calls
    BY ClientAssumption DEF ClientInv, CallInv, TypeOK
  <2>2. QED
    BY <2>1
<1>4. ncalls' \in 0 .. load.calls /\ ncalls' > 0 /\ ncalls' - 1 = ncalls
  BY <1>1, <1>3
<1>5. TypeOK'
  BY <1>1, <1>2, <1>4 DEF ClientInv, TypeOK
<1>6. ServerInv'
  BY <1>1 DEF ClientInv, ServerInv
<1>7. CallInv'
  <2>1. ret' = "run" => PlanOK(steps', ncalls' - 1, load'.dbs, call'.m \in ManyReplies)
    BY <1>1, <1>2, <1>4
  <2>2. QED
    BY <1>1, <1>4, <2>1 DEF ClientInv, CallInv
<1>8. ASSUME NEW c \in Socks, strayed'[c] = "no" PROVE ConInv(c)'
  <2>1. ~odd[c] /\ Quiet(rep[c], req[c], multi[c], up[c])
    BY <1>1, <1>8 DEF ClientInv, ConInv
  <2>2. \A s \in Range(p) : IsRecv(s, c) => s.id[3] > 0
    <3>1. CASE Nowhere(p)
      BY <3>1, NoSocket DEF Nowhere, IsRecv
    <3>2. CASE Good(p, ncalls, load.dbs, m \in ManyReplies)
      <4> SUFFICES ASSUME NEW s \in Range(p), IsRecv(s, c) PROVE s.id[3] > 0
        OBVIOUS
      <4>1. StepOK(p, ncalls, load.dbs, s)
        BY <3>2 DEF Good
      <4>2. QED
        BY <4>1 DEF StepOK, IsRecv
    <3>3. QED
      BY <1>2, <3>1, <3>2 DEF PlanOK
  <2>3. Line(p, ncalls, c, rep[c], req[c], multi[c], up[c])
    BY <2>1, <2>2, LineStart
  <2>4. QED
    BY <1>1, <1>4, <2>1, <2>3 DEF ConInv
<1>9. QED
  BY <1>1, <1>5, <1>6, <1>7, <1>8 DEF ClientInv

LEMMA InitHolds ==
  ASSUME Init
  PROVE  ClientInv
<1>1. 0 \in load.dbs /\ load.calls \in Nat
  BY ClientAssumption DEF Init
<1>2. PICK e : e = <<>>
  OBVIOUS
<1>3. IsSeq(e) /\ Range(e) = {}
  BY <1>2, EmptyIs
<1>4. /\ Clear.on = FALSE /\ Clear.queue = e
      /\ Clear \in [on : BOOLEAN, queue : {e}, bad : BOOLEAN, watch : BOOLEAN]
  BY <1>2 DEF Clear
<1>5. TypeOK
  BY <1>1 DEF Init, TypeOK
<1>6. ServerInv
  <2>1. \A c \in Socks : req[c] = e /\ rep[c] = e /\ multi[c] = Clear
    BY <1>2 DEF Init
  <2>2. DOMAIN req = Socks /\ DOMAIN rep = Socks /\ DOMAIN multi = Socks /\ DOMAIN up = Socks /\ DOMAIN sel = Socks
    BY DEF Init
  <2>3. \A c \in Socks : /\ Commands(load.dbs, req[c]) /\ IsSeq(rep[c]) /\ (~up[c] => req[c] = <<>>)
    BY <1>2, <1>3, <2>1 DEF Commands
  <2>4. QED
    BY <1>2, <1>3, <1>4, <2>1, <2>2, <2>3 DEF ServerInv
<1>7. CallInv
  BY <1>1 DEF Init, CallInv
<1>8. \A c \in Socks : strayed[c] = "no" /\ ConInv(c)
  <2>1. \A c \in Socks : strayed[c] = "no" /\ ~odd[c] /\ req[c] = <<>> /\ rep[c] = <<>> /\ ~multi[c].on /\ ret = "ok"
    BY <1>4 DEF Init
  <2>2. QED
    BY <2>1 DEF ConInv, Quiet
<1>9. QED
  BY <1>5, <1>6, <1>7, <1>8 DEF ClientInv

-----------------------------------------------------------------------------
(* The steps of every method are well-formed.                                     *)
LEMMA SingleRows == \A m \in DOMAIN Single : OwnRow(m, Single[m])
<1>1. \A g \in Groups : \A m \in DOMAIN g : OwnRow(m, g[m])
  BY StoreMethodsRows, GetMethodsRows, GenericMethodsRows, StringMethodsRows, LookupMethodsRows,
     KeyMethodsRows, ListMethodsRows, ExactMethodsRows, BlockingMethodsRows, SetMethodsRows, SetAlgebraRows,
     SortedSetMethodsRows, ScoreMethodsRows, AggregateMethodsRows, HashMethodsRows,
     DatabaseMethodsRows, SortMethodsRows, ServerMethodsRows, Zenon DEF Groups
<1> SUFFICES ASSUME NEW m \in DOMAIN Single PROVE OwnRow(m, Single[m])
  OBVIOUS
<1>2. DOMAIN Single = UNION {DOMAIN g : g \in Groups}
  BY DEF Single
<1>3. PICK g \in Groups : m \in DOMAIN g
  BY <1>2
<1>4. PICK h : h = CHOOSE x \in Groups : m \in DOMAIN x
  OBVIOUS
<1>5. h \in Groups /\ m \in DOMAIN h
  BY <1>3, <1>4
<1>6. Single[m] = h[m]
  BY <1>2, <1>4 DEF Single
<1>7. QED
  BY <1>1, <1>5, <1>6

LEMMA RecvIs ==
  ASSUME NEW s, NEW c, NEW f, NEW n, NEW at, s = recv(c, f, n, at)
  PROVE  /\ s.op = "recv" /\ s.con = c /\ s.reader = f /\ s.id = <<ncalls, c, n>>
         /\ Waits(s, ncalls, c, n)
BY DEF recv, Waits, IsRecv

LEMMA SendIs ==
  ASSUME NEW s, NEW c, NEW qs, s = send(c, qs)
  PROVE  s.op = "send" /\ s.con = c /\ s.cmds = qs
BY DEF send

LEMMA CmdIs ==
  ASSUME NEW q, NEW v, NEW ks, NEW c, NEW n, q = Cmd(v, ks, c, n)
  PROVE  q.verb = v /\ q.keys = ks /\ q.id = <<ncalls, c, n>>
BY DEF Cmd

LEMMA PairFits ==
  ASSUME NEW q, NEW s, Entry(q.verb, s.reader), q.keys \in Seq(Nat)
  PROVE  Pair(q, s)
<1>1. Compatible(q.verb, s.reader) /\ s.reader \notin {"queued", "head"} /\ q.verb \notin {"MULTI", "EXEC"}
  BY DEF Entry, Compatible
<1>2. ASSUME NEW a \in Answers(q.verb, q.keys) PROVE ~Parts(s, a.reply)
  <2>1. PICK v, f, ks : v = q.verb /\ f = s.reader /\ ks = q.keys
    OBVIOUS
  <2>2. ~Leaves(f, a.reply)
    BY <1>1, <2>1, AnswersFit
  <2>3. QED
    BY <1>1, <2>1, <2>2 DEF Parts
<1>3. QED
  BY <1>1, <1>2 DEF Pair

(* Commands outside of a transaction: command j of the send is answered for the  *)
(* receive function of reply j.                                                  *)
Plain(R, dbs, c, q, j) ==
  /\ q.id = <<ncalls, c, j>> /\ q.keys \in Seq(Nat) /\ (q.verb = "SELECT" => q.keys[1] \in dbs)
  /\ \E s \in Range(R) : Waits(s, ncalls, c, j) /\ Entry(q.verb, s.reader)

LEMMA Pipeline ==
  ASSUME NEW R, NEW dbs, NEW c, NEW qs, IsSeq(qs), \A j \in DOMAIN qs : Plain(R, dbs, c, qs[j], j),
         \A s \in Range(R) : s.reader # "queued"
  PROVE  Sends(R, ncalls, dbs, send(c, qs))
<1>1. \A j \in DOMAIN qs : qs[j].verb \notin {"MULTI", "EXEC"}
  BY DEF Plain, Entry
<1>2. Commands(dbs, qs)
  BY DEF Commands, Plain, Range
<1>3. ASSUME NEW j \in DOMAIN qs PROVE Awaited(R, ncalls, c, qs[j], j)
  <2>1. PICK s \in Range(R) : Waits(s, ncalls, c, j) /\ Entry(qs[j].verb, s.reader)
    BY DEF Plain
  <2>2. Pair(qs[j], s)
    BY <2>1, PairFits DEF Plain
  <2>3. QED
    BY <2>1, <2>2 DEF Awaited, Plain
<1>4. Batch(R, ncalls, c, qs)
  BY <1>1 DEF Batch
<1>5. \A j : ~Queued(R, ncalls, c, j)
  BY DEF Queued
<1>6. PICK s : s = send(c, qs)
  OBVIOUS
<1>7. s.con = c /\ s.cmds = qs
  BY <1>6 DEF send
<1>8. Sends(R, ncalls, dbs, s)
  BY <1>2, <1>3, <1>4, <1>5, <1>7 DEF Sends
<1>9. QED
  BY <1>6, <1>8

LEMMA SendsWider ==
  ASSUME NEW R, NEW p, NEW g, NEW dbs, NEW s, Sends(R, g, dbs, s), Range(R) \subseteq Range(p),
         \A z \in Range(p) : IsRecv(z, s.con) => z \in Range(R)
  PROVE  Sends(p, g, dbs, s)
<1>1. \A q, n : Awaited(R, g, s.con, q, n) => Awaited(p, g, s.con, q, n)
  BY DEF Awaited
<1>2. \A n : Element(R, g, s.con, n) => Element(p, g, s.con, n)
  BY DEF Element
<1>3. \A n : Queued(p, g, s.con, n) => Queued(R, g, s.con, n)
  BY DEF Queued, Waits
<1>4. Batch(p, g, s.con, s.cmds)
  BY <1>2 DEF Batch, Sends
<1>5. QED
  BY <1>1, <1>3, <1>4 DEF Sends

(* One send to each of some connections, and then the receive functions.          *)
SendPart(F, R, dbs) ==
  \A k \in DOMAIN F :
    /\ F[k].op = "send" /\ F[k].con \in Socks /\ Sends(R, ncalls, dbs, F[k])
    /\ \A j \in 1 .. k - 1 : F[j].con # F[k].con

RecvPart(R) ==
  /\ \A s \in Range(R) : s.op = "recv" /\ s.con \in Socks /\ \E n \in Nat : n > 0 /\ s.id = <<ncalls, s.con, n>>
  /\ InOrder(R)

LEMMA SendsThenReceives ==
  ASSUME NEW F, IsSeq(F), NEW R, IsSeq(R), R # <<>>, NEW dbs, SendPart(F, R, dbs), RecvPart(R),
         NEW many, many \/ Alternating(F \o R)
  PROVE  PlanOK(F \o R, ncalls, dbs, many)
<1> DEFINE p == F \o R
           n == Len(F)
           r == Len(R)
<1>1. /\ IsSeq(p) /\ n \in Nat /\ r \in Nat /\ Len(p) = n + r /\ DOMAIN p = 1 .. n + r
      /\ DOMAIN F = 1 .. n /\ DOMAIN R = 1 .. r
      /\ \A k \in 1 .. n + r : p[k] = IF k <= n THEN F[k] ELSE R[k - n]
      /\ Range(p) = Range(F) \cup Range(R)
  BY JoinIs
<1>2. r > 0
  BY SeqIs DEF IsSeq
<1> HIDE DEF p, n, r
<1>3. \A s \in Range(F) : s.op = "send" /\ s.con \in Socks /\ Sends(R, ncalls, dbs, s)
  BY DEF SendPart, Range
<1>4. Range(R) \subseteq Range(p) /\ \A z \in Range(p) : \A c : IsRecv(z, c) => z \in Range(R)
  BY <1>1, <1>3 DEF IsRecv
<1>5. ASSUME NEW s \in Range(p) PROVE StepOK(p, ncalls, dbs, s)
  <2>1. CASE s \in Range(F)
    <3>1. Sends(p, ncalls, dbs, s)
      BY <1>3, <1>4, <2>1, SendsWider
    <3>2. QED
      BY <1>3, <2>1, <3>1 DEF StepOK
  <2>2. CASE s \in Range(R)
    BY <2>2 DEF RecvPart, StepOK
  <2>3. QED
    BY <1>1, <1>5, <2>1, <2>2
<1>6. ASSUME NEW k \in DOMAIN p, NEW j \in 1 .. k - 1, p[j].con = p[k].con
      PROVE  p[k].op = "recv" /\ (p[j].op = "recv" => p[j].id[3] < p[k].id[3])
  <2>1. CASE k <= n
    <3>1. k \in 1 .. n /\ j \in 1 .. n /\ p[k] = F[k] /\ p[j] = F[j]
      BY <1>1, <1>6, <2>1
    <3>2. QED
      BY <1>1, <1>6, <3>1 DEF SendPart
  <2>2. CASE k > n /\ j <= n
    <3>1. k - n \in 1 .. r /\ j \in 1 .. n /\ p[k] = R[k - n] /\ p[j] = F[j]
      BY <1>1, <1>6, <2>2
    <3>2. p[k].op = "recv"
      BY <1>1, <3>1 DEF RecvPart, Range
    <3>3. p[j].op = "send"
      BY <1>1, <3>1 DEF SendPart
    <3>4. QED
      BY <3>2, <3>3
  <2>3. CASE j > n
    <3>1. k - n \in 1 .. r /\ j - n \in 1 .. (k - n) - 1 /\ p[k] = R[k - n] /\ p[j] = R[j - n]
      BY <1>1, <1>6, <2>3
    <3>2. QED
      BY <1>1, <1>6, <3>1 DEF RecvPart, InOrder
  <2>4. QED
    BY <1>1, <1>6, <2>1, <2>2, <2>3
<1>7. InOrder(p)
  BY <1>6 DEF InOrder
<1>8. p[Len(p)].op = "recv"
  <2>1. p[n + r] = R[r] /\ r \in DOMAIN R
    BY <1>1, <1>2
  <2>2. QED
    BY <1>1, <2>1 DEF RecvPart, Range
<1>9. p # <<>>
  <2>1. Len(p) # 0
    BY <1>1, <1>2
  <2>2. QED
    BY <2>1, EmptyIs
<1>10. QED
  BY <1>1, <1>5, <1>7, <1>8, <1>9 DEF PlanOK, Good, p

-----------------------------------------------------------------------------
(* Sorted, and the rank of a member of a set of numbers.                          *)
RankOf(S, x) == Cardinality({y \in S : y <= x})

LEMMA RankIs ==
  ASSUME NEW S, S \subseteq Nat, IsFiniteSet(S)
  PROVE  /\ Cardinality(S) \in Nat
         /\ \A x \in S : RankOf(S, x) \in 1 .. Cardinality(S)
         /\ \A x, y \in S : x < y => RankOf(S, x) < RankOf(S, y)
         /\ \A j \in 1 .. Cardinality(S) : \E x \in S : RankOf(S, x) = j
<1> DEFINE A(x) == {y \in S : y <= x}
           n == Cardinality(S)
           f == [x \in S |-> RankOf(S, x)]
<1>1. n \in Nat
  BY FS_CardinalityType
<1>2. \A x \in S : A(x) \in SUBSET S /\ x \in A(x)
  OBVIOUS
<1>3. \A x \in S : IsFiniteSet(A(x)) /\ Cardinality(A(x)) <= n
  BY <1>2, FS_Subset
<1>4. \A x \in S : RankOf(S, x) = Cardinality(A(x))
  BY DEF RankOf
<1> HIDE DEF A, n
<1>5. ASSUME NEW x \in S PROVE RankOf(S, x) \in 1 .. n
  <2>1. Cardinality(A(x)) \in Nat
    BY <1>3, FS_CardinalityType
  <2>2. Cardinality(A(x)) # 0
    BY <1>2, <1>3, FS_EmptySet
  <2>3. QED
    BY <1>1, <1>3, <1>4, <2>1, <2>2
<1>6. ASSUME NEW x \in S, NEW y \in S, x < y PROVE RankOf(S, x) < RankOf(S, y)
  <2>1. A(x) \in SUBSET A(y) /\ y \in A(y) /\ y \notin A(x)
    <3>1. x \in Nat /\ y \in Nat /\ x < y
      BY <1>6
    <3>2. \A z \in S : z \in Nat /\ (z <= x => z <= y)
      BY <3>1
    <3>3. y \in A(y) /\ y \notin A(x)
      BY <3>1 DEF A
    <3>4. QED
      BY <3>2, <3>3 DEF A
  <2>2. /\ Cardinality(A(x)) <= Cardinality(A(y))
        /\ Cardinality(A(y)) = Cardinality(A(x)) => A(y) = A(x)
    BY <1>3, <2>1, FS_Subset
  <2>3. Cardinality(A(y)) # Cardinality(A(x))
    BY <2>1, <2>2
  <2>4. Cardinality(A(x)) \in Nat /\ Cardinality(A(y)) \in Nat
    BY <1>3, FS_CardinalityType
  <2>5. QED
    BY <1>4, <2>2, <2>3, <2>4
<1>7. ASSUME NEW j \in 1 .. n PROVE \E x \in S : RankOf(S, x) = j
  <2>1. f \in [S -> 1 .. n]
    BY <1>5
  <2>2. ASSUME NEW x \in S, NEW y \in S, f[x] = f[y] PROVE x = y
    <3>1. RankOf(S, x) = RankOf(S, y)
      BY <2>2
    <3>2. x \in Nat /\ y \in Nat /\ RankOf(S, x) \in 1 .. n /\ RankOf(S, y) \in 1 .. n
      BY <1>5
    <3>3. ~(x < y) /\ ~(y < x)
      BY <1>1, <1>6, <3>1, <3>2
    <3>4. QED
      BY <3>2, <3>3
  <2>3. f \in Injection(S, 1 .. n)
    BY <2>1, <2>2 DEF Injection, IsInjective
  <2>4. IsFiniteSet(1 .. n) /\ Cardinality(1 .. n) = n
    BY <1>1, FS_Interval
  <2>5. PICK h : h = f
    OBVIOUS
  <2>6. h \in Surjection(S, 1 .. n)
    <3> HIDE DEF f
    <3>1. h \in Injection(S, 1 .. n) /\ Cardinality(S) = Cardinality(1 .. n)
      BY <2>3, <2>4, <2>5 DEF n
    <3>2. QED
      BY <2>4, <3>1, FS_Injection
  <2>7. PICK x \in S : h[x] = j
    BY <2>6 DEF Surjection
  <2>8. QED
    BY <2>5, <2>7
<1>8. QED
  BY <1>1, <1>5, <1>6, <1>7 DEF n

LEMMA SortedIs ==
  ASSUME NEW S, S \subseteq Nat, IsFiniteSet(S)
  PROVE  /\ Cardinality(S) \in Nat
         /\ Sorted(S) \in [1 .. Cardinality(S) -> S]
         /\ \A k \in 1 .. Cardinality(S) : \A j \in 1 .. k - 1 : Sorted(S)[j] < Sorted(S)[k]
         /\ \A x \in S : \E k \in 1 .. Cardinality(S) : Sorted(S)[k] = x
<1> DEFINE n == Cardinality(S)
           OK_(s) == \A k \in DOMAIN s : \A j \in 1 .. k - 1 : s[j] < s[k]
           w == [j \in 1 .. n |-> CHOOSE x \in S : RankOf(S, x) = j]
<1>1. /\ n \in Nat
      /\ \A x \in S : RankOf(S, x) \in 1 .. n
      /\ \A x, y \in S : x < y => RankOf(S, x) < RankOf(S, y)
      /\ \A j \in 1 .. n : \E x \in S : RankOf(S, x) = j
  BY RankIs
<1> HIDE DEF n
<1>2. \A j \in 1 .. n : w[j] \in S /\ RankOf(S, w[j]) = j
  BY <1>1
<1>3. w \in [1 .. n -> S] /\ DOMAIN w = 1 .. n
  BY <1>2
<1> HIDE DEF w
<1>4. ASSUME NEW k \in 1 .. n, NEW j \in 1 .. k - 1 PROVE w[j] < w[k]
  <2>1. j \in 1 .. n /\ w[j] \in Nat /\ w[k] \in Nat /\ RankOf(S, w[j]) = j /\ RankOf(S, w[k]) = k /\ j < k
    <3>1. j \in 1 .. n /\ j < k
      BY <1>1
    <3>2. QED
      BY <1>2, <3>1
  <2>2. w[j] \in S /\ w[k] \in S
    BY <1>2, <2>1
  <2>3. w[j] # w[k]
    BY <2>1
  <2>4. ~(w[k] < w[j])
    <3>1. w[k] < w[j] => RankOf(S, w[k]) < RankOf(S, w[j])
      BY <1>1, <2>2
    <3>2. QED
      BY <1>1, <2>1, <3>1
  <2>5. QED
    BY <2>1, <2>3, <2>4
<1>5. OK_(w)
  BY <1>3, <1>4
<1>6. PICK s : s = Sorted(S)
  OBVIOUS
<1>7. s = CHOOSE z \in [1 .. n -> S] : OK_(z)
  BY <1>6 DEF Sorted, n
<1> HIDE DEF OK_
<1>8. s \in [1 .. n -> S] /\ OK_(s)
  BY <1>3, <1>5, <1>7
<1>9. \A k \in 1 .. n : \A j \in 1 .. k - 1 : s[j] < s[k]
  BY <1>8 DEF OK_
<1>10. s \in Injection(1 .. n, S)
  <2>1. ASSUME NEW j \in 1 .. n, NEW k \in 1 .. n, s[j] = s[k] PROVE j = k
    <3>1. s[j] \in Nat /\ s[k] \in Nat
      BY <1>8
    <3>2. j < k => s[j] < s[k]
      BY <1>1, <1>9
    <3>3. k < j => s[k] < s[j]
      BY <1>1, <1>9
    <3>4. QED
      BY <1>1, <2>1, <3>1, <3>2, <3>3
  <2>2. QED
    BY <1>8, <2>1 DEF Injection, IsInjective
<1>11. s \in Surjection(1 .. n, S)
  <2>1. Cardinality(1 .. n) = Cardinality(S)
    BY <1>1, FS_Interval DEF n
  <2>2. QED
    BY <1>10, <2>1, FS_Injection
<1>12. \A x \in S : \E k \in 1 .. n : s[k] = x
  BY <1>11 DEF Surjection
<1>13. QED
  BY <1>1, <1>6, <1>8, <1>9, <1>12 DEF n

(* The lists of connections and of positions.                                     *)
Listing(s, S, n) ==
  /\ n \in Nat /\ s \in [1 .. n -> S] /\ IsSeq(s) /\ Len(s) = n /\ DOMAIN s = 1 .. n
  /\ \A k \in 1 .. n : s[k] \in S /\ \A j \in 1 .. k - 1 : s[j] # s[k]
  /\ \A x \in S : \E k \in 1 .. n : s[k] = x

LEMMA SortedLists ==
  ASSUME NEW S, S \subseteq Nat, IsFiniteSet(S)
  PROVE  Listing(Sorted(S), S, Cardinality(S))
<1> DEFINE n == Cardinality(S)
           s == Sorted(S)
<1>1. /\ n \in Nat /\ s \in [1 .. n -> S]
      /\ \A k \in 1 .. n : \A j \in 1 .. k - 1 : s[j] < s[k]
      /\ \A x \in S : \E k \in 1 .. n : s[k] = x
  BY SortedIs
<1> HIDE DEF n, s
<1>2. IsSeq(s) /\ Len(s) = n /\ DOMAIN s = 1 .. n
  <2>1. s \in Seq(S) /\ Len(s) = n /\ DOMAIN s = 1 .. n
    BY <1>1
  <2>2. QED
    BY <2>1, SeqIs
<1>3. ASSUME NEW k \in 1 .. n, NEW j \in 1 .. k - 1 PROVE s[j] # s[k]
  <2>1. s[j] < s[k] /\ j \in 1 .. n
    BY <1>1
  <2>2. s[j] \in Nat /\ s[k] \in Nat
    BY <1>1, <2>1
  <2>3. QED
    BY <2>1, <2>2
<1>4. \A k \in 1 .. n : s[k] \in S
  BY <1>1
<1>5. QED
  BY <1>1, <1>2, <1>3, <1>4 DEF Listing, n, s

Keys(ks) == ks \in Seq(Nat) /\ ks # <<>> /\ \A k \in DOMAIN ks : Home[ks[k]] \in Socks
Places(ks, c) == {k \in DOMAIN ks : Home[ks[k]] = c}

LEMMA SocksAre == Socks \subseteq Nat /\ IsFiniteSet(Socks) /\ Socks # {}
<1>1. PICK n : n = Cardinality(Socks)
  OBVIOUS
<1>2. Socks = 1 .. n
  BY <1>1, ClientAssumption
<1>3. Socks \subseteq Nat
  BY <1>2
<1>4. QED
  BY <1>3, ClientAssumption

LEMMA ListingNotEmpty ==
  ASSUME NEW s, NEW S, NEW n, Listing(s, S, n), S # {}
  PROVE  n > 0 /\ s # <<>>
<1>1. PICK x \in S : TRUE
  OBVIOUS
<1>2. PICK k \in 1 .. n : s[k] = x
  BY <1>1 DEF Listing
<1>3. n \in Nat /\ n > 0 /\ Len(s) = n
  BY <1>2 DEF Listing
<1>4. QED
  BY <1>3, EmptyIs

LEMMA AllIs == \E n \in Nat : n > 0 /\ Listing(All, Socks, n)
<1>1. Listing(Sorted(Socks), Socks, Cardinality(Socks))
  BY SocksAre, SortedLists
<1>2. PICK n : n = Cardinality(Socks)
  OBVIOUS
<1>3. PICK s : s = All
  OBVIOUS
<1>4. Listing(s, Socks, n)
  BY <1>1, <1>2, <1>3 DEF All
<1>5. n \in Nat
  BY <1>4 DEF Listing
<1>6. n > 0
  BY <1>4, SocksAre, ListingNotEmpty
<1>7. QED
  BY <1>3, <1>4, <1>5, <1>6

LEMMA SocketsAre ==
  ASSUME NEW ks, Keys(ks)
  PROVE  \E n \in Nat : n > 0 /\ Listing(Sockets(ks), {Home[ks[k]] : k \in DOMAIN ks}, n)
<1> DEFINE S == {Home[ks[k]] : k \in DOMAIN ks}
<1>1. S \subseteq Socks
  BY DEF Keys
<1>2. S # {}
  <2>1. 1 \in DOMAIN ks
    BY SeqIs DEF Keys
  <2>2. QED
    BY <2>1
<1>3. PICK s : s = Sockets(ks)
  OBVIOUS
<1>4. s = Sorted(S)
  BY <1>3 DEF Sockets
<1> HIDE DEF S
<1>5. S \subseteq Nat /\ IsFiniteSet(S)
  BY <1>1, SocksAre, FS_Subset
<1>6. PICK n : n = Cardinality(S)
  OBVIOUS
<1>7. Listing(s, S, n)
  BY <1>4, <1>5, <1>6, SortedLists
<1>8. n \in Nat /\ n > 0
  BY <1>2, <1>7, ListingNotEmpty DEF Listing
<1>9. QED
  BY <1>3, <1>7, <1>8 DEF S

LEMMA OwnIs ==
  ASSUME NEW ks, Keys(ks), NEW c
  PROVE  /\ Own(ks, c) \in Seq(Nat) /\ IsFiniteSet(Places(ks, c)) /\ Places(ks, c) \subseteq Nat
         /\ Cardinality(Places(ks, c)) \in Nat /\ Len(Own(ks, c)) = Cardinality(Places(ks, c))
         /\ DOMAIN Own(ks, c) = 1 .. Cardinality(Places(ks, c))
<1> DEFINE S == Places(ks, c)
           n == Cardinality(S)
<1>1. ks \in Seq(Nat) /\ DOMAIN ks = 1 .. Len(ks) /\ Len(ks) \in Nat
  BY SeqIs DEF Keys
<1>2. S \in SUBSET (1 .. Len(ks)) /\ S \subseteq DOMAIN ks
  BY <1>1 DEF Places
<1>3. S \subseteq Nat /\ IsFiniteSet(S)
  <2> HIDE DEF S
  <2>1. IsFiniteSet(1 .. Len(ks))
    BY <1>1, FS_Interval
  <2>2. S \subseteq Nat
    BY <1>1, <1>2
  <2>3. QED
    BY <1>2, <2>1, <2>2, FS_Subset
<1>4. PICK s : s = indices(ks, c)
  OBVIOUS
<1>5. s = Sorted(S)
  BY <1>4 DEF indices, Places
<1> HIDE DEF S, n
<1>6. Listing(s, S, n)
  BY <1>3, <1>5, SortedLists DEF n
<1>7. n \in Nat /\ s \in [1 .. n -> S] /\ DOMAIN s = 1 .. n
  BY <1>6 DEF Listing
<1>8. Own(ks, c) = [k \in 1 .. n |-> ks[s[k]]]
  BY <1>4, <1>7 DEF Own
<1>9. \A k \in 1 .. n : ks[s[k]] \in Nat
  <2>1. \A k \in 1 .. n : s[k] \in 1 .. Len(ks)
    BY <1>2, <1>7
  <2>2. QED
    BY <1>1, <2>1
<1>10. PICK o : o = Own(ks, c)
  OBVIOUS
<1>11. o \in Seq(Nat) /\ Len(o) = n /\ DOMAIN o = 1 .. n
  BY <1>7, <1>8, <1>9, <1>10
<1>12. QED
  BY <1>3, <1>7, <1>10, <1>11 DEF S, n

LEMMA GetSocketIs ==
  ASSUME NEW ks, Keys(ks)
  PROVE  Home[ks[1]] \in Socks /\ get_socket(ks) \in Socks \cup {NoCon} /\ ks[1] \in Nat
<1>1. 1 \in DOMAIN ks /\ ks[1] \in Nat
  BY SeqIs DEF Keys
<1>2. QED
  BY <1>1 DEF Keys, get_socket

-----------------------------------------------------------------------------
(* One command and its answer.                                                    *)
LEMMA OneCommand ==
  ASSUME NEW R, NEW dbs, NEW c, NEW v, NEW a \in Seq(Nat), v = "SELECT" => a[1] \in dbs,
         NEW s \in Range(R), Waits(s, ncalls, c, 1), Entry(v, s.reader),
         \A z \in Range(R) : z.reader # "queued"
  PROVE  Sends(R, ncalls, dbs, send(c, <<Cmd(v, a, c, 1)>>))
<1>1. PICK q : q = Cmd(v, a, c, 1)
  OBVIOUS
<1>2. q.id = <<ncalls, c, 1>> /\ q.verb = v /\ q.keys = a
  BY <1>1 DEF Cmd
<1>3. PICK qs : qs = <<q>>
  OBVIOUS
<1>4. IsSeq(qs) /\ DOMAIN qs = {1} /\ qs[1] = q
  BY <1>3, OneIsSeq
<1>5. Plain(R, dbs, c, q, 1)
  BY <1>2 DEF Plain
<1>6. Sends(R, ncalls, dbs, send(c, qs))
  BY <1>4, <1>5, Pipeline
<1>7. QED
  BY <1>1, <1>3, <1>6

LEMMA PairIs ==
  ASSUME NEW x, NEW y
  PROVE  <<x>> \o <<y>> = <<x, y>> /\ IsSeq(<<x, y>>) /\ Range(<<x, y>>) = {x, y}
<1> DEFINE S == {x, y}
           a == <<x>>
           b == <<y>>
           p == <<x, y>>
<1>1. a \in Seq(S) /\ b \in Seq(S) /\ p \in Seq(S)
  OBVIOUS
<1>2. Len(a) = 1 /\ Len(b) = 1 /\ Len(p) = 2 /\ a[1] = x /\ b[1] = y /\ p[1] = x /\ p[2] = y
  OBVIOUS
<1> HIDE DEF a, b, p, S
<1>3. /\ a \o b \in Seq(S) /\ Len(a \o b) = 2 /\ (a \o b)[1] = x /\ (a \o b)[2] = y
  BY <1>1, <1>2, ConcatProperties
<1>4. PICK q : q = a \o b
  OBVIOUS
<1>5. DOMAIN q = 1 .. 2 /\ DOMAIN p = 1 .. 2 /\ q \in Seq(S)
  BY <1>1, <1>2, <1>3, <1>4
<1>6. q = [k \in 1 .. 2 |-> q[k]] /\ p = [k \in 1 .. 2 |-> p[k]]
  BY <1>1, <1>5
<1>7. \A k \in 1 .. 2 : q[k] = p[k]
  BY <1>2, <1>3, <1>4
<1>8. q = p
  BY <1>6, <1>7
<1>9. IsSeq(p)
  BY <1>1, SeqIs
<1>10. Range(p) = {x, y}
  BY <1>2, <1>5 DEF Range
<1>11. QED
  BY <1>4, <1>8, <1>9, <1>10 DEF a, b, p

LEMMA SingleFits ==
  ASSUME NEW dbs, NEW c \in Socks \cup {NoCon}, NEW v, NEW f, Entry(v, f), NEW a \in Seq(Nat),
         v = "SELECT" => a[1] \in dbs, NEW at, NEW many
  PROVE  PlanOK(<<send(c, <<Cmd(v, a, c, 1)>>), recv(c, f, 1, at)>>, ncalls, dbs, many)
<1>1. PICK x : x = send(c, <<Cmd(v, a, c, 1)>>)
  OBVIOUS
<1>2. PICK y : y = recv(c, f, 1, at)
  OBVIOUS
<1>3. x.op = "send" /\ x.con = c
  BY <1>1 DEF send
<1>4. y.op = "recv" /\ y.con = c /\ y.reader = f /\ y.id = <<ncalls, c, 1>> /\ Waits(y, ncalls, c, 1)
  BY <1>2 DEF recv, Waits, IsRecv
<1>5. PICK F : F = <<x>>
  OBVIOUS
<1>6. PICK R : R = <<y>>
  OBVIOUS
<1>7. IsSeq(F) /\ DOMAIN F = {1} /\ F[1] = x /\ IsSeq(R) /\ DOMAIN R = {1} /\ R[1] = y /\ Range(R) = {y}
  BY <1>5, <1>6, OneIsSeq
<1>8. F \o R = <<x, y>>
  BY <1>5, <1>6, PairIs
<1>9. PICK p : p = <<x, y>>
  OBVIOUS
<1>10. Len(p) = 2 /\ p[1] = x /\ p[2] = y /\ p # <<>>
  BY <1>9
<1>11. IsSeq(p) /\ Range(p) = {x, y}
  BY <1>9, PairIs
<1>12. CASE c = NoCon
  <2>1. Nowhere(p)
    BY <1>3, <1>4, <1>10, <1>11, <1>12 DEF Nowhere
  <2>2. PlanOK(p, ncalls, dbs, many)
    BY <1>10, <1>11, <2>1 DEF PlanOK
  <2>3. QED
    BY <1>1, <1>2, <1>8, <1>9, <2>2
<1>13. CASE c \in Socks
  <2>1. Alternating(p)
    <3>1. \A k \in 2 .. 2 : k - 1 = 1
      OBVIOUS
    <3>2. QED
      BY <1>3, <1>4, <1>10, <3>1 DEF Alternating, IsSend
  <2>2. Sends(R, ncalls, dbs, x)
    <3>1. \A z \in Range(R) : z.reader # "queued"
      BY <1>4, <1>7 DEF Entry
    <3>2. y \in Range(R) /\ Entry(v, y.reader)
      BY <1>4, <1>7
    <3>3. QED
      BY <1>1, <1>4, <3>1, <3>2, OneCommand
  <2>3. SendPart(F, R, dbs)
    BY <1>3, <1>7, <1>13, <2>2 DEF SendPart
  <2>4. RecvPart(R)
    BY <1>4, <1>7, <1>13 DEF RecvPart, InOrder
  <2>5. R # <<>>
    BY <1>6
  <2>6. PlanOK(F \o R, ncalls, dbs, many)
    BY <1>7, <1>8, <1>9, <2>1, <2>3, <2>4, <2>5, SendsThenReceives
  <2>7. QED
    BY <1>1, <1>2, <1>8, <2>6
<1>14. QED
  BY <1>12, <1>13

-----------------------------------------------------------------------------
(* The same command to several connections.                                       *)
Spreads(F, R, cs, n, v, f, dbs) ==
  /\ IsSeq(F) /\ IsSeq(R) /\ DOMAIN F = 1 .. n /\ DOMAIN R = 1 .. n
  /\ \A k \in 1 .. n : \E a \in Seq(Nat) : \E at :
       /\ v = "SELECT" => a[1] \in dbs
       /\ F[k] = send(cs[k], <<Cmd(v, a, cs[k], 1)>>) /\ R[k] = recv(cs[k], f, 1, at)

LEMMA SpreadFits ==
  ASSUME NEW S, S \subseteq Socks, NEW cs, NEW n \in Nat, n > 0, Listing(cs, S, n), NEW dbs,
         NEW v, NEW f, Entry(v, f), NEW F, NEW R, Spreads(F, R, cs, n, v, f, dbs), NEW many, many
  PROVE  PlanOK(F \o R, ncalls, dbs, many)
<1>1. \A k \in 1 .. n : /\ R[k].op = "recv" /\ R[k].con = cs[k] /\ R[k].reader = f
                        /\ R[k].id = <<ncalls, cs[k], 1>> /\ Waits(R[k], ncalls, cs[k], 1)
  <2> SUFFICES ASSUME NEW k \in 1 .. n
               PROVE  /\ R[k].op = "recv" /\ R[k].con = cs[k] /\ R[k].reader = f
                      /\ R[k].id = <<ncalls, cs[k], 1>> /\ Waits(R[k], ncalls, cs[k], 1)
    OBVIOUS
  <2>1. PICK at : R[k] = recv(cs[k], f, 1, at)
    BY DEF Spreads
  <2>2. QED
    BY <2>1, RecvIs
<1>2. \A k \in 1 .. n : F[k].op = "send" /\ F[k].con = cs[k]
  <2> SUFFICES ASSUME NEW k \in 1 .. n PROVE F[k].op = "send" /\ F[k].con = cs[k]
    OBVIOUS
  <2>1. PICK a : F[k] = send(cs[k], <<Cmd(v, a, cs[k], 1)>>)
    BY DEF Spreads
  <2>2. QED
    BY <2>1, SendIs
<1>3. /\ IsSeq(F) /\ IsSeq(R) /\ DOMAIN F = 1 .. n /\ DOMAIN R = 1 .. n
      /\ \A k \in 1 .. n : cs[k] \in Socks /\ \A j \in 1 .. k - 1 : cs[j] # cs[k]
  BY DEF Spreads, Listing
<1>4. \A z \in Range(R) : z.reader # "queued"
  BY <1>1, <1>3 DEF Range, Entry
<1>5. ASSUME NEW k \in 1 .. n PROVE Sends(R, ncalls, dbs, F[k])
  <2>1. PICK a \in Seq(Nat) : (v = "SELECT" => a[1] \in dbs) /\ F[k] = send(cs[k], <<Cmd(v, a, cs[k], 1)>>)
    BY DEF Spreads
  <2>2. R[k] \in Range(R) /\ Waits(R[k], ncalls, cs[k], 1) /\ Entry(v, R[k].reader)
    BY <1>1, <1>3, RangeHas
  <2>3. PICK c : c = cs[k]
    OBVIOUS
  <2>4. Sends(R, ncalls, dbs, send(c, <<Cmd(v, a, c, 1)>>))
    BY <1>4, <2>1, <2>2, <2>3, OneCommand
  <2>5. QED
    BY <2>1, <2>3, <2>4
<1>6. SendPart(F, R, dbs)
  <2>1. \A k \in 1 .. n : \A j \in 1 .. k - 1 : j \in 1 .. n
    OBVIOUS
  <2>2. QED
    BY <1>2, <1>3, <1>5, <2>1 DEF SendPart
<1>7. RecvPart(R)
  <2>1. \A s \in Range(R) : s.op = "recv" /\ s.con \in Socks /\ s.id = <<ncalls, s.con, 1>>
    BY <1>1, <1>3 DEF Range
  <2>2. InOrder(R)
    <3>1. \A k \in 1 .. n : \A j \in 1 .. k - 1 : j \in 1 .. n
      OBVIOUS
    <3>2. QED
      BY <1>1, <1>3, <3>1 DEF InOrder
  <2>3. QED
    BY <2>1, <2>2 DEF RecvPart
<1>8. R # <<>>
  <2>1. 1 \in DOMAIN R
    BY <1>3
  <2>2. QED
    BY <2>1, EmptyIs
<1>9. QED
  BY <1>3, <1>6, <1>7, <1>8, SendsThenReceives

(* Several commands in one send.                                                  *)
LEMMA SaddRangeFits ==
  ASSUME NEW k \in Nat, Home[k] \in Socks, NEW dbs, NEW many, many
  PROVE  PlanOK(sadd_range(k), ncalls, dbs, many)
<1> DEFINE c == Home[k]
           qs == [j \in 1 .. 2 |-> Cmd("SADD", <<k>>, c, j)]
           x == send(c, qs)
           F == <<x>>
           R == [j \in 1 .. 2 |-> recv(c, "int", j, <<>>)]
<1>1. sadd_range(k) = F \o R
  BY DEF sadd_range
<1>2. IsSeq(qs) /\ DOMAIN qs = 1 .. 2
  <2>1. qs = [j \in 1 .. 2 |-> qs[j]]
    OBVIOUS
  <2> HIDE DEF qs
  <2>2. QED
    BY <2>1, FunctionIsSeq
<1>3. IsSeq(R) /\ DOMAIN R = 1 .. 2
  <2>1. R = [j \in 1 .. 2 |-> R[j]]
    OBVIOUS
  <2> HIDE DEF R
  <2>2. QED
    BY <2>1, FunctionIsSeq
<1>4. \A j \in 1 .. 2 : /\ R[j].op = "recv" /\ R[j].con = c /\ R[j].reader = "int"
                        /\ R[j].id = <<ncalls, c, j>> /\ Waits(R[j], ncalls, c, j)
  <2>1. \A j \in 1 .. 2 : R[j] = recv(c, "int", j, <<>>)
    OBVIOUS
  <2> HIDE DEF R, c
  <2>2. QED
    BY <2>1, RecvIs
<1>5. \A j \in 1 .. 2 : qs[j].verb = "SADD" /\ qs[j].keys = <<k>> /\ qs[j].id = <<ncalls, c, j>>
  <2>1. \A j \in 1 .. 2 : qs[j] = Cmd("SADD", <<k>>, c, j)
    OBVIOUS
  <2> HIDE DEF qs, c
  <2>2. QED
    BY <2>1, CmdIs
<1>6. x.op = "send" /\ x.con = c
  BY DEF send
<1>7. IsSeq(F) /\ DOMAIN F = {1} /\ F[1] = x
  BY OneIsSeq
<1> HIDE DEF F, R, qs, c
<1>8. Entry("SADD", "int") /\ <<k>> \in Seq(Nat)
  BY DEF Entry, Suits, Verbs, OkVerbs, TestVerbs, CountVerbs, Texts, Lists, TextVerbs, ListVerbs
<1>9. \A j \in 1 .. 2 : R[j] \in Range(R)
  BY <1>3, RangeHas
<1>10. \A j \in DOMAIN qs : Plain(R, dbs, c, qs[j], j)
  <2> SUFFICES ASSUME NEW j \in 1 .. 2 PROVE Plain(R, dbs, c, qs[j], j)
    BY <1>2
  <2>1. Waits(R[j], ncalls, c, j) /\ R[j] \in Range(R) /\ R[j].reader = "int"
    BY <1>4, <1>9
  <2>2. qs[j].verb = "SADD" /\ qs[j].keys \in Seq(Nat) /\ qs[j].id = <<ncalls, c, j>>
    BY <1>5, <1>8
  <2>3. QED
    BY <1>8, <2>1, <2>2 DEF Plain
<1>11. \A z \in Range(R) : z.reader # "queued"
  BY <1>3, <1>4 DEF Range
<1>12. Sends(R, ncalls, dbs, x)
  BY <1>2, <1>10, <1>11, Pipeline
<1> HIDE DEF x
<1>13. SendPart(F, R, dbs)
  BY <1>6, <1>7, <1>12 DEF SendPart, c
<1>14. RecvPart(R)
  <2>1. \A s \in Range(R) : s.op = "recv" /\ s.con \in Socks /\ \E n \in Nat : n > 0 /\ s.id = <<ncalls, s.con, n>>
    <3>1. \A j \in 1 .. 2 : R[j].con \in Socks /\ \E n \in Nat : n > 0 /\ R[j].id = <<ncalls, R[j].con, n>>
      BY <1>4 DEF c
    <3>2. QED
      BY <1>3, <1>4, <3>1 DEF Range
  <2>2. InOrder(R)
    <3>1. \A i \in 1 .. 2 : \A j \in 1 .. i - 1 : j \in 1 .. 2 /\ j < i
      OBVIOUS
    <3>2. QED
      BY <1>3, <1>4, <3>1 DEF InOrder
  <2>3. QED
    BY <2>1, <2>2 DEF RecvPart
<1>15. R # <<>>
  <2>1. 1 \in DOMAIN R
    BY <1>3
  <2>2. QED
    BY <2>1, EmptyIs
<1>16. QED
  BY <1>1, <1>3, <1>7, <1>13, <1>14, <1>15, SendsThenReceives

(* A pipeline over several servers.                                               *)
LEMMA RanksAre ==
  ASSUME NEW ks, Keys(ks)
  PROVE  /\ DOMAIN ks = 1 .. Len(ks) /\ Len(ks) \in Nat /\ Len(ks) > 0
         /\ \A k \in DOMAIN ks : Rank(ks, k) \in Nat /\ Rank(ks, k) > 0
         /\ \A j, k \in DOMAIN ks : j < k /\ Home[ks[j]] = Home[ks[k]] => Rank(ks, j) < Rank(ks, k)
         /\ \A c : \A i \in DOMAIN Own(ks, c) : \E k \in DOMAIN ks : Home[ks[k]] = c /\ Rank(ks, k) = i
<1>1. DOMAIN ks = 1 .. Len(ks) /\ Len(ks) \in Nat /\ Len(ks) > 0
  BY SeqIs DEF Keys
<1>2. ASSUME NEW k \in DOMAIN ks PROVE Rank(ks, k) = RankOf(Places(ks, Home[ks[k]]), k)
  <2>1. {j \in 1 .. k : Home[ks[j]] = Home[ks[k]]} = {y \in Places(ks, Home[ks[k]]) : y <= k}
    BY <1>1 DEF Places
  <2>2. QED
    BY <2>1 DEF Rank, RankOf
<1>3. ASSUME NEW c
      PROVE  /\ Cardinality(Places(ks, c)) \in Nat /\ DOMAIN Own(ks, c) = 1 .. Cardinality(Places(ks, c))
             /\ \A x \in Places(ks, c) : RankOf(Places(ks, c), x) \in 1 .. Cardinality(Places(ks, c))
             /\ \A x, y \in Places(ks, c) : x < y => RankOf(Places(ks, c), x) < RankOf(Places(ks, c), y)
             /\ \A j \in 1 .. Cardinality(Places(ks, c)) : \E x \in Places(ks, c) : RankOf(Places(ks, c), x) = j
  <2>1. /\ IsFiniteSet(Places(ks, c)) /\ Places(ks, c) \subseteq Nat
        /\ DOMAIN Own(ks, c) = 1 .. Cardinality(Places(ks, c))
    BY OwnIs
  <2>2. PICK S : S = Places(ks, c)
    OBVIOUS
  <2>3. /\ Cardinality(S) \in Nat
        /\ \A x \in S : RankOf(S, x) \in 1 .. Cardinality(S)
        /\ \A x, y \in S : x < y => RankOf(S, x) < RankOf(S, y)
        /\ \A j \in 1 .. Cardinality(S) : \E x \in S : RankOf(S, x) = j
    BY <2>1, <2>2, RankIs
  <2>4. QED
    BY <2>1, <2>2, <2>3
<1>4. \A k \in DOMAIN ks : k \in Places(ks, Home[ks[k]])
  BY DEF Places
<1>5. \A k \in DOMAIN ks : Rank(ks, k) \in Nat /\ Rank(ks, k) > 0
  <2> SUFFICES ASSUME NEW k \in DOMAIN ks PROVE Rank(ks, k) \in Nat /\ Rank(ks, k) > 0
    OBVIOUS
  <2>1. PICK c : c = Home[ks[k]]
    OBVIOUS
  <2>2. Rank(ks, k) \in 1 .. Cardinality(Places(ks, c)) /\ Cardinality(Places(ks, c)) \in Nat
    BY <1>2, <1>3, <1>4, <2>1
  <2>3. QED
    BY <2>2
<1>6. ASSUME NEW j \in DOMAIN ks, NEW k \in DOMAIN ks, j < k, Home[ks[j]] = Home[ks[k]]
      PROVE  Rank(ks, j) < Rank(ks, k)
  <2>1. PICK c : c = Home[ks[k]]
    OBVIOUS
  <2>2. j \in Places(ks, c) /\ k \in Places(ks, c)
    BY <1>4, <1>6, <2>1
  <2>3. RankOf(Places(ks, c), j) < RankOf(Places(ks, c), k)
    BY <1>3, <1>6, <2>2
  <2>4. QED
    BY <1>2, <1>6, <2>1, <2>3
<1>7. ASSUME NEW c, NEW i \in DOMAIN Own(ks, c) PROVE \E k \in DOMAIN ks : Home[ks[k]] = c /\ Rank(ks, k) = i
  <2>1. PICK x \in Places(ks, c) : RankOf(Places(ks, c), x) = i
    BY <1>3
  <2>2. x \in DOMAIN ks /\ Home[ks[x]] = c
    BY <2>1 DEF Places
  <2>3. QED
    BY <1>2, <2>1, <2>2
<1>8. QED
  BY <1>1, <1>5, <1>6, <1>7

LEMMA ExecFits ==
  ASSUME NEW ks, Keys(ks), NEW dbs, NEW many, many
  PROVE  PlanOK(exec(ks), ncalls, dbs, many)
<1> DEFINE cs == Sockets(ks)
           S == {Home[ks[k]] : k \in DOMAIN ks}
           cmds(c) == [k \in DOMAIN Own(ks, c) |-> Cmd("GET", <<Own(ks, c)[k]>>, c, k)]
           F == [k \in 1 .. Len(cs) |-> send(cs[k], cmds(cs[k]))]
           R == [k \in DOMAIN ks |-> recv(Home[ks[k]], "generic", Rank(ks, k), <<k>>)]
<1>1. exec(ks) = F \o R
  BY DEF exec
<1>2. PICK n \in Nat : n > 0 /\ Listing(cs, S, n)
  BY SocketsAre
<1>3. S \subseteq Socks
  BY DEF Keys
<1>4. /\ DOMAIN ks = 1 .. Len(ks) /\ Len(ks) \in Nat /\ Len(ks) > 0
      /\ \A k \in DOMAIN ks : Rank(ks, k) \in Nat /\ Rank(ks, k) > 0
      /\ \A j, k \in DOMAIN ks : j < k /\ Home[ks[j]] = Home[ks[k]] => Rank(ks, j) < Rank(ks, k)
      /\ \A c : \A i \in DOMAIN Own(ks, c) : \E k \in DOMAIN ks : Home[ks[k]] = c /\ Rank(ks, k) = i
  BY RanksAre
<1>5. Len(cs) = n /\ \A k \in 1 .. n : cs[k] \in Socks /\ \A j \in 1 .. k - 1 : cs[j] # cs[k]
  <2> HIDE DEF cs, S
  <2>1. QED
    BY <1>2, <1>3 DEF Listing
<1>6. IsSeq(F) /\ DOMAIN F = 1 .. n
  <2>1. F = [k \in 1 .. n |-> F[k]]
    BY <1>5
  <2> HIDE DEF F
  <2>2. QED
    BY <2>1, FunctionIsSeq
<1>7. IsSeq(R) /\ DOMAIN R = DOMAIN ks
  <2>1. R = [k \in 1 .. Len(ks) |-> R[k]]
    BY <1>4
  <2> HIDE DEF R
  <2>2. QED
    BY <1>4, <2>1, FunctionIsSeq
<1>8. \A k \in DOMAIN ks : R[k] = recv(Home[ks[k]], "generic", Rank(ks, k), <<k>>)
  OBVIOUS
<1>9. \A k \in 1 .. n : F[k] = send(cs[k], cmds(cs[k]))
  BY <1>5
<1> HIDE DEF F, R, cs, S
<1>10. ASSUME NEW k \in DOMAIN ks
       PROVE  /\ R[k].op = "recv" /\ R[k].con = Home[ks[k]] /\ R[k].reader = "generic"
              /\ R[k].id = <<ncalls, Home[ks[k]], Rank(ks, k)>>
              /\ Waits(R[k], ncalls, Home[ks[k]], Rank(ks, k)) /\ R[k] \in Range(R)
  <2>1. R[k] \in Range(R)
    BY <1>7, RangeHas
  <2>2. PICK s, c, i, at : s = R[k] /\ c = Home[ks[k]] /\ i = Rank(ks, k) /\ at = <<k>>
    OBVIOUS
  <2>3. s = recv(c, "generic", i, at)
    BY <1>8, <2>2
  <2>4. s.op = "recv" /\ s.con = c /\ s.reader = "generic" /\ s.id = <<ncalls, c, i>> /\ Waits(s, ncalls, c, i)
    BY <2>3, RecvIs
  <2>5. QED
    BY <2>1, <2>2, <2>4
<1>11. \A z \in Range(R) : \E k \in DOMAIN ks : z = R[k]
  BY <1>7 DEF Range
<1>12. \A z \in Range(R) : z.reader # "queued"
  BY <1>10, <1>11
<1>13. ASSUME NEW c PROVE Sends(R, ncalls, dbs, send(c, cmds(c)))
  <2>1. PICK o : o = Own(ks, c)
    OBVIOUS
  <2>2. o \in Seq(Nat) /\ Len(o) \in Nat /\ DOMAIN o = 1 .. Len(o)
    <3>1. o \in Seq(Nat)
      BY <2>1, OwnIs
    <3>2. QED
      BY <3>1, SeqIs
  <2>3. PICK qs : qs = cmds(c)
    OBVIOUS
  <2>4. qs = [i \in 1 .. Len(o) |-> Cmd("GET", <<o[i]>>, c, i)]
    BY <2>1, <2>2, <2>3
  <2>5. IsSeq(qs) /\ DOMAIN qs = 1 .. Len(o)
    <3>1. qs = [i \in 1 .. Len(o) |-> qs[i]]
      BY <2>4
    <3>2. QED
      BY <2>2, <3>1, FunctionIsSeq
  <2>6. Entry("GET", "generic")
    BY DEF Entry, Suits, Verbs, OkVerbs, TestVerbs, CountVerbs, Texts, Lists, TextVerbs, ListVerbs
  <2>7. ASSUME NEW i \in DOMAIN qs PROVE Plain(R, dbs, c, qs[i], i)
    <3>1. qs[i] = Cmd("GET", <<o[i]>>, c, i) /\ <<o[i]>> \in Seq(Nat)
      BY <2>2, <2>4, <2>5
    <3>2. qs[i].verb = "GET" /\ qs[i].keys = <<o[i]>> /\ qs[i].id = <<ncalls, c, i>>
      BY <3>1, CmdIs
    <3>3. PICK k \in DOMAIN ks : Home[ks[k]] = c /\ Rank(ks, k) = i
      BY <1>4, <2>1, <2>2, <2>5
    <3>4. R[k] \in Range(R) /\ Waits(R[k], ncalls, c, i) /\ R[k].reader = "generic"
      BY <1>10, <3>3
    <3>5. QED
      BY <2>6, <3>1, <3>2, <3>4 DEF Plain
  <2>8. Sends(R, ncalls, dbs, send(c, qs))
    BY <1>12, <2>5, <2>7, Pipeline
  <2>9. QED
    BY <2>3, <2>8
<1> HIDE DEF cmds
<1>14. SendPart(F, R, dbs)
  <2>1. ASSUME NEW k \in 1 .. n PROVE F[k].op = "send" /\ F[k].con = cs[k] /\ Sends(R, ncalls, dbs, F[k])
    <3>1. F[k] = send(cs[k], cmds(cs[k]))
      BY <1>9
    <3>2. QED
      BY <1>13, <3>1, SendIs
  <2>2. \A k \in 1 .. n : \A j \in 1 .. k - 1 : j \in 1 .. n
    OBVIOUS
  <2>3. QED
    BY <1>5, <1>6, <2>1, <2>2 DEF SendPart
<1>15. RecvPart(R)
  <2>1. \A z \in Range(R) : z.op = "recv" /\ z.con \in Socks /\ \E i \in Nat : i > 0 /\ z.id = <<ncalls, z.con, i>>
    <3>1. \A k \in DOMAIN ks : R[k].con \in Socks /\ \E i \in Nat : i > 0 /\ R[k].id = <<ncalls, R[k].con, i>>
      BY <1>4, <1>10 DEF Keys
    <3>2. QED
      BY <1>10, <1>11, <3>1
  <2>2. InOrder(R)
    <3>1. \A k \in DOMAIN ks : \A j \in 1 .. k - 1 : j \in DOMAIN ks /\ j < k
      BY <1>4
    <3>2. QED
      BY <1>4, <1>7, <1>10, <3>1 DEF InOrder
  <2>3. QED
    BY <2>1, <2>2 DEF RecvPart
<1>16. R # <<>>
  <2>1. 1 \in DOMAIN R
    BY <1>4, <1>7
  <2>2. QED
    BY <2>1, EmptyIs
<1>17. QED
  BY <1>1, <1>6, <1>7, <1>14, <1>15, <1>16, SendsThenReceives

LEMMA LeastNat ==
  ASSUME NEW T, T \subseteq Nat, T # {}
  PROVE  \E x \in T : \A y \in T : x <= y
<1>1. PICK x \in T : \A y \in T : ~(<<y, x>> \in OpToRel(<, Nat))
  BY NatLessThanWellFounded, WFMin
<1>2. \A y \in T : x <= y
  <2> TAKE y \in T
  <2>1. y \in Nat /\ x \in Nat
    OBVIOUS
  <2>2. y < x => <<y, x>> \in OpToRel(<, Nat)
    BY <2>1 DEF OpToRel
  <2>3. ~(y < x)
    BY <1>1, <2>2, Zenon
  <2>4. QED
    BY <2>1, <2>3
<1>3. QED
  BY <1>2

IsFlat(f, s, n) ==
  f = [j \in 1 .. n |-> IF j = 1 THEN s[j] ELSE f[j - 1] \o s[j]]

LEMMA FlatExists ==
  ASSUME NEW s, NEW n \in Nat
  PROVE  \E f : IsFlat(f, s, n)
<1> DEFINE T == {m \in Nat : ~\E f : IsFlat(f, s, m)}
<1> SUFFICES ASSUME T # {} PROVE FALSE
  OBVIOUS
<1>1. PICK x \in T : \A y \in T : x <= y
  <2>1. T \subseteq Nat
    OBVIOUS
  <2> HIDE DEF T
  <2>2. QED
    BY <2>1, LeastNat
<1>2. x \in Nat /\ ~\E f : IsFlat(f, s, x)
  OBVIOUS
<1>3. CASE x = 0
  <2>1. IsFlat([j \in 1 .. 0 |-> s[j]], s, 0)
    BY DEF IsFlat
  <2>2. QED
    BY <1>2, <1>3, <2>1
<1>4. CASE x > 0
  <2>1. PICK g : IsFlat(g, s, x - 1)
    <3>1. x - 1 \in Nat /\ ~(x <= x - 1)
      BY <1>2, <1>4
    <3>2. x - 1 \notin T
      BY <1>1, <3>1
    <3>3. QED
      BY <3>1, <3>2
  <2> DEFINE f == [j \in 1 .. x |-> IF j = x THEN (IF x = 1 THEN s[1] ELSE g[x - 1] \o s[x])
                                    ELSE g[j]]
  <2>2. \A j \in 1 .. x : f[j] = IF j = 1 THEN s[j] ELSE f[j - 1] \o s[j]
    <3> TAKE j \in 1 .. x
    <3>1. CASE j = x
      BY <1>2, <1>4, <3>1
    <3>2. CASE j # x
      <4>1. j \in 1 .. x - 1 /\ (j # 1 => j - 1 \in 1 .. x - 1 /\ j - 1 \in 1 .. x)
        BY <1>2, <3>2
      <4>2. g[j] = IF j = 1 THEN s[j] ELSE g[j - 1] \o s[j]
        BY <2>1, <4>1 DEF IsFlat
      <4>3. f[j] = g[j] /\ (j # 1 => f[j - 1] = g[j - 1])
        BY <1>2, <3>2, <4>1
      <4>4. QED
        BY <4>2, <4>3
    <3>3. QED
      BY <3>1, <3>2
  <2>3. f = [j \in 1 .. x |-> f[j]]
    OBVIOUS
  <2> HIDE DEF f
  <2>4. IsFlat(f, s, x)
    BY <2>2, <2>3 DEF IsFlat
  <2>5. QED
    BY <1>2, <2>4
<1>5. QED
  BY <1>2, <1>3, <1>4

LEMMA FlattenIs ==
  ASSUME NEW s, Len(s) \in Nat, Len(s) # 0
  PROVE  \E f : IsFlat(f, s, Len(s)) /\ FlattenSeq(s) = f[Len(s)]
<1> DEFINE h == CHOOSE f : IsFlat(f, s, Len(s))
<1>1. IsFlat(h, s, Len(s))
  BY FlatExists
<1>2. FlattenSeq(s) = h[Len(s)]
  BY DEF FlattenSeq, IsFlat
<1>3. QED
  BY <1>1, <1>2

-----------------------------------------------------------------------------
(* The steps of one connection after those of the other.                           *)
LEMMA JoinInOrder ==
  ASSUME NEW p, IsSeq(p), NEW r, IsSeq(r), InOrder(p), InOrder(r),
         \A s \in Range(p), z \in Range(r) : s.con # z.con
  PROVE  InOrder(p \o r)
<1> DEFINE t == p \o r
           m == Len(p)
           n == Len(r)
<1>1. /\ m \in Nat /\ n \in Nat /\ DOMAIN t = 1 .. m + n /\ DOMAIN p = 1 .. m /\ DOMAIN r = 1 .. n
      /\ \A k \in 1 .. m + n : t[k] = IF k <= m THEN p[k] ELSE r[k - m]
  BY JoinIs
<1> HIDE DEF t, m, n
<1>2. ASSUME NEW k \in DOMAIN t, NEW j \in 1 .. k - 1, t[j].con = t[k].con
      PROVE  t[k].op = "recv" /\ (t[j].op = "recv" => t[j].id[3] < t[k].id[3])
  <2>1. CASE k <= m
    <3>1. k \in 1 .. m /\ j \in 1 .. m /\ t[k] = p[k] /\ t[j] = p[j]
      BY <1>1, <1>2, <2>1
    <3>2. QED
      BY <1>1, <1>2, <3>1 DEF InOrder
  <2>2. CASE k > m /\ j <= m
    <3>1. k - m \in 1 .. n /\ j \in 1 .. m /\ t[k] = r[k - m] /\ t[j] = p[j]
      BY <1>1, <1>2, <2>2
    <3>2. t[k] \in Range(r) /\ t[j] \in Range(p)
      BY <1>1, <3>1, RangeHas
    <3>3. QED
      BY <1>2, <3>2
  <2>3. CASE j > m
    <3>1. k - m \in 1 .. n /\ j - m \in 1 .. (k - m) - 1 /\ t[k] = r[k - m] /\ t[j] = r[j - m]
      BY <1>1, <1>2, <2>3
    <3>2. QED
      BY <1>1, <1>2, <3>1 DEF InOrder
  <2>4. QED
    BY <1>1, <1>2, <2>1, <2>2, <2>3
<1>3. QED
  BY <1>2 DEF InOrder, t

LEMMA JoinAlternating ==
  ASSUME NEW p, IsSeq(p), NEW r, IsSeq(r), Alternating(p), Alternating(r), r[1].op = "send"
  PROVE  Alternating(p \o r)
<1> DEFINE t == p \o r
           m == Len(p)
           n == Len(r)
<1>1. /\ m \in Nat /\ n \in Nat /\ Len(t) = m + n
      /\ \A k \in 1 .. m + n : t[k] = IF k <= m THEN p[k] ELSE r[k - m]
  BY JoinIs
<1> HIDE DEF t, m, n
<1>2. ASSUME NEW k \in 2 .. m + n, t[k].op = "recv" PROVE IsSend(t[k - 1], t[k].con)
  <2>1. CASE k <= m
    <3>1. k \in 2 .. m /\ t[k] = p[k] /\ t[k - 1] = p[k - 1]
      BY <1>1, <2>1
    <3>2. QED
      BY <1>1, <1>2, <3>1 DEF Alternating, m
  <2>2. CASE k = m + 1
    <3>1. t[k] = r[1]
      BY <1>1, <2>2
    <3>2. QED
      BY <1>2, <3>1
  <2>3. CASE k > m + 1
    <3>1. k - m \in 2 .. n /\ t[k] = r[k - m] /\ t[k - 1] = r[(k - m) - 1]
      BY <1>1, <2>3
    <3>2. QED
      BY <1>1, <1>2, <3>1 DEF Alternating, n
  <2>4. QED
    BY <1>1, <2>1, <2>2, <2>3
<1>3. QED
  BY <1>1, <1>2 DEF Alternating, t

Pieces(ss, cs, n) ==
  \A i \in 1 .. n : /\ IsSeq(ss[i]) /\ ss[i] # <<>> /\ InOrder(ss[i])
                    /\ \A s \in Range(ss[i]) : s.con = cs[i]
Turns(ss, n) == \A i \in 1 .. n : Alternating(ss[i]) /\ ss[i][1].op = "send"

Whole(p, ss, i, n) ==
  /\ IsSeq(p) /\ p # <<>> /\ InOrder(p) /\ p[Len(p)] = ss[i][Len(ss[i])]
  /\ \A s : s \in Range(p) <=> \E k \in 1 .. i : s \in Range(ss[k])
  /\ Turns(ss, n) => Alternating(p)

LEMMA WholeJoin ==
  ASSUME NEW n \in Nat, NEW ss, NEW cs, Pieces(ss, cs, n),
         \A k \in 1 .. n : \A j \in 1 .. k - 1 : cs[j] # cs[k],
         NEW i \in 2 .. n, NEW p, Whole(p, ss, i - 1, n)
  PROVE  Whole(p \o ss[i], ss, i, n)
<1> DEFINE r == ss[i]
           t == p \o r
<1>1. IsSeq(p) /\ p # <<>> /\ InOrder(p) /\ \A s : s \in Range(p) <=> \E k \in 1 .. i - 1 : s \in Range(ss[k])
  BY DEF Whole
<1>2. i \in 1 .. n
  OBVIOUS
<1>3. IsSeq(r) /\ r # <<>> /\ InOrder(r) /\ \A s \in Range(r) : s.con = cs[i]
  BY <1>2 DEF Pieces
<1> HIDE DEF r
<1>4. \A s \in Range(p), z \in Range(r) : s.con # z.con
  <2> SUFFICES ASSUME NEW s \in Range(p), NEW z \in Range(r) PROVE s.con # z.con
    OBVIOUS
  <2>1. PICK k \in 1 .. i - 1 : s \in Range(ss[k])
    BY <1>1
  <2>2. k \in 1 .. n
    BY <1>2, <2>1
  <2>3. s.con = cs[k]
    BY <2>1, <2>2 DEF Pieces
  <2>4. QED
    BY <1>2, <1>3, <2>1, <2>3
<1>5. InOrder(t)
  BY <1>1, <1>3, <1>4, JoinInOrder
<1>6. /\ IsSeq(t) /\ Len(p) \in Nat /\ Len(r) \in Nat /\ Len(t) = Len(p) + Len(r)
      /\ \A k \in 1 .. Len(r) : t[Len(p) + k] = r[k]
      /\ Range(t) = Range(p) \cup Range(r)
  BY <1>1, <1>3, JoinIs
<1>7. Len(r) > 0
  BY <1>3, TailIs
<1> HIDE DEF t
<1>8. t # <<>>
  <2>1. Len(t) # 0
    BY <1>6, <1>7
  <2>2. QED
    BY <2>1, EmptyIs
<1>9. t[Len(t)] = r[Len(r)]
  BY <1>6, <1>7
<1>10. \A s : s \in Range(t) <=> \E k \in 1 .. i : s \in Range(ss[k])
  <2>1. \A k : k \in 1 .. i <=> k \in 1 .. i - 1 \/ k = i
    OBVIOUS
  <2>2. QED
    BY <1>1, <1>6, <2>1 DEF r
<1>11. Turns(ss, n) => Alternating(t)
  <2> SUFFICES ASSUME Turns(ss, n) PROVE Alternating(t)
    OBVIOUS
  <2>1. Alternating(p)
    BY DEF Whole
  <2>2. Alternating(r) /\ r[1].op = "send"
    BY <1>2 DEF Turns, r
  <2>3. QED
    BY <1>1, <1>3, <2>1, <2>2, JoinAlternating DEF t
<1>12. QED
  BY <1>5, <1>6, <1>8, <1>9, <1>10, <1>11 DEF Whole, r, t

LEMMA FlattenFits ==
  ASSUME NEW n \in Nat, n > 0, NEW ss, Len(ss) = n, NEW cs, Pieces(ss, cs, n),
         \A k \in 1 .. n : \A j \in 1 .. k - 1 : cs[j] # cs[k]
  PROVE  Whole(FlattenSeq(ss), ss, n, n)
<1>1. PICK f : IsFlat(f, ss, n) /\ FlattenSeq(ss) = f[n]
  BY FlattenIs
<1> DEFINE T == {i \in 1 .. n : ~Whole(f[i], ss, i, n)}
<1> SUFFICES ASSUME T # {} PROVE FALSE
  BY <1>1
<1>2. PICK i \in T : \A y \in T : i <= y
  <2>1. T \subseteq Nat
    OBVIOUS
  <2> HIDE DEF T
  <2>2. QED
    BY <2>1, LeastNat
<1>3. i \in 1 .. n /\ ~Whole(f[i], ss, i, n) /\ \A y \in 1 .. i - 1 : y \notin T
  BY <1>2
<1>4. f[i] = IF i = 1 THEN ss[i] ELSE f[i - 1] \o ss[i]
  BY <1>1, <1>3 DEF IsFlat
<1>5. CASE i = 1
  <2>1. \A k : k \in 1 .. 1 <=> k = 1
    OBVIOUS
  <2>2. f[1] = ss[1] /\ 1 \in 1 .. n
    BY <1>3, <1>4, <1>5
  <2>3. Whole(f[1], ss, 1, n)
    BY <2>1, <2>2 DEF Whole, Pieces, Turns
  <2>4. QED
    BY <1>3, <1>5, <2>3
<1>6. CASE i # 1
  <2>1. i \in 2 .. n /\ i - 1 \in 1 .. n /\ i - 1 \in 1 .. i - 1
    BY <1>3, <1>6
  <2>2. Whole(f[i - 1], ss, i - 1, n)
    BY <1>3, <2>1
  <2>3. PICK p : p = f[i - 1]
    OBVIOUS
  <2>4. Whole(p \o ss[i], ss, i, n)
    BY <2>1, <2>2, <2>3, WholeJoin
  <2>5. QED
    BY <1>3, <1>4, <1>6, <2>3, <2>4
<1>7. QED
  BY <1>5, <1>6

LEMMA TurnIs ==
  ASSUME NEW c, NEW x, NEW y, x.op = "send", x.con = c, y.op = "recv", y.con = c,
         NEW p, p = <<x, y>>
  PROVE  /\ IsSeq(p) /\ p # <<>> /\ InOrder(p) /\ Alternating(p) /\ p[1] = x /\ Range(p) = {x, y}
         /\ p[Len(p)] = y
<1>1. IsSeq(p) /\ Range(p) = {x, y}
  BY PairIs
<1>2. Len(p) = 2 /\ p[1] = x /\ p[2] = y /\ p # <<>> /\ DOMAIN p = {1, 2}
  OBVIOUS
<1>3. \A k \in 2 .. 2 : k = 2 /\ k - 1 = 1
  OBVIOUS
<1>4. \A k \in {1, 2} : \A j \in 1 .. k - 1 : j = 1 /\ k = 2
  OBVIOUS
<1>5. Alternating(p)
  BY <1>2, <1>3 DEF Alternating, IsSend
<1>6. InOrder(p)
  BY <1>2, <1>4 DEF InOrder
<1>7. QED
  BY <1>1, <1>2, <1>5, <1>6

LEMMA InTurnFits ==
  ASSUME NEW v, NEW f, Entry(v, f), v # "SELECT", NEW dbs, NEW many
  PROVE  PlanOK(InTurn(All, v, f), ncalls, dbs, many)
<1> DEFINE cs == All
           x(c) == send(c, <<Cmd(v, <<>>, c, 1)>>)
           y(c) == recv(c, f, 1, <<>>)
           ss == [k \in 1 .. Len(cs) |-> <<x(cs[k]), y(cs[k])>>]
<1>1. InTurn(All, v, f) = FlattenSeq(ss)
  BY DEF InTurn
<1>2. PICK n \in Nat : n > 0 /\ Listing(cs, Socks, n)
  BY AllIs
<1>3. Len(cs) = n /\ \A k \in 1 .. n : cs[k] \in Socks /\ \A j \in 1 .. k - 1 : cs[j] # cs[k]
  <2> HIDE DEF cs
  <2>1. QED
    BY <1>2 DEF Listing
<1>4. \A c : x(c).op = "send" /\ x(c).con = c /\ x(c).reader = ""
  BY DEF send
<1>5. \A c : /\ y(c).op = "recv" /\ y(c).con = c /\ y(c).reader = f /\ y(c).id = <<ncalls, c, 1>>
             /\ Waits(y(c), ncalls, c, 1)
  BY DEF recv, Waits, IsRecv
<1>6. \A k \in 1 .. n : ss[k] = <<x(cs[k]), y(cs[k])>>
  BY <1>3
<1>7. Len(ss) = n
  <2>1. ss = [k \in 1 .. n |-> ss[k]]
    BY <1>3
  <2> HIDE DEF ss
  <2>2. QED
    BY <2>1, FunctionIsSeq
<1>8. \A c : x(c) = send(c, <<Cmd(v, <<>>, c, 1)>>)
  OBVIOUS
<1> HIDE DEF ss, cs, x, y
<1>9. ASSUME NEW k \in 1 .. n
      PROVE  /\ IsSeq(ss[k]) /\ ss[k] # <<>> /\ InOrder(ss[k]) /\ Alternating(ss[k]) /\ ss[k][1] = x(cs[k])
             /\ Range(ss[k]) = {x(cs[k]), y(cs[k])} /\ ss[k][Len(ss[k])] = y(cs[k])
  <2>1. PICK c, a, b, p : c = cs[k] /\ a = x(c) /\ b = y(c) /\ p = ss[k]
    OBVIOUS
  <2>2. a.op = "send" /\ a.con = c /\ b.op = "recv" /\ b.con = c /\ p = <<a, b>>
    BY <1>4, <1>5, <1>6, <2>1
  <2>3. /\ IsSeq(p) /\ p # <<>> /\ InOrder(p) /\ Alternating(p) /\ p[1] = a /\ Range(p) = {a, b}
        /\ p[Len(p)] = b
    BY <2>2, TurnIs
  <2>4. QED
    BY <2>1, <2>3
<1>10. Pieces(ss, cs, n)
  <2>1. \A k \in 1 .. n : \A s \in Range(ss[k]) : s.con = cs[k]
    <3> SUFFICES ASSUME NEW k \in 1 .. n, NEW s \in Range(ss[k]) PROVE s.con = cs[k]
      OBVIOUS
    <3>1. s \in {x(cs[k]), y(cs[k])}
      BY <1>9
    <3>2. QED
      BY <1>4, <1>5, <3>1
  <2>2. QED
    BY <1>9, <2>1 DEF Pieces
<1>11. Turns(ss, n)
  BY <1>4, <1>9, ZenonT(60) DEF Turns
<1>12. PICK p : p = FlattenSeq(ss)
  OBVIOUS
<1>13. Whole(p, ss, n, n)
  BY <1>2, <1>3, <1>7, <1>10, <1>12, FlattenFits
<1>14. /\ IsSeq(p) /\ p # <<>> /\ InOrder(p) /\ Alternating(p) /\ p[Len(p)].op = "recv"
       /\ \A s \in Range(p) : \E k \in 1 .. n : s \in {x(cs[k]), y(cs[k])}
       /\ \A k \in 1 .. n : y(cs[k]) \in Range(p)
  <2>1. n \in 1 .. n
    BY <1>2
  <2>2. p[Len(p)].op = "recv"
    BY <1>5, <1>9, <1>13, <2>1 DEF Whole
  <2>3. \A s : s \in Range(p) <=> \E k \in 1 .. n : s \in Range(ss[k])
    BY <1>13 DEF Whole
  <2>4. QED
    BY <1>9, <1>11, <1>13, <2>2, <2>3, ZenonT(60) DEF Whole
<1>15. \A z \in Range(p) : z.reader # "queued"
  <2> SUFFICES ASSUME NEW z \in Range(p) PROVE z.reader # "queued"
    OBVIOUS
  <2>1. PICK k \in 1 .. n : z \in {x(cs[k]), y(cs[k])}
    BY <1>14
  <2>2. z.reader \in {"", f}
    BY <1>4, <1>5, <2>1, ZenonT(60)
  <2>3. QED
    BY <2>2 DEF Entry
<1>16. ASSUME NEW s \in Range(p) PROVE StepOK(p, ncalls, dbs, s)
  <2>1. PICK k \in 1 .. n : s \in {x(cs[k]), y(cs[k])}
    BY <1>14
  <2>2. PICK c : c = cs[k]
    OBVIOUS
  <2>3. c \in Socks /\ y(c) \in Range(p)
    BY <1>3, <1>14, <2>2
  <2>4. CASE s = y(c)
    <3>1. s.op = "recv" /\ s.con = c /\ s.id = <<ncalls, c, 1>>
      BY <1>5, <2>4
    <3>2. QED
      BY <2>3, <3>1 DEF StepOK
  <2>5. CASE s = x(c)
    <3>1. PICK z : z = y(c)
      OBVIOUS
    <3>2. z \in Range(p) /\ Waits(z, ncalls, c, 1) /\ Entry(v, z.reader)
      BY <1>5, <2>3, <3>1
    <3>3. PICK a : a = <<>>
      OBVIOUS
    <3>4. a \in Seq(Nat)
      BY <3>3
    <3>5. Sends(p, ncalls, dbs, send(c, <<Cmd(v, a, c, 1)>>))
      BY <1>15, <3>2, <3>4, OneCommand
    <3>6. Sends(p, ncalls, dbs, s)
      BY <1>8, <2>5, <3>3, <3>5
    <3>7. QED
      BY <1>4, <2>3, <2>5, <3>6 DEF StepOK
  <2>6. QED
    BY <2>1, <2>2, <2>4, <2>5
<1>17. PlanOK(p, ncalls, dbs, many)
  BY <1>14, <1>16 DEF PlanOK, Good
<1>18. QED
  BY <1>1, <1>12, <1>17

LEMMA HeadThen ==
  ASSUME NEW x, NEW f, IsSeq(f)
  PROVE  /\ IsSeq(<<x>> \o f) /\ Len(f) \in Nat /\ DOMAIN (<<x>> \o f) = 1 .. Len(f) + 1
         /\ <<x>> \o f # <<>> /\ (<<x>> \o f)[1] = x
         /\ \A j \in 2 .. Len(f) + 1 : (<<x>> \o f)[j] = f[j - 1]
<1>1. PICK h : h = <<x>>
  OBVIOUS
<1>2. IsSeq(h) /\ Len(h) = 1 /\ h[1] = x
  BY <1>1, OneIsSeq
<1>3. PICK t : t = h \o f
  OBVIOUS
<1>4. /\ IsSeq(t) /\ DOMAIN t = 1 .. Len(h) + Len(f) /\ Len(t) = Len(h) + Len(f) /\ Len(f) \in Nat
      /\ \A k \in 1 .. Len(h) + Len(f) : t[k] = IF k <= Len(h) THEN h[k] ELSE f[k - Len(h)]
  BY <1>2, <1>3, JoinIs
<1>5. t # <<>>
  <2>1. Len(t) # 0
    BY <1>2, <1>4
  <2>2. QED
    BY <2>1, EmptyIs
<1>6. DOMAIN t = 1 .. Len(f) + 1 /\ t[1] = x /\ \A j \in 2 .. Len(f) + 1 : t[j] = f[j - 1]
  BY <1>2, <1>4
<1>7. QED
  BY <1>1, <1>3, <1>4, <1>5, <1>6

(* What msetex() does with one server.                                            *)
ExpireCmds(cm, c, o, m) ==
  /\ IsSeq(cm) /\ DOMAIN cm = 1 .. m + 1 /\ cm[1] = Cmd("MSET", o, c, 1)
  /\ \A j \in 2 .. m + 1 : cm[j] = Cmd("EXPIRE", <<o[j - 1]>>, c, j)
ExpireRecvs(rv, c, m) ==
  /\ IsSeq(rv) /\ DOMAIN rv = 1 .. m + 1 /\ rv # <<>> /\ rv[1] = recv(c, "ok", 1, <<>>)
  /\ \A j \in 2 .. m + 1 : rv[j] = recv(c, "intok", j, <<>>)

LEMMA ExpiringIs ==
  ASSUME NEW c, NEW o, NEW m \in Nat
  PROVE  /\ ExpireCmds(<<Cmd("MSET", o, c, 1)>> \o [k \in 1 .. m |-> Cmd("EXPIRE", <<o[k]>>, c, k + 1)], c, o, m)
         /\ ExpireRecvs(<<recv(c, "ok", 1, <<>>)>> \o [k \in 1 .. m |-> recv(c, "intok", k + 1, <<>>)], c, m)
<1> DEFINE a == Cmd("MSET", o, c, 1)
           e == [k \in 1 .. m |-> Cmd("EXPIRE", <<o[k]>>, c, k + 1)]
           b == recv(c, "ok", 1, <<>>)
           i == [k \in 1 .. m |-> recv(c, "intok", k + 1, <<>>)]
           cm == <<a>> \o e
           rv == <<b>> \o i
<1>1. e = [k \in 1 .. m |-> e[k]] /\ i = [k \in 1 .. m |-> i[k]]
  OBVIOUS
<1>2. \A k \in 1 .. m : e[k] = Cmd("EXPIRE", <<o[k]>>, c, k + 1) /\ i[k] = recv(c, "intok", k + 1, <<>>)
  OBVIOUS
<1> HIDE DEF a, b, e, i
<1>3. cm = <<a>> \o e /\ rv = <<b>> \o i
  OBVIOUS
<1> HIDE DEF cm, rv
<1>4. /\ IsSeq(cm) /\ DOMAIN cm = 1 .. m + 1 /\ cm[1] = a
      /\ \A j \in 2 .. m + 1 : cm[j] = e[j - 1]
  <2>1. IsSeq(e) /\ Len(e) = m
    BY <1>1, FunctionIsSeq
  <2>2. /\ IsSeq(<<a>> \o e) /\ DOMAIN (<<a>> \o e) = 1 .. Len(e) + 1 /\ (<<a>> \o e)[1] = a
        /\ \A j \in 2 .. Len(e) + 1 : (<<a>> \o e)[j] = e[j - 1]
    BY <2>1, HeadThen
  <2>3. QED
    BY <1>3, <2>1, <2>2
<1>5. /\ IsSeq(rv) /\ DOMAIN rv = 1 .. m + 1 /\ rv # <<>> /\ rv[1] = b
      /\ \A j \in 2 .. m + 1 : rv[j] = i[j - 1]
  <2>1. IsSeq(i) /\ Len(i) = m
    BY <1>1, FunctionIsSeq
  <2>2. /\ IsSeq(<<b>> \o i) /\ DOMAIN (<<b>> \o i) = 1 .. Len(i) + 1 /\ <<b>> \o i # <<>> /\ (<<b>> \o i)[1] = b
        /\ \A j \in 2 .. Len(i) + 1 : (<<b>> \o i)[j] = i[j - 1]
    BY <2>1, HeadThen
  <2>3. QED
    BY <1>3, <2>1, <2>2
<1>6. \A j \in 2 .. m + 1 : j - 1 \in 1 .. m /\ (j - 1) + 1 = j
  OBVIOUS
<1>7. \A j \in 2 .. m + 1 : cm[j] = Cmd("EXPIRE", <<o[j - 1]>>, c, j) /\ rv[j] = recv(c, "intok", j, <<>>)
  BY <1>2, <1>4, <1>5, <1>6
<1>8. ExpireCmds(cm, c, o, m)
  BY <1>4, <1>7 DEF ExpireCmds, a
<1>9. ExpireRecvs(rv, c, m)
  BY <1>5, <1>7 DEF ExpireRecvs, b
<1>10. QED
  BY <1>8, <1>9 DEF cm, rv, a, b, e, i

Exchange(cm, rv, dbs, c) ==
  /\ IsSeq(cm) /\ \A j \in DOMAIN cm : Plain(rv, dbs, c, cm[j], j)
  /\ IsSeq(rv) /\ rv # <<>> /\ InOrder(rv)
  /\ \A s \in Range(rv) : /\ s.op = "recv" /\ s.con = c /\ s.reader # "queued"
                          /\ \E n \in Nat : n > 0 /\ s.id = <<ncalls, c, n>>

LEMMA ExpiringPart ==
  ASSUME NEW c, NEW o \in Seq(Nat), NEW m \in Nat, \A k \in 1 .. m : o[k] \in Nat, NEW dbs,
         NEW cm, ExpireCmds(cm, c, o, m), NEW rv, ExpireRecvs(rv, c, m)
  PROVE  Exchange(cm, rv, dbs, c)
<1>1. IsSeq(cm) /\ DOMAIN cm = 1 .. m + 1 /\ IsSeq(rv) /\ DOMAIN rv = 1 .. m + 1 /\ rv # <<>>
  BY DEF ExpireCmds, ExpireRecvs
<1>2. \A k \in 1 .. m : o[k] \in Nat
  OBVIOUS
<1>3. \A j : j \in 1 .. m + 1 <=> j = 1 \/ j \in 2 .. m + 1
  OBVIOUS
<1>4. cm[1].verb = "MSET" /\ cm[1].keys = o /\ cm[1].id = <<ncalls, c, 1>>
  <2>1. PICK q : q = cm[1]
    OBVIOUS
  <2>2. q = Cmd("MSET", o, c, 1)
    BY <2>1 DEF ExpireCmds
  <2>3. q.verb = "MSET" /\ q.keys = o /\ q.id = <<ncalls, c, 1>>
    BY <2>2, CmdIs
  <2>4. QED
    BY <2>1, <2>3
<1>5. /\ rv[1].op = "recv" /\ rv[1].con = c /\ rv[1].reader = "ok" /\ rv[1].id = <<ncalls, c, 1>>
      /\ Waits(rv[1], ncalls, c, 1)
  BY DEF ExpireRecvs, recv, Waits, IsRecv
<1>6. ASSUME NEW j \in 2 .. m + 1
      PROVE  /\ cm[j].verb = "EXPIRE" /\ cm[j].keys \in Seq(Nat) /\ cm[j].id = <<ncalls, c, j>>
             /\ rv[j].op = "recv" /\ rv[j].con = c /\ rv[j].reader = "intok"
             /\ rv[j].id = <<ncalls, c, j>> /\ Waits(rv[j], ncalls, c, j)
  <2>1. j - 1 \in 1 .. m
    OBVIOUS
  <2>2. PICK q, s, k, at : q = cm[j] /\ s = rv[j] /\ k = <<o[j - 1]>> /\ at = <<>>
    OBVIOUS
  <2>3. q = Cmd("EXPIRE", k, c, j) /\ s = recv(c, "intok", j, at)
    BY <2>2 DEF ExpireCmds, ExpireRecvs
  <2>4. q.verb = "EXPIRE" /\ q.keys = k /\ q.id = <<ncalls, c, j>>
    BY <2>3, CmdIs
  <2>5. s.op = "recv" /\ s.con = c /\ s.reader = "intok" /\ s.id = <<ncalls, c, j>> /\ Waits(s, ncalls, c, j)
    BY <2>3, RecvIs
  <2>6. k \in Seq(Nat)
    <3>1. PICK y : y = o[j - 1]
      OBVIOUS
    <3>2. y \in Nat
      BY <1>2, <2>1, <3>1
    <3>3. <<y>> \in Seq(Nat)
      BY <3>2
    <3>4. QED
      BY <2>2, <3>1, <3>3
  <2>7. QED
    BY <2>2, <2>4, <2>5, <2>6
<1>7. ASSUME NEW j \in 1 .. m + 1
      PROVE  rv[j].op = "recv" /\ rv[j].con = c /\ rv[j].reader # "queued" /\ rv[j].id = <<ncalls, c, j>>
  <2>1. CASE j = 1
    BY <1>5, <2>1
  <2>2. CASE j \in 2 .. m + 1
    BY <1>6, <2>2
  <2>3. QED
    BY <1>3, <2>1, <2>2
<1>8. Entry("MSET", "ok") /\ Entry("EXPIRE", "intok")
  BY DEF Entry, Suits, Verbs, OkVerbs, TestVerbs, CountVerbs, Texts, Lists, TextVerbs, ListVerbs
<1>9. ASSUME NEW j \in DOMAIN cm PROVE Plain(rv, dbs, c, cm[j], j)
  <2>1. rv[j] \in Range(rv)
    BY <1>1, RangeHas
  <2>2. CASE j = 1
    BY <1>4, <1>5, <1>8, <2>1, <2>2 DEF Plain
  <2>3. CASE j \in 2 .. m + 1
    BY <1>6, <1>8, <2>1, <2>3 DEF Plain
  <2>4. QED
    BY <1>1, <1>3, <2>2, <2>3
<1>10. InOrder(rv)
  <2> SUFFICES ASSUME NEW k \in 1 .. m + 1, NEW j \in 1 .. k - 1
               PROVE  rv[k].op = "recv" /\ rv[j].id[3] < rv[k].id[3]
    BY <1>1 DEF InOrder
  <2>1. j \in 1 .. m + 1 /\ j < k
    OBVIOUS
  <2>2. rv[k].op = "recv" /\ rv[j].id = <<ncalls, c, j>> /\ rv[k].id = <<ncalls, c, k>>
    BY <1>7, <2>1
  <2>3. QED
    BY <2>1, <2>2
<1>11. ASSUME NEW s \in Range(rv)
       PROVE  /\ s.op = "recv" /\ s.con = c /\ s.reader # "queued"
              /\ \E n \in Nat : n > 0 /\ s.id = <<ncalls, c, n>>
  <2>1. PICK j \in 1 .. m + 1 : s = rv[j]
    BY <1>1 DEF Range
  <2>2. j \in Nat /\ j > 0
    BY <2>1
  <2>3. QED
    BY <1>7, <2>1, <2>2
<1>12. QED
  BY <1>1, <1>9, <1>10, <1>11 DEF Exchange

LEMMA MsetexFits ==
  ASSUME NEW ks, Keys(ks), NEW dbs, NEW many, many
  PROVE  PlanOK(msetex(ks), ncalls, dbs, many)
<1> DEFINE cs == Sockets(ks)
           S == {Home[ks[k]] : k \in DOMAIN ks}
           w(c) == Len(Own(ks, c))
           cmds(c) == <<Cmd("MSET", Own(ks, c), c, 1)>>
                        \o [k \in 1 .. w(c) |-> Cmd("EXPIRE", <<Own(ks, c)[k]>>, c, k + 1)]
           recvs(c) == <<recv(c, "ok", 1, <<>>)>>
                         \o [k \in 1 .. w(c) |-> recv(c, "intok", k + 1, <<>>)]
           F == [k \in 1 .. Len(cs) |-> send(cs[k], cmds(cs[k]))]
           ss == [k \in 1 .. Len(cs) |-> recvs(cs[k])]
<1>1. msetex(ks) = F \o FlattenSeq(ss)
  BY DEF msetex
<1>2. PICK n \in Nat : n > 0 /\ Listing(cs, S, n)
  BY SocketsAre
<1>3. S \subseteq Socks
  BY DEF Keys
<1>4. Len(cs) = n /\ \A k \in 1 .. n : cs[k] \in Socks /\ \A j \in 1 .. k - 1 : cs[j] # cs[k]
  <2> HIDE DEF cs, S
  <2>1. QED
    BY <1>2, <1>3 DEF Listing
<1>5. IsSeq(F) /\ DOMAIN F = 1 .. n
  <2>1. F = [k \in 1 .. n |-> F[k]]
    BY <1>4
  <2> HIDE DEF F
  <2>2. QED
    BY <2>1, FunctionIsSeq
<1>6. Len(ss) = n
  <2>1. ss = [k \in 1 .. n |-> ss[k]]
    BY <1>4
  <2> HIDE DEF ss
  <2>2. QED
    BY <2>1, FunctionIsSeq
<1>7. \A k \in 1 .. n : F[k] = send(cs[k], cmds(cs[k])) /\ ss[k] = recvs(cs[k])
  BY <1>4
<1>8. ASSUME NEW c
      PROVE  /\ IsSeq(cmds(c)) /\ \A j \in DOMAIN cmds(c) : Plain(recvs(c), dbs, c, cmds(c)[j], j)
             /\ IsSeq(recvs(c)) /\ recvs(c) # <<>> /\ InOrder(recvs(c))
             /\ \A s \in Range(recvs(c)) : /\ s.op = "recv" /\ s.con = c /\ s.reader # "queued"
                                           /\ \E i \in Nat : i > 0 /\ s.id = <<ncalls, c, i>>
  <2>1. PICK o : o = Own(ks, c)
    OBVIOUS
  <2>2. o \in Seq(Nat)
    BY <2>1, OwnIs
  <2>3. PICK m : m = Len(o)
    OBVIOUS
  <2>4. m \in Nat /\ \A k \in 1 .. m : o[k] \in Nat
    BY <2>2, <2>3
  <2>5. PICK cm, rv : cm = cmds(c) /\ rv = recvs(c)
    OBVIOUS
  <2>6. ExpireCmds(cm, c, o, m) /\ ExpireRecvs(rv, c, m)
    BY <2>1, <2>3, <2>4, <2>5, ExpiringIs
  <2> HIDE DEF cmds, recvs
  <2>7. Exchange(cm, rv, dbs, c)
    BY <2>2, <2>4, <2>6, ExpiringPart
  <2>8. QED
    BY <2>5, <2>7 DEF Exchange
<1> HIDE DEF cs, S, cmds, recvs, F, ss
<1>9. Pieces(ss, cs, n)
  BY <1>7, <1>8 DEF Pieces
<1>10. PICK R : R = FlattenSeq(ss)
  OBVIOUS
<1>11. Whole(R, ss, n, n)
  BY <1>2, <1>4, <1>6, <1>9, <1>10, FlattenFits
<1>12. /\ IsSeq(R) /\ R # <<>> /\ InOrder(R)
       /\ \A s : s \in Range(R) <=> \E k \in 1 .. n : s \in Range(recvs(cs[k]))
  BY <1>7, <1>11 DEF Whole
<1>13. ASSUME NEW s \in Range(R)
       PROVE  /\ s.op = "recv" /\ s.con \in Socks /\ s.reader # "queued"
              /\ \E i \in Nat : i > 0 /\ s.id = <<ncalls, s.con, i>>
  <2>1. PICK k \in 1 .. n : s \in Range(recvs(cs[k]))
    BY <1>12
  <2>2. PICK c : c = cs[k]
    OBVIOUS
  <2>3. c \in Socks
    BY <1>4, <2>2
  <2>4. /\ s.op = "recv" /\ s.con = c /\ s.reader # "queued"
        /\ \E i \in Nat : i > 0 /\ s.id = <<ncalls, c, i>>
    BY <1>8, <2>1, <2>2
  <2>5. QED
    BY <2>3, <2>4
<1>14. RecvPart(R)
  BY <1>12, <1>13 DEF RecvPart
<1>15. ASSUME NEW k \in 1 .. n PROVE F[k].op = "send" /\ F[k].con = cs[k] /\ Sends(R, ncalls, dbs, F[k])
  <2>1. PICK c : c = cs[k]
    OBVIOUS
  <2>2. PICK qs, rv : qs = cmds(c) /\ rv = recvs(c)
    OBVIOUS
  <2>3. F[k] = send(c, qs)
    BY <1>7, <2>1, <2>2
  <2>4. IsSeq(qs) /\ \A j \in DOMAIN qs : Plain(rv, dbs, c, qs[j], j)
    BY <1>8, <2>2
  <2>5. \A s \in Range(rv) : s \in Range(R)
    BY <1>12, <2>1, <2>2
  <2>6. \A j \in DOMAIN qs : Plain(R, dbs, c, qs[j], j)
    BY <2>4, <2>5 DEF Plain
  <2>7. Sends(R, ncalls, dbs, send(c, qs))
    BY <1>13, <2>4, <2>6, Pipeline
  <2>8. QED
    BY <2>1, <2>3, <2>7, SendIs
<1>16. SendPart(F, R, dbs)
  <2>1. \A k \in 1 .. n : \A j \in 1 .. k - 1 : j \in 1 .. n
    OBVIOUS
  <2>2. QED
    BY <1>4, <1>5, <1>15, <2>1 DEF SendPart
<1>17. PlanOK(F \o R, ncalls, dbs, many)
  BY <1>5, <1>12, <1>14, <1>16, SendsThenReceives
<1>18. QED
  BY <1>1, <1>10, <1>17

-----------------------------------------------------------------------------
(* exec_transaction().                                                            *)
Sized(p, n) == IsSeq(p) /\ Len(p) = n /\ DOMAIN p = 1 .. n
Joined(t, p, m, r, n) ==
  /\ Sized(t, m + n) /\ \A k \in 1 .. m : t[k] = p[k]
  /\ \A k \in 1 .. n : t[m + k] = r[k]

LEMMA JoinSized ==
  ASSUME NEW m \in Nat, NEW n \in Nat, NEW p, NEW r, Sized(p, m), Sized(r, n)
  PROVE  Joined(p \o r, p, m, r, n)
<1>1. IsSeq(p) /\ IsSeq(r) /\ Len(p) = m /\ Len(r) = n
  BY DEF Sized
<1>2. PICK t : t = p \o r
  OBVIOUS
<1>3. /\ IsSeq(t) /\ Len(t) = Len(p) + Len(r) /\ DOMAIN t = 1 .. Len(p) + Len(r)
      /\ \A k \in 1 .. Len(p) + Len(r) : t[k] = IF k <= Len(p) THEN p[k] ELSE r[k - Len(p)]
      /\ \A k \in 1 .. Len(r) : t[Len(p) + k] = r[k]
  BY <1>1, <1>2, JoinIs, ZenonT(60)
<1>4. /\ Sized(t, m + n) /\ \A k \in 1 .. m + n : t[k] = IF k <= m THEN p[k] ELSE r[k - m]
      /\ \A k \in 1 .. n : t[m + k] = r[k]
  BY <1>1, <1>3 DEF Sized
<1>5. \A k \in 1 .. m : t[k] = p[k]
  BY <1>4
<1>6. QED
  BY <1>2, <1>4, <1>5 DEF Joined

TxSteps(p, c, n, qs) ==
  /\ Sized(p, n + n + 3) /\ p[1] = send(c, qs) /\ p[2] = recv(c, "ok", 1, <<>>)
  /\ \A k \in 1 .. n : p[2 + k] = recv(c, "queued", k + 1, <<>>)
  /\ p[n + 3] = recv(c, "head", n + 2, <<>>)
  /\ \A k \in 1 .. n : p[n + 3 + k] = recv(c, "generic", n + 2 + k, <<k>>)

TxCmds(qs, c, n) ==
  /\ Sized(qs, n + 2) /\ qs[1] = Cmd("MULTI", <<>>, c, 1)
  /\ \A k \in 1 .. n : qs[1 + k].verb = "GET" /\ qs[1 + k].id = <<ncalls, c, k + 1>>
  /\ qs[n + 2] = Cmd("EXEC", <<>>, c, n + 2)

LEMMA SizedOne ==
  ASSUME NEW x
  PROVE  Sized(<<x>>, 1) /\ <<x>>[1] = x
<1>1. 1 .. 1 = {1}
  OBVIOUS
<1>2. QED
  BY <1>1, OneIsSeq DEF Sized

LEMMA SizedFunction ==
  ASSUME NEW n \in Nat, NEW f, f = [k \in 1 .. n |-> f[k]]
  PROVE  Sized(f, n)
BY FunctionIsSeq DEF Sized

LEMMA TxCmdsAre ==
  ASSUME NEW c, NEW ks, NEW n \in Nat
  PROVE  TxCmds(<<Cmd("MULTI", <<>>, c, 1)>> \o [k \in 1 .. n |-> Cmd("GET", <<ks[k]>>, c, k + 1)]
                  \o <<Cmd("EXEC", <<>>, c, n + 2)>>, c, n)
<1> DEFINE a == Cmd("MULTI", <<>>, c, 1)
           f == [k \in 1 .. n |-> Cmd("GET", <<ks[k]>>, c, k + 1)]
           e == Cmd("EXEC", <<>>, c, n + 2)
           A == <<a>>
           E == <<e>>
           t == A \o f
           u == t \o E
<1>1. f = [k \in 1 .. n |-> f[k]]
  OBVIOUS
<1>2. \A k \in 1 .. n : f[k] = Cmd("GET", <<ks[k]>>, c, k + 1)
  OBVIOUS
<1> HIDE DEF f, a, e
<1>3. ASSUME NEW k \in 1 .. n PROVE f[k].verb = "GET" /\ f[k].id = <<ncalls, c, k + 1>>
  <2>1. PICK q, y, i : q = f[k] /\ y = <<ks[k]>> /\ i = k + 1
    OBVIOUS
  <2>2. q = Cmd("GET", y, c, i)
    BY <1>2, <2>1
  <2>3. q.verb = "GET" /\ q.id = <<ncalls, c, i>>
    BY <2>2, CmdIs
  <2>4. QED
    BY <2>1, <2>3
<1>4. Sized(f, n) /\ Sized(A, 1) /\ A[1] = a /\ Sized(E, 1) /\ E[1] = e
  BY <1>1, SizedFunction, SizedOne
<1> HIDE DEF A, E
<1>5. Joined(t, A, 1, f, n)
  BY <1>4, JoinSized
<1> HIDE DEF t
<1>6. Sized(t, 1 + n) /\ t[1] = a /\ \A k \in 1 .. n : t[1 + k] = f[k]
  BY <1>4, <1>5 DEF Joined
<1>7. Joined(u, t, 1 + n, E, 1)
  BY <1>4, <1>6, JoinSized
<1> HIDE DEF u
<1>8. /\ Sized(u, 1 + n + 1) /\ \A k \in 1 .. 1 + n : u[k] = t[k]
      /\ \A k \in 1 .. 1 : u[1 + n + k] = E[k]
  BY <1>7 DEF Joined
<1>9. 1 + n + 1 = n + 2 /\ 1 \in 1 .. 1 /\ 1 \in 1 .. 1 + n /\ \A k \in 1 .. n : 1 + k \in 1 .. 1 + n
  OBVIOUS
<1>10. Sized(u, n + 2) /\ u[1] = a /\ u[n + 2] = e /\ \A k \in 1 .. n : u[1 + k] = f[k]
  BY <1>4, <1>6, <1>8, <1>9
<1>11. TxCmds(u, c, n)
  BY <1>3, <1>10 DEF TxCmds, a, e
<1>12. QED
  BY <1>11 DEF u, t, A, E, a, f, e

LEMMA TxStepsAre ==
  ASSUME NEW c, NEW n \in Nat, NEW qs
  PROVE  TxSteps(<<send(c, qs), recv(c, "ok", 1, <<>>)>>
                   \o [k \in 1 .. n |-> recv(c, "queued", k + 1, <<>>)]
                   \o <<recv(c, "head", n + 2, <<>>)>>
                   \o [k \in 1 .. n |-> recv(c, "generic", n + 2 + k, <<k>>)], c, n, qs)
<1> DEFINE a == send(c, qs)
           b == recv(c, "ok", 1, <<>>)
           f == [k \in 1 .. n |-> recv(c, "queued", k + 1, <<>>)]
           h == recv(c, "head", n + 2, <<>>)
           e == [k \in 1 .. n |-> recv(c, "generic", n + 2 + k, <<k>>)]
           A == <<a, b>>
           H == <<h>>
           t == A \o f
           u == t \o H
           p == u \o e
<1>1. f = [k \in 1 .. n |-> f[k]] /\ e = [k \in 1 .. n |-> e[k]]
  OBVIOUS
<1>2. \A k \in 1 .. n : f[k] = recv(c, "queued", k + 1, <<>>) /\ e[k] = recv(c, "generic", n + 2 + k, <<k>>)
  OBVIOUS
<1> HIDE DEF f, e, a, b, h
<1>3. Sized(A, 2) /\ A[1] = a /\ A[2] = b
  <2>1. IsSeq(A)
    BY PairIs
  <2>2. Len(A) = 2 /\ DOMAIN A = 1 .. 2 /\ A[1] = a /\ A[2] = b
    OBVIOUS
  <2>3. QED
    BY <2>1, <2>2 DEF Sized
<1>4. Sized(f, n) /\ Sized(e, n) /\ Sized(H, 1) /\ H[1] = h
  BY <1>1, SizedFunction, SizedOne
<1> HIDE DEF A, H
<1>5. Joined(t, A, 2, f, n)
  BY <1>3, <1>4, JoinSized
<1> HIDE DEF t
<1>6. Sized(t, 2 + n) /\ t[1] = a /\ t[2] = b /\ \A k \in 1 .. n : t[2 + k] = f[k]
  <2>1. 1 \in 1 .. 2 /\ 2 \in 1 .. 2
    OBVIOUS
  <2>2. QED
    BY <1>3, <1>5, <2>1 DEF Joined
<1>7. Joined(u, t, 2 + n, H, 1)
  BY <1>4, <1>6, JoinSized
<1> HIDE DEF u
<1>8. /\ Sized(u, 2 + n + 1) /\ \A k \in 1 .. 2 + n : u[k] = t[k]
      /\ \A k \in 1 .. 1 : u[2 + n + k] = H[k]
  BY <1>7 DEF Joined
<1>9. /\ 2 + n + 1 = n + 3 /\ 1 \in 1 .. 1 /\ 1 \in 1 .. 2 + n /\ 2 \in 1 .. 2 + n
      /\ \A k \in 1 .. n : 2 + k \in 1 .. 2 + n
  OBVIOUS
<1>10. Sized(u, n + 3) /\ u[1] = a /\ u[2] = b /\ u[n + 3] = h /\ \A k \in 1 .. n : u[2 + k] = f[k]
  BY <1>4, <1>6, <1>8, <1>9
<1>11. n + 3 \in Nat
  OBVIOUS
<1>12. Joined(p, u, n + 3, e, n)
  BY <1>4, <1>10, <1>11, JoinSized
<1> HIDE DEF p
<1>13. /\ Sized(p, n + 3 + n) /\ \A k \in 1 .. n + 3 : p[k] = u[k]
       /\ \A k \in 1 .. n : p[n + 3 + k] = e[k]
  BY <1>12 DEF Joined
<1>14. /\ n + 3 + n = n + n + 3 /\ 1 \in 1 .. n + 3 /\ 2 \in 1 .. n + 3 /\ n + 3 \in 1 .. n + 3
       /\ \A k \in 1 .. n : 2 + k \in 1 .. n + 3
  OBVIOUS
<1>15. /\ Sized(p, n + n + 3) /\ p[1] = a /\ p[2] = b /\ p[n + 3] = h
       /\ \A k \in 1 .. n : p[2 + k] = f[k] /\ p[n + 3 + k] = e[k]
  BY <1>10, <1>13, <1>14
<1>16. TxSteps(p, c, n, qs)
  BY <1>2, <1>15 DEF TxSteps, a, b, h
<1>17. QED
  BY <1>16 DEF p, u, t, A, H, a, b, f, h, e

LEMMA FourParts ==
  ASSUME NEW n \in Nat, NEW j \in 1 .. n + n + 2
  PROVE  \/ j = 1 \/ j = n + 2
         \/ \E k \in 1 .. n : j = k + 1 /\ j + 1 = 2 + k
         \/ \E k \in 1 .. n : j = n + 2 + k /\ j + 1 = n + 3 + k
<1>1. CASE j \in 2 .. n + 1
  <2>1. j - 1 \in 1 .. n /\ j = (j - 1) + 1 /\ j + 1 = 2 + (j - 1)
    BY <1>1
  <2>2. QED
    BY <2>1
<1>2. CASE j > n + 2
  <2>1. j - (n + 2) \in 1 .. n /\ j = n + 2 + (j - (n + 2)) /\ j + 1 = n + 3 + (j - (n + 2))
    BY <1>2
  <2>2. QED
    BY <2>1
<1>3. QED
  BY <1>1, <1>2

TxReads(p, c, n) ==
  /\ \A j \in 1 .. n + n + 2 : p[j + 1].op = "recv" /\ p[j + 1].con = c /\ p[j + 1].id = <<ncalls, c, j>>
  /\ p[2].reader = "ok" /\ p[n + 3].reader = "head"
  /\ \A k \in 1 .. n : p[2 + k].reader = "queued" /\ p[n + 3 + k].reader = "generic"

LEMMA TxRecvs ==
  ASSUME NEW c, NEW n \in Nat, NEW p, NEW qs, TxSteps(p, c, n, qs)
  PROVE  TxReads(p, c, n)
<1>1. p[2].op = "recv" /\ p[2].con = c /\ p[2].id = <<ncalls, c, 1>> /\ p[2].reader = "ok"
  BY DEF TxSteps, recv
<1>2. p[n + 3].op = "recv" /\ p[n + 3].con = c /\ p[n + 3].id = <<ncalls, c, n + 2>> /\ p[n + 3].reader = "head"
  BY DEF TxSteps, recv
<1>3. ASSUME NEW k \in 1 .. n
      PROVE  p[2 + k].op = "recv" /\ p[2 + k].con = c /\ p[2 + k].id = <<ncalls, c, k + 1>> /\ p[2 + k].reader = "queued"
  <2>1. PICK s, i, at : s = p[2 + k] /\ i = k + 1 /\ at = <<>>
    OBVIOUS
  <2>2. s = recv(c, "queued", i, at)
    BY <2>1 DEF TxSteps
  <2>3. s.op = "recv" /\ s.con = c /\ s.reader = "queued" /\ s.id = <<ncalls, c, i>>
    BY <2>2, RecvIs
  <2>4. QED
    BY <2>1, <2>3
<1>4. ASSUME NEW k \in 1 .. n
      PROVE  /\ p[n + 3 + k].op = "recv" /\ p[n + 3 + k].con = c /\ p[n + 3 + k].id = <<ncalls, c, n + 2 + k>>
             /\ p[n + 3 + k].reader = "generic"
  <2>1. PICK s, i, at : s = p[n + 3 + k] /\ i = n + 2 + k /\ at = <<k>>
    OBVIOUS
  <2>2. s = recv(c, "generic", i, at)
    BY <2>1 DEF TxSteps
  <2>3. s.op = "recv" /\ s.con = c /\ s.reader = "generic" /\ s.id = <<ncalls, c, i>>
    BY <2>2, RecvIs
  <2>4. QED
    BY <2>1, <2>3
<1>5. ASSUME NEW j \in 1 .. n + n + 2 PROVE p[j + 1].op = "recv" /\ p[j + 1].con = c /\ p[j + 1].id = <<ncalls, c, j>>
  <2>1. CASE j = 1
    <3>1. j + 1 = 2
      BY <2>1
    <3>2. QED
      BY <1>1, <2>1, <3>1
  <2>2. CASE j = n + 2
    <3>1. j + 1 = n + 3
      BY <2>2
    <3>2. QED
      BY <1>2, <2>2, <3>1
  <2>3. CASE \E k \in 1 .. n : j = k + 1 /\ j + 1 = 2 + k
    BY <1>3, <2>3
  <2>4. CASE \E k \in 1 .. n : j = n + 2 + k /\ j + 1 = n + 3 + k
    BY <1>4, <2>4
  <2>5. QED
    BY <2>1, <2>2, <2>3, <2>4, FourParts
<1>6. QED
  BY <1>1, <1>2, <1>3, <1>4, <1>5 DEF TxReads

LEMMA TransactionSends ==
  ASSUME NEW c, NEW n \in Nat, NEW p, NEW qs, TxSteps(p, c, n, qs), TxCmds(qs, c, n), NEW dbs
  PROVE  Sends(p, ncalls, dbs, p[1])
<1>1. /\ \A j \in 1 .. n + n + 2 : p[j + 1].op = "recv" /\ p[j + 1].con = c /\ p[j + 1].id = <<ncalls, c, j>>
      /\ p[2].reader = "ok" /\ p[n + 3].reader = "head"
      /\ \A k \in 1 .. n : p[2 + k].reader = "queued" /\ p[n + 3 + k].reader = "generic"
  <2>1. TxReads(p, c, n)
    BY TxRecvs
  <2>2. QED
    BY <2>1 DEF TxReads
<1>2. DOMAIN p = 1 .. n + n + 3 /\ DOMAIN qs = 1 .. n + 2 /\ Len(qs) = n + 2 /\ IsSeq(qs)
  BY DEF TxSteps, TxCmds, Sized
<1>3. \A j \in 1 .. n + n + 2 : p[j + 1] \in Range(p) /\ Waits(p[j + 1], ncalls, c, j)
  <2>1. \A j \in 1 .. n + n + 2 : j + 1 \in 1 .. n + n + 3
    OBVIOUS
  <2>2. QED
    BY <1>1, <1>2, <2>1, RangeHas DEF Waits, IsRecv
<1>4. qs[1].verb = "MULTI" /\ qs[1].keys = <<>> /\ qs[1].id = <<ncalls, c, 1>>
  BY DEF TxCmds, Cmd
<1>5. qs[n + 2].verb = "EXEC" /\ qs[n + 2].keys = <<>> /\ qs[n + 2].id = <<ncalls, c, n + 2>>
  BY DEF TxCmds, Cmd
<1>6. \A k \in 1 .. n : qs[1 + k].verb = "GET" /\ qs[1 + k].id = <<ncalls, c, k + 1>>
  BY DEF TxCmds
<1>7. \A j \in 1 .. n + 2 : j = 1 \/ j = n + 2 \/ \E k \in 1 .. n : j = 1 + k /\ j = k + 1 /\ j + 1 = 2 + k
  <2> SUFFICES ASSUME NEW j \in 1 .. n + 2, j # 1, j # n + 2 PROVE \E k \in 1 .. n : j = 1 + k /\ j = k + 1 /\ j + 1 = 2 + k
    OBVIOUS
  <2>1. j - 1 \in 1 .. n /\ j = 1 + (j - 1) /\ j = (j - 1) + 1 /\ j + 1 = 2 + (j - 1)
    OBVIOUS
  <2>2. QED
    BY <2>1
<1>8. \A j \in 1 .. n + 2 : /\ qs[j].verb \in {"MULTI", "EXEC", "GET"} /\ qs[j].id = <<ncalls, c, j>>
                            /\ (qs[j].verb = "MULTI" <=> j = 1) /\ (qs[j].verb = "EXEC" <=> j = n + 2)
  <2> SUFFICES ASSUME NEW j \in 1 .. n + 2
               PROVE  /\ qs[j].verb \in {"MULTI", "EXEC", "GET"} /\ qs[j].id = <<ncalls, c, j>>
                      /\ (qs[j].verb = "MULTI" <=> j = 1) /\ (qs[j].verb = "EXEC" <=> j = n + 2)
    OBVIOUS
  <2>1. CASE j = 1
    BY <1>4, <2>1
  <2>2. CASE j = n + 2
    BY <1>5, <2>2
  <2>3. CASE \E k \in 1 .. n : j = 1 + k /\ j = k + 1
    <3>1. PICK k \in 1 .. n : j = 1 + k /\ j = k + 1
      BY <2>3
    <3>2. j # 1 /\ j # n + 2
      BY <3>1
    <3>3. QED
      BY <1>6, <3>1, <3>2
  <2>4. QED
    BY <1>7, <2>1, <2>2, <2>3
<1>9. Commands(dbs, qs)
  BY <1>2, <1>8 DEF Commands, Range
<1>10. ASSUME NEW j \in 1 .. n + 2 PROVE Awaited(p, ncalls, c, qs[j], j)
  <2>1. j \in 1 .. n + n + 2
    OBVIOUS
  <2>2. p[j + 1] \in Range(p) /\ Waits(p[j + 1], ncalls, c, j) /\ qs[j].id = <<ncalls, c, j>>
    BY <1>3, <1>8, <2>1
  <2>3. Pair(qs[j], p[j + 1])
    <3>1. CASE j = 1
      <4>1. PICK q, s : q = qs[1] /\ s = p[2]
        OBVIOUS
      <4>2. q.verb = "MULTI" /\ s.reader = "ok" /\ q.keys = <<>> /\ j + 1 = 2
        BY <1>1, <1>4, <3>1, <4>1
      <4>3. ASSUME NEW a \in Answers(q.verb, q.keys) PROVE ~Parts(s, a.reply)
        <5>1. PICK v, f, ks : v = q.verb /\ f = s.reader /\ ks = q.keys
          OBVIOUS
        <5>2. Compatible(v, f) /\ ks \in Seq(Nat)
          BY <4>2, <5>1 DEF Compatible, Texts, Lists, TextVerbs, ListVerbs
        <5>3. ~Leaves(f, a.reply)
          BY <5>1, <5>2, AnswersFit
        <5>4. QED
          BY <4>2, <5>1, <5>3 DEF Parts
      <4>4. Pair(q, s)
        BY <4>2, <4>3 DEF Pair
      <4>5. QED
        BY <3>1, <4>1, <4>2, <4>4
    <3>2. CASE j = n + 2
      <4>1. PICK q, s : q = qs[n + 2] /\ s = p[n + 3]
        OBVIOUS
      <4>2. q.verb = "EXEC" /\ s.reader = "head" /\ j + 1 = n + 3
        BY <1>1, <1>5, <3>2, <4>1
      <4>3. ASSUME NEW a \in Answers(q.verb, q.keys) PROVE ~Parts(s, a.reply)
        <5>1. a = Refused(Err(0))
          BY <4>2 DEF Answers, OkVerbs, TestVerbs, CountVerbs, TextVerbs, ListVerbs
        <5>2. a.reply.t = "-" /\ a.reply.e = <<>>
          BY <5>1 DEF Refused, Err
        <5>3. QED
          BY <4>2, <5>2 DEF Parts
      <4>4. Pair(q, s)
        BY <4>2, <4>3 DEF Pair
      <4>5. QED
        BY <3>2, <4>1, <4>2, <4>4
    <3>3. CASE \E k \in 1 .. n : j = 1 + k /\ j + 1 = 2 + k
      <4>1. PICK k \in 1 .. n : j = 1 + k /\ j + 1 = 2 + k
        BY <3>3
      <4>2. qs[j].verb = "GET" /\ p[j + 1].reader = "queued"
        BY <1>1, <1>6, <4>1
      <4>3. QED
        BY <4>2 DEF Pair
    <3>4. QED
      BY <1>7, <3>1, <3>2, <3>3
  <2>4. QED
    BY <2>2, <2>3 DEF Awaited
<1>11. ASSUME NEW i \in 1 .. n PROVE Element(p, ncalls, c, n + 2 + i)
  <2>1. n + 2 + i \in 1 .. n + n + 2 /\ (n + 2 + i) + 1 = n + 3 + i
    OBVIOUS
  <2>2. p[n + 3 + i] \in Range(p) /\ Waits(p[n + 3 + i], ncalls, c, n + 2 + i) /\ p[n + 3 + i].reader = "generic"
    BY <1>1, <1>3, <2>1
  <2>3. QED
    BY <2>2 DEF Element
<1>12. Batch(p, ncalls, c, qs)
  <2>1. qs[n + 2].id[3] = n + 2 /\ (n + 2) - 2 = n
    BY <1>5
  <2>2. ASSUME NEW j \in 1 .. n + 2, qs[j].verb = "EXEC"
        PROVE  j = Len(qs) /\ \A i \in 1 .. qs[j].id[3] - 2 : Element(p, ncalls, c, qs[j].id[3] + i)
    <3>1. j = n + 2
      BY <1>8, <2>2
    <3>2. qs[j].id[3] = n + 2 /\ qs[j].id[3] - 2 = n
      BY <2>1, <3>1
    <3>3. \A i \in 1 .. qs[j].id[3] - 2 : Element(p, ncalls, c, qs[j].id[3] + i)
      BY <1>11, <3>2
    <3>4. QED
      BY <1>2, <3>1, <3>3
  <2>3. \A j \in 1 .. n + 2 : qs[j].verb = "MULTI" => j = 1 /\ qs[1].id = <<ncalls, c, 1>> /\ qs[Len(qs)].verb = "EXEC"
    BY <1>2, <1>4, <1>5, <1>8
  <2>4. QED
    BY <1>2, <2>2, <2>3 DEF Batch
<1>13. p[1].con = c /\ p[1].cmds = qs
  <2>1. PICK s : s = p[1]
    OBVIOUS
  <2>2. s = send(c, qs)
    BY <2>1 DEF TxSteps
  <2>3. s.con = c /\ s.cmds = qs
    BY <2>2, SendIs
  <2>4. QED
    BY <2>1, <2>3
<1>14. QED
  BY <1>2, <1>4, <1>9, <1>10, <1>12, <1>13 DEF Sends

LEMMA TransactionFits ==
  ASSUME NEW c \in Socks \cup {NoCon}, NEW n \in Nat, NEW p, NEW qs, TxSteps(p, c, n, qs), TxCmds(qs, c, n),
         NEW dbs, NEW many, many
  PROVE  PlanOK(p, ncalls, dbs, many)
<1>1. \A j \in 1 .. n + n + 2 : p[j + 1].op = "recv" /\ p[j + 1].con = c /\ p[j + 1].id = <<ncalls, c, j>>
  <2>1. TxReads(p, c, n)
    BY TxRecvs
  <2>2. QED
    BY <2>1 DEF TxReads
<1>2. DOMAIN p = 1 .. n + n + 3 /\ Len(p) = n + n + 3 /\ IsSeq(p)
  BY DEF TxSteps, Sized
<1>3. p[1].op = "send" /\ p[1].con = c
  <2>1. PICK s : s = p[1]
    OBVIOUS
  <2>2. s = send(c, qs)
    BY <2>1 DEF TxSteps
  <2>3. s.op = "send" /\ s.con = c
    BY <2>2, SendIs
  <2>4. QED
    BY <2>1, <2>3
<1>4. \A k \in 2 .. n + n + 3 : p[k].op = "recv" /\ p[k].con = c /\ p[k].id = <<ncalls, c, k - 1>> /\ k - 1 \in Nat /\ k - 1 > 0
  <2> SUFFICES ASSUME NEW k \in 2 .. n + n + 3
               PROVE  p[k].op = "recv" /\ p[k].con = c /\ p[k].id = <<ncalls, c, k - 1>> /\ k - 1 \in Nat /\ k - 1 > 0
    OBVIOUS
  <2>1. k - 1 \in 1 .. n + n + 2 /\ (k - 1) + 1 = k
    OBVIOUS
  <2>2. p[(k - 1) + 1].op = "recv" /\ p[(k - 1) + 1].con = c /\ p[(k - 1) + 1].id = <<ncalls, c, k - 1>>
    BY <1>1, <2>1
  <2>3. QED
    BY <2>1, <2>2
<1>5. \A k : k \in 1 .. n + n + 3 <=> k = 1 \/ k \in 2 .. n + n + 3
  OBVIOUS
<1>6. \A s \in Range(p) : s = p[1] \/ \E k \in 2 .. n + n + 3 : s = p[k]
  BY <1>2, <1>5 DEF Range
<1>7. p # <<>>
  <2>1. Len(p) # 0
    BY <1>2
  <2>2. QED
    BY <2>1, EmptyIs
<1>8. CASE c = NoCon
  <2>1. \A s \in Range(p) : s.con = NoCon
    BY <1>3, <1>4, <1>6, <1>8
  <2>2. QED
    BY <1>2, <1>3, <1>7, <2>1 DEF PlanOK, Nowhere
<1>9. CASE c \in Socks
  <2>1. Sends(p, ncalls, dbs, p[1])
    BY TransactionSends
  <2>2. ASSUME NEW s \in Range(p) PROVE StepOK(p, ncalls, dbs, s)
    <3>1. CASE s = p[1]
      BY <1>3, <1>9, <2>1, <3>1 DEF StepOK
    <3>2. CASE \E k \in 2 .. n + n + 3 : s = p[k]
      BY <1>4, <1>9, <3>2 DEF StepOK
    <3>3. QED
      BY <1>6, <3>1, <3>2
  <2>3. InOrder(p)
    <3> SUFFICES ASSUME NEW k \in 1 .. n + n + 3, NEW j \in 1 .. k - 1
                 PROVE  p[k].op = "recv" /\ (p[j].op = "recv" => p[j].id[3] < p[k].id[3])
      BY <1>2 DEF InOrder
    <3>1. k \in 2 .. n + n + 3 /\ (j = 1 \/ j \in 2 .. n + n + 3) /\ j - 1 < k - 1
      OBVIOUS
    <3>2. p[k].op = "recv" /\ p[k].id = <<ncalls, c, k - 1>>
      BY <1>4, <3>1
    <3>3. CASE j = 1
      BY <1>3, <3>2, <3>3
    <3>4. CASE j \in 2 .. n + n + 3
      <4>1. p[j].id = <<ncalls, c, j - 1>>
        BY <1>4, <3>4
      <4>2. QED
        BY <3>1, <3>2, <4>1
    <3>5. QED
      BY <3>1, <3>3, <3>4
  <2>4. p[Len(p)].op = "recv"
    <3>1. n + n + 3 \in 2 .. n + n + 3
      OBVIOUS
    <3>2. QED
      BY <1>2, <1>4, <3>1
  <2>5. QED
    BY <1>2, <1>7, <2>2, <2>3, <2>4 DEF PlanOK, Good
<1>10. QED
  BY <1>8, <1>9

LEMMA ExecTransactionFits ==
  ASSUME NEW ks, Keys(ks), NEW dbs, NEW many, many
  PROVE  PlanOK(exec_transaction(ks), ncalls, dbs, many)
<1>1. PICK c, n : c = get_socket(ks) /\ n = Len(ks)
  OBVIOUS
<1>2. n \in Nat /\ DOMAIN ks = 1 .. n
  BY <1>1, SeqIs DEF Keys
<1>3. c \in Socks \cup {NoCon}
  BY <1>1, GetSocketIs
<1>4. PICK qs : qs = <<Cmd("MULTI", <<>>, c, 1)>> \o [k \in 1 .. n |-> Cmd("GET", <<ks[k]>>, c, k + 1)]
                       \o <<Cmd("EXEC", <<>>, c, n + 2)>>
  OBVIOUS
<1>5. TxCmds(qs, c, n)
  BY <1>2, <1>4, TxCmdsAre
<1>6. PICK p : p = <<send(c, qs), recv(c, "ok", 1, <<>>)>>
                   \o [k \in 1 .. n |-> recv(c, "queued", k + 1, <<>>)]
                   \o <<recv(c, "head", n + 2, <<>>)>>
                   \o [k \in 1 .. n |-> recv(c, "generic", n + 2 + k, <<k>>)]
  OBVIOUS
<1>7. TxSteps(p, c, n, qs)
  BY <1>2, <1>6, TxStepsAre
<1>8. p = exec_transaction(ks)
  BY <1>1, <1>2, <1>4, <1>6 DEF exec_transaction
<1>9. PlanOK(p, ncalls, dbs, many)
  BY <1>2, <1>3, <1>5, <1>7, TransactionFits
<1>10. QED
  BY <1>8, <1>9

LEMMA OneNumber ==
  ASSUME NEW d \in Nat
  PROVE  <<d>> \in Seq(Nat)
OBVIOUS

LEMMA SinglePlan ==
  ASSUME NEW m \in DOMAIN Single, NEW ks, Keys(ks), NEW dbs, NEW d \in Nat, m = "select_con" => d \in dbs, NEW many,
         NEW c, c = (IF m \in Together \cup Elsewhere THEN get_socket(ks) ELSE Home[ks[1]]),
         NEW a, a = Args(m, ks, d)
  PROVE  PlanOK(<<send(c, <<Cmd(Single[m][1], a, c, 1)>>), recv(c, Single[m][2], 1, <<>>)>>, ncalls, dbs, many)
<1>1. PICK v, f, at : v = Single[m][1] /\ f = Single[m][2] /\ at = <<>>
  OBVIOUS
<1>2. Row(m, Single[m])
  BY SingleRows DEF OwnRow
<1>3. Entry(v, f) /\ (m # "select_con" => v # "SELECT")
  BY <1>1, <1>2 DEF Row
<1>4. c \in Socks \cup {NoCon}
  BY GetSocketIs
<1>5. a \in Seq(Nat) /\ (v = "SELECT" => a[1] \in dbs)
  <2>1. CASE m = "select_con"
    <3>1. a = <<d>> /\ d \in Nat
      BY <2>1 DEF Args, BlockingMethods
    <3>2. a \in Seq(Nat)
      BY <3>1, OneNumber
    <3>3. a[1] = d
      BY <3>1
    <3>4. QED
      BY <2>1, <3>2, <3>3
  <2>2. CASE m # "select_con"
    <3>1. ks \in Seq(Nat)
      BY DEF Keys
    <3>2. Append(ks, d) \in Seq(Nat)
      BY <3>1, AppendProperties
    <3>3. a \in {ks, Append(ks, d)}
      BY <2>2 DEF Args
    <3>4. QED
      BY <1>3, <2>2, <3>1, <3>2, <3>3
  <2>3. QED
    BY <2>1, <2>2
<1>6. PlanOK(<<send(c, <<Cmd(v, a, c, 1)>>), recv(c, f, 1, at)>>, ncalls, dbs, many)
  BY <1>3, <1>4, <1>5, SingleFits
<1>7. QED
  BY <1>1, <1>6

LEMMA FanOutPlan ==
  ASSUME NEW m \in DOMAIN FanOut, NEW dbs, NEW d \in Nat, m = "select" => d \in dbs, NEW many, many
  PROVE  PlanOK([k \in 1 .. Len(All) |-> send(All[k], <<Cmd(FanOut[m][1], <<d>>, All[k], 1)>>)]
                  \o [k \in 1 .. Len(All) |-> recv(All[k], FanOut[m][2], 1, <<>>)], ncalls, dbs, many)
<1>1. PICK v, f, at, a, cs : v = FanOut[m][1] /\ f = FanOut[m][2] /\ at = <<>> /\ a = <<d>> /\ cs = All
  OBVIOUS
<1>2. Entry(v, f) /\ (v = "SELECT" => d \in dbs)
  BY <1>1, FanOutRows
<1>3. PICK n \in Nat : n > 0 /\ Listing(cs, Socks, n)
  BY <1>1, AllIs
<1>4. Len(cs) = n
  BY <1>3 DEF Listing
<1>5. a \in Seq(Nat) /\ a[1] = d
  BY <1>1
<1> DEFINE F == [k \in 1 .. n |-> send(cs[k], <<Cmd(v, a, cs[k], 1)>>)]
           R == [k \in 1 .. n |-> recv(cs[k], f, 1, at)]
<1>6. [k \in 1 .. Len(All) |-> send(All[k], <<Cmd(FanOut[m][1], <<d>>, All[k], 1)>>)]
        \o [k \in 1 .. Len(All) |-> recv(All[k], FanOut[m][2], 1, <<>>)] = F \o R
  BY <1>1, <1>4
<1>7. F = [k \in 1 .. n |-> F[k]] /\ R = [k \in 1 .. n |-> R[k]]
  OBVIOUS
<1>8. \A k \in 1 .. n : F[k] = send(cs[k], <<Cmd(v, a, cs[k], 1)>>) /\ R[k] = recv(cs[k], f, 1, at)
  OBVIOUS
<1> HIDE DEF F, R
<1>9. IsSeq(F) /\ IsSeq(R) /\ DOMAIN F = 1 .. n /\ DOMAIN R = 1 .. n
  BY <1>7, FunctionIsSeq
<1>10. Spreads(F, R, cs, n, v, f, dbs)
  BY <1>2, <1>5, <1>8, <1>9 DEF Spreads
<1>11. PlanOK(F \o R, ncalls, dbs, many)
  BY <1>2, <1>3, <1>10, SpreadFits
<1>12. QED
  BY <1>6, <1>11

LEMMA PerServerPlan ==
  ASSUME NEW m \in DOMAIN PerServer, NEW ks, Keys(ks), NEW dbs, NEW many, many
  PROVE  PlanOK([k \in 1 .. Len(Sockets(ks)) |->
                   send(Sockets(ks)[k], <<Cmd(PerServer[m][1], Own(ks, Sockets(ks)[k]), Sockets(ks)[k], 1)>>)]
                  \o [k \in 1 .. Len(Sockets(ks)) |->
                        recv(Sockets(ks)[k], PerServer[m][2], 1,
                             IF m = "mget" THEN indices(ks, Sockets(ks)[k]) ELSE <<>>)], ncalls, dbs, many)
<1>1. PICK v, f, cs, S : /\ v = PerServer[m][1] /\ f = PerServer[m][2] /\ cs = Sockets(ks)
                         /\ S = {Home[ks[k]] : k \in DOMAIN ks}
  OBVIOUS
<1>2. Row(m, PerServer[m]) /\ m # "select_con"
  BY PerServerRows DEF PerServer
<1>3. Entry(v, f) /\ v # "SELECT"
  BY <1>1, <1>2 DEF Row
<1>4. PICK n \in Nat : n > 0 /\ Listing(cs, S, n)
  BY <1>1, SocketsAre
<1>5. Len(cs) = n /\ S \subseteq Socks
  <2>1. Len(cs) = n
    BY <1>4 DEF Listing
  <2>2. S \subseteq Socks
    BY <1>1 DEF Keys
  <2>3. QED
    BY <2>1, <2>2
<1> DEFINE at(c) == IF m = "mget" THEN indices(ks, c) ELSE <<>>
           F == [k \in 1 .. n |-> send(cs[k], <<Cmd(v, Own(ks, cs[k]), cs[k], 1)>>)]
           R == [k \in 1 .. n |-> recv(cs[k], f, 1, at(cs[k]))]
<1>6. [k \in 1 .. Len(Sockets(ks)) |->
         send(Sockets(ks)[k], <<Cmd(PerServer[m][1], Own(ks, Sockets(ks)[k]), Sockets(ks)[k], 1)>>)]
        \o [k \in 1 .. Len(Sockets(ks)) |->
              recv(Sockets(ks)[k], PerServer[m][2], 1,
                   IF m = "mget" THEN indices(ks, Sockets(ks)[k]) ELSE <<>>)] = F \o R
  BY <1>1, <1>5
<1> HIDE DEF at
<1>7. F = [k \in 1 .. n |-> F[k]] /\ R = [k \in 1 .. n |-> R[k]]
  OBVIOUS
<1>8. \A k \in 1 .. n : F[k] = send(cs[k], <<Cmd(v, Own(ks, cs[k]), cs[k], 1)>>) /\ R[k] = recv(cs[k], f, 1, at(cs[k]))
  OBVIOUS
<1> HIDE DEF F, R
<1>9. IsSeq(F) /\ IsSeq(R) /\ DOMAIN F = 1 .. n /\ DOMAIN R = 1 .. n
  BY <1>7, FunctionIsSeq
<1>10. Spreads(F, R, cs, n, v, f, dbs)
  <2> SUFFICES ASSUME NEW k \in 1 .. n
               PROVE  \E a \in Seq(Nat) : \E t :
                        /\ v = "SELECT" => a[1] \in dbs
                        /\ F[k] = send(cs[k], <<Cmd(v, a, cs[k], 1)>>) /\ R[k] = recv(cs[k], f, 1, t)
    BY <1>9 DEF Spreads
  <2>1. PICK a, t : a = Own(ks, cs[k]) /\ t = at(cs[k])
    OBVIOUS
  <2>2. a \in Seq(Nat)
    BY <2>1, OwnIs
  <2>3. F[k] = send(cs[k], <<Cmd(v, a, cs[k], 1)>>) /\ R[k] = recv(cs[k], f, 1, t)
    BY <1>8, <2>1
  <2>4. QED
    BY <1>3, <2>2, <2>3
<1>11. PlanOK(F \o R, ncalls, dbs, many)
  BY <1>3, <1>4, <1>5, <1>10, SpreadFits
<1>12. QED
  BY <1>6, <1>11

LEMMA OneByOnePlan ==
  ASSUME NEW m \in DOMAIN OneByOne, NEW dbs, NEW many
  PROVE  PlanOK(InTurn(All, OneByOne[m][1], OneByOne[m][2]), ncalls, dbs, many)
<1>1. PICK v, f : v = OneByOne[m][1] /\ f = OneByOne[m][2]
  OBVIOUS
<1>2. Row(m, OneByOne[m]) /\ m # "select_con"
  BY OneByOneRows DEF OneByOne
<1>3. Entry(v, f) /\ v # "SELECT"
  BY <1>1, <1>2 DEF Row
<1>4. PlanOK(InTurn(All, v, f), ncalls, dbs, many)
  BY <1>3, InTurnFits
<1>5. QED
  BY <1>1, <1>4

LEMMA MsetPlan ==
  ASSUME NEW ks, Keys(ks), NEW dbs, NEW many, NEW c, c = get_socket(ks)
  PROVE  PlanOK(<<send(c, <<Cmd("MSET", ks, c, 1)>>), recv(c, "ok", 1, <<>>)>>, ncalls, dbs, many)
<1>1. PICK v, f, at : v = "MSET" /\ f = "ok" /\ at = <<>>
  OBVIOUS
<1>2. Entry(v, f)
  BY <1>1 DEF Entry, Suits, Verbs, OkVerbs, TestVerbs, CountVerbs, Texts, Lists, TextVerbs, ListVerbs
<1>3. c \in Socks \cup {NoCon} /\ ks \in Seq(Nat) /\ v # "SELECT"
  BY <1>1, GetSocketIs DEF Keys
<1>4. PlanOK(<<send(c, <<Cmd(v, ks, c, 1)>>), recv(c, f, 1, at)>>, ncalls, dbs, many)
  BY <1>2, <1>3, SingleFits
<1>5. QED
  BY <1>1, <1>4

LEMMA SaddRangePlan ==
  ASSUME NEW ks, Keys(ks), NEW dbs, NEW many, many
  PROVE  PlanOK(sadd_range(ks[1]), ncalls, dbs, many)
<1>1. PICK k : k = ks[1]
  OBVIOUS
<1>2. k \in Nat /\ Home[k] \in Socks
  BY <1>1, GetSocketIs
<1>3. QED
  BY <1>1, <1>2, SaddRangeFits

LEMMA PlanFits ==
  ASSUME NEW m \in Methods, NEW ks, Keys(ks), NEW dbs, NEW d \in Nat,
         m \in {"select", "select_con"} => d \in dbs
  PROVE  PlanOK(Plan(m, ks, d), ncalls, dbs, m \in ManyReplies)
<1> DEFINE c1 == IF m \in Together \cup Elsewhere THEN get_socket(ks) ELSE Home[ks[1]]
           a1 == Args(m, ks, d)
           p1 == <<send(c1, <<Cmd(Single[m][1], a1, c1, 1)>>), recv(c1, Single[m][2], 1, <<>>)>>
           p2 == [k \in 1 .. Len(All) |-> send(All[k], <<Cmd(FanOut[m][1], <<d>>, All[k], 1)>>)]
                   \o [k \in 1 .. Len(All) |-> recv(All[k], FanOut[m][2], 1, <<>>)]
           p3 == InTurn(All, OneByOne[m][1], OneByOne[m][2])
           cs == Sockets(ks)
           p4 == [k \in 1 .. Len(cs) |-> send(cs[k], <<Cmd(PerServer[m][1], Own(ks, cs[k]), cs[k], 1)>>)]
                   \o [k \in 1 .. Len(cs) |->
                         recv(cs[k], PerServer[m][2], 1, IF m = "mget" THEN indices(ks, cs[k]) ELSE <<>>)]
           c5 == get_socket(ks)
           p5 == <<send(c5, <<Cmd("MSET", ks, c5, 1)>>), recv(c5, "ok", 1, <<>>)>>
<1>1. /\ m \in {"msetex", "exec", "exec_transaction", "sadd_range"} => m \in ManyReplies
      /\ m \in DOMAIN FanOut => m \in ManyReplies
      /\ m \in DOMAIN PerServer => m \in ManyReplies
  BY DEF ManyReplies
<1>2. PICK many : many = (m \in ManyReplies)
  OBVIOUS
<1>3. m \in DOMAIN Single => PlanOK(p1, ncalls, dbs, many)
  BY SinglePlan
<1>4. m \in DOMAIN FanOut => PlanOK(p2, ncalls, dbs, many)
  BY <1>1, <1>2, FanOutPlan
<1>5. m \in DOMAIN OneByOne => PlanOK(p3, ncalls, dbs, many)
  BY OneByOnePlan
<1>6. m \in DOMAIN PerServer => PlanOK(p4, ncalls, dbs, many)
  BY <1>1, <1>2, PerServerPlan
<1>7. PlanOK(p5, ncalls, dbs, many)
  BY MsetPlan
<1>8. m = "msetex" => PlanOK(msetex(ks), ncalls, dbs, many)
  BY <1>1, <1>2, MsetexFits
<1>9. m = "exec" => PlanOK(exec(ks), ncalls, dbs, many)
  BY <1>1, <1>2, ExecFits
<1>10. m = "exec_transaction" => PlanOK(exec_transaction(ks), ncalls, dbs, many)
  BY <1>1, <1>2, ExecTransactionFits
<1>11. m = "sadd_range" => PlanOK(sadd_range(ks[1]), ncalls, dbs, many)
  BY <1>1, <1>2, SaddRangePlan
<1>12. Plan(m, ks, d) = CASE m \in DOMAIN Single -> p1
                          [] m \in DOMAIN FanOut -> p2
                          [] m \in DOMAIN OneByOne -> p3
                          [] m \in DOMAIN PerServer -> p4
                          [] m = "mset" -> p5
                          [] m = "msetex" -> msetex(ks)
                          [] m = "exec" -> exec(ks)
                          [] m = "exec_transaction" -> exec_transaction(ks)
                          [] m = "sadd_range" -> sadd_range(ks[1])
  BY DEF Plan, Spread, Nothing
<1> HIDE DEF p1, p2, p3, p4, p5
<1>13. \/ m \in DOMAIN Single \/ m \in DOMAIN FanOut \/ m \in DOMAIN OneByOne \/ m \in DOMAIN PerServer
       \/ m = "mset" \/ m = "msetex" \/ m = "exec" \/ m = "exec_transaction" \/ m = "sadd_range"
  BY DEF Methods
<1>14. PlanOK(Plan(m, ks, d), ncalls, dbs, many)
  BY <1>3, <1>4, <1>5, <1>6, <1>7, <1>8, <1>9, <1>10, <1>11, <1>12, <1>13
<1>15. QED
  BY <1>2, <1>14

-----------------------------------------------------------------------------
(* The theorems.                                                                  *)
LEMMA BeginStep ==
  ASSUME ClientInv, Begin
  PROVE  ClientInv'
<1>1. PICK m \in load.first \cup load.later, ks \in load.keys, d \in load.dbs : \E copy : Start(m, ks, d, copy)
  BY DEF Begin
<1>2. load \in Loads
  BY DEF ClientInv, CallInv
<1>3. m \in Methods /\ Keys(ks) /\ load.dbs \subseteq Nat
  BY <1>1, <1>2, ClientAssumption DEF Keys
<1>4. PICK dbs : dbs = load.dbs
  OBVIOUS
<1>5. PlanOK(Plan(m, ks, d), ncalls, dbs, m \in ManyReplies)
  <2>1. d \in Nat /\ d \in dbs
    BY <1>1, <1>3, <1>4
  <2>2. QED
    BY <1>3, <2>1, PlanFits
<1>6. QED
  BY <1>1, <1>4, <1>5, StartStep

LEMMA NextHolds ==
  ASSUME ClientInv, [Next]_vars
  PROVE  ClientInv'
<1>1. CASE Begin
  BY <1>1, BeginStep
<1>2. CASE Send
  BY <1>2, SendStep
<1>3. CASE Recv
  BY <1>3, RecvStep
<1>4. CASE RecvClosed
  BY <1>4, RecvClosedStep
<1>5. ASSUME NEW c \in Socks, Serve(c) PROVE ClientInv'
  BY <1>5, ServeStep
<1>6. ASSUME NEW c \in Socks, Enqueue(c) PROVE ClientInv'
  BY <1>6, EnqueueStep
<1>7. ASSUME NEW c \in Socks, Exec(c) PROVE ClientInv'
  BY <1>7, ExecStep
<1>8. ASSUME NEW c \in Socks, Break(c) PROVE ClientInv'
  BY <1>8, BreakStep
<1>9. CASE UNCHANGED vars
  BY <1>9 DEF vars, ClientInv, TypeOK, ServerInv, CallInv, ConInv
<1>10. QED
  BY <1>1, <1>2, <1>3, <1>4, <1>5, <1>6, <1>7, <1>8, <1>9 DEF Next, Client, Servers, Shutdown

(* The invariant holds from the constructor on: the steps of every method fit it  *)
(* (Plan), and every step of client, servers and network keeps it.                *)
THEOREM ClientHolds == Spec => []ClientInv
<1>1. Init => ClientInv
  BY InitHolds
<1>2. ClientInv /\ [Next]_vars => ClientInv'
  BY NextHolds
<1>3. QED
  BY <1>1, <1>2, PTL DEF Spec

LEMMA InvInStep ==
  ASSUME ClientInv
  PROVE  InStep
<1>1. TypeOK
  BY DEF ClientInv
<1>2. ASSUME NEW c \in Socks, Idle, Pending(c) # <<>>, strayed[c] = "no" PROVE FALSE
  <2>1. rep[c] = <<>> /\ req[c] = <<>>
    BY <1>2 DEF ClientInv, ConInv, Quiet, Idle
  <2>2. Pending(c) = <<>>
    BY <2>1 DEF Pending
  <2>3. QED
    BY <1>2, <2>2
<1>3. QED
  BY <1>1, <1>2 DEF InStep, ClientInv

(* Between calls nothing is pending on a connection that works, unless a call that *)
(* reads several replies threw before it had read them all: a method that sends    *)
(* one command (send_, then one recv_..._reply_) stays in step whatever it throws. *)
THEOREM InStepHolds == Spec => []InStep
<1>1. ClientInv => InStep
  BY InvInStep
<1>2. QED
  BY <1>1, ClientHolds, PTL

(* Every receive function reads the reply to its own command, and all of it, on    *)
(* every connection no earlier call left out of step: fan-outs, pipelines over any *)
(* number of servers, and transactions, one call after the other.                  *)
THEOREM OwnRepliesHolds == Spec => []OwnReplies
<1>1. ClientInv => OwnReplies
  BY DEF ClientInv, ConInv, OwnReplies
<1>2. QED
  BY <1>1, ClientHolds, PTL

-----------------------------------------------------------------------------
(* The recorded database.  A select() has one SELECT on a connection, for the      *)
(* number it was called with; other calls send none.                               *)
Selects == {"select", "select_con"}

SelectStep(s, d) ==
  /\ s.op = "recv" => s.reader = "ok"
  /\ s.op = "send" => Len(s.cmds) = 1 /\ s.cmds[1].verb = "SELECT" /\ s.cmds[1].keys[1] = d

OtherStep(s) == s.op = "send" /\ s.con \in Socks => \A q \in Range(s.cmds) : q.verb # "SELECT"

StepsInv ==
  ret = "run" => \A s \in Range(steps) :
    IF call.m \in Selects THEN SelectStep(s, call.arg) ELSE OtherStep(s)

(* Where a select() is with connection c: nothing sent or all done, the command    *)
(* waits, its answer waits.                                                        *)
Selecting(rq, rp, x, y, d) ==
  \/ rq = <<>> /\ rp = <<>> /\ x = y
  \/ rp = <<>> /\ x = y /\ Len(rq) = 1 /\ rq[1].verb = "SELECT" /\ rq[1].keys[1] = d
  \/ rq = <<>> /\ Len(rp) = 1 /\ rp[1].reply = Status(OK) /\ y = d
  \/ rq = <<>> /\ Len(rp) = 1 /\ rp[1].reply = Err(0) /\ x = y

Recorded(c) ==
  /\ ret = "run" /\ call.m \in Selects => Selecting(req[c], rep[c], db[c], sel[c], call.arg)
  /\ ret = "run" /\ call.m \notin Selects =>
       db[c] = sel[c] /\ \A q \in Range(req[c]) : q.verb # "SELECT"
  /\ ret # "run" => db[c] = sel[c]

RecordInv ==
  StepsInv /\ \A c \in Socks : up[c] /\ strayed[c] = "no" /\ ~stale[c] => Recorded(c)

LEMMA OtherPlan ==
  ASSUME NEW m \in Methods, m \notin Selects, NEW ks, Keys(ks), NEW d \in Nat, NEW s \in Range(Plan(m, ks, d))
  PROVE  OtherStep(s)
<1>1. PICK p, many : p = Plan(m, ks, d) /\ many = (m \in ManyReplies)
  OBVIOUS
<1>2. PlanOK(p, ncalls, {}, many) /\ s \in Range(p)
  BY <1>1, PlanFits DEF Selects
<1>3. CASE Nowhere(p)
  BY <1>2, <1>3, NoSocket DEF Nowhere, OtherStep
<1>4. CASE Good(p, ncalls, {}, many)
  <2>1. s.op = "send" => Commands({}, s.cmds)
    BY <1>2, <1>4 DEF Good, StepOK, Sends
  <2>2. QED
    BY <2>1 DEF Commands, OtherStep
<1>5. QED
  BY <1>2, <1>3, <1>4 DEF PlanOK

LEMMA SelectSends ==
  ASSUME NEW s, NEW c, NEW d \in Nat, s = send(c, <<Cmd("SELECT", <<d>>, c, 1)>>)
  PROVE  SelectStep(s, d)
<1>1. PICK q, a : q = Cmd("SELECT", a, c, 1) /\ a = <<d>>
  OBVIOUS
<1>2. q.verb = "SELECT" /\ q.keys = a /\ a[1] = d
  BY <1>1, CmdIs
<1>3. PICK qs : qs = <<q>>
  OBVIOUS
<1>4. Len(qs) = 1 /\ qs[1] = q
  BY <1>3
<1>5. s.op = "send" /\ s.cmds = qs
  BY <1>1, <1>3, SendIs
<1>6. QED
  BY <1>2, <1>4, <1>5 DEF SelectStep

LEMMA SelectReceives ==
  ASSUME NEW s, NEW c, NEW d, s = recv(c, "ok", 1, <<>>)
  PROVE  SelectStep(s, d)
<1>1. PICK at : at = <<>>
  OBVIOUS
<1>2. s = recv(c, "ok", 1, at)
  BY <1>1
<1>3. s.op = "recv" /\ s.reader = "ok"
  BY <1>2, RecvIs
<1>4. QED
  BY <1>3 DEF SelectStep

SelectPlans(p, d) == \A s \in Range(p) : SelectStep(s, d)

LEMMA SelectOne ==
  ASSUME NEW c, NEW d \in Nat
  PROVE  SelectPlans(<<send(c, <<Cmd("SELECT", <<d>>, c, 1)>>), recv(c, "ok", 1, <<>>)>>, d)
<1>1. PICK x, y : x = send(c, <<Cmd("SELECT", <<d>>, c, 1)>>) /\ y = recv(c, "ok", 1, <<>>)
  OBVIOUS
<1>2. SelectStep(x, d) /\ SelectStep(y, d)
  BY <1>1, SelectSends, SelectReceives
<1>3. Range(<<x, y>>) = {x, y}
  BY PairIs
<1>4. SelectPlans(<<x, y>>, d)
  BY <1>2, <1>3 DEF SelectPlans
<1>5. QED
  BY <1>1, <1>4

LEMMA SelectAll ==
  ASSUME NEW d \in Nat
  PROVE  SelectPlans([k \in 1 .. Len(All) |-> send(All[k], <<Cmd("SELECT", <<d>>, All[k], 1)>>)]
                       \o [k \in 1 .. Len(All) |-> recv(All[k], "ok", 1, <<>>)], d)
<1>1. PICK cs : cs = All
  OBVIOUS
<1>2. PICK n \in Nat : n > 0 /\ Listing(cs, Socks, n)
  BY <1>1, AllIs
<1>3. Len(cs) = n
  BY <1>2 DEF Listing
<1> DEFINE F == [k \in 1 .. n |-> send(cs[k], <<Cmd("SELECT", <<d>>, cs[k], 1)>>)]
           R == [k \in 1 .. n |-> recv(cs[k], "ok", 1, <<>>)]
<1>4. F = [k \in 1 .. n |-> F[k]] /\ R = [k \in 1 .. n |-> R[k]]
  OBVIOUS
<1>5. \A k \in 1 .. n : F[k] = send(cs[k], <<Cmd("SELECT", <<d>>, cs[k], 1)>>) /\ R[k] = recv(cs[k], "ok", 1, <<>>)
  OBVIOUS
<1> HIDE DEF F, R
<1>6. IsSeq(F) /\ IsSeq(R) /\ DOMAIN F = 1 .. n /\ DOMAIN R = 1 .. n
  BY <1>4, FunctionIsSeq
<1>7. \A k \in 1 .. n : SelectStep(F[k], d) /\ SelectStep(R[k], d)
  <2> SUFFICES ASSUME NEW k \in 1 .. n PROVE SelectStep(F[k], d) /\ SelectStep(R[k], d)
    OBVIOUS
  <2>1. PICK x, y, c : x = F[k] /\ y = R[k] /\ c = cs[k]
    OBVIOUS
  <2>2. x = send(c, <<Cmd("SELECT", <<d>>, c, 1)>>) /\ y = recv(c, "ok", 1, <<>>)
    BY <1>5, <2>1
  <2>3. SelectStep(x, d) /\ SelectStep(y, d)
    BY <2>2, SelectSends, SelectReceives
  <2>4. QED
    BY <2>1, <2>3
<1>8. Range(F \o R) = Range(F) \cup Range(R)
  BY <1>6, JoinIs
<1>9. SelectPlans(F \o R, d)
  BY <1>6, <1>7, <1>8 DEF SelectPlans, Range
<1>10. QED
  BY <1>1, <1>3, <1>9 DEF F, R

LEMMA SelectPlan ==
  ASSUME NEW m \in Selects, NEW ks, Keys(ks), NEW d \in Nat
  PROVE  SelectPlans(Plan(m, ks, d), d)
<1>1. CASE m = "select"
  <2>1. m \notin DOMAIN Single /\ m \notin DOMAIN OneByOne /\ m \notin DOMAIN PerServer
    BY <1>1, SingleRows, OneByOneRows, PerServerRows DEF OwnRow, Row
  <2>2. m \in DOMAIN FanOut /\ FanOut[m][1] = "SELECT" /\ FanOut[m][2] = "ok"
    BY <1>1 DEF FanOut
  <2>3. Plan(m, ks, d) = [k \in 1 .. Len(All) |-> send(All[k], <<Cmd("SELECT", <<d>>, All[k], 1)>>)]
                           \o [k \in 1 .. Len(All) |-> recv(All[k], "ok", 1, <<>>)]
    BY <1>1, <2>1, <2>2 DEF Plan, Spread, Nothing
  <2>4. QED
    BY <2>3, SelectAll
<1>2. CASE m = "select_con"
  <2>1. m \notin DOMAIN FanOut /\ m \notin DOMAIN OneByOne /\ m \notin DOMAIN PerServer
    BY <1>2 DEF FanOut, OneByOne, PerServer
  <2>2. m \in DOMAIN Single
    <3>1. DatabaseMethods \in Groups /\ m \in DOMAIN DatabaseMethods
      BY <1>2 DEF Groups, DatabaseMethods
    <3>2. QED
      BY <3>1 DEF Single
  <2>3. Single[m][1] = "SELECT" /\ Single[m][2] = "ok"
    BY <1>2, <2>2, SingleRows DEF OwnRow, Row
  <2>4. PICK c : c = IF m \in Together \cup Elsewhere THEN get_socket(ks) ELSE Home[ks[1]]
    OBVIOUS
  <2>5. Plan(m, ks, d) = <<send(c, <<Cmd("SELECT", <<d>>, c, 1)>>), recv(c, "ok", 1, <<>>)>>
    <3>1. Args(m, ks, d) = <<d>>
      BY <1>2 DEF Args, BlockingMethods
    <3>2. QED
      BY <1>2, <2>1, <2>2, <2>3, <2>4, <3>1 DEF Plan
  <2>6. QED
    BY <2>5, SelectOne
<1>3. QED
  BY <1>1, <1>2 DEF Selects

(* A connection a step leaves alone.                                               *)
Alone(k) ==
  /\ req'[k] = req[k] /\ rep'[k] = rep[k] /\ db'[k] = db[k] /\ sel'[k] = sel[k]
  /\ up'[k] => up[k]
  /\ strayed'[k] = "no" => strayed[k] = "no"
  /\ ~stale'[k] => ~stale[k]

Watched(k) == up[k] /\ strayed[k] = "no" /\ ~stale[k]

LEMMA AloneRecorded ==
  ASSUME ClientInv', RecordInv, NEW k \in Socks, Alone(k), Watched(k)', call' = call, ret = "run" \/ ret' # "run"
  PROVE  Recorded(k)'
<1>1. Recorded(k)
  BY DEF RecordInv, Alone, Watched
<1>2. CASE ret' = "run"
  BY <1>1, <1>2 DEF Recorded, Alone
<1>3. CASE ret' # "run"
  <2>1. rep'[k] = <<>> /\ req'[k] = <<>>
    BY <1>3 DEF ClientInv, ConInv, Quiet, Watched
  <2>2. PICK x, y, d, rq, rp : x = db[k] /\ y = sel[k] /\ d = call.arg /\ rq = req[k] /\ rp = rep[k]
    OBVIOUS
  <2>3. rq = <<>> /\ rp = <<>> /\ Len(rq) = 0 /\ Len(rp) = 0
    BY <2>1, <2>2, EmptyIs DEF Alone
  <2>4. Selecting(rq, rp, x, y, d) => x = y
    BY <2>3 DEF Selecting
  <2>5. db[k] = sel[k]
    BY <1>1, <2>2, <2>4 DEF Recorded
  <2>6. QED
    BY <1>3, <2>5 DEF Recorded, Alone
<1>4. QED
  BY <1>2, <1>3

LEMMA StepsKept ==
  ASSUME ClientInv, StepsInv, call' = call, ret = "run",
         ret' # "run" \/ steps' = steps \/ steps' = Tail(steps)
  PROVE  StepsInv'
<1>1. IsSeq(steps) /\ steps # <<>>
  BY RunIs
<1>2. Range(steps) = {steps[1]} \cup Range(Tail(steps))
  BY <1>1, TailIs
<1>3. ret' = "run" => Range(steps') \subseteq Range(steps)
  BY <1>2
<1>4. QED
  BY <1>3 DEF StepsInv

LEMMA SendRecorded ==
  ASSUME ClientInv, ClientInv', RecordInv, Send
  PROVE  RecordInv'
<1>1. ret = "run" /\ Head(steps).op = "send"
  BY DEF Send
<1> DEFINE s == steps[1]
           c == s.con
<1>2. /\ steps # <<>> /\ Head(steps) = s /\ s \in Range(steps)
      /\ \A k \in Socks : strayed[k] = "no" => Line(steps, ncalls - 1, k, rep[k], req[k], multi[k], up[k])
  BY <1>1, RunIs
<1>3. /\ UNCHANGED <<rep, up, sel, db, call, stale>>
      /\ \/ /\ c \in Socks
            /\ req' = IF up[c] THEN [req EXCEPT ![c] = @ \o s.cmds] ELSE req
            /\ steps' = Tail(steps)
            /\ UNCHANGED <<ret, strayed>>
         \/ /\ Finish("closed", [k \in Socks |-> Pending(k)])
            /\ UNCHANGED req
  BY <1>2 DEF Send
<1>4. s.op = "send"
  BY <1>1, <1>2
<1> HIDE DEF s, c
<1>5. StepsInv'
  <2>1. ret' # "run" \/ steps' = Tail(steps)
    BY <1>3 DEF Finish
  <2>2. QED
    BY <1>1, <1>3, <2>1, StepsKept DEF RecordInv
<1>6. CASE /\ c \in Socks
           /\ req' = IF up[c] THEN [req EXCEPT ![c] = @ \o s.cmds] ELSE req
           /\ steps' = Tail(steps)
           /\ UNCHANGED <<ret, strayed>>
  <2>1. \A k \in Socks : req'[k] = IF k = c /\ up[k] THEN req[k] \o s.cmds ELSE req[k]
    BY <1>6 DEF ClientInv, ServerInv
  <2>2. ASSUME NEW k \in Socks, Watched(k)' PROVE Recorded(k)'
    <3>1. CASE k # c
      <4>1. Alone(k)
        BY <1>3, <1>6, <2>1, <3>1 DEF Alone
      <4>2. QED
        BY <1>1, <1>3, <2>2, <4>1, AloneRecorded
    <3>2. CASE k = c
      <4>1. up[k] /\ strayed[k] = "no" /\ ~stale[k]
        BY <1>3, <1>6, <2>2 DEF Watched
      <4>2. Recorded(k)
        BY <4>1 DEF RecordInv
      <4>3. IsSend(s, k)
        BY <1>4, <3>2 DEF IsSend, c
      <4>4. rep[k] = <<>> /\ req[k] = <<>>
        BY <1>2, <4>1, <4>3 DEF Line, Quiet
      <4>5. req'[k] = <<>> \o s.cmds
        BY <2>1, <3>2, <4>1, <4>4
      <4>6. StepOK(steps, ncalls - 1, load.dbs, s)
        <5>1. s.con \in Socks
          BY <1>6 DEF c
        <5>2. QED
          BY <1>1, <5>1, RunIs, NotNowhere DEF s
      <4>7. IsSeq(s.cmds)
        BY <1>4, <4>6 DEF StepOK, Sends, Commands
      <4>8. req'[k] = s.cmds
        <5>1. <<>> \o s.cmds = s.cmds
          BY <4>7, ConcatEmptySeq DEF IsSeq
        <5>2. QED
          BY <4>5, <5>1
      <4>9. IF call.m \in Selects THEN SelectStep(s, call.arg) ELSE OtherStep(s)
        BY <1>1, <1>2 DEF RecordInv, StepsInv
      <4>10. CASE call.m \in Selects
        <5>1. Selecting(req[k], rep[k], db[k], sel[k], call.arg)
          BY <1>1, <4>2, <4>10 DEF Recorded
        <5>2. Len(req[k]) = 0 /\ Len(rep[k]) = 0
          BY <4>4, EmptyIs
        <5>3. db[k] = sel[k]
          BY <5>1, <5>2 DEF Selecting
        <5>4. Len(s.cmds) = 1 /\ s.cmds[1].verb = "SELECT" /\ s.cmds[1].keys[1] = call.arg
          BY <1>4, <4>9, <4>10 DEF SelectStep
        <5>5. Selecting(req'[k], rep'[k], db'[k], sel'[k], call'.arg)
          BY <1>3, <4>4, <4>8, <5>3, <5>4 DEF Selecting
        <5>6. QED
          BY <1>1, <1>3, <1>6, <4>10, <5>5 DEF Recorded
      <4>11. CASE call.m \notin Selects
        <5>1. \A q \in Range(s.cmds) : q.verb # "SELECT"
          <6>1. s.con \in Socks
            BY <1>6 DEF c
          <6>2. QED
            BY <1>4, <4>9, <4>11, <6>1 DEF OtherStep
        <5>2. db[k] = sel[k]
          BY <1>1, <4>2, <4>11 DEF Recorded
        <5>3. QED
          BY <1>1, <1>3, <1>6, <4>8, <4>11, <5>1, <5>2 DEF Recorded
      <4>12. QED
        BY <4>10, <4>11
    <3>3. QED
      BY <3>1, <3>2
  <2>3. QED
    BY <1>5, <2>2 DEF RecordInv, Watched
<1>7. CASE /\ Finish("closed", [k \in Socks |-> Pending(k)])
           /\ UNCHANGED req
  <2>1. ASSUME NEW k \in Socks, Watched(k)' PROVE Recorded(k)'
    <3>1. strayed'[k] = "no" => strayed[k] = "no"
      BY <1>7 DEF Finish
    <3>2. Alone(k)
      BY <1>3, <1>7, <3>1 DEF Alone
    <3>3. QED
      BY <1>1, <1>3, <2>1, <3>2, AloneRecorded
  <2>2. QED
    BY <1>5, <2>1 DEF RecordInv, Watched
<1>8. QED
  BY <1>3, <1>6, <1>7

LEMMA RecvRecorded ==
  ASSUME ClientInv, ClientInv', RecordInv, Recv
  PROVE  RecordInv'
<1>1. ret = "run" /\ Head(steps).op = "recv"
  BY DEF Recv
<1> DEFINE s == steps[1]
           c == s.con
           h == rep[c][1]
           good == Takes(s, h.reply)
<1>2. IsSeq(steps) /\ steps # <<>> /\ Head(steps) = s /\ s \in Range(steps) /\ \A k \in Socks : IsSeq(rep[k])
  BY <1>1, RunIs
<1>3. s.op = "recv"
  BY <1>1, <1>2
<1> HIDE DEF s, c, h, good
<1>4. c \in Socks
  BY <1>1, <1>3, RunIs, NotNowhere DEF s, c
<1>5. rep[c] # <<>>
  BY <1>2 DEF Recv, c
<1>6. Head(rep[c]) = h
  BY <1>2, <1>4, <1>5, TailIs DEF h
<1>7. /\ rep' = [rep EXCEPT ![c] = Tail(@)]
      /\ db' = IF good /\ Records(c) THEN [db EXCEPT ![c] = call.arg] ELSE db
      /\ stale' = IF \/ call.m \in {"select", "select_con"} /\ ~good
                     \/ call.m = "select_con" /\ call.copy # db[c]
                  THEN [stale EXCEPT ![c] = TRUE] ELSE stale
      /\ \/ ~good /\ Finish("throw", [k \in Socks |-> rep'[k] \o req[k]])
         \/ Finish("ok", rep')
         \/ steps' = Tail(steps) /\ UNCHANGED <<ret, strayed>>
      /\ UNCHANGED <<req, up, sel, call>>
  BY <1>2, <1>6 DEF Recv, server, c, good
<1>8. /\ ret' # "run" \/ steps' = Tail(steps)
      /\ \A k \in Socks : strayed'[k] = "no" => strayed[k] = "no"
  BY <1>7 DEF Finish
<1>9. StepsInv'
  BY <1>1, <1>7, <1>8, StepsKept DEF RecordInv
<1>10. DOMAIN rep = Socks /\ DOMAIN db = Socks /\ DOMAIN stale = Socks
  BY DEF ClientInv, ServerInv, CallInv
<1>11. /\ rep'[c] = Tail(rep[c]) /\ \A k \in Socks : k # c => rep'[k] = rep[k] /\ db'[k] = db[k]
       /\ \A k \in Socks : k # c => stale'[k] = stale[k]
       /\ ~stale'[c] => ~stale[c]
  BY <1>4, <1>7, <1>10
<1>12. ASSUME NEW k \in Socks, Watched(k)' PROVE Recorded(k)'
  <2>1. CASE k # c
    <3>1. Alone(k)
      BY <1>7, <1>8, <1>11, <2>1 DEF Alone
    <3>2. QED
      BY <1>1, <1>7, <1>12, <3>1, AloneRecorded
  <2>2. CASE k = c
    <3>1. up[c] /\ strayed[c] = "no" /\ ~stale[c] /\ ~stale'[c]
      BY <1>4, <1>7, <1>8, <1>11, <1>12, <2>2 DEF Watched
    <3>2. Recorded(c)
      BY <1>4, <3>1 DEF RecordInv
    <3>3. CASE call.m \in Selects
      <4>1. good /\ Records(c)
        BY <1>4, <1>7, <1>10, <3>1, <3>3 DEF Selects, Records
      <4>2. db'[c] = call.arg
        BY <1>4, <1>7, <1>10, <4>1
      <4>3. s.reader = "ok"
        BY <1>1, <1>2, <1>3, <3>3 DEF RecordInv, StepsInv, SelectStep
      <4>4. h.reply # Err(0)
        BY <4>1, <4>3, DoomedThrows DEF good
      <4>5. Selecting(req[c], rep[c], db[c], sel[c], call.arg)
        BY <1>1, <3>2, <3>3 DEF Recorded
      <4>6. req[c] = <<>> /\ Len(rep[c]) = 1 /\ sel[c] = call.arg
        BY <1>5, <4>4, <4>5 DEF Selecting, h
      <4>7. Tail(rep[c]) = <<>>
        BY <1>2, <1>4, <1>5, <4>6, TailIs
      <4>8. Selecting(req'[c], rep'[c], db'[c], sel'[c], call'.arg) /\ db'[c] = sel'[c]
        BY <1>7, <1>11, <4>2, <4>6, <4>7 DEF Selecting
      <4>9. QED
        BY <1>7, <2>2, <3>3, <4>8 DEF Recorded
    <3>4. CASE call.m \notin Selects
      <4>1. db' = db
        BY <1>7, <3>4 DEF Records, Selects
      <4>2. db[c] = sel[c] /\ \A q \in Range(req[c]) : q.verb # "SELECT"
        BY <1>1, <3>2, <3>4 DEF Recorded
      <4>3. QED
        BY <1>7, <2>2, <3>4, <4>1, <4>2 DEF Recorded
    <3>5. QED
      BY <3>3, <3>4
  <2>3. QED
    BY <2>1, <2>2
<1>13. QED
  BY <1>9, <1>12 DEF RecordInv, Watched

LEMMA RecvClosedRecorded ==
  ASSUME ClientInv, ClientInv', RecordInv, RecvClosed
  PROVE  RecordInv'
<1>1. ret = "run"
  BY DEF RecvClosed
<1>2. PICK c : c = Head(steps).con
  OBVIOUS
<1>3. /\ ~up[c]
      /\ \/ Finish("ok", rep)
         \/ steps' = Tail(steps) /\ UNCHANGED <<ret, strayed>>
         \/ Finish("closed", [k \in Socks |-> Pending(k)])
      /\ stale' = [stale EXCEPT ![c] = TRUE] \/ stale' = stale
      /\ UNCHANGED <<req, up, sel, rep, db, call>>
  BY <1>2 DEF RecvClosed, server
<1>4. /\ ret' # "run" \/ steps' = Tail(steps)
      /\ \A k \in Socks : strayed'[k] = "no" => strayed[k] = "no"
  BY <1>3 DEF Finish
<1>5. StepsInv'
  BY <1>1, <1>3, <1>4, StepsKept DEF RecordInv
<1>6. ASSUME NEW k \in Socks, Watched(k)' PROVE Recorded(k)'
  <2>1. k # c
    BY <1>3, <1>6 DEF Watched
  <2>2. stale'[k] = stale[k]
    BY <1>3, <2>1 DEF ClientInv, CallInv
  <2>3. Alone(k)
    BY <1>3, <1>4, <2>2 DEF Alone
  <2>4. QED
    BY <1>1, <1>3, <1>6, <2>3, AloneRecorded
<1>7. QED
  BY <1>5, <1>6 DEF RecordInv, Watched

(* Steps of a server or of the network on connection c.                            *)
LEMMA ServerRecorded ==
  ASSUME ClientInv, ClientInv', RecordInv, NEW c \in Socks,
         UNCHANGED <<db, call, steps, ret, strayed, stale>>,
         \A k \in Socks : k # c => req'[k] = req[k] /\ rep'[k] = rep[k] /\ sel'[k] = sel[k] /\ up'[k] = up[k],
         Watched(c)' => Recorded(c)'
  PROVE  RecordInv'
<1>1. StepsInv'
  BY DEF RecordInv, StepsInv
<1>2. ASSUME NEW k \in Socks, k # c, Watched(k)' PROVE Recorded(k)'
  <2>1. Alone(k)
    BY <1>2 DEF Alone
  <2>2. ret = "run" \/ ret' # "run"
    OBVIOUS
  <2>3. QED
    BY <1>2, <2>1, <2>2, AloneRecorded
<1>3. QED
  BY <1>1, <1>2 DEF RecordInv, Watched

LEMMA BreakRecorded ==
  ASSUME ClientInv, ClientInv', RecordInv, NEW c \in Socks, Break(c)
  PROVE  RecordInv'
<1>1. PICK k \in 0 .. Len(rep[c]) : rep' = [rep EXCEPT ![c] = SubSeq(@, 1, k)]
  BY DEF Break
<1>2. DOMAIN rep = Socks /\ DOMAIN req = Socks /\ DOMAIN up = Socks
  BY DEF ClientInv, ServerInv
<1>3. /\ UNCHANGED <<db, call, steps, ret, strayed, stale, sel>>
      /\ up' = [up EXCEPT ![c] = FALSE] /\ req' = [req EXCEPT ![c] = <<>>]
  BY DEF Break
<1>4. ~up'[c] /\ \A d \in Socks : d # c => req'[d] = req[d] /\ rep'[d] = rep[d] /\ sel'[d] = sel[d] /\ up'[d] = up[d]
  BY <1>1, <1>2, <1>3
<1>5. ~Watched(c)'
  BY <1>4 DEF Watched
<1>6. QED
  BY <1>3, <1>4, <1>5, ServerRecorded

(* A call other than select() has a command of its own at the head.                *)
LEMMA OtherServed ==
  ASSUME ClientInv, NEW c \in Socks, UNCHANGED <<db, call, ret>>, sel'[c] = sel[c],
         req[c] # <<>>, req'[c] = Tail(req[c]), ret = "run", call.m \notin Selects, Recorded(c)
  PROVE  Recorded(c)'
<1>1. IsSeq(req[c])
  BY ConnectionIs
<1>2. Range(req[c]) = {req[c][1]} \cup Range(Tail(req[c]))
  BY <1>1, TailIs
<1>3. QED
  BY <1>2 DEF Recorded

LEMMA SelectAnswers ==
  ASSUME NEW ks, NEW a \in Answers("SELECT", ks)
  PROVE  (a.reply = Err(0) /\ ~a.done) \/ (a.reply = Status(OK) /\ a.done)
<1>1. a \in {Refused(Err(0)), Done(Status(OK))}
  BY DEF Answers, OkVerbs, TestVerbs, CountVerbs, TextVerbs, ListVerbs
<1>2. QED
  BY <1>1 DEF Refused, Done

LEMMA ServeRecorded ==
  ASSUME ClientInv, ClientInv', RecordInv, NEW c \in Socks, Serve(c)
  PROVE  RecordInv'
<1> DEFINE rq == req[c]
           rp == rep[c]
           q == rq[1]
<1>1. DOMAIN req = Socks /\ DOMAIN rep = Socks /\ DOMAIN sel = Socks /\ IsSeq(rq) /\ IsSeq(rp)
  BY ConnectionIs
<1>2. up[c] /\ rq # <<>>
  BY DEF Serve
<1>3. Head(rq) = q
  BY <1>1, <1>2, TailIs
<1>4. PICK a \in Answers(q.verb, q.keys) :
        /\ rep' = Reply(c, a, q.id)
        /\ sel' = IF q.verb = "SELECT" /\ a.done THEN [sel EXCEPT ![c] = q.keys[1]] ELSE sel
  BY <1>3 DEF Serve
<1> DEFINE r == [reply |-> a.reply, done |-> a.done, id |-> q.id]
<1>5. DOMAIN rep' = Socks /\ rep'[c] = Append(rp, r) /\ \A d \in Socks : d # c => rep'[d] = rep[d]
  BY <1>1, <1>4 DEF Reply
<1>6. req'[c] = Tail(rq) /\ \A d \in Socks : d # c => req'[d] = req[d]
  BY <1>1 DEF Serve
<1>7. UNCHANGED <<up, db, call, steps, ret, strayed, stale>>
  BY DEF Serve
<1>8. r.reply = a.reply
  OBVIOUS
<1> HIDE DEF r
<1>9. /\ \A d \in Socks : d # c => sel'[d] = sel[d]
      /\ sel'[c] = IF q.verb = "SELECT" /\ a.done THEN q.keys[1] ELSE sel[c]
  BY <1>1, <1>4
<1>10. ASSUME Watched(c)' PROVE Recorded(c)'
  <2>1. Recorded(c) /\ strayed[c] = "no"
    BY <1>7, <1>10 DEF RecordInv, Watched
  <2>2. ret = "run"
    BY <1>2, <2>1, ConnectionIs
  <2>3. CASE call.m \in Selects
    <3>1. Selecting(rq, rp, db[c], sel[c], call.arg)
      BY <2>1, <2>2, <2>3 DEF Recorded
    <3> HIDE DEF rq, rp
    <3>2. rp = <<>> /\ db[c] = sel[c] /\ Len(rq) = 1 /\ q.verb = "SELECT" /\ q.keys[1] = call.arg
      BY <1>2, <3>1 DEF Selecting
    <3>3. Tail(rq) = <<>>
      BY <1>1, <1>2, <3>2, TailIs
    <3>4. Append(rp, r) = <<r>> /\ Len(<<r>>) = 1 /\ <<r>>[1] = r
      BY <3>2
    <3>5. a \in Answers("SELECT", q.keys)
      BY <1>4, <3>2
    <3>6. (a.reply = Err(0) /\ ~a.done) \/ (a.reply = Status(OK) /\ a.done)
      BY <3>5, SelectAnswers
    <3>7. req'[c] = <<>> /\ Len(rep'[c]) = 1 /\ rep'[c][1].reply = a.reply
      BY <1>5, <1>6, <1>8, <3>3, <3>4
    <3>8. Selecting(req'[c], rep'[c], db'[c], sel'[c], call'.arg)
      BY <1>7, <1>9, <3>2, <3>6, <3>7 DEF Selecting
    <3>9. QED
      BY <1>7, <2>2, <2>3, <3>8 DEF Recorded
  <2>4. CASE call.m \notin Selects
    <3>1. q \in Range(rq)
      BY <1>1, <1>2, TailIs
    <3>2. q.verb # "SELECT"
      BY <2>1, <2>2, <2>4, <3>1 DEF Recorded
    <3>3. sel'[c] = sel[c]
      BY <1>9, <3>2
    <3>4. QED
      BY <1>2, <1>6, <1>7, <2>1, <2>2, <2>4, <3>3, OtherServed
  <2>5. QED
    BY <2>3, <2>4
<1>11. QED
  BY <1>5, <1>6, <1>7, <1>9, <1>10, ServerRecorded

LEMMA QueuedRecorded ==
  ASSUME ClientInv, ClientInv', RecordInv, NEW c \in Socks, Enqueue(c) \/ Exec(c)
  PROVE  RecordInv'
<1>1. DOMAIN req = Socks /\ DOMAIN rep = Socks /\ IsSeq(req[c])
  BY ConnectionIs
<1>2. up[c] /\ req[c] # <<>> /\ Head(req[c]) = req[c][1]
  BY <1>1, TailIs DEF Enqueue, Exec
<1>3. req'[c] = Tail(req[c]) /\ \A d \in Socks : d # c => req'[d] = req[d]
  BY <1>1 DEF Enqueue, Exec
<1>4. UNCHANGED <<up, sel, db, call, steps, ret, strayed, stale>>
  BY DEF Enqueue, Exec
<1>5. \A d \in Socks : d # c => rep'[d] = rep[d]
  BY <1>1 DEF Enqueue, Exec, Reply
<1>6. ASSUME Watched(c)' PROVE Recorded(c)'
  <2>1. Recorded(c) /\ strayed[c] = "no"
    BY <1>4, <1>6 DEF RecordInv, Watched
  <2>2. ret = "run" /\ Line(steps, ncalls - 1, c, rep[c], req[c], multi[c], up[c])
    BY <1>2, <2>1, ConnectionIs
  <2>3. multi[c].on => req[c][Len(req[c])].verb = "EXEC"
    BY <1>2, <2>2 DEF Line, Matched
  <2>4. multi[c].on \/ req[c][1].verb = "EXEC"
    BY <1>2 DEF Enqueue, Exec
  <2>5. call.m \notin Selects
    <3>1. ASSUME call.m \in Selects PROVE FALSE
      <4>1. Selecting(req[c], rep[c], db[c], sel[c], call.arg)
        BY <2>1, <2>2, <3>1 DEF Recorded
      <4>2. Len(req[c]) = 1 /\ req[c][1].verb = "SELECT"
        BY <1>2, <4>1 DEF Selecting
      <4>3. QED
        BY <2>3, <2>4, <4>2
    <3>2. QED
      BY <3>1
  <2>6. QED
    BY <1>2, <1>3, <1>4, <2>1, <2>2, <2>5, OtherServed
<1>7. QED
  BY <1>3, <1>4, <1>5, <1>6, ServerRecorded

LEMMA BeginRecorded ==
  ASSUME ClientInv, ClientInv', RecordInv, Begin
  PROVE  RecordInv'
<1>1. PICK m \in load.first \cup load.later, ks \in load.keys, d \in load.dbs : \E copy : Start(m, ks, d, copy)
  BY DEF Begin
<1>2. load \in Loads
  BY DEF ClientInv, CallInv
<1>3. m \in Methods /\ Keys(ks) /\ d \in Nat
  BY <1>1, <1>2, ClientAssumption DEF Keys
<1>4. /\ ret # "run" /\ call'.m = m /\ call'.arg = d
      /\ ret' # "run" \/ steps' = Plan(m, ks, d)
      /\ UNCHANGED <<req, rep, up, sel, db, strayed, stale>>
  BY <1>1 DEF Start
<1>5. StepsInv'
  <2>1. ASSUME m \in Selects PROVE \A s \in Range(Plan(m, ks, d)) : SelectStep(s, d)
    BY <1>3, <2>1, SelectPlan DEF SelectPlans
  <2>2. ASSUME m \notin Selects PROVE \A s \in Range(Plan(m, ks, d)) : OtherStep(s)
    BY <1>3, <2>2, OtherPlan
  <2>3. QED
    BY <1>4, <2>1, <2>2 DEF StepsInv
<1>6. ASSUME NEW k \in Socks, Watched(k)' PROVE Recorded(k)'
  <2>1. Recorded(k) /\ strayed[k] = "no"
    BY <1>4, <1>6 DEF RecordInv, Watched
  <2>2. db[k] = sel[k] /\ rep[k] = <<>> /\ req[k] = <<>>
    BY <1>4, <2>1 DEF Recorded, ClientInv, ConInv, Quiet
  <2>3. Range(req[k]) = {}
    BY <2>2, EmptyIs
  <2>4. Selecting(req'[k], rep'[k], db'[k], sel'[k], call'.arg)
    BY <1>4, <2>2 DEF Selecting
  <2>5. QED
    BY <1>4, <2>2, <2>3, <2>4 DEF Recorded
<1>7. QED
  BY <1>5, <1>6 DEF RecordInv, Watched

LEMMA InitRecorded ==
  ASSUME Init
  PROVE  RecordInv
BY DEF Init, RecordInv, StepsInv, Recorded

LEMMA NextRecorded ==
  ASSUME ClientInv, ClientInv', RecordInv, [Next]_vars
  PROVE  RecordInv'
<1>1. CASE Begin
  BY <1>1, BeginRecorded
<1>2. CASE Send
  BY <1>2, SendRecorded
<1>3. CASE Recv
  BY <1>3, RecvRecorded
<1>4. CASE RecvClosed
  BY <1>4, RecvClosedRecorded
<1>5. ASSUME NEW c \in Socks, Serve(c) PROVE RecordInv'
  BY <1>5, ServeRecorded
<1>6. ASSUME NEW c \in Socks, Enqueue(c) \/ Exec(c) PROVE RecordInv'
  BY <1>6, QueuedRecorded
<1>7. ASSUME NEW c \in Socks, Break(c) PROVE RecordInv'
  BY <1>7, BreakRecorded
<1>8. CASE UNCHANGED vars
  BY <1>8 DEF vars, RecordInv, StepsInv, Recorded
<1>9. QED
  BY <1>1, <1>2, <1>3, <1>4, <1>5, <1>6, <1>7, <1>8 DEF Next, Client, Servers, Shutdown

(* The number select() records for a connection is the database its server has     *)
(* selected, whichever calls came between, unless a select() threw or was given    *)
(* data out of date: clone(), which selects the recorded number, gets the same one. *)
THEOREM RecordedHolds == Spec => []RecordedDatabase
<1>1. Init => RecordInv
  BY InitRecorded
<1>2. ClientInv /\ ClientInv' /\ RecordInv /\ [Next]_vars => RecordInv'
  BY NextRecorded
<1>3. RecordInv => RecordedDatabase
  BY DEF RecordInv, Recorded, RecordedDatabase, Idle
<1>4. QED
  BY <1>1, <1>2, <1>3, ClientHolds, PTL DEF Spec

-----------------------------------------------------------------------------
(* What a call tells.  On a connection an earlier call left out of step, and from  *)
(* which no foreign reply was read since, the first thing pending belongs to that  *)
(* call, unless the connection is gone; n is the number of the current call.        *)
Old(rp, rq, u, n) ==
  \/ rp # <<>> /\ rp[1].id[1] \in Int /\ rp[1].id[1] < n
  \/ rp = <<>> /\ rq # <<>> /\ rq[1].id[1] \in Int /\ rq[1].id[1] < n
  \/ rp = <<>> /\ ~u

Current == IF ret = "run" THEN ncalls - 1 ELSE ncalls

StrayInv == \A c \in Socks : strayed[c] # "no" /\ ~odd[c] => Old(rep[c], req[c], up[c], Current)

(* The steps, commands and replies of a call that sends one command.                *)
SingleStep(s, m, a) ==
  /\ s.op = "recv" => s.reader = Single[m][2]
  /\ s.op = "send" => Len(s.cmds) = 1 /\ s.cmds[1].verb = Single[m][1] /\ s.cmds[1].keys = a

Short(p) == Len(p) = 1 \/ (Len(p) = 2 /\ p[1].op = "send")

AnswerOf(r, m, a) == \E x \in Answers(Single[m][1], a) : r.reply = x.reply /\ r.done = x.done

Asking(rq, rp, m, a) ==
  /\ \A q \in Range(rq) : q.verb = Single[m][1] /\ q.keys = a
  /\ \A r \in Range(rp) : AnswerOf(r, m, a)

SingleInv(a) ==
  /\ Short(steps) /\ \A s \in Range(steps) : SingleStep(s, call.m, a)
  /\ call.keys[1] \in Nat /\ call.keys[1] > 0
  /\ (\A c \in Socks : ~odd[c]) => truth
  /\ \A c \in Socks : strayed[c] = "no" => Asking(req[c], rep[c], call.m, a)

TruthInv ==
  /\ TellsTruth /\ StrayInv
  /\ ret = "run" /\ call.m \in DOMAIN Single => SingleInv(Args(call.m, call.keys, call.arg))

LEMMA SeveralAre ==
  ASSUME NEW m \in DOMAIN Single
  PROVE  m \notin DOMAIN FanOut /\ m \notin DOMAIN OneByOne /\ m \notin DOMAIN PerServer
           /\ m \notin {"mset", "msetex", "exec", "exec_transaction", "sadd_range"}
<1>1. m \notin Several
  BY SingleRows DEF OwnRow
<1>2. DOMAIN FanOut \subseteq Several
  BY DEF FanOut, Several
<1>3. DOMAIN OneByOne \subseteq Several
  BY DEF OneByOne, Several
<1>4. DOMAIN PerServer \subseteq Several
  BY DEF PerServer, Several
<1>5. {"mset", "msetex", "exec", "exec_transaction", "sadd_range"} \subseteq Several
  BY DEF Several
<1>6. QED
  BY <1>1, <1>2, <1>3, <1>4, <1>5

(* The answers, and what the receive functions say of them.                          *)
LEMMA DoneOrRefused ==
  \A r : Done(r).reply = r /\ Done(r).done /\ Refused(r).reply = r /\ ~Refused(r).done
BY DEF Done, Refused

LEMMA LightAnswers ==
  ASSUME NEW v, NEW ks, NEW a \in Answers(v, ks)
  PROVE  /\ v \in OkVerbs \cup {"SHUTDOWN"} => a \in {Refused(Err(0)), Done(Status(OK))}
         /\ v \in {"TYPE", "BGSAVE"} => a \in {Refused(Err(0)), Done(Status(WORD)), Done(Status(STARTED))}
         /\ v \in TestVerbs => a \in {Refused(Err(0)), Done(Num(1)), Refused(Num(0))}
         /\ v \in CountVerbs => a \in {Refused(Err(0)), Done(Num(0)), Done(Num(1)), Done(Num(2))}
         /\ v \in {"ZRANK", "ZREVRANK"} => a \in {Refused(Err(0)), Done(Num(0)), Refused(Nil)}
         /\ v \in Texts \ {"INFO"} => a \in {Refused(Err(0)), Done(Bulk(ks[1])), Refused(Nil)}
<1>1. CASE v \in OkVerbs \cup {"SHUTDOWN"}
  BY <1>1 DEF Answers, OkVerbs, TestVerbs, CountVerbs, TextVerbs, ListVerbs, Texts
<1>2. CASE v \in {"TYPE", "BGSAVE"}
  BY <1>2 DEF Answers, OkVerbs, TestVerbs, CountVerbs, TextVerbs, ListVerbs, Texts
<1>3. CASE v \in TestVerbs
  BY <1>3 DEF Answers, OkVerbs, TestVerbs, CountVerbs, TextVerbs, ListVerbs, Texts
<1>4. CASE v \in CountVerbs
  BY <1>4 DEF Answers, OkVerbs, TestVerbs, CountVerbs, TextVerbs, ListVerbs, Texts
<1>5. CASE v \in {"ZRANK", "ZREVRANK"}
  BY <1>5 DEF Answers, OkVerbs, TestVerbs, CountVerbs, TextVerbs, ListVerbs, Texts
<1>6. CASE v \in Texts \ {"INFO"}
  <2>1. CASE v \in TextVerbs
    BY <2>1 DEF Answers, OkVerbs, TestVerbs, CountVerbs, TextVerbs, ListVerbs, Texts
  <2>2. CASE v = "ZINCRBY"
    BY <2>2 DEF Answers, OkVerbs, TestVerbs, CountVerbs, TextVerbs, ListVerbs, Texts
  <2>3. QED
    BY <1>6, <2>1, <2>2 DEF Texts
<1>7. QED
  BY <1>1, <1>2, <1>3, <1>4, <1>5, <1>6

LEMMA ListAnswers ==
  ASSUME NEW v \in Lists, NEW ks, NEW a \in Answers(v, ks), a.done
  PROVE  a.reply.t = "*" /\ \A k \in DOMAIN a.reply.e : IsBulk(a.reply.e[k])
<1>1. \A n : IsBulk(Bulk(n))
  BY DEF Bulk, IsBulk
<1>2. IsBulk(Nil)
  BY DEF Nil, IsBulk
<1>3. \A e : Done(Multi(e)).reply.t = "*" /\ Done(Multi(e)).reply.e = e
  BY DEF Done, Multi
<1>4. \A r : a # Refused(r)
  BY DEF Refused
<1>5. CASE v \in ListVerbs
  <2>1. a \in {Done(Multi(<<>>)), Done(Multi(<<Bulk(1), Bulk(2)>>))}
    BY <1>4, <1>5 DEF Answers, ListVerbs, OkVerbs, TestVerbs, CountVerbs, TextVerbs
  <2>2. \A k \in DOMAIN <<Bulk(1), Bulk(2)>> : IsBulk(<<Bulk(1), Bulk(2)>>[k])
    BY <1>1
  <2>3. QED
    BY <1>3, <2>1, <2>2
<1>6. CASE v \in {"BLPOP", "BRPOP"}
  <2>1. a = Done(Multi(<<Bulk(ks[1]), Bulk(2)>>))
    BY <1>4, <1>6 DEF Answers, ListVerbs, OkVerbs, TestVerbs, CountVerbs, TextVerbs
  <2>2. \A k \in DOMAIN <<Bulk(ks[1]), Bulk(2)>> : IsBulk(<<Bulk(ks[1]), Bulk(2)>>[k])
    BY <1>1
  <2>3. QED
    BY <1>3, <2>1, <2>2
<1>7. CASE v = "MGET"
  <2>1. PICK h \in SUBSET DOMAIN ks : a = Done(Multi([k \in DOMAIN ks |-> IF k \in h THEN Bulk(ks[k]) ELSE Nil]))
    BY <1>4, <1>7 DEF Answers, ListVerbs, OkVerbs, TestVerbs, CountVerbs, TextVerbs
  <2>2. PICK e : e = [k \in DOMAIN ks |-> IF k \in h THEN Bulk(ks[k]) ELSE Nil]
    OBVIOUS
  <2>3. \A k \in DOMAIN e : IsBulk(e[k])
    BY <1>1, <1>2, <2>2
  <2>4. QED
    BY <1>3, <2>1, <2>2, <2>3
<1>8. QED
  BY <1>5, <1>6, <1>7 DEF Lists

LEMMA AnswerTells ==
  ASSUME call.m \in DOMAIN Single, NEW s, s.reader = Single[call.m][2], NEW ks,
         Single[call.m][1] \in Texts => ks[1] \in Nat /\ ks[1] > 0,
         NEW a \in Answers(Single[call.m][1], ks)
  PROVE  /\ a.done /\ call.m \notin Distrustful => Takes(s, a.reply)
         /\ s.reader \in {"ok", "intok"} /\ Takes(s, a.reply) => a.done
<1>1. PICK m, v, f, r : m = call.m /\ v = Single[m][1] /\ f = Single[m][2] /\ r = a.reply
  OBVIOUS
<1>2. OwnRow(m, Single[m])
  BY <1>1, SingleRows
<1>3. /\ Suits(v, f) /\ f \notin {"queued", "head"} /\ (v = "MSETNX" => m = "msetnx") /\ (v = "ZADD" => m = "zadd")
      /\ (v = "INFO" => m = "info") /\ (m \in {"zscore", "zincrby"} => f = "bulk") /\ m # "bgsave"
  BY <1>1, <1>2 DEF OwnRow, Row, Entry, Several
<1>4. Takes(s, r) <=> (Accepts(f, r) \/ Catches(m, r)) /\ Converts(m, Outcome(f, r))
  BY <1>1, <1>3 DEF Takes
<1>5. ASSUME Accepts(f, r), m \notin Distrustful, f # "bulk" PROVE Takes(s, r)
  <2>1. Converts(m, Outcome(f, r))
    BY <1>3, <1>5 DEF Converts, Distrustful
  <2>2. QED
    BY <1>4, <1>5, <2>1
<1>6. ASSUME Takes(s, r), ~Accepts(f, r) PROVE r.t = "nomulti"
  BY <1>4, <1>6 DEF Catches
<1>7. /\ a.reply = r /\ a \in Answers(v, ks) /\ s.reader = f
      /\ v \in Texts => ks[1] \in Nat /\ ks[1] > 0
  BY <1>1
<1>8. \A x : (a = Done(x) => r = x /\ a.done) /\ (a = Refused(x) => r = x /\ ~a.done)
  BY <1>7, DoneOrRefused
<1>9. CASE f = "ok"
  <2>1. CASE v \in OkVerbs \cup {"SHUTDOWN"}
    <3>1. a \in {Refused(Err(0)), Done(Status(OK))}
      BY <1>7, <2>1, LightAnswers
    <3>2. CASE a = Refused(Err(0))
      <4>1. r = Err(0) /\ ~a.done
        BY <1>8, <3>2
      <4>2. ~Accepts(f, r) /\ r.t # "nomulti"
        BY <1>9, <4>1 DEF Err, Accepts
      <4>3. QED
        BY <1>1, <1>6, <4>1, <4>2
    <3>3. CASE a = Done(Status(OK))
      <4>1. r = Status(OK) /\ a.done
        BY <1>8, <3>3
      <4>2. Accepts(f, r)
        BY <1>9, <4>1 DEF Status, Accepts
      <4>3. QED
        BY <1>1, <1>5, <1>9, <4>1, <4>2
    <3>4. QED
      BY <3>1, <3>2, <3>3
  <2>2. CASE v = "MSETNX"
    <3>1. v \in TestVerbs /\ m \in Distrustful
      BY <1>3, <2>2 DEF TestVerbs, Distrustful
    <3>2. a \in {Refused(Err(0)), Done(Num(1)), Refused(Num(0))}
      BY <1>7, <3>1, LightAnswers
    <3>3. r \in {Err(0), Num(1), Num(0)}
      BY <1>8, <3>2
    <3>4. ~Accepts(f, r) /\ r.t # "nomulti"
      BY <1>9, <3>3 DEF Err, Num, Accepts
    <3>5. QED
      BY <1>1, <1>6, <3>1, <3>4
  <2>3. QED
    BY <1>3, <1>9, <2>1, <2>2 DEF Suits
<1>10. CASE f = "intok"
  <2>1. CASE v \in TestVerbs
    <3>1. a \in {Refused(Err(0)), Done(Num(1)), Refused(Num(0))}
      BY <1>7, <2>1, LightAnswers
    <3>2. CASE a \in {Refused(Err(0)), Refused(Num(0))}
      <4>1. r \in {Err(0), Num(0)} /\ ~a.done
        BY <1>8, <3>2
      <4>2. ~Accepts(f, r) /\ r.t # "nomulti"
        BY <1>10, <4>1 DEF Err, Num, Accepts
      <4>3. QED
        BY <1>1, <1>6, <4>1, <4>2
    <3>3. CASE a = Done(Num(1))
      <4>1. r = Num(1) /\ a.done
        BY <1>8, <3>3
      <4>2. Accepts(f, r)
        BY <1>10, <4>1 DEF Num, Accepts
      <4>3. QED
        BY <1>1, <1>5, <1>10, <4>1, <4>2
    <3>4. QED
      BY <3>1, <3>2, <3>3
  <2>2. CASE v = "ZADD"
    <3>1. v \in CountVerbs /\ m \in Distrustful
      BY <1>3, <2>2 DEF CountVerbs, Distrustful
    <3>2. a \in {Refused(Err(0)), Done(Num(0)), Done(Num(1)), Done(Num(2))}
      BY <1>7, <3>1, LightAnswers
    <3>3. a.done \/ r = Err(0)
      BY <1>8, <3>2
    <3>4. r = Err(0) => ~Accepts(f, r) /\ r.t # "nomulti"
      BY <1>10 DEF Err, Accepts
    <3>5. QED
      BY <1>1, <1>6, <3>1, <3>3, <3>4
  <2>3. QED
    BY <1>3, <1>10, <2>1, <2>2 DEF Suits
<1>11. CASE f = "int"
  <2>1. v \in TestVerbs \cup CountVerbs \cup {"ZRANK", "ZREVRANK"}
    BY <1>3, <1>11 DEF Suits
  <2>2. a \in {Refused(Err(0)), Refused(Num(0)), Refused(Nil), Done(Num(0)), Done(Num(1)), Done(Num(2))}
    BY <1>7, <2>1, LightAnswers
  <2>3. ~a.done \/ r \in {Num(0), Num(1), Num(2)}
    BY <1>8, <2>2
  <2>4. r \in {Num(0), Num(1), Num(2)} => Accepts(f, r)
    BY <1>11 DEF Num, Accepts
  <2>5. QED
    BY <1>1, <1>5, <1>11, <2>3, <2>4
<1>12. CASE f = "single"
  <2>1. v \in {"TYPE", "BGSAVE"}
    BY <1>3, <1>12 DEF Suits
  <2>2. a \in {Refused(Err(0)), Done(Status(WORD)), Done(Status(STARTED))}
    BY <1>7, <2>1, LightAnswers
  <2>3. ~a.done \/ r \in {Status(WORD), Status(STARTED)}
    BY <1>8, <2>2
  <2>4. r \in {Status(WORD), Status(STARTED)} => Accepts(f, r)
    BY <1>12 DEF Status, Accepts
  <2>5. QED
    BY <1>1, <1>5, <1>12, <2>3, <2>4
<1>13. CASE f = "generic"
  <2>1. v \in {"GET", "WATCH"}
    BY <1>3, <1>13 DEF Suits
  <2>2. v \in Texts \ {"INFO"} \/ v \in OkVerbs
    BY <2>1 DEF Texts, TextVerbs, OkVerbs
  <2>3. a \in {Refused(Err(0)), Refused(Nil), Done(Status(OK)), Done(Bulk(ks[1]))}
    BY <1>7, <2>2, LightAnswers
  <2>4. ~a.done \/ r \in {Status(OK), Bulk(ks[1])}
    BY <1>8, <2>3
  <2>5. r \in {Status(OK), Bulk(ks[1])} => Accepts(f, r)
    BY <1>13 DEF Status, Bulk, Accepts
  <2>6. QED
    BY <1>1, <1>5, <1>13, <2>4, <2>5
<1>14. CASE f = "multi"
  <2>1. v \in Lists
    BY <1>3, <1>14 DEF Suits
  <2>2. a.done => Accepts(f, r)
    BY <1>7, <1>14, <2>1, ListAnswers DEF Accepts
  <2>3. QED
    BY <1>1, <1>5, <1>14, <2>2
<1>15. CASE f = "bulk"
  <2>1. v \in Texts
    BY <1>3, <1>15 DEF Suits
  <2>2. v # "INFO" => a \in {Refused(Err(0)), Done(Bulk(ks[1])), Refused(Nil)}
    BY <1>7, <2>1, LightAnswers
  <2>3. PICK x : x = ks[1]
    OBVIOUS
  <2>4. v = "INFO" \/ ~a.done \/ r = Bulk(x)
    BY <1>8, <2>2, <2>3
  <2>5. ASSUME r = Bulk(x), m \notin Distrustful PROVE Takes(s, r)
    <3>1. r.t = "$" /\ r.v = x
      BY <2>5 DEF Bulk
    <3>2. IsBulk(r) /\ r.t # "*"
      BY <3>1 DEF IsBulk
    <3>3. Accepts(f, r)
      BY <1>15, <3>2 DEF Accepts
    <3>4. Outcome(f, r).data = <<x>>
      BY <3>1, <3>2, <3>3 DEF Outcome
    <3>5. x # 0
      BY <1>7, <2>1, <2>3
    <3>6. <<x>> # << 0 >>
      BY <3>5
    <3>7. Converts(m, Outcome(f, r))
      BY <1>3, <2>5, <3>4, <3>6 DEF Converts, IsScore, Distrustful, missing_value
    <3>8. QED
      BY <1>4, <3>3, <3>7
  <2>6. v = "INFO" => m \in Distrustful
    BY <1>3 DEF Distrustful
  <2>7. QED
    BY <1>1, <1>15, <2>4, <2>5, <2>6
<1>16. QED
  BY <1>3, <1>9, <1>10, <1>11, <1>12, <1>13, <1>14, <1>15 DEF Suits

LEMMA SinglePlanIs ==
  ASSUME NEW m \in DOMAIN Single, NEW ks, NEW d
  PROVE  /\ Short(Plan(m, ks, d))
         /\ \A s \in Range(Plan(m, ks, d)) : SingleStep(s, m, Args(m, ks, d))
<1>1. /\ m \notin DOMAIN FanOut /\ m \notin DOMAIN OneByOne /\ m \notin DOMAIN PerServer
      /\ m \notin {"mset", "msetex", "exec", "exec_transaction", "sadd_range"}
  BY SeveralAre
<1>2. PICK c, a, v, f, at : /\ c = IF m \in Together \cup Elsewhere THEN get_socket(ks) ELSE Home[ks[1]]
                            /\ a = Args(m, ks, d) /\ v = Single[m][1] /\ f = Single[m][2] /\ at = <<>>
  OBVIOUS
<1>3. Plan(m, ks, d) = <<send(c, <<Cmd(v, a, c, 1)>>), recv(c, f, 1, at)>>
  BY <1>1, <1>2 DEF Plan
<1>4. PICK q, qs, x, y : q = Cmd(v, a, c, 1) /\ qs = <<q>> /\ x = send(c, qs) /\ y = recv(c, f, 1, at)
  OBVIOUS
<1>5. q.verb = v /\ q.keys = a
  BY <1>4, CmdIs
<1>6. Len(qs) = 1 /\ qs[1] = q
  BY <1>4
<1>7. x.op = "send" /\ x.cmds = qs
  BY <1>4, SendIs
<1>8. y.op = "recv" /\ y.reader = f
  BY <1>4, RecvIs
<1>9. SingleStep(x, m, a) /\ SingleStep(y, m, a)
  BY <1>2, <1>5, <1>6, <1>7, <1>8 DEF SingleStep
<1>10. PICK p : p = <<x, y>>
  OBVIOUS
<1>11. Len(p) = 2 /\ p[1] = x
  BY <1>10
<1>12. Range(p) = {x, y}
  BY <1>10, PairIs
<1>13. Plan(m, ks, d) = p
  BY <1>3, <1>4, <1>10
<1>14. QED
  BY <1>2, <1>7, <1>9, <1>11, <1>12, <1>13 DEF Short

(* Connections out of step.                                                          *)
LEMMA LineIds ==
  ASSUME NEW p, NEW g, NEW c, NEW rp, NEW rq, NEW mu, NEW u, Line(p, g, c, rp, rq, mu, u)
  PROVE  /\ \A j \in DOMAIN rp : rp[j].id[1] = g
         /\ \A j \in DOMAIN rq : rq[j].id[1] = g
<1>1. PICK b \in Nat : Matched(p, g, c, b, rp, rq, mu, u)
  BY DEF Line
<1>2. \A n : <<g, c, n>>[1] = g
  OBVIOUS
<1>3. QED
  BY <1>1, <1>2 DEF Matched, Reads, Awaited

LEMMA NCallsIs ==
  ASSUME ClientInv
  PROVE  ncalls \in Int /\ Current \in Int
<1>1. load.calls \in Nat /\ ncalls \in 0 .. load.calls
  BY ClientAssumption DEF ClientInv, TypeOK, CallInv
<1>2. ncalls \in Int
  BY <1>1
<1>3. QED
  BY <1>2 DEF Current

LEMMA Older ==
  ASSUME NEW rp, NEW rq, NEW u, NEW w, NEW n \in Int, NEW k \in Int, n <= k, w => u, Old(rp, rq, u, n)
  PROVE  Old(rp, rq, w, k)
BY DEF Old

LEMMA StrayFinish ==
  ASSUME ClientInv, StrayInv, ret = "run", NEW how \in {"ok", "throw", "closed"}, NEW left, Finish(how, left),
         how # "ok" => \A k \in Socks : left[k] = rep'[k] \o req'[k],
         UNCHANGED <<req, up, ncalls>>,
         \A k \in Socks : \/ rep'[k] = rep[k]
                          \/ rep[k] # <<>> /\ rep'[k] = Tail(rep[k]) /\ (strayed[k] # "no" => odd'[k]),
         \A k \in Socks : odd[k] => odd'[k]
  PROVE  StrayInv'
<1>1. /\ Current = ncalls - 1 /\ Current' = ncalls /\ ncalls \in Int
      /\ \A k \in Socks : strayed'[k] = IF how # "ok" /\ left[k] # <<>> /\ strayed[k] = "no" THEN call.m ELSE strayed[k]
  BY NCallsIs DEF Current, Finish
<1> SUFFICES ASSUME NEW k \in Socks, strayed'[k] # "no", ~odd'[k] PROVE Old(rep'[k], req'[k], up'[k], Current')
  BY DEF StrayInv
<1>2. CASE strayed[k] # "no"
  <2>1. rep'[k] = rep[k] /\ req'[k] = req[k] /\ up'[k] = up[k]
    BY <1>2
  <2>2. Old(rep[k], req[k], up[k], ncalls - 1)
    BY <1>1, <1>2 DEF StrayInv
  <2>3. Old(rep[k], req[k], up[k], ncalls)
    BY <1>1, <2>2, Older
  <2>4. QED
    BY <1>1, <2>1, <2>3
<1>3. CASE strayed[k] = "no"
  <2>1. how # "ok" /\ left[k] # <<>>
    BY <1>1, <1>3
  <2>2. rep'[k] \o req'[k] # <<>> /\ req'[k] = req[k]
    BY <2>1
  <2>3. rep'[k] # <<>> \/ req[k] # <<>>
    BY <2>2
  <2>4. IsSeq(rep[k]) /\ IsSeq(req[k]) /\ Line(steps, ncalls - 1, k, rep[k], req[k], multi[k], up[k])
    BY <1>3, RunIs
  <2>5. /\ \A j \in DOMAIN rep[k] : rep[k][j].id[1] = ncalls - 1
        /\ \A j \in DOMAIN req[k] : req[k][j].id[1] = ncalls - 1
    BY <2>4, LineIds
  <2>6. ncalls - 1 \in Int /\ ncalls - 1 < ncalls
    BY <1>1
  <2>7. ASSUME rep'[k] # <<>> PROVE rep'[k][1].id[1] = ncalls - 1
    <3>1. CASE rep'[k] = rep[k]
      <4>1. 1 \in DOMAIN rep[k]
        BY <2>4, <2>7, <3>1, TailIs
      <4>2. QED
        BY <2>5, <3>1, <4>1
    <3>2. CASE rep[k] # <<>> /\ rep'[k] = Tail(rep[k])
      <4>1. Len(rep[k]) # 1 /\ Len(rep[k]) \in Nat /\ Len(rep[k]) > 0 /\ DOMAIN rep[k] = 1 .. Len(rep[k])
        BY <2>4, <2>7, <3>2, TailIs
      <4>2. 1 \in 1 .. Len(rep[k]) - 1 /\ 2 \in DOMAIN rep[k] /\ 1 + 1 = 2
        <5>1. PICK n : n = Len(rep[k])
          OBVIOUS
        <5>2. n \in Nat /\ n > 0 /\ n # 1 /\ DOMAIN rep[k] = 1 .. n
          BY <4>1, <5>1
        <5>3. 1 \in 1 .. n - 1 /\ 2 \in 1 .. n /\ 1 + 1 = 2
          BY <5>2
        <5>4. QED
          BY <5>1, <5>2, <5>3
      <4>3. Tail(rep[k])[1] = rep[k][2]
        BY <2>4, <3>2, <4>2, TailIs
      <4>4. QED
        BY <2>5, <3>2, <4>2, <4>3
    <3>3. QED
      BY <3>1, <3>2
  <2>8. ASSUME req[k] # <<>> PROVE req[k][1].id[1] = ncalls - 1
    <3>1. 1 \in DOMAIN req[k]
      BY <2>4, <2>8, TailIs
    <3>2. QED
      BY <2>5, <3>1
  <2>9. QED
    BY <1>1, <2>2, <2>3, <2>6, <2>7, <2>8 DEF Old
<1>4. QED
  BY <1>2, <1>3

LEMMA StrayGoesOn ==
  ASSUME ClientInv, StrayInv, UNCHANGED <<ret, strayed, ncalls, up>>,
         \A k \in Socks : odd[k] => odd'[k],
         \A k \in Socks : strayed[k] # "no" /\ ~odd'[k] /\ Old(rep[k], req[k], up[k], Current) =>
           Old(rep'[k], req'[k], up[k], Current)
  PROVE  StrayInv'
<1>1. Current' = Current
  BY DEF Current
<1>2. QED
  BY <1>1 DEF StrayInv

LEMMA OldSent ==
  ASSUME NEW rp, NEW rq, IsSeq(rq), NEW qs, IsSeq(qs), NEW u, u, NEW n, Old(rp, rq, u, n)
  PROVE  Old(rp, rq \o qs, u, n)
<1>1. CASE rp # <<>>
  BY <1>1 DEF Old
<1>2. CASE rp = <<>>
  <2>1. rq # <<>> /\ rq[1].id[1] \in Int /\ rq[1].id[1] < n
    BY <1>2 DEF Old
  <2>2. Len(rq) \in Nat /\ Len(rq) > 0 /\ Len(qs) \in Nat
    BY <2>1, TailIs, SeqIs DEF IsSeq
  <2>3. 1 \in 1 .. Len(rq) + Len(qs) /\ 1 <= Len(rq)
    BY <2>2
  <2>4. (rq \o qs)[1] = rq[1]
    BY <2>3, JoinIs
  <2>5. DOMAIN (rq \o qs) # {}
    BY <2>3, JoinIs
  <2>6. rq \o qs # <<>>
    BY <2>5, EmptyIs
  <2>7. QED
    BY <1>2, <2>1, <2>4, <2>6 DEF Old
<1>3. QED
  BY <1>1, <1>2

LEMMA SendStray ==
  ASSUME ClientInv, StrayInv, Send
  PROVE  StrayInv'
<1>1. ret = "run" /\ Head(steps).op = "send"
  BY DEF Send
<1> DEFINE s == steps[1]
           c == s.con
<1>2. Head(steps) = s /\ s \in Range(steps)
  BY <1>1, RunIs
<1>3. /\ UNCHANGED <<rep, up, ncalls, odd>>
      /\ \/ /\ c \in Socks
            /\ req' = IF up[c] THEN [req EXCEPT ![c] = @ \o s.cmds] ELSE req
            /\ UNCHANGED <<ret, strayed>>
         \/ /\ Finish("closed", [k \in Socks |-> Pending(k)])
            /\ UNCHANGED req
  BY <1>2 DEF Send
<1>4. s.op = "send"
  BY <1>1, <1>2
<1> HIDE DEF s, c
<1>5. CASE /\ c \in Socks
           /\ req' = IF up[c] THEN [req EXCEPT ![c] = @ \o s.cmds] ELSE req
           /\ UNCHANGED <<ret, strayed>>
  <2>1. \A k \in Socks : req'[k] = IF k = c /\ up[k] THEN req[k] \o s.cmds ELSE req[k]
    BY <1>5 DEF ClientInv, ServerInv
  <2>2. StepOK(steps, ncalls - 1, load.dbs, s)
    <3>1. s.con \in Socks
      BY <1>5 DEF c
    <3>2. QED
      BY <1>1, <3>1, RunIs, NotNowhere DEF s
  <2>3. IsSeq(s.cmds)
    BY <1>4, <2>2 DEF StepOK, Sends, Commands
  <2>4. ASSUME NEW k \in Socks, Old(rep[k], req[k], up[k], Current)
        PROVE  Old(rep'[k], req'[k], up[k], Current)
    <3>1. IsSeq(req[k]) /\ rep' = rep
      BY <1>1, <1>3, RunIs
    <3>2. up[k] => Old(rep[k], req[k] \o s.cmds, up[k], Current)
      BY <2>3, <2>4, <3>1, OldSent
    <3>3. QED
      BY <2>1, <2>4, <3>1, <3>2
  <2>5. QED
    BY <1>3, <1>5, <2>4, StrayGoesOn
<1>6. CASE /\ Finish("closed", [k \in Socks |-> Pending(k)])
           /\ UNCHANGED req
  <2>1. PICK left : left = [k \in Socks |-> Pending(k)]
    OBVIOUS
  <2>2. Finish("closed", left) /\ \A k \in Socks : left[k] = rep'[k] \o req'[k]
    BY <1>3, <1>6, <2>1 DEF Pending
  <2>3. QED
    BY <1>1, <1>3, <1>6, <2>2, StrayFinish
<1>7. QED
  BY <1>3, <1>5, <1>6

LEMMA RecvStray ==
  ASSUME ClientInv, StrayInv, Recv
  PROVE  StrayInv'
<1>1. ret = "run" /\ Head(steps).op = "recv"
  BY DEF Recv
<1> DEFINE s == steps[1]
           c == s.con
           h == rep[c][1]
           good == Takes(s, h.reply)
<1>2. IsSeq(steps) /\ steps # <<>> /\ Head(steps) = s /\ s \in Range(steps) /\ \A k \in Socks : IsSeq(rep[k])
  BY <1>1, RunIs
<1>3. s.op = "recv"
  BY <1>1, <1>2
<1> HIDE DEF s, c, h, good
<1>4. c \in Socks /\ \E n \in Nat : s.id = <<ncalls - 1, c, n>>
  BY <1>1, <1>3, RunIs, NotNowhere DEF s, c
<1>5. rep[c] # <<>>
  BY <1>2 DEF Recv, c
<1>6. Head(rep[c]) = h
  BY <1>2, <1>4, <1>5, TailIs DEF h
<1>7. /\ rep' = [rep EXCEPT ![c] = Tail(@)]
      /\ odd' = [odd EXCEPT ![c] = @ \/ h.id # s.id \/ Parts(s, h.reply)]
      /\ \/ Finish("throw", [k \in Socks |-> rep'[k] \o req[k]])
         \/ Finish("ok", rep')
         \/ UNCHANGED <<ret, strayed>>
      /\ UNCHANGED <<req, up, ncalls>>
  BY <1>2, <1>6 DEF Recv, server, c, good
<1>8. DOMAIN rep = Socks /\ DOMAIN odd = Socks
  BY DEF ClientInv, ServerInv, CallInv
<1>9. /\ rep'[c] = Tail(rep[c]) /\ \A k \in Socks : k # c => rep'[k] = rep[k] /\ odd'[k] = odd[k]
      /\ odd'[c] = (odd[c] \/ h.id # s.id \/ Parts(s, h.reply))
  BY <1>4, <1>7, <1>8
<1>10. ASSUME strayed[c] # "no" PROVE odd'[c]
  <2>1. CASE odd[c]
    BY <1>9, <2>1
  <2>2. CASE ~odd[c]
    <3>1. Old(rep[c], req[c], up[c], ncalls - 1)
      BY <1>1, <1>4, <1>10, <2>2 DEF StrayInv, Current
    <3>2. h.id[1] < ncalls - 1 /\ h.id[1] \in Int
      BY <1>5, <3>1 DEF Old, h
    <3>3. s.id[1] = ncalls - 1 /\ ncalls \in Int
      BY <1>4, NCallsIs
    <3>4. h.id[1] # s.id[1]
      BY <3>2, <3>3
    <3>5. h.id # s.id
      BY <3>4
    <3>6. QED
      BY <1>9, <3>5
  <2>3. QED
    BY <2>1, <2>2
<1>11. \A k \in Socks : odd[k] => odd'[k]
  BY <1>9
<1>12. \A k \in Socks : \/ rep'[k] = rep[k]
                        \/ rep[k] # <<>> /\ rep'[k] = Tail(rep[k]) /\ (strayed[k] # "no" => odd'[k])
  BY <1>5, <1>9, <1>10
<1>13. CASE Finish("throw", [k \in Socks |-> rep'[k] \o req[k]])
  <2>1. PICK left : left = [k \in Socks |-> rep'[k] \o req[k]]
    OBVIOUS
  <2>2. Finish("throw", left) /\ \A k \in Socks : left[k] = rep'[k] \o req'[k]
    BY <1>7, <1>13, <2>1
  <2>3. QED
    BY <1>1, <1>7, <1>11, <1>12, <2>2, StrayFinish
<1>14. CASE Finish("ok", rep')
  <2>1. PICK left : left = rep'
    OBVIOUS
  <2>2. Finish("ok", left)
    BY <1>14, <2>1
  <2>3. QED
    BY <1>1, <1>7, <1>11, <1>12, <2>2, StrayFinish
<1>15. CASE UNCHANGED <<ret, strayed>>
  <2>1. ASSUME NEW k \in Socks, strayed[k] # "no", ~odd'[k], Old(rep[k], req[k], up[k], Current)
        PROVE  Old(rep'[k], req'[k], up[k], Current)
    <3>1. rep'[k] = rep[k] /\ req'[k] = req[k]
      BY <1>7, <1>12, <2>1
    <3>2. QED
      BY <2>1, <3>1
  <2>2. QED
    BY <1>7, <1>11, <1>15, <2>1, StrayGoesOn
<1>16. QED
  BY <1>7, <1>13, <1>14, <1>15

LEMMA RecvClosedStray ==
  ASSUME ClientInv, StrayInv, RecvClosed
  PROVE  StrayInv'
<1>1. ret = "run"
  BY DEF RecvClosed
<1>2. /\ \/ Finish("ok", rep)
         \/ UNCHANGED <<ret, strayed>>
         \/ Finish("closed", [k \in Socks |-> Pending(k)])
      /\ UNCHANGED <<req, up, rep, ncalls, odd>>
  BY DEF RecvClosed, server
<1>3. CASE Finish("ok", rep)
  <2>1. PICK left : left = rep
    OBVIOUS
  <2>2. Finish("ok", left)
    BY <1>3, <2>1
  <2>3. QED
    BY <1>1, <1>2, <2>2, StrayFinish
<1>4. CASE Finish("closed", [k \in Socks |-> Pending(k)])
  <2>1. PICK left : left = [k \in Socks |-> Pending(k)]
    OBVIOUS
  <2>2. Finish("closed", left) /\ \A k \in Socks : left[k] = rep'[k] \o req'[k]
    BY <1>2, <1>4, <2>1 DEF Pending
  <2>3. QED
    BY <1>1, <1>2, <2>2, StrayFinish
<1>5. CASE UNCHANGED <<ret, strayed>>
  BY <1>2, <1>5, StrayGoesOn
<1>6. QED
  BY <1>2, <1>3, <1>4, <1>5

(* The server of c adds replies, the first of them to the command at the head.        *)
Replied(c) ==
  /\ IsSeq(rep'[c]) /\ rep'[c] # <<>>
  /\ rep[c] # <<>> => rep'[c][1] = rep[c][1]
  /\ rep[c] = <<>> => rep'[c][1].id = req[c][1].id
  /\ req[c] # <<>> /\ up[c] /\ req'[c] = Tail(req[c])
  /\ \A d \in Socks : d # c => rep'[d] = rep[d] /\ req'[d] = req[d]
  /\ UNCHANGED <<load, up, db, call, steps, ret, out, truth, ncalls, strayed, odd, stale>>

LEMMA AppendReplied ==
  ASSUME NEW rp, IsSeq(rp), NEW r
  PROVE  /\ IsSeq(Append(rp, r)) /\ Append(rp, r) # <<>>
         /\ rp # <<>> => Append(rp, r)[1] = rp[1]
         /\ rp = <<>> => Append(rp, r)[1] = r
<1>1. Len(rp) \in Nat /\ (rp = <<>> <=> Len(rp) = 0)
  BY SeqIs DEF IsSeq
<1>2. rp # <<>> => 1 \in 1 .. Len(rp)
  BY <1>1
<1>3. rp = <<>> => Len(rp) + 1 = 1
  BY <1>1
<1>4. QED
  BY <1>2, <1>3, AppendIs

LEMMA ReplyReplied ==
  ASSUME ClientInv, NEW c \in Socks, NEW a, rep' = Reply(c, a, req[c][1].id),
         req[c] # <<>>, up[c], req' = [req EXCEPT ![c] = Tail(@)],
         UNCHANGED <<load, up, db, call, steps, ret, out, truth, ncalls, strayed, odd, stale>>
  PROVE  Replied(c)
<1>1. DOMAIN rep = Socks /\ DOMAIN req = Socks /\ IsSeq(rep[c])
  BY ConnectionIs
<1>2. PICK r : r = [reply |-> a.reply, done |-> a.done, id |-> req[c][1].id]
  OBVIOUS
<1>3. r.id = req[c][1].id
  BY <1>2
<1>4. rep'[c] = Append(rep[c], r) /\ \A d \in Socks : d # c => rep'[d] = rep[d] /\ req'[d] = req[d]
  BY <1>1, <1>2 DEF Reply
<1>5. req'[c] = Tail(req[c])
  BY <1>1
<1>6. /\ IsSeq(rep'[c]) /\ rep'[c] # <<>>
      /\ rep[c] # <<>> => rep'[c][1] = rep[c][1]
      /\ rep[c] = <<>> => rep'[c][1].id = req[c][1].id
  <2>1. PICK p, z : p = rep[c] /\ z = Append(p, r)
    OBVIOUS
  <2>2. IsSeq(z) /\ z # <<>> /\ (p # <<>> => z[1] = p[1]) /\ (p = <<>> => z[1] = r)
    BY <1>1, <2>1, AppendReplied
  <2>3. p = <<>> => z[1].id = req[c][1].id
    BY <1>3, <2>2
  <2>4. rep'[c] = z /\ rep[c] = p
    BY <1>4, <2>1
  <2>5. QED
    BY <2>2, <2>3, <2>4, Zenon
<1>7. QED
  BY <1>4, <1>5, <1>6 DEF Replied

LEMMA ServerReplied ==
  ASSUME ClientInv, NEW c \in Socks, Serve(c) \/ Enqueue(c) \/ Exec(c)
  PROVE  Replied(c)
<1>1. IsSeq(req[c]) /\ IsSeq(rep[c]) /\ DOMAIN rep = Socks /\ DOMAIN req = Socks /\ Multis(multi[c])
  BY ConnectionIs
<1>2. up[c] /\ req[c] # <<>> /\ req' = [req EXCEPT ![c] = Tail(@)]
  BY DEF Serve, Enqueue, Exec
<1>3. UNCHANGED <<load, up, db, call, steps, ret, out, truth, ncalls, strayed, odd, stale>>
  BY DEF Serve, Enqueue, Exec
<1> DEFINE q == req[c][1]
<1>4. Head(req[c]) = q
  BY <1>1, <1>2, TailIs
<1>5. ASSUME NEW a, rep' = Reply(c, a, q.id) PROVE Replied(c)
  BY <1>2, <1>3, <1>5, ReplyReplied
<1>6. CASE Serve(c)
  <2>1. \E a : rep' = Reply(c, a, q.id)
    BY <1>4, <1>6 DEF Serve
  <2>2. QED
    BY <1>5, <2>1
<1>7. CASE Enqueue(c)
  <2>1. rep' = Reply(c, Done(Status(QUEUED)), q.id) \/ rep' = Reply(c, Refused(Err(0)), q.id)
    BY <1>4, <1>7 DEF Enqueue
  <2>2. QED
    BY <1>5, <2>1
<1>8. CASE Exec(c)
  <2> DEFINE n == Len(multi[c].queue)
  <2>1. n \in Nat
    BY <1>1, SeqIs DEF Multis, IsSeq
  <2>2. \/ \E e : rep' = Reply(c, Refused(e), q.id)
        \/ \E a \in [1 .. n -> Answers("GET", << 1 >>)] :
             rep' = [rep EXCEPT ![c] = @
                   \o <<[reply |-> Multi(<<>>), done |-> TRUE, id |-> q.id]>>
                   \o [k \in 1 .. n |->
                         [reply |-> IF a[k].reply.t = "$" THEN Bulk(multi[c].queue[k].keys[1])
                                    ELSE a[k].reply,
                          done |-> a[k].done, id |-> <<q.id[1], c, q.id[3] + k>>]]]
    BY <1>4, <1>8, ZenonT(60) DEF Exec
  <2>3. ASSUME NEW e, rep' = Reply(c, Refused(e), q.id) PROVE Replied(c)
    BY <1>5, <2>3
  <2>4. ASSUME NEW a \in [1 .. n -> Answers("GET", << 1 >>)],
               rep' = [rep EXCEPT ![c] = @
                   \o <<[reply |-> Multi(<<>>), done |-> TRUE, id |-> q.id]>>
                   \o [k \in 1 .. n |->
                         [reply |-> IF a[k].reply.t = "$" THEN Bulk(multi[c].queue[k].keys[1])
                                    ELSE a[k].reply,
                          done |-> a[k].done, id |-> <<q.id[1], c, q.id[3] + k>>]]]
        PROVE  Replied(c)
    <3> DEFINE h == [reply |-> Multi(<<>>), done |-> TRUE, id |-> q.id]
               es == [k \in 1 .. n |->
                         [reply |-> IF a[k].reply.t = "$" THEN Bulk(multi[c].queue[k].keys[1])
                                    ELSE a[k].reply,
                          done |-> a[k].done, id |-> <<q.id[1], c, q.id[3] + k>>]]
    <3>1. rep'[c] = (rep[c] \o <<h>>) \o es /\ \A d \in Socks : d # c => rep'[d] = rep[d] /\ req'[d] = req[d]
      BY <1>1, <1>2, <2>4
    <3>2. h.id = q.id /\ es = [k \in 1 .. n |-> es[k]]
      OBVIOUS
    <3> HIDE DEF h, es, n
    <3>3. IsSeq(es) /\ Len(es) = n
      BY <2>1, <3>2, FunctionIsSeq
    <3>4. PICK x, y : x = <<h>> /\ y = rep[c] \o x
      OBVIOUS
    <3>5. IsSeq(x) /\ Len(x) = 1 /\ x[1] = h
      BY <3>4, OneIsSeq
    <3>6. /\ IsSeq(y) /\ Len(y) = Len(rep[c]) + 1 /\ Len(rep[c]) \in Nat
          /\ \A k \in 1 .. Len(rep[c]) + 1 : y[k] = IF k <= Len(rep[c]) THEN rep[c][k] ELSE x[k - Len(rep[c])]
      <4>1. PICK p : p = rep[c]
        OBVIOUS
      <4>2. /\ IsSeq(p \o x) /\ Len(p) \in Nat /\ Len(p \o x) = Len(p) + Len(x)
            /\ \A k \in 1 .. Len(p) + Len(x) : (p \o x)[k] = IF k <= Len(p) THEN p[k] ELSE x[k - Len(p)]
        BY <1>1, <3>5, <4>1, JoinIs, ZenonT(60)
      <4>3. y = p \o x
        BY <3>4, <4>1
      <4>4. QED
        BY <3>5, <4>1, <4>2, <4>3
    <3>7. PICK l : l = Len(rep[c])
      OBVIOUS
    <3>8. rep[c] = <<>> <=> l = 0
      BY <1>1, <3>7, SeqIs DEF IsSeq
    <3>9. l \in Nat /\ 1 \in 1 .. l + 1 /\ (l # 0 => 1 <= l) /\ (l = 0 => ~(1 <= l) /\ 1 - l = 1)
      BY <3>6, <3>7
    <3>10. (rep[c] # <<>> => y[1] = rep[c][1]) /\ (rep[c] = <<>> => y[1] = h)
      BY <3>5, <3>6, <3>7, <3>8, <3>9
    <3>11. /\ IsSeq(y \o es) /\ Len(y) \in Nat /\ DOMAIN (y \o es) = 1 .. Len(y) + n
           /\ \A k \in 1 .. Len(y) + n : (y \o es)[k] = IF k <= Len(y) THEN y[k] ELSE es[k - Len(y)]
      BY <3>3, <3>6, JoinIs
    <3>12. Len(y) = l + 1
      BY <3>6, <3>7
    <3>13. 1 \in 1 .. (l + 1) + n /\ 1 <= l + 1
      BY <2>1, <3>9
    <3>14. (y \o es)[1] = y[1] /\ DOMAIN (y \o es) # {}
      BY <3>11, <3>12, <3>13
    <3>15. y \o es # <<>>
      BY <3>14, EmptyIs
    <3>16. rep'[c] = y \o es
      BY <3>1, <3>4
    <3>17. req'[c] = Tail(req[c])
      BY <1>1, <1>2
    <3>18. QED
      BY <1>2, <1>3, <3>1, <3>2, <3>10, <3>11, <3>14, <3>15, <3>16, <3>17 DEF Replied
  <2>5. QED
    BY <2>2, <2>3, <2>4
<1>9. QED
  BY <1>6, <1>7, <1>8

LEMMA ServerStray ==
  ASSUME ClientInv, StrayInv, NEW c \in Socks, Replied(c)
  PROVE  StrayInv'
<1>1. /\ UNCHANGED <<ret, strayed, ncalls, up, odd>> /\ up[c] /\ req[c] # <<>>
      /\ \A k \in Socks : k # c => rep'[k] = rep[k] /\ req'[k] = req[k]
  BY DEF Replied
<1>2. ASSUME Old(rep[c], req[c], up[c], Current) PROVE Old(rep'[c], req'[c], up[c], Current)
  BY <1>1, <1>2 DEF Old, Replied
<1>3. \A k \in Socks : Old(rep[k], req[k], up[k], Current) => Old(rep'[k], req'[k], up[k], Current)
  BY <1>1, <1>2
<1>4. QED
  BY <1>1, <1>3, StrayGoesOn

LEMMA CutIs ==
  ASSUME NEW rp, IsSeq(rp), NEW k \in 0 .. Len(rp)
  PROVE  /\ IsSeq(SubSeq(rp, 1, k)) /\ Range(SubSeq(rp, 1, k)) \subseteq Range(rp)
         /\ SubSeq(rp, 1, k) # <<>> => SubSeq(rp, 1, k)[1] = rp[1] /\ rp # <<>>
<1>1. Len(rp) \in Nat /\ DOMAIN rp = 1 .. Len(rp) /\ rp \in Seq(Range(rp)) /\ (rp = <<>> <=> Len(rp) = 0)
  BY SeqIs DEF IsSeq
<1>2. k \in Int /\ 0 <= k /\ k <= Len(rp)
  BY <1>1
<1>3. \A j \in 1 .. k : rp[j] \in Range(rp)
  BY <1>1, <1>2 DEF Range
<1> DEFINE rz == SubSeq(rp, 1, k)
<1>4. /\ rz \in Seq(Range(rp))
      /\ Len(rz) = IF 1 <= k THEN k - 1 + 1 ELSE 0
      /\ \A j \in 1 .. k - 1 + 1 : rz[j] = rp[1 + j - 1]
  BY <1>2, <1>3, SubSeqProperties
<1> HIDE DEF rz
<1>5. IsSeq(rz) /\ Range(rz) \subseteq Range(rp) /\ (rz = <<>> <=> Len(rz) = 0)
  BY <1>4, SeqIs
<1>6. ASSUME rz # <<>> PROVE rz[1] = rp[1] /\ rp # <<>>
  <2>1. 1 <= k /\ 1 \in 1 .. k - 1 + 1 /\ 1 + 1 - 1 = 1
    BY <1>2, <1>4, <1>5, <1>6
  <2>2. Len(rp) # 0
    BY <1>1, <1>2, <2>1
  <2>3. QED
    BY <1>1, <1>4, <2>1, <2>2
<1>7. QED
  BY <1>5, <1>6 DEF rz

(* The connection of c ended; what is left of its replies is left in order.            *)
Broken(c) ==
  /\ IsSeq(rep'[c]) /\ Range(rep'[c]) \subseteq Range(rep[c])
  /\ rep'[c] # <<>> => rep'[c][1] = rep[c][1] /\ rep[c] # <<>>
  /\ req'[c] = <<>> /\ ~up'[c]
  /\ \A d \in Socks : d # c => rep'[d] = rep[d] /\ req'[d] = req[d] /\ up'[d] = up[d]
  /\ UNCHANGED <<load, multi, sel, db, call, steps, ret, out, truth, ncalls, strayed, odd, stale>>

LEMMA BreakBroken ==
  ASSUME ClientInv, NEW c \in Socks, Break(c)
  PROVE  Broken(c)
<1>1. DOMAIN rep = Socks /\ DOMAIN req = Socks /\ DOMAIN up = Socks /\ IsSeq(rep[c])
  BY ConnectionIs
<1>2. PICK k \in 0 .. Len(rep[c]) : rep' = [rep EXCEPT ![c] = SubSeq(@, 1, k)]
  BY DEF Break
<1>3. rep'[c] = SubSeq(rep[c], 1, k) /\ \A d \in Socks : d # c => rep'[d] = rep[d]
  BY <1>1, <1>2
<1>4. /\ req'[c] = <<>> /\ ~up'[c] /\ \A d \in Socks : d # c => req'[d] = req[d] /\ up'[d] = up[d]
      /\ UNCHANGED <<load, multi, sel, db, call, steps, ret, out, truth, ncalls, strayed, odd, stale>>
  BY <1>1 DEF Break
<1>5. /\ IsSeq(rep'[c]) /\ Range(rep'[c]) \subseteq Range(rep[c])
      /\ rep'[c] # <<>> => rep'[c][1] = rep[c][1] /\ rep[c] # <<>>
  BY <1>1, <1>2, <1>3, CutIs
<1>6. QED
  BY <1>3, <1>4, <1>5 DEF Broken

LEMMA BrokenStray ==
  ASSUME ClientInv, StrayInv, NEW c \in Socks, Broken(c)
  PROVE  StrayInv'
<1>1. Current' = Current
  BY DEF Current, Broken
<1>2. ASSUME Old(rep[c], req[c], up[c], Current) PROVE Old(rep'[c], req'[c], up'[c], Current)
  BY <1>2 DEF Old, Broken
<1>3. QED
  BY <1>1, <1>2 DEF StrayInv, Broken

LEMMA StartStray ==
  ASSUME ClientInv, StrayInv, ret # "run", ncalls' = ncalls + 1, UNCHANGED <<req, rep, up, strayed, odd>>
  PROVE  StrayInv'
<1>1. ncalls \in Int /\ Current = ncalls
  BY NCallsIs DEF Current
<1>2. Current' \in Int /\ ncalls <= Current'
  BY <1>1 DEF Current
<1>3. ASSUME NEW k \in Socks, Old(rep[k], req[k], up[k], ncalls) PROVE Old(rep[k], req[k], up[k], Current')
  BY <1>1, <1>2, <1>3, Older
<1>4. QED
  BY <1>1, <1>3 DEF StrayInv

(* The calls that send one command.                                                    *)
LEMMA SingleVerb ==
  ASSUME NEW m \in DOMAIN Single
  PROVE  Single[m][1] \notin {"MULTI", "EXEC"}
BY SingleRows DEF OwnRow, Row, Entry

LEMMA SingleLine ==
  ASSUME ClientInv, ret = "run", call.m \in DOMAIN Single, NEW a, SingleInv(a), NEW c \in Socks,
         strayed[c] = "no", req[c] # <<>>, up[c]
  PROVE  ~multi[c].on /\ req[c][1].verb # "EXEC" /\ req[c][1].verb = Single[call.m][1] /\ req[c][1].keys = a
<1>1. IsSeq(req[c]) /\ Line(steps, ncalls - 1, c, rep[c], req[c], multi[c], up[c])
  BY RunIs
<1>2. \A q \in Range(req[c]) : q.verb = Single[call.m][1] /\ q.keys = a /\ q.verb # "EXEC"
  BY SingleVerb DEF SingleInv, Asking
<1>3. DOMAIN req[c] = 1 .. Len(req[c]) /\ Len(req[c]) \in Nat /\ Len(req[c]) > 0 /\ req[c][1] \in Range(req[c])
  BY <1>1, TailIs
<1>4. Len(req[c]) \in DOMAIN req[c]
  BY <1>3
<1>5. req[c][Len(req[c])] \in Range(req[c])
  BY <1>4, RangeHas
<1>6. multi[c].on => req[c][Len(req[c])].verb = "EXEC"
  BY <1>1 DEF Line, Matched
<1>7. QED
  BY <1>2, <1>3, <1>5, <1>6

LEMMA AskedKeys ==
  ASSUME call.m \in DOMAIN Single, call.keys[1] \in Nat, call.keys[1] > 0
  PROVE  Single[call.m][1] \in Texts => LET a == Args(call.m, call.keys, call.arg) IN a[1] \in Nat /\ a[1] > 0
<1>1. CASE call.m = "select_con"
  <2>1. Single[call.m] = <<"SELECT", "ok">>
    BY <1>1, SingleRows DEF OwnRow, Row
  <2>2. Single[call.m][1] \notin Texts
    BY <2>1 DEF Texts, TextVerbs
  <2>3. QED
    BY <2>2
<1>2. CASE call.m \in DOMAIN BlockingMethods
  <2>1. call.m \in {"blpop_any", "blpop", "brpop"}
    BY <1>2 DEF BlockingMethods
  <2>2. Single[call.m][1] \in {"BLPOP", "BRPOP"}
    BY <2>1, SingleRows DEF OwnRow
  <2>3. Single[call.m][1] \notin Texts
    BY <2>2 DEF Texts, TextVerbs
  <2>4. QED
    BY <2>3
<1>3. CASE call.m # "select_con" /\ call.m \notin DOMAIN BlockingMethods
  BY <1>3 DEF Args
<1>4. QED
  BY <1>1, <1>2, <1>3

(* The reply a call with one command reads is an answer to its command, unless the     *)
(* connection was out of step.                                                         *)
LEMMA RecvTells ==
  ASSUME ClientInv, TruthInv, Recv, call.m \in DOMAIN Single, \A k \in Socks : ~odd'[k]
  PROVE  /\ ret' # "run"
         /\ ret' = "throw" => ~truth' \/ call.m \in Distrustful
         /\ ret' = "ok" /\ call.m \in VoidMethods => truth'
<1>1. ret = "run" /\ Head(steps).op = "recv"
  BY DEF Recv
<1> DEFINE s == steps[1]
           c == s.con
           h == rep[c][1]
           good == Takes(s, h.reply)
           a == Args(call.m, call.keys, call.arg)
<1>2. IsSeq(steps) /\ steps # <<>> /\ Head(steps) = s /\ s \in Range(steps) /\ \A k \in Socks : IsSeq(rep[k])
  BY <1>1, RunIs
<1>3. s.op = "recv"
  BY <1>1, <1>2
<1> HIDE DEF s, c, h, good, a
<1>4. c \in Socks /\ \E n \in Nat : s.id = <<ncalls - 1, c, n>>
  BY <1>1, <1>3, RunIs, NotNowhere DEF s, c
<1>5. rep[c] # <<>>
  BY <1>2 DEF Recv, c
<1>6. Head(rep[c]) = h /\ h \in Range(rep[c])
  BY <1>2, <1>4, <1>5, TailIs DEF h
<1>7. SingleInv(a)
  BY <1>1 DEF TruthInv, a
<1>8. Len(steps) = 1
  BY <1>3, <1>7 DEF SingleInv, Short, s
<1>9. /\ odd' = [odd EXCEPT ![c] = @ \/ h.id # s.id \/ Parts(s, h.reply)]
      /\ truth' = (truth /\ h.done)
      /\ IF ~good THEN Finish("throw", [k \in Socks |-> rep'[k] \o req[k]]) ELSE Finish("ok", rep')
  BY <1>2, <1>6, <1>8 DEF Recv, c, good
<1>10. DOMAIN odd = Socks
  BY DEF ClientInv, CallInv
<1>11. /\ \A k \in Socks : k # c => odd'[k] = odd[k]
       /\ odd'[c] = (odd[c] \/ h.id # s.id \/ Parts(s, h.reply))
  BY <1>4, <1>9, <1>10
<1>12. \A k \in Socks : ~odd[k]
  BY <1>11
<1>13. strayed[c] = "no"
  <2>1. ASSUME strayed[c] # "no" PROVE FALSE
    <3>1. Old(rep[c], req[c], up[c], ncalls - 1)
      BY <1>1, <1>4, <1>12, <2>1 DEF TruthInv, StrayInv, Current
    <3>2. h.id[1] < ncalls - 1 /\ h.id[1] \in Int
      BY <1>5, <3>1 DEF Old, h
    <3>3. s.id[1] = ncalls - 1 /\ ncalls \in Int
      BY <1>4, NCallsIs
    <3>4. h.id[1] # s.id[1]
      BY <3>2, <3>3
    <3>5. h.id # s.id
      BY <3>4
    <3>6. QED
      BY <1>4, <1>11, <3>5
  <2>2. QED
    BY <2>1
<1>14. AnswerOf(h, call.m, a)
  BY <1>4, <1>6, <1>7, <1>13 DEF SingleInv, Asking
<1>15. PICK x \in Answers(Single[call.m][1], a) : h.reply = x.reply /\ h.done = x.done
  BY <1>14 DEF AnswerOf
<1>16. s.reader = Single[call.m][2]
  BY <1>2, <1>3, <1>7 DEF SingleInv, SingleStep
<1>17. Single[call.m][1] \in Texts => a[1] \in Nat /\ a[1] > 0
  BY <1>7, AskedKeys DEF SingleInv, a
<1>18. /\ x.done /\ call.m \notin Distrustful => Takes(s, x.reply)
       /\ s.reader \in {"ok", "intok"} /\ Takes(s, x.reply) => x.done
  BY <1>15, <1>16, <1>17, AnswerTells
<1>19. truth
  BY <1>7, <1>12 DEF SingleInv
<1>20. truth' <=> x.done
  BY <1>9, <1>15, <1>19
<1>21. good <=> Takes(s, x.reply)
  BY <1>15 DEF good
<1>22. call.m \in VoidMethods => s.reader \in {"ok", "intok"}
  BY <1>16 DEF VoidMethods
<1>23. /\ ~good => ret' = "throw"
       /\ good => ret' = "ok"
  BY <1>9 DEF Finish
<1>24. QED
  BY <1>18, <1>20, <1>21, <1>22, <1>23

LEMMA RecvTruth ==
  ASSUME ClientInv, TruthInv, Recv
  PROVE  TruthInv'
<1>1. StrayInv'
  BY RecvStray DEF TruthInv
<1>2. ret = "run" /\ call' = call
  BY DEF Recv
<1>3. CASE call.m \notin DOMAIN Single
  BY <1>1, <1>2, <1>3 DEF TruthInv, TellsTruth
<1>4. CASE call.m \in DOMAIN Single
  <2>1. ret' # "run"
    <3>1. Len(steps) = 1
      <4>1. Head(steps) = steps[1] /\ steps[1].op = "recv"
        BY <1>2, RunIs DEF Recv
      <4>2. QED
        BY <1>2, <1>4, <4>1 DEF TruthInv, SingleInv, Short
    <3>2. QED
      BY <3>1 DEF Recv, Finish
  <2>2. TellsTruth'
    <3>1. CASE \A k \in Socks : ~odd'[k]
      <4>1. /\ ret' = "throw" => ~truth' \/ call.m \in Distrustful
            /\ ret' = "ok" /\ call.m \in VoidMethods => truth'
        BY <1>4, <3>1, RecvTells
      <4>2. QED
        BY <1>2, <4>1 DEF TellsTruth, Distrustful
    <3>2. CASE \E k \in Socks : odd'[k]
      BY <3>2 DEF TellsTruth
    <3>3. QED
      BY <3>1, <3>2
  <2>3. QED
    BY <1>1, <2>1, <2>2 DEF TruthInv
<1>5. QED
  BY <1>3, <1>4

LEMMA RecvClosedTruth ==
  ASSUME ClientInv, TruthInv, RecvClosed
  PROVE  TruthInv'
<1>1. StrayInv'
  BY RecvClosedStray DEF TruthInv
<1>2. ret = "run" /\ UNCHANGED <<call, odd, truth>>
  BY DEF RecvClosed
<1>3. CASE call.m \notin DOMAIN Single
  BY <1>1, <1>2, <1>3 DEF TruthInv, TellsTruth
<1>4. CASE call.m \in DOMAIN Single
  <2>1. PICK a : SingleInv(a)
    BY <1>2, <1>4 DEF TruthInv
  <2>2. Len(steps) = 1
    <3>1. Head(steps) = steps[1] /\ steps[1].op = "recv"
      BY <1>2, RunIs DEF RecvClosed
    <3>2. QED
      BY <2>1, <3>1 DEF SingleInv, Short
  <2>3. ret' \in {"ok", "closed"}
    BY <2>2 DEF RecvClosed, Finish
  <2>4. (\A k \in Socks : ~odd[k]) => truth
    BY <2>1 DEF SingleInv
  <2>5. TellsTruth'
    BY <1>2, <2>3, <2>4 DEF TellsTruth
  <2>6. QED
    BY <1>1, <2>3, <2>5 DEF TruthInv
<1>5. QED
  BY <1>3, <1>4

LEMMA SendTruth ==
  ASSUME ClientInv, ClientInv', TruthInv, Send
  PROVE  TruthInv'
<1>1. StrayInv'
  BY SendStray DEF TruthInv
<1>2. ret = "run" /\ Head(steps).op = "send"
  BY DEF Send
<1> DEFINE s == steps[1]
           c == s.con
<1>3. IsSeq(steps) /\ steps # <<>> /\ Head(steps) = s /\ s \in Range(steps)
  BY <1>2, RunIs
<1>4. /\ UNCHANGED <<rep, up, call, odd, truth>>
      /\ \/ /\ c \in Socks
            /\ req' = IF up[c] THEN [req EXCEPT ![c] = @ \o s.cmds] ELSE req
            /\ steps' = Tail(steps)
            /\ UNCHANGED <<ret, strayed>>
         \/ Finish("closed", [k \in Socks |-> Pending(k)])
  BY <1>3 DEF Send
<1>5. s.op = "send"
  BY <1>2, <1>3
<1> HIDE DEF s, c
<1>6. CASE /\ c \in Socks
           /\ req' = IF up[c] THEN [req EXCEPT ![c] = @ \o s.cmds] ELSE req
           /\ steps' = Tail(steps)
           /\ UNCHANGED <<ret, strayed>>
  <2>1. TellsTruth'
    BY <1>2, <1>6 DEF TellsTruth
  <2>2. ASSUME call.m \in DOMAIN Single, NEW a, SingleInv(a) PROVE SingleInv(a)'
    <3>1. Tail(steps) # <<>>
      BY <1>2, <1>6 DEF ClientInv, TypeOK
    <3>2. Len(steps) # 1 /\ Len(Tail(steps)) = Len(steps) - 1 /\ Range(Tail(steps)) \subseteq Range(steps)
      BY <1>3, <3>1, TailIs
    <3>3. Len(steps) = 2
      BY <2>2, <3>2 DEF SingleInv, Short
    <3>4. Len(steps') = 1
      BY <1>6, <3>2, <3>3
    <3>5. Short(steps')
      BY <3>4 DEF Short
    <3>6. ASSUME NEW k \in Socks, strayed[k] = "no" PROVE Asking(req'[k], rep[k], call.m, a)
      <4>1. Asking(req[k], rep[k], call.m, a)
        BY <2>2, <3>6 DEF SingleInv
      <4>2. req'[k] = IF k = c /\ up[k] THEN req[k] \o s.cmds ELSE req[k]
        BY <1>6 DEF ClientInv, ServerInv
      <4>3. CASE k = c /\ up[k]
        <5>1. StepOK(steps, ncalls - 1, load.dbs, s)
          <6>1. s.con \in Socks
            BY <1>6 DEF c
          <6>2. QED
            BY <1>2, <6>1, RunIs, NotNowhere DEF s
        <5>2. IsSeq(s.cmds) /\ IsSeq(req[k])
          BY <1>2, <1>5, <5>1, RunIs DEF StepOK, Sends, Commands
        <5>3. Range(req'[k]) = Range(req[k]) \cup Range(s.cmds)
          BY <4>2, <4>3, <5>2, JoinIs
        <5>4. Len(s.cmds) = 1 /\ s.cmds[1].verb = Single[call.m][1] /\ s.cmds[1].keys = a
          BY <1>3, <1>5, <2>2 DEF SingleInv, SingleStep
        <5>5. s.cmds # <<>>
          BY <5>4, EmptyIs
        <5>6. Range(s.cmds) = {s.cmds[1]}
          <6>1. Tail(s.cmds) = <<>> /\ Range(s.cmds) = {s.cmds[1]} \cup Range(Tail(s.cmds))
            BY <5>2, <5>4, <5>5, TailIs
          <6>2. QED
            BY <6>1, EmptyIs
        <5>7. QED
          BY <4>1, <5>3, <5>4, <5>6 DEF Asking
      <4>4. QED
        BY <4>1, <4>2, <4>3
    <3>7. QED
      BY <1>4, <1>6, <2>2, <3>2, <3>5, <3>6 DEF SingleInv
  <2>3. ret' = "run" /\ call'.m \in DOMAIN Single => SingleInv(Args(call.m, call.keys, call.arg))'
    <3>1. PICK a : a = Args(call.m, call.keys, call.arg)
      OBVIOUS
    <3>2. call.m \in DOMAIN Single => SingleInv(a)
      BY <1>2, <3>1 DEF TruthInv
    <3>3. call.m \in DOMAIN Single => SingleInv(a)'
      BY <2>2, <3>2
    <3>4. Args(call.m, call.keys, call.arg)' = a
      BY <1>4, <3>1
    <3>5. QED
      BY <1>4, <3>3, <3>4 DEF SingleInv
  <2>4. QED
    BY <1>1, <2>1, <2>3 DEF TruthInv
<1>7. CASE Finish("closed", [k \in Socks |-> Pending(k)])
  <2>1. ret' = "closed"
    BY <1>7 DEF Finish
  <2>2. TellsTruth'
    BY <2>1 DEF TellsTruth
  <2>3. QED
    BY <1>1, <2>1, <2>2 DEF TruthInv
<1>8. QED
  BY <1>4, <1>6, <1>7

LEMMA ServerTruth ==
  ASSUME ClientInv, TruthInv, StrayInv', NEW c \in Socks,
         UNCHANGED <<call, steps, ret, truth, strayed, odd>>,
         \A d \in Socks : d # c => rep'[d] = rep[d] /\ req'[d] = req[d],
         \A a : ret = "run" /\ call.m \in DOMAIN Single /\ SingleInv(a) /\ strayed[c] = "no" =>
                  Asking(req'[c], rep'[c], call.m, a)
  PROVE  TruthInv'
<1>1. TellsTruth'
  BY DEF TruthInv, TellsTruth
<1>2. ASSUME ret = "run", call.m \in DOMAIN Single, NEW a, SingleInv(a) PROVE SingleInv(a)'
  <2>1. \A k \in Socks : strayed[k] = "no" => Asking(req'[k], rep'[k], call.m, a)
    BY <1>2 DEF SingleInv
  <2>2. QED
    BY <1>2, <2>1 DEF SingleInv
<1>3. PICK a : a = Args(call.m, call.keys, call.arg)
  OBVIOUS
<1>4. Args(call.m, call.keys, call.arg)' = a
  BY <1>3
<1>5. ret = "run" /\ call.m \in DOMAIN Single => SingleInv(a)'
  BY <1>2, <1>3 DEF TruthInv
<1>6. ret' = "run" /\ call'.m \in DOMAIN Single => SingleInv(Args(call.m, call.keys, call.arg))'
  BY <1>4, <1>5 DEF SingleInv
<1>7. QED
  BY <1>1, <1>6 DEF TruthInv

LEMMA ServeTruth ==
  ASSUME ClientInv, TruthInv, NEW c \in Socks, Serve(c)
  PROVE  TruthInv'
<1>1. Replied(c)
  BY ServerReplied
<1>2. StrayInv'
  BY <1>1, ServerStray DEF TruthInv
<1>3. /\ UNCHANGED <<call, steps, ret, truth, strayed, odd>> /\ req[c] # <<>> /\ up[c] /\ req'[c] = Tail(req[c])
      /\ \A d \in Socks : d # c => rep'[d] = rep[d] /\ req'[d] = req[d]
  BY <1>1 DEF Replied
<1>4. ASSUME NEW a, ret = "run", call.m \in DOMAIN Single, SingleInv(a), strayed[c] = "no"
      PROVE  Asking(req'[c], rep'[c], call.m, a)
  <2>1. IsSeq(req[c]) /\ IsSeq(rep[c]) /\ DOMAIN rep = Socks
    BY ConnectionIs
  <2>2. Head(req[c]) = req[c][1] /\ Range(req[c]) = {req[c][1]} \cup Range(Tail(req[c]))
    BY <1>3, <2>1, TailIs
  <2>3. req[c][1].verb = Single[call.m][1] /\ req[c][1].keys = a
    BY <1>3, <1>4, SingleLine
  <2>4. PICK x \in Answers(Single[call.m][1], a) : rep' = Reply(c, x, req[c][1].id)
    BY <2>2, <2>3 DEF Serve
  <2>5. PICK r : r = [reply |-> x.reply, done |-> x.done, id |-> req[c][1].id]
    OBVIOUS
  <2>6. r.reply = x.reply /\ r.done = x.done /\ rep'[c] = Append(rep[c], r)
    BY <2>1, <2>4, <2>5 DEF Reply
  <2>7. AnswerOf(r, call.m, a)
    BY <2>6 DEF AnswerOf
  <2>8. ASSUME NEW y \in Range(rep'[c]) PROVE y = r \/ y \in Range(rep[c])
    <3>1. PICK p : p = rep[c]
      OBVIOUS
    <3>2. PICK z : z = Append(p, r)
      OBVIOUS
    <3>3. /\ Len(p) \in Nat /\ DOMAIN z = 1 .. Len(p) + 1 /\ DOMAIN p = 1 .. Len(p)
          /\ \A k \in 1 .. Len(p) : z[k] = p[k]
          /\ z[Len(p) + 1] = r
      BY <2>1, <3>1, <3>2, AppendIs
    <3>4. rep'[c] = z
      BY <2>6, <3>1, <3>2
    <3>5. PICK k \in DOMAIN z : z[k] = y
      BY <2>8, <3>4 DEF Range
    <3>6. k \in 1 .. Len(p) \/ k = Len(p) + 1
      BY <3>3, <3>5
    <3>7. k \in 1 .. Len(p) => y \in Range(p)
      BY <3>3, <3>5 DEF Range
    <3>8. QED
      BY <3>1, <3>3, <3>5, <3>6, <3>7
  <2>9. Asking(req[c], rep[c], call.m, a)
    BY <1>4 DEF SingleInv
  <2>10. QED
    BY <1>3, <2>2, <2>7, <2>8, <2>9 DEF Asking
<1>5. QED
  BY <1>2, <1>3, <1>4, ServerTruth

LEMMA QueuedTruth ==
  ASSUME ClientInv, TruthInv, NEW c \in Socks, Enqueue(c) \/ Exec(c)
  PROVE  TruthInv'
<1>1. Replied(c)
  BY ServerReplied
<1>2. StrayInv'
  BY <1>1, ServerStray DEF TruthInv
<1>3. /\ UNCHANGED <<call, steps, ret, truth, strayed, odd>> /\ req[c] # <<>> /\ up[c] /\ req'[c] = Tail(req[c])
      /\ \A d \in Socks : d # c => rep'[d] = rep[d] /\ req'[d] = req[d]
  BY <1>1 DEF Replied
<1>4. ASSUME NEW a, ret = "run", call.m \in DOMAIN Single, SingleInv(a), strayed[c] = "no" PROVE FALSE
  <2>1. IsSeq(req[c])
    BY ConnectionIs
  <2>2. Head(req[c]) = req[c][1]
    BY <1>3, <2>1, TailIs
  <2>3. multi[c].on \/ req[c][1].verb = "EXEC"
    BY <2>2 DEF Enqueue, Exec
  <2>4. QED
    BY <1>3, <1>4, <2>3, SingleLine
<1>5. QED
  BY <1>2, <1>3, <1>4, ServerTruth

LEMMA BreakTruth ==
  ASSUME ClientInv, TruthInv, NEW c \in Socks, Break(c)
  PROVE  TruthInv'
<1>1. Broken(c)
  BY BreakBroken
<1>2. StrayInv'
  BY <1>1, BrokenStray DEF TruthInv
<1>3. /\ UNCHANGED <<call, steps, ret, truth, strayed, odd>>
      /\ \A d \in Socks : d # c => rep'[d] = rep[d] /\ req'[d] = req[d]
      /\ Range(rep'[c]) \subseteq Range(rep[c]) /\ req'[c] = <<>>
  BY <1>1 DEF Broken
<1>4. ASSUME NEW a, ret = "run", call.m \in DOMAIN Single, SingleInv(a), strayed[c] = "no"
      PROVE  Asking(req'[c], rep'[c], call.m, a)
  <2>1. Asking(req[c], rep[c], call.m, a)
    BY <1>4 DEF SingleInv
  <2>2. Range(req'[c]) = {}
    BY <1>3, EmptyIs
  <2>3. QED
    BY <1>3, <2>1, <2>2 DEF Asking
<1>5. QED
  BY <1>2, <1>3, <1>4, ServerTruth

LEMMA BeginTruth ==
  ASSUME ClientInv, TruthInv, Begin
  PROVE  TruthInv'
<1>1. PICK m \in load.first \cup load.later, ks \in load.keys, d \in load.dbs : \E copy : Start(m, ks, d, copy)
  BY DEF Begin
<1>2. load \in Loads
  BY DEF ClientInv, CallInv
<1>3. ks \in Seq(Nat) /\ ks # <<>> /\ \A k \in DOMAIN ks : ks[k] > 0
  BY <1>1, <1>2, ClientAssumption
<1>4. /\ ret # "run" /\ call'.m = m /\ call'.arg = d /\ call'.keys = ks
      /\ ret' = "refused" \/ (ret' = "run" /\ steps' = Plan(m, ks, d))
      /\ ncalls' = ncalls + 1 /\ truth' = TRUE
      /\ UNCHANGED <<req, rep, up, strayed, odd>>
  BY <1>1 DEF Start
<1>5. StrayInv'
  BY <1>4, StartStray DEF TruthInv
<1>6. TellsTruth'
  BY <1>4 DEF TellsTruth
<1>7. 1 \in DOMAIN ks /\ ks[1] \in Nat
  <2>1. IsSeq(ks) /\ Range(ks) \subseteq Nat
    BY <1>3, SeqIs
  <2>2. ks[1] \in Range(ks) /\ Len(ks) \in Nat /\ Len(ks) > 0 /\ DOMAIN ks = 1 .. Len(ks)
    BY <1>3, <2>1, TailIs
  <2>3. QED
    BY <2>1, <2>2
<1>8. ASSUME ret' = "run", call'.m \in DOMAIN Single
      PROVE  SingleInv(Args(call.m, call.keys, call.arg))'
  <2>1. PICK a : a = Args(m, ks, d)
    OBVIOUS
  <2>2. Args(call.m, call.keys, call.arg)' = a
    BY <1>4, <2>1
  <2>3. m \in DOMAIN Single /\ steps' = Plan(m, ks, d)
    BY <1>4, <1>8
  <2>4. Short(steps') /\ \A s \in Range(steps') : SingleStep(s, m, a)
    BY <2>1, <2>3, SinglePlanIs
  <2>5. ASSUME NEW k \in Socks, strayed[k] = "no" PROVE Asking(req[k], rep[k], m, a)
    <3>1. rep[k] = <<>> /\ req[k] = <<>>
      BY <1>4, <2>5 DEF ClientInv, ConInv, Quiet
    <3>2. Range(rep[k]) = {} /\ Range(req[k]) = {}
      BY <3>1, EmptyIs
    <3>3. QED
      BY <3>2 DEF Asking
  <2>6. SingleInv(a)'
    BY <1>3, <1>4, <1>7, <2>4, <2>5 DEF SingleInv
  <2>7. QED
    BY <2>2, <2>6 DEF SingleInv
<1>9. QED
  BY <1>5, <1>6, <1>8 DEF TruthInv

LEMMA NextTruth ==
  ASSUME ClientInv, ClientInv', TruthInv, [Next]_vars
  PROVE  TruthInv'
<1>1. CASE Begin
  BY <1>1, BeginTruth
<1>2. CASE Send
  BY <1>2, SendTruth
<1>3. CASE Recv
  BY <1>3, RecvTruth
<1>4. CASE RecvClosed
  BY <1>4, RecvClosedTruth
<1>5. ASSUME NEW c \in Socks, Serve(c) PROVE TruthInv'
  BY <1>5, ServeTruth
<1>6. ASSUME NEW c \in Socks, Enqueue(c) \/ Exec(c) PROVE TruthInv'
  BY <1>6, QueuedTruth
<1>7. ASSUME NEW c \in Socks, Break(c) PROVE TruthInv'
  BY <1>7, BreakTruth
<1>8. CASE UNCHANGED vars
  BY <1>8 DEF vars, TruthInv, TellsTruth, StrayInv, Current, SingleInv
<1>9. QED
  BY <1>1, <1>2, <1>3, <1>4, <1>5, <1>6, <1>7, <1>8 DEF Next, Client, Servers, Shutdown

(* A method that sends one command throws for its reply only when the server refused   *)
(* it (the six Distrustful ones apart), and one that returns nothing only when it      *)
(* carried it out: for every verb and receive function of the table, every answer, and *)
(* every history of earlier calls and broken connections.                              *)
THEOREM TellsTruthHolds == Spec => []TellsTruth
<1>1. Init => TruthInv
  BY DEF Init, TruthInv, TellsTruth, StrayInv
<1>2. ClientInv /\ ClientInv' /\ TruthInv /\ [Next]_vars => TruthInv'
  BY NextTruth
<1>3. TruthInv => TellsTruth
  BY DEF TruthInv
<1>4. QED
  BY <1>1, <1>2, <1>3, ClientHolds, PTL DEF Spec
=============================================================================
