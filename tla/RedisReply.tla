----------------------------- MODULE RedisReply -----------------------------
(***************************************************************************)
(* The replies of a redis server and what the receive functions of the      *)
(* client (redisclient.h) make of one: the value they return or that they   *)
(* throw, and whether they leave a part of the reply unread.  RedisReader    *)
(* shows that the functions do this byte by byte; RedisClient builds the     *)
(* commands on it.                                                          *)
(*                                                                         *)
(* A reply is a record: t its kind, v the number, word or text it carries,  *)
(* e the elements of a multi bulk reply.                                    *)
(***************************************************************************)
EXTENDS Integers, Sequences

OK == 1           \* words of a status line
QUEUED == 2
WORD == 3         \* any other

Status(w) == [t |-> "+", v |-> w, e |-> <<>>]
Err(c)    == [t |-> "-", v |-> c, e |-> <<>>]    \* c = 0: "-ERR ", 1: another code
Num(n)    == [t |-> ":", v |-> n, e |-> <<>>]
Bulk(x)   == [t |-> "$", v |-> x, e |-> <<>>]    \* x > 0 numbers a text
Multi(s)  == [t |-> "*", v |-> 0, e |-> s]
Nil       == [t |-> "nil", v |-> 0, e |-> <<>>]  \* "$-1"
NilMulti  == [t |-> "nomulti", v |-> 0, e |-> <<>>]  \* "*-1"

\* A reply that is not a list, when the texts are numbered by xs; and any reply
PlainReplies(xs) ==
  [t : {"+", "-", ":"}, v : Int, e : {<<>>}] \cup {Bulk(x) : x \in xs} \cup {Nil, NilMulti}
IsReply(r, xs) == r \in PlainReplies(xs) \/ (r = Multi(r.e) /\ r.e \in Seq(PlainReplies(xs)))

missing_value == 0   \* the text that stands for a nil bulk

Readers == {"single", "ok", "int", "intok", "bulk", "multi", "generic"}

IsBulk(r) == r.t \in {"$", "nil"}

\* The receive function returns a value; otherwise it throws
Accepts(reader, r) ==
  CASE reader = "single"  -> r.t = "+"
    [] reader = "ok"      -> r.t = "+" /\ r.v = OK
    [] reader = "int"     -> r.t = ":"
    [] reader = "intok"   -> r.t = ":" /\ r.v = 1
    [] reader = "bulk"    -> IsBulk(r)
    [] reader = "multi"   -> r.t = "*" /\ \A k \in DOMAIN r.e : IsBulk(r.e[k])
    [] reader = "generic" -> /\ r.t # "nomulti"
                             /\ r.t = "*" => \A k \in DOMAIN r.e : IsBulk(r.e[k])

\* What a call of a receive function is worth: n the number or word, data the
\* texts
Outcome(reader, r) ==
  IF ~Accepts(reader, r) THEN [ok |-> FALSE, n |-> 0, data |-> <<>>]
  ELSE [ok   |-> TRUE,
        n    |-> IF r.t = "*" THEN Len(r.e) ELSE IF IsBulk(r) THEN 0 ELSE r.v,
        data |-> IF r.t = "*" THEN [k \in DOMAIN r.e |-> r.e[k].v]
                 ELSE IF IsBulk(r) THEN <<r.v>> ELSE <<>>]

\* A part of the reply stays in the socket: the text of a bulk reply or the
\* elements of a multi bulk reply nobody looks for, and what follows an element
\* that is not a bulk reply
Leaves(reader, r) ==
  \/ r.t = "$" /\ reader \notin {"bulk", "generic"}
  \/ r.t = "*" /\ r.e # <<>> /\ reader \notin {"multi", "generic"}
  \/ /\ r.t = "*" /\ reader \in {"multi", "generic"}
     /\ \E k \in 1 .. Len(r.e) - 1 : ~IsBulk(r.e[k])
=============================================================================
