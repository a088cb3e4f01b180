----------------------------- MODULE RedisReader -----------------------------
(***************************************************************************)
(* The receive functions of redis::base_client on one socket, recv() by     *)
(* recv(): read_line peeks into a buffer and takes what it used, read_n     *)
(* collects a block, recv_multi_bulk_reply_ reads one bulk reply after the  *)
(* other.  Bytes arrive in any pieces, and the server may close.            *)
(*                                                                         *)
(* A byte is a number.  A decimal number or a word on a line is one byte.   *)
(* Elements of multi bulk replies are not multi bulk replies themselves.    *)
(***************************************************************************)
EXTENDS RedisReply, FiniteSets, SequencesExt

CONSTANTS
  Pairs,        \* [reader, reply]: what the first call meets ...
  Later,        \* ... and the calls after it
  Texts,        \* the bytes of the texts
  buffer_size,  \* 64 in the code
  max_size,     \* 2048 in the code, the default argument of read_line
  MaxRecv       \* bound: calls of receive functions

ASSUME BufferAssumption ==
  buffer_size \in Nat \ {0} /\ max_size \in Nat \ {0} /\ MaxRecv \in Nat
ASSUME TextAssumption == Texts \in Seq(Seq(Int))
ASSUME ReplyAssumption ==
  \A p \in Pairs \cup Later : p.reader \in Readers /\ IsReply(p.reply, DOMAIN Texts)

VARIABLES
  wire,    \* bytes sent by the server and not yet delivered
  inbuf,   \* bytes recv() can see
  closed,  \* the server closed the connection
  calls,   \* history: the calls of receive functions so far
  pc,      \* "idle", "type", "peek", "take", "block" or "broken"
  reader,  \* the receive function that runs
  peeked,  \* what MSG_PEEK copied into buffer
  line,    \* oss of read_line
  block,   \* what read_n has collected
  need,    \* bytes read_n still wants
  left,    \* elements of a multi bulk reply still to come
  data,    \* texts decoded by this call
  outs     \* history: what the calls returned

vars == <<wire, inbuf, closed, calls, pc, reader, peeked, line, block, need,
          left, data, outs>>

-----------------------------------------------------------------------------
(* Bytes *)

CR == 13
LF == 10
Prefix(t) == CASE t = "+" -> 43 [] t = "-" -> 45 [] t = ":" -> 58
               [] t \in {"$", "nil"} -> 36 [] t \in {"*", "nomulti"} -> 42
Number(n) == IF n < 0 THEN n ELSE 1000 + n
Value(b)  == IF b < 0 THEN b ELSE b - 1000    \* the number a line carries
Sentinel  == <<0>>    \* the bytes of missing_value()

Line(t, n) == <<Prefix(t), Number(n), CR, LF>>

\* The bytes of a reply that is not a list
Plain(r) ==
  CASE r.t = "$" -> Line("$", Len(Texts[r.v])) \o Texts[r.v] \o <<CR, LF>>
    [] r.t \in {"nil", "nomulti"} -> Line(r.t, -1)
    [] OTHER -> Line(r.t, r.v)

Render(r) ==
  IF r.t = "*"
  THEN Line("*", Len(r.e)) \o FlattenSeq([k \in DOMAIN r.e |-> Plain(r.e[k])])
  ELSE Plain(r)

\* rtrim(line, REDIS_LBR)
rtrim(s) ==
  SubSeq(s, 1, CHOOSE n \in 0 .. Len(s) :
                 /\ \A k \in n + 1 .. Len(s) : s[k] \in {CR, LF}
                 /\ n = 0 \/ s[n] \notin {CR, LF})

-----------------------------------------------------------------------------
Init ==
  /\ wire = <<>> /\ inbuf = <<>> /\ closed = FALSE
  /\ calls = <<>> /\ pc = "idle" /\ reader = "ok"
  /\ peeked = <<>> /\ line = <<>> /\ block = <<>> /\ need = 0 /\ left = 0
  /\ data = <<>> /\ outs = <<>>

\* A call has left a part of its reply in the socket
Cut == \E k \in DOMAIN calls : Leaves(calls[k].reader, calls[k].reply)

\* A command has been sent and its reply is on its way; now it is received.
\* Nothing is claimed of the calls after a cut, so the model ends there.
Receive(p) ==
  /\ pc = "idle" /\ Len(calls) < MaxRecv /\ ~Cut
  /\ calls' = Append(calls, p)
  /\ reader' = p.reader
  /\ pc' = IF p.reader = "generic" THEN "type" ELSE "peek"
  /\ wire' = IF closed THEN wire ELSE wire \o Render(p.reply)
  /\ line' = <<>> /\ data' = <<>> /\ left' = 0
  /\ UNCHANGED <<inbuf, closed, peeked, block, need, outs>>

Deliver(k) ==
  /\ k <= Len(wire)
  /\ inbuf' = inbuf \o SubSeq(wire, 1, k)
  /\ wire' = SubSeq(wire, k + 1, Len(wire))
  /\ UNCHANGED <<closed, calls, pc, reader, peeked, line, block, need, left, data, outs>>

\* The connection ends; what was not delivered is lost
Close ==
  /\ ~closed /\ closed' = TRUE
  /\ wire' = <<>>
  /\ UNCHANGED <<inbuf, calls, pc, reader, peeked, line, block, need, left, data, outs>>

\* recv_or_throw: "connection was closed"
Closed ==
  /\ pc \in {"type", "peek", "block"} /\ inbuf = <<>> /\ closed
  /\ pc' = "broken"
  /\ UNCHANGED <<wire, inbuf, closed, calls, reader, peeked, line, block, need, left,
                 data, outs>>

-----------------------------------------------------------------------------
(* The functions' ends and turns, as changes of pc, outs and what is wanted *)

Return(n, d) ==
  /\ outs' = Append(outs, [ok |-> TRUE, n |-> n, data |-> d])
  /\ pc' = "idle" /\ UNCHANGED <<left, need, data>>

Throw ==
  /\ outs' = Append(outs, [ok |-> FALSE, n |-> 0, data |-> <<>>])
  /\ pc' = "idle" /\ UNCHANGED <<left, need, data>>

\* A bulk reply is decoded: the result, or the next element of a list
GotText(text) ==
  IF left > 1
  THEN /\ data' = Append(data, text) /\ left' = left - 1 /\ need' = 0
       /\ pc' = "peek" /\ UNCHANGED outs
  ELSE Return(IF reader = "multi" THEN Len(data) + 1 ELSE 0, Append(data, text))

\* Mutant: a length of -1 is an empty text
BulkLine_empty(l) ==
  IF l = <<>> \/ l[1] # Prefix("$") THEN Throw
  ELSE IF Value(l[2]) = -1 THEN GotText(<<>>)
  ELSE /\ need' = Value(l[2]) + 2 /\ pc' = "block"
       /\ UNCHANGED <<left, data, outs>>

\* Mutant: a length of -1 is a length
BulkLine_wait(l) ==
  IF l = <<>> \/ l[1] # Prefix("$") THEN Throw
  ELSE /\ need' = Value(l[2]) + 2 /\ pc' = "block"
       /\ UNCHANGED <<left, data, outs>>

\* recv_bulk_reply_: the length line, then the block of length + 2
BulkLine(l) ==
  IF l = <<>> \/ l[1] # Prefix("$") THEN Throw
  ELSE IF Value(l[2]) = -1 THEN GotText(Sentinel)
  ELSE /\ need' = Value(l[2]) + 2 /\ pc' = "block"
       /\ UNCHANGED <<left, data, outs>>

\* recv_multi_bulk_reply_: the number of elements
MultiLine(l) ==
  IF l = <<>> \/ l[1] # Prefix("*") \/ Value(l[2]) = -1 THEN Throw
  ELSE IF Value(l[2]) = 0 THEN Return(0, <<>>)
  ELSE /\ left' = Value(l[2]) /\ pc' = "peek"
       /\ UNCHANGED <<need, data, outs>>

\* recv_single_line_reply_, recv_ok_reply_, recv_int_reply_, recv_int_ok_reply_
LineReply(l, t, wanted) ==
  IF l # <<>> /\ l[1] = Prefix(t) /\ (wanted = {} \/ Value(l[2]) \in wanted)
  THEN Return(Value(l[2]), <<>>) ELSE Throw

\* read_line has found the end of the line
LineRead(l) ==
  CASE left > 0 -> BulkLine(l)
    [] left = 0 /\ reader = "single" -> LineReply(l, "+", {})
    [] left = 0 /\ reader = "ok"     -> LineReply(l, "+", {OK})
    [] left = 0 /\ reader = "error"  -> LineReply(l, "-", {})
    [] left = 0 /\ reader = "int"    -> LineReply(l, ":", {})
    [] left = 0 /\ reader = "intok"  -> LineReply(l, ":", {1})
    [] left = 0 /\ reader = "bulk"   -> BulkLine(l)
    [] left = 0 /\ reader = "multi"  -> MultiLine(l)

-----------------------------------------------------------------------------
(* The calls of recv() *)

\* recv_generic_reply_: next_reply_type peeks at one byte and chooses
PeekType ==
  /\ pc = "type" /\ inbuf # <<>>
  /\ LET is(t) == inbuf[1] = Prefix(t)
         known == {"+", "-", ":", "$", "*"}
     IN  IF \E t \in known : is(t)
         THEN /\ pc' = "peek"
              /\ reader' = CASE is("+") -> "single" [] is("-") -> "error"
                             [] is(":") -> "int" [] is("$") -> "bulk" [] is("*") -> "multi"
              /\ UNCHANGED <<left, need, data, outs>>
         ELSE Throw /\ UNCHANGED reader
  /\ UNCHANGED <<wire, inbuf, closed, calls, peeked, line, block>>

\* while (total_bytes_read < max_size && !found_delimiter): total_bytes_read
\* stays 0, so that only the delimiter ends the loop
Peek ==
  /\ pc = "peek" /\ inbuf # <<>> /\ 0 < max_size
  /\ peeked' = SubSeq(inbuf, 1, IF Len(inbuf) < buffer_size THEN Len(inbuf) ELSE buffer_size)
  /\ pc' = "take"
  /\ UNCHANGED <<wire, inbuf, closed, calls, reader, line, block, need, left, data, outs>>

HasEol == \E k \in DOMAIN peeked : peeked[k] = LF

\* eol - buffer + 1, or all that was peeked
ToRead ==
  IF HasEol THEN CHOOSE k \in DOMAIN peeked :
                   peeked[k] = LF /\ \A m \in 1 .. k - 1 : peeked[m] # LF
  ELSE Len(peeked)

\* Mutant: all that was peeked is taken, also what follows the line
Take_all ==
  /\ pc = "take"
  /\ inbuf' = SubSeq(inbuf, Len(peeked) + 1, Len(inbuf))
  /\ IF HasEol
     THEN line' = <<>> /\ LineRead(rtrim(line \o SubSeq(peeked, 1, ToRead)))
     ELSE /\ line' = line \o peeked /\ pc' = "peek"
          /\ UNCHANGED <<left, need, data, outs>>
  /\ block' = <<>>
  /\ UNCHANGED <<wire, closed, calls, reader, peeked>>

Take ==
  /\ pc = "take"
  /\ inbuf' = SubSeq(inbuf, ToRead + 1, Len(inbuf))
  /\ IF HasEol
     THEN line' = <<>> /\ LineRead(rtrim(line \o SubSeq(peeked, 1, ToRead)))
     ELSE /\ line' = line \o peeked /\ pc' = "peek"
          /\ UNCHANGED <<left, need, data, outs>>
  /\ block' = <<>>
  /\ UNCHANGED <<wire, closed, calls, reader, peeked>>

\* read_n: recv() of at most what is missing; then the text without its CRLF
ReadN ==
  /\ pc = "block" /\ inbuf # <<>>
  /\ LET k == IF Len(inbuf) < need THEN Len(inbuf) ELSE need
         got == block \o SubSeq(inbuf, 1, k)
     IN  /\ inbuf' = SubSeq(inbuf, k + 1, Len(inbuf))
         /\ IF k < need
            THEN block' = got /\ need' = need - k /\ UNCHANGED <<pc, left, data, outs>>
            ELSE block' = <<>> /\ GotText(SubSeq(got, 1, Len(got) - 2))
  /\ UNCHANGED <<wire, closed, calls, reader, peeked, line>>

Step == PeekType \/ Peek \/ Take \/ ReadN \/ Closed
Arrive == \E k \in 1 .. Len(wire) : Deliver(k)

Next == Step \/ Arrive \/ Close \/ \E p \in (IF calls = <<>> THEN Pairs ELSE Later) : Receive(p)

Spec == Init /\ [][Next]_vars

\* What was sent arrives unless the connection ends, and the caller runs on
FairSpec == Spec /\ WF_vars(Step) /\ WF_vars(Arrive)

-----------------------------------------------------------------------------
\* The reader's state is what its functions can be in
TypeOK ==
  /\ pc \in {"idle", "type", "peek", "take", "block", "broken"}
  /\ reader \in Readers \cup {"error"} /\ closed \in BOOLEAN
  /\ need \in Nat /\ left \in Nat
  /\ Len(outs) <= Len(calls) /\ Len(calls) <= MaxRecv

\* One call consumes one reply to its last byte, whether it returns or throws and
\* however the bytes arrive.  The calls Leaves() names are exactly those that
\* leave something in the socket for the next one to find.
OneReplyPerCall ==
  /\ TypeOK
  /\ (pc = "idle" /\ ~closed) => (inbuf \o wire = <<>> <=> ~Cut)

\* What a call returns is what RedisReply says of its reply
TextOf(x) == IF x = missing_value THEN Sentinel ELSE Texts[x]
OutcomesRight ==
  \A k \in DOMAIN outs :
    LET o == Outcome(calls[k].reader, calls[k].reply)
    IN  outs[k] = [o EXCEPT !.data = [j \in DOMAIN o.data |-> TextOf(o.data[j])]]

\* Every call returns or throws (liveness): read_line finds its delimiter, read_n
\* its bytes, or recv() reports the end
CallEnds == (pc # "idle") ~> (pc \in {"idle", "broken"})
=============================================================================
