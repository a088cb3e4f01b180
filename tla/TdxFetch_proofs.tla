--------------------------- MODULE TdxFetch_proofs ---------------------------
(***************************************************************************)
(* Proofs about the transport, for any head length, body lengths, number   *)
(* of calls and way the stream is split.                                   *)
(***************************************************************************)
EXTENDS TdxFetch, TLAPS

(* Replies lie one behind the other, each longer than a head.               *)
Layout ==
  /\ nrep <= req
  /\ \A i, j \in 0 .. nrep : i < j => endOf[i] + HeadLen < endOf[j]
  /\ rpos + cut <= endOf[nrep]
  /\ sock = "up" => cut = 0

(* Between calls nothing readable is left in the stream, and a server that  *)
(* is up owes no reply.                                                     *)
IdleSync ==
  pc = "idle" =>
    /\ sock \in {"up", "closed"} => Avail = 0
    /\ sock = "up" => nrep = req
    /\ ret = TDXHQ_ERROR_OK => result = req

(* While the head is awaited the stream is at the start of the current      *)
(* reply, written or not.                                                   *)
HeadSync ==
  pc = "head" =>
    /\ req >= 1 /\ sock # "invalid"
    /\ sock = "up" => nrep >= req - 1
    /\ sock \in {"up", "closed"} =>
         \/ nrep = req /\ rpos = endOf[req - 1]
         \/ nrep < req /\ Avail = 0

(* While the body is read it is that of the current request.                *)
BodySync ==
  pc = "body" =>
    /\ req >= 1 /\ nrep = req /\ cur = req /\ sock # "invalid"
    /\ wZipedSize = endOf[req] - endOf[req - 1] - HeadLen
    /\ rpos = endOf[req - 1] + HeadLen + got
    /\ got < wZipedSize

(* The inductive invariant: synchronisation until a head is cut.            *)
FetchInv ==
  /\ TypeOK
  /\ Layout
  /\ ~short => IdleSync /\ HeadSync /\ BodySync
  /\ FaultOnlyByReset

LEMMA InitFetchInv == Init => FetchInv
<1> SUFFICES ASSUME Init PROVE FetchInv
  OBVIOUS
<1> USE FetchAssumption
<1>1. TypeOK
  <2>1. short \in BOOLEAN /\ fault \in BOOLEAN
    BY DEF Init
  <2>2. endOf \in [0 .. MaxReq -> Nat] /\ req \in 0 .. MaxReq
    BY DEF Init
  <2>3. QED
    BY <2>1, <2>2 DEF Init, TypeOK
<1>2. Layout
  BY DEF Init, Layout
<1>3. IdleSync /\ HeadSync /\ BodySync
  BY DEF Init, IdleSync, HeadSync, BodySync, Avail, TDXHQ_ERROR_OK
<1>4. QED
  BY <1>1, <1>2, <1>3 DEF FetchInv, FaultOnlyByReset, Init

(* A step that leaves the stream, the loop and the connection alone leaves  *)
(* the layout alone.                                                        *)
LEMMA LayoutStable ==
  ASSUME Layout, TypeOK, UNCHANGED <<sock, nrep, endOf, cut, rpos>>,
         req' \in {req, req + 1}
  PROVE  Layout'
  BY DEF Layout, TypeOK

LEMMA NextFetchInv == FetchInv /\ [Next]_vars => FetchInv'
<1> SUFFICES ASSUME FetchInv, [Next]_vars PROVE FetchInv'
  OBVIOUS
<1> USE FetchAssumption
<1>0. TypeOK /\ Layout /\ FaultOnlyByReset
  BY DEF FetchInv
<1>1. ASSUME NEW size \in Sizes, Reply(size) PROVE FetchInv'
  <2>1. TypeOK'
    BY <1>0, <1>1 DEF TypeOK, Reply
  <2>2. /\ nrep' = nrep + 1 /\ nrep + 1 \in 0 .. MaxReq /\ req' = req
        /\ endOf'[nrep + 1] = endOf[nrep] + HeadLen + size
        /\ \A i \in 0 .. nrep : endOf'[i] = endOf[i]
        /\ nrep + 1 <= req
    BY <1>0, <1>1 DEF TypeOK, Reply
  <2>3. Layout'
    <3>1. ASSUME NEW i \in 0 .. nrep', NEW j \in 0 .. nrep', i < j
          PROVE  endOf'[i] + HeadLen < endOf'[j]
      <4>1. CASE j <= nrep
        <5>1. i \in 0 .. nrep /\ j \in 0 .. nrep /\ i < j
          BY <1>0, <2>2, <3>1, <4>1 DEF TypeOK
        <5>2. endOf[i] + HeadLen < endOf[j]
          BY <1>0, <5>1 DEF Layout
        <5>3. QED
          BY <2>2, <5>1, <5>2
      <4>2. CASE j = nrep + 1
        <5>1. endOf[i] <= endOf[nrep]
          BY <1>0, <2>2, <3>1, <4>2 DEF TypeOK, Layout
        <5>2. QED
          BY <1>0, <2>2, <3>1, <4>2, <5>1 DEF TypeOK
      <4>3. QED
        BY <1>0, <2>2, <3>1, <4>1, <4>2 DEF TypeOK
    <3>2. rpos' + cut' <= endOf'[nrep']
      BY <1>0, <1>1, <2>2 DEF TypeOK, Layout, Reply
    <3>3. QED
      BY <1>0, <1>1, <2>2, <3>1, <3>2 DEF Layout, Reply
  <2>4. ~short' => IdleSync' /\ HeadSync' /\ BodySync'
    <3> SUFFICES ASSUME ~short PROVE IdleSync' /\ HeadSync' /\ BodySync'
      BY <1>1 DEF Reply
    <3>1. pc = "head" /\ nrep = req - 1 /\ rpos = endOf[nrep] /\ sock = "up"
      BY <1>0, <1>1
      DEF FetchInv, IdleSync, HeadSync, BodySync, Avail, TypeOK, Layout, Reply
    <3>2. QED
      BY <1>0, <1>1, <2>2, <3>1
      DEF IdleSync, HeadSync, BodySync, TypeOK, Reply
  <2>5. QED
    BY <1>0, <1>1, <2>1, <2>3, <2>4 DEF FetchInv, FaultOnlyByReset, Reply
<1>2. CASE PeerClose
  <2>1. TypeOK'
    BY <1>0, <1>2 DEF TypeOK, PeerClose, Avail
  <2>2. Layout'
    BY <1>0, <1>2 DEF TypeOK, Layout, PeerClose, Avail
  <2>3. ~short' => IdleSync' /\ HeadSync' /\ BodySync'
    <3> SUFFICES ASSUME ~short PROVE IdleSync' /\ HeadSync' /\ BodySync'
      BY <1>2 DEF PeerClose
    <3>1. IdleSync'
      BY <1>0, <1>2
      DEF FetchInv, IdleSync, TypeOK, Layout, PeerClose, Avail
    <3>2. HeadSync'
      BY <1>0, <1>2
      DEF FetchInv, HeadSync, TypeOK, Layout, PeerClose, Avail
    <3>3. BodySync'
      BY <1>2 DEF FetchInv, BodySync, PeerClose
    <3>4. QED
      BY <3>1, <3>2, <3>3
  <2>4. QED
    BY <1>0, <1>2, <2>1, <2>2, <2>3 DEF FetchInv, FaultOnlyByReset, PeerClose
<1>3. CASE PeerReset
  <2>1. TypeOK'
    BY <1>0, <1>3 DEF TypeOK, PeerReset
  <2>2. Layout'
    BY <1>0, <1>3 DEF Layout, PeerReset
  <2>3. ~short' => IdleSync' /\ HeadSync' /\ BodySync'
    BY <1>3 DEF FetchInv, IdleSync, HeadSync, BodySync, PeerReset
  <2>4. QED
    BY <1>0, <1>3, <2>1, <2>2, <2>3 DEF FetchInv, FaultOnlyByReset, PeerReset
<1>4. CASE CallNoSocket \/ CallSendFails
  <2>0. /\ pc = "idle" /\ pc' = "idle" /\ ~fault /\ fault' = fault
        /\ sock # "up" /\ ret' # TDXHQ_ERROR_OK /\ short' = short
        /\ UNCHANGED <<sock, nrep, endOf, cut, rpos>> /\ req' = req + 1
    BY <1>4
    DEF CallNoSocket, CallSendFails, Returns, TDXHQ_ERROR_OK,
        TDXHQ_ERROR_CONT, TDXHQ_ERROR_SEND
  <2>1. TypeOK'
    <3>1. result' \in Calls \cup {Empty, Garbage}
      BY <1>0, <1>4 DEF TypeOK, CallNoSocket, CallSendFails, Buffer
    <3>2. QED
      BY <1>0, <1>4, <3>1 DEF TypeOK, CallNoSocket, CallSendFails, Returns
  <2>2. Layout'
    BY <1>0, <2>0, LayoutStable
  <2>3. ~short' => IdleSync' /\ HeadSync' /\ BodySync'
    BY <2>0 DEF FetchInv, IdleSync, HeadSync, BodySync, Avail
  <2>4. QED
    BY <2>0, <2>1, <2>2, <2>3 DEF FetchInv, FaultOnlyByReset
<1>5. CASE CallSend
  <2>0. /\ pc = "idle" /\ pc' = "head" /\ ~fault /\ fault' = fault
        /\ sock # "invalid" /\ short' = short
        /\ UNCHANGED <<sock, nrep, endOf, cut, rpos>> /\ req' = req + 1
    BY <1>5 DEF CallSend
  <2>1. TypeOK'
    <3>1. result' \in Calls \cup {Empty, Garbage}
      BY <1>0, <1>5 DEF TypeOK, CallSend, Buffer
    <3>2. QED
      BY <1>0, <1>5, <3>1 DEF TypeOK, CallSend
  <2>2. Layout'
    BY <1>0, <2>0, LayoutStable
  <2>3. ~short' => IdleSync' /\ HeadSync' /\ BodySync'
    BY <1>0, <2>0
    DEF FetchInv, IdleSync, HeadSync, BodySync, Avail, TypeOK, Layout
  <2>4. QED
    BY <2>0, <2>1, <2>2, <2>3 DEF FetchInv, FaultOnlyByReset
<1>6. CASE HeadRecv
  <2>0. /\ pc = "head" /\ pc' = "body" /\ sock # "reset" /\ HeadLen <= Avail
        /\ rpos' = rpos + HeadLen /\ got' = 0
        /\ UNCHANGED <<sock, req, nrep, endOf, cut, ret, result, short, fault>>
    BY <1>6 DEF HeadRecv
  <2>1. cur' \in 0 .. MaxReq /\ wZipedSize' \in Nat
    <3>1. CASE \E k \in 1 .. nrep :
                 /\ endOf[k - 1] = rpos
                 /\ cur' = k
                 /\ wZipedSize' = endOf[k] - endOf[k - 1] - HeadLen
      BY <1>0, <3>1 DEF TypeOK, Layout
    <3>2. CASE cur' = 0 /\ wZipedSize' \in GarbageSizes
      BY <3>2
    <3>3. QED
      BY <1>6, <3>1, <3>2 DEF HeadRecv
  <2>2. TypeOK'
    BY <1>0, <2>0, <2>1 DEF TypeOK
  <2>3. Layout'
    BY <1>0, <2>0 DEF TypeOK, Layout, Avail
  <2>4. ~short' => IdleSync' /\ HeadSync' /\ BodySync'
    <3> SUFFICES ASSUME ~short PROVE BodySync'
      BY <2>0 DEF IdleSync, HeadSync
    <3>1. nrep = req /\ rpos = endOf[req - 1] /\ req >= 1 /\ sock # "invalid"
      BY <1>0, <2>0 DEF FetchInv, HeadSync, TypeOK
    <3>2. \A k \in 1 .. nrep : endOf[k - 1] = rpos => k = req
      BY <1>0, <3>1 DEF TypeOK, Layout
    <3>3. cur' = req /\ wZipedSize' = endOf[req] - endOf[req - 1] - HeadLen
      BY <1>0, <1>6, <3>1, <3>2 DEF HeadRecv, TypeOK
    <3>4. endOf[req - 1] + HeadLen < endOf[req]
      BY <1>0, <3>1 DEF TypeOK, Layout
    <3>5. QED
      BY <1>0, <2>0, <3>1, <3>3, <3>4 DEF BodySync, TypeOK
  <2>5. QED
    BY <1>0, <1>6, <2>0, <2>2, <2>3, <2>4
    DEF FetchInv, FaultOnlyByReset, HeadRecv
<1>7. ASSUME NEW n \in 1 .. HeadLen - 1, HeadShort(n) PROVE FetchInv'
  <2>1. TypeOK'
    BY <1>0, <1>7 DEF TypeOK, HeadShort, Returns
  <2>2. Layout'
    BY <1>0, <1>7 DEF TypeOK, Layout, HeadShort, Avail
  <2>3. QED
    BY <1>7, <2>1, <2>2 DEF FetchInv, FaultOnlyByReset, HeadShort
<1>8. CASE HeadGone \/ BodyGone
  <2>0. /\ pc # "idle" /\ pc' = "idle" /\ ~fault /\ fault' = fault
        /\ ret' # TDXHQ_ERROR_OK /\ short' = short
        /\ \/ pc = "head" /\ sock = "reset"
           \/ sock = "closed" /\ Avail = 0
           \/ pc = "body" /\ wZipedSize = 0
        /\ UNCHANGED <<sock, req, nrep, endOf, cut, rpos, wZipedSize, got>>
    BY <1>8 DEF HeadGone, BodyGone, Returns, TDXHQ_ERROR_OK, TDXHQ_ERROR_RECV
  <2>1. TypeOK'
    BY <1>0, <1>8 DEF TypeOK, HeadGone, BodyGone, Returns
  <2>2. Layout'
    BY <1>0, <2>0, LayoutStable
  <2>3. ~short' => IdleSync' /\ HeadSync' /\ BodySync'
    <3> SUFFICES ASSUME ~short PROVE IdleSync'
      BY <2>0 DEF HeadSync, BodySync
    <3>1. pc = "body" => wZipedSize # 0
      BY <1>0 DEF FetchInv, BodySync, TypeOK
    <3>2. QED
      BY <2>0, <3>1 DEF IdleSync, Avail
  <2>4. QED
    BY <2>0, <2>1, <2>2, <2>3 DEF FetchInv, FaultOnlyByReset
<1>9. ASSUME NEW n \in 1 .. wZipedSize, BodyRecv(n) PROVE FetchInv'
  <2>0. n \in Nat
    BY <1>0 DEF TypeOK
  <2>1. TypeOK'
    BY <1>0, <1>9, <2>0 DEF TypeOK, BodyRecv
  <2>2. Layout'
    BY <1>0, <1>9, <2>0 DEF TypeOK, Layout, BodyRecv, Avail
  <2>3. ~short' => IdleSync' /\ HeadSync' /\ BodySync'
    <3> SUFFICES ASSUME ~short PROVE BodySync'
      BY <1>9 DEF BodyRecv, IdleSync, HeadSync
    <3>1. /\ BodySync /\ pc = "body"
          /\ req >= 1 /\ nrep = req /\ cur = req /\ sock # "invalid"
          /\ wZipedSize = endOf[req] - endOf[req - 1] - HeadLen
          /\ rpos = endOf[req - 1] + HeadLen + got
          /\ got < wZipedSize
      BY <1>9 DEF FetchInv, BodySync, BodyRecv
    <3>b. /\ rpos \in Nat /\ got \in Nat /\ wZipedSize \in Nat /\ cut \in Nat
           /\ rpos' = rpos + n /\ got' = got + n
           /\ UNCHANGED <<sock, req, nrep, endOf, cut, wZipedSize, cur>>
      BY <1>0, <1>9 DEF TypeOK, BodyRecv
    <3>a. endOf[req] \in Nat /\ endOf[req - 1] \in Nat /\ req' = req /\ nrep = req
      <4>1. req \in 0 .. MaxReq /\ req - 1 \in 0 .. MaxReq
        BY <1>0, <3>1 DEF BodySync, TypeOK
      <4>2. QED
        BY <1>0, <1>9, <3>1, <4>1 DEF BodySync, TypeOK, BodyRecv
    <3>2. got + n < wZipedSize
      <4>1. Avail <= wZipedSize - got
        BY <3>1, <3>a, <3>b DEF Avail
      <4>2. QED
        BY <1>9, <2>0, <3>a, <3>b, <4>1 DEF BodyRecv, Avail
    <3>3. QED
      BY <2>0, <3>1, <3>a, <3>b, <3>2 DEF BodySync
  <2>4. QED
    BY <1>9, <2>1, <2>2, <2>3 DEF FetchInv, FaultOnlyByReset, BodyRecv
<1>10. ASSUME NEW n \in 1 .. wZipedSize, BodyDone(n) PROVE FetchInv'
  <2>0. n \in Nat
    BY <1>0 DEF TypeOK
  <2>1. TypeOK'
    <3>1. result' \in Calls \cup {Empty, Garbage}
      BY <1>0, <1>10 DEF TypeOK, BodyDone, Calls
    <3>2. QED
      BY <1>0, <1>10, <2>0, <3>1 DEF TypeOK, BodyDone, Returns
  <2>2. Layout'
    BY <1>0, <1>10, <2>0 DEF TypeOK, Layout, BodyDone, Avail
  <2>3. ~short' => IdleSync' /\ HeadSync' /\ BodySync'
    <3> SUFFICES ASSUME ~short PROVE IdleSync'
      BY <1>10 DEF BodyDone, Returns, HeadSync, BodySync
    <3>1. /\ BodySync /\ pc = "body"
          /\ req >= 1 /\ nrep = req /\ cur = req /\ sock # "invalid"
          /\ wZipedSize = endOf[req] - endOf[req - 1] - HeadLen
          /\ rpos = endOf[req - 1] + HeadLen + got
          /\ got < wZipedSize
      BY <1>10 DEF FetchInv, BodySync, BodyDone
    <3>b. /\ rpos \in Nat /\ got \in Nat /\ wZipedSize \in Nat /\ cut \in Nat
           /\ rpos' = rpos + n /\ got' = got + n
           /\ UNCHANGED <<sock, req, nrep, endOf, cut, wZipedSize, cur>>
      BY <1>0, <1>10 DEF TypeOK, BodyDone
    <3>a. endOf[req] \in Nat /\ endOf[req - 1] \in Nat /\ req' = req /\ nrep = req
      <4>1. req \in 0 .. MaxReq /\ req - 1 \in 0 .. MaxReq
        BY <1>0, <3>1 DEF BodySync, TypeOK
      <4>2. QED
        BY <1>0, <1>10, <3>1, <4>1 DEF BodySync, TypeOK, BodyDone
    <3>2. result' = req /\ req' = req /\ nrep' = nrep /\ nrep = req
      BY <1>10, <3>1 DEF BodyDone, BodySync, TypeOK
    <3>3. rpos' = endOf[nrep]
      <4>1. got + n = wZipedSize
        BY <1>10 DEF BodyDone
      <4>2. QED
        BY <2>0, <3>1, <3>a, <3>b, <4>1
    <3>4. Avail' = 0
      BY <1>0, <1>10, <2>2, <3>3 DEF BodyDone, Layout, Avail, TypeOK
    <3>5. QED
      BY <3>2, <3>4 DEF IdleSync
  <2>4. QED
    BY <1>10, <2>1, <2>2, <2>3 DEF FetchInv, FaultOnlyByReset, BodyDone
<1>11. ASSUME NEW n \in 1 .. wZipedSize, BodyOverrun(n) PROVE FetchInv'
  <2>1. short
    BY <1>0, <1>11 DEF FetchInv, BodySync, TypeOK, BodyOverrun
  <2>2. TypeOK'
    BY <1>0, <1>11 DEF TypeOK, BodyOverrun
  <2>3. Layout'
    BY <1>0, <1>11, LayoutStable DEF BodyOverrun
  <2>4. QED
    BY <1>11, <2>1, <2>2, <2>3 DEF FetchInv, FaultOnlyByReset, BodyOverrun
<1>12. CASE BodyReset
  <2>1. TypeOK'
    BY <1>0, <1>12 DEF TypeOK, BodyReset
  <2>2. Layout'
    BY <1>0, <1>12, LayoutStable DEF BodyReset
  <2>3. ~short' => IdleSync' /\ HeadSync' /\ BodySync'
    BY <1>12 DEF FetchInv, IdleSync, HeadSync, BodySync, BodyReset, Avail
  <2>4. QED
    BY <1>12, <2>1, <2>2, <2>3 DEF FetchInv, FaultOnlyByReset, BodyReset
<1>13. CASE DisConnect
  <2>1. TypeOK'
    BY <1>0, <1>13 DEF TypeOK, DisConnect
  <2>2. Layout'
    BY <1>0, <1>13 DEF Layout, DisConnect
  <2>3. ~short' => IdleSync' /\ HeadSync' /\ BodySync'
    BY <1>13 DEF FetchInv, IdleSync, HeadSync, BodySync, DisConnect
  <2>4. QED
    BY <1>13, <2>1, <2>2, <2>3 DEF FetchInv, FaultOnlyByReset, DisConnect
<1>14. CASE UNCHANGED vars
  BY <1>14
  DEF vars, FetchInv, TypeOK, Layout, IdleSync, HeadSync, BodySync, Avail,
      FaultOnlyByReset
<1>15. QED
  BY <1>1, <1>2, <1>3, <1>4, <1>5, <1>6, <1>7, <1>8, <1>9, <1>10, <1>11,
     <1>12, <1>13, <1>14
  DEF Next, Call, Receive, Server

LEMMA FetchInvariant == Spec => []FetchInv
  BY InitFetchInv, NextFetchInv, PTL DEF Spec

(* Every reachable state is well typed.                                     *)
THEOREM FetchTypeCorrect == Spec => []TypeOK
  BY FetchInvariant, PTL DEF FetchInv

(* Until recv() cuts a head, an OK result is the reply to the request just  *)
(* sent, for every splitting of the stream, close and reset.                *)
THEOREM InSyncResultTheorem == Spec => []InSyncResult
<1>1. FetchInv => InSyncResult
  BY DEF FetchInv, IdleSync, InSyncResult
<1>2. QED
  BY <1>1, FetchInvariant, PTL

(* Until recv() cuts a head, the body loop never reads past its end.        *)
THEOREM LoopCanEndTheorem == Spec => []LoopCanEnd
<1>1. FetchInv => LoopCanEnd
  BY DEF FetchInv, BodySync, LoopCanEnd
<1>2. QED
  BY <1>1, FetchInvariant, PTL

(* The process dies only after a cut head or of a reset inside a body.      *)
THEOREM FaultTheorem == Spec => []FaultOnlyByReset
  BY FetchInvariant, PTL DEF FetchInv

(* A running call has not touched szResult; an error return leaves it so.   *)
ErrorInv ==
  /\ CallerClears /\ pc # "idle" => result = Empty
  /\ ErrorLeavesEmpty

(* A caller that zeroes szResult before every call finds it empty after     *)
(* every error, whatever the call got hold of before it failed.             *)
THEOREM ErrorTheorem == Spec => []ErrorLeavesEmpty
<1> USE DEF TDXHQ_ERROR_OK, TDXHQ_ERROR_SEND, TDXHQ_ERROR_RECV, TDXHQ_ERROR_CONT
<1>1. Init => ErrorInv
  BY DEF Init, ErrorInv, ErrorLeavesEmpty
<1>2. TypeOK /\ ErrorInv /\ [Next]_vars => ErrorInv'
  <2> SUFFICES ASSUME TypeOK, ErrorInv, [Next]_vars PROVE ErrorInv'
    OBVIOUS
  <2> USE DEF ErrorInv, ErrorLeavesEmpty
  <2>1. CASE Call
    BY <2>1 DEF Call, CallNoSocket, CallSend, CallSendFails, Returns, Buffer
  <2>2. CASE HeadRecv \/ HeadGone \/ \E n \in 1 .. HeadLen - 1 : HeadShort(n)
    BY <2>2 DEF HeadRecv, HeadGone, HeadShort, Returns
  <2>3. ASSUME NEW n \in 1 .. wZipedSize, BodyRecv(n) \/ BodyDone(n) \/ BodyOverrun(n)
        PROVE  ErrorInv'
    BY <2>3 DEF BodyRecv, BodyDone, BodyOverrun, Returns
  <2>4. CASE BodyGone \/ BodyReset
    BY <2>4 DEF BodyGone, BodyReset, Returns
  <2>5. CASE DisConnect \/ PeerClose \/ PeerReset \/ \E size \in Sizes : Reply(size)
    BY <2>5 DEF DisConnect, PeerClose, PeerReset, Reply
  <2>6. CASE UNCHANGED vars
    BY <2>6 DEF vars
  <2>7. QED
    BY <2>1, <2>2, <2>3, <2>4, <2>5, <2>6 DEF Next, Receive, Server
<1>3. QED
  BY <1>1, <1>2, FetchTypeCorrect, PTL DEF Spec, ErrorInv

-----------------------------------------------------------------------------
(* Call r ended and the connection is down: nothing is left to read, and no  *)
(* call after it can have returned OK.  Kept by every step.                  *)
DownSince(r) ==
  \/ short
  \/ /\ sock # "up" /\ pc \in {"idle", "head"} /\ req >= r
     /\ sock = "closed" => Avail = 0
     /\ pc = "idle" /\ req > r => ret # TDXHQ_ERROR_OK

LEMMA DownStaysDown ==
  ASSUME NEW r \in 0 .. MaxReq, FetchInv, DownSince(r), [Next]_vars
  PROVE  DownSince(r)'
<1> USE FetchAssumption
<1>0. TypeOK /\ Layout
  BY DEF FetchInv
<1>1. CASE short
  <2>1. short'
    BY <1>1 DEF Next, Call, Receive, Server, CallNoSocket, CallSend, CallSendFails,
       HeadRecv, HeadShort, HeadGone, BodyRecv, BodyDone, BodyOverrun, BodyGone,
       BodyReset, DisConnect, Reply, PeerClose, PeerReset, vars
  <2> QED BY <2>1 DEF DownSince
<1>2. CASE ~short
  <2>0. /\ sock # "up" /\ pc \in {"idle", "head"} /\ req >= r
        /\ sock = "closed" => Avail = 0
        /\ pc = "idle" /\ req > r => ret # TDXHQ_ERROR_OK
        /\ pc = "head" => sock # "invalid"
    BY <1>2 DEF DownSince, FetchInv, HeadSync
  <2>1. CASE CallNoSocket \/ CallSendFails
    BY <1>0, <2>0, <2>1 DEF CallNoSocket, CallSendFails, Returns, DownSince, Avail, TypeOK,
       TDXHQ_ERROR_OK, TDXHQ_ERROR_CONT, TDXHQ_ERROR_SEND
  <2>2. CASE CallSend
    BY <1>0, <2>0, <2>2 DEF CallSend, DownSince, Avail, TypeOK
  <2>3. CASE HeadRecv
    BY <1>0, <2>0, <2>3 DEF HeadRecv, TypeOK
  <2>4. CASE \E n \in 1 .. HeadLen - 1 : HeadShort(n)
    BY <2>4 DEF HeadShort, DownSince
  <2>5. CASE HeadGone
    BY <1>0, <2>0, <2>5 DEF HeadGone, Returns, DownSince, Avail, TypeOK,
       TDXHQ_ERROR_OK, TDXHQ_ERROR_RECV
  <2>6. CASE PeerReset \/ DisConnect
    BY <1>0, <2>0, <2>6 DEF PeerReset, DisConnect, DownSince
  <2>7. CASE UNCHANGED vars
    BY <2>0, <2>7 DEF vars, DownSince, Avail
  <2>8. ~PeerClose /\ ~(\E size \in Sizes : Reply(size))
    BY <2>0 DEF PeerClose, Reply
  <2>9. /\ ~(\E n \in 1 .. wZipedSize : BodyRecv(n) \/ BodyDone(n) \/ BodyOverrun(n))
        /\ ~BodyGone /\ ~BodyReset
    BY <2>0 DEF BodyRecv, BodyDone, BodyOverrun, BodyGone, BodyReset
  <2> QED BY <2>1, <2>2, <2>3, <2>4, <2>5, <2>6, <2>7, <2>8, <2>9
          DEF Next, Call, Receive, Server
<1> QED BY <1>1, <1>2

(* A connection that is down between two calls is never healed: as long as  *)
(* no head is cut, no later call on it returns OK.                          *)
THEOREM DropTheorem == Spec => DropIsFinal
<1> SUFFICES ASSUME NEW r \in 0 .. MaxReq
             PROVE  Spec =>
               []((pc = "idle" /\ req = r /\ sock # "up" /\ ~short)
                    => [](pc = "idle" /\ req > r /\ ~short => ret # TDXHQ_ERROR_OK))
  BY DEF DropIsFinal
<1>1. FetchInv /\ (pc = "idle" /\ req = r /\ sock # "up" /\ ~short) => DownSince(r)
  BY FetchAssumption DEF FetchInv, TypeOK, IdleSync, DownSince
<1>2. FetchInv /\ DownSince(r) /\ [Next]_vars => DownSince(r)'
  BY DownStaysDown
<1>3. DownSince(r) => (pc = "idle" /\ req > r /\ ~short => ret # TDXHQ_ERROR_OK)
  BY DEF DownSince
<1> QED BY <1>1, <1>2, <1>3, FetchInvariant, PTL DEF Spec
=============================================================================
