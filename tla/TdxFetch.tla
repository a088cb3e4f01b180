------------------------------ MODULE TdxFetch ------------------------------
(***************************************************************************)
(* The transport of TDXHQ_GetSecurityBars: one request and one reply after *)
(* another on the byte stream of one connection.                           *)
(*                                                                         *)
(* The stream from the server is described by offsets only.  Reply k       *)
(* occupies endOf[k-1] .. endOf[k]-1: a head of HeadLen bytes that holds   *)
(* the length of the body (wZipedSize), then the body.  rpos is the number *)
(* of bytes the client has taken.  recv() returns any non-empty part of    *)
(* what it asks for.  A head read at an offset where no reply starts is    *)
(* made of other bytes and yields an arbitrary length.                     *)
(***************************************************************************)
EXTENDS Integers

CONSTANTS
  HeadLen,       \* size of recvHead (0x10 in the code)
  Sizes,         \* body lengths the server sends
  GarbageSizes,  \* lengths that misread heads may hold
  MaxReq,        \* bound: number of calls made on the connection
  CallerClears   \* the caller zeroes szResult before every call

ASSUME FetchAssumption ==
  /\ HeadLen \in Nat \ {0}
  /\ Sizes \subseteq Nat \ {0}
  /\ GarbageSizes \subseteq Nat
  /\ MaxReq \in Nat
  /\ CallerClears \in BOOLEAN

Calls == 1 .. MaxReq

\* Return codes of TDXHQ.h; 0 before the first call
TDXHQ_ERROR_OK   == -1
TDXHQ_ERROR_SEND == -2
TDXHQ_ERROR_RECV == -3
TDXHQ_ERROR_CONT == -4

\* What szResult may hold besides the number of a reply
Empty   == 0
Garbage == -1

VARIABLES
  sock,     \* "up"; "closed", "reset" by the server; "invalid" after DisConnect
  req,      \* number of calls made so far; the number of the current request
  nrep,     \* number of replies written by the server
  endOf,    \* [0..MaxReq -> end offset of each reply]
  cut,      \* bytes at the end of the stream that a close kept from the client
  rpos,     \* bytes taken from the stream
  pc,       \* "idle", "head" (first recv), "body" (the do-while loop)
  wZipedSize,
  got,      \* bfRecvedBody.size()
  cur,      \* the reply whose head was read, 0 for bytes that are no head
  ret,      \* what the last call returned
  result,   \* the reply szResult was filled from, Empty or Garbage
  short,    \* history: some head was cut by recv()
  fault     \* the process died

vars == <<sock, req, nrep, endOf, cut, rpos, pc, wZipedSize, got, cur, ret,
          result, short, fault>>

TypeOK ==
  /\ sock \in {"up", "closed", "reset", "invalid"}
  /\ req \in 0 .. MaxReq
  /\ nrep \in 0 .. MaxReq
  /\ endOf \in [0 .. MaxReq -> Nat]
  /\ cut \in Nat
  /\ rpos \in Nat
  /\ pc \in {"idle", "head", "body"}
  /\ wZipedSize \in Nat
  /\ got \in Nat
  /\ cur \in 0 .. MaxReq
  /\ ret \in {0, TDXHQ_ERROR_OK, TDXHQ_ERROR_SEND, TDXHQ_ERROR_RECV,
              TDXHQ_ERROR_CONT}
  /\ result \in Calls \cup {Empty, Garbage}
  /\ short \in BOOLEAN
  /\ fault \in BOOLEAN

Init ==
  /\ sock = "up"
  /\ req = 0 /\ nrep = 0
  /\ endOf = [k \in 0 .. MaxReq |-> 0]
  /\ cut = 0 /\ rpos = 0
  /\ pc = "idle"
  /\ wZipedSize = 0 /\ got = 0 /\ cur = 0
  /\ ret = 0
  /\ result = Empty
  /\ short = FALSE
  /\ fault = FALSE

(* Bytes of the stream the client can still take.                           *)
Avail == endOf[nrep] - cut - rpos

(* What szResult holds when the call is made.                               *)
Buffer == IF CallerClears THEN Empty ELSE result

-----------------------------------------------------------------------------
(* The server.                                                              *)

(* The server answers the oldest unanswered request.                        *)
Reply(size) ==
  /\ sock = "up" /\ nrep < req
  /\ nrep' = nrep + 1
  /\ endOf' = [endOf EXCEPT ![nrep + 1] = endOf[nrep] + HeadLen + size]
  /\ UNCHANGED <<sock, cut, req, rpos, pc, wZipedSize, got, cur, ret, result,
                 short, fault>>

(* It closes the connection, perhaps in the middle of a reply: what was     *)
(* sent can still be read.                                                  *)
PeerClose ==
  /\ sock = "up"
  /\ sock' = "closed"
  /\ cut' \in 0 .. Avail
  /\ UNCHANGED <<req, nrep, endOf, rpos, pc, wZipedSize, got, cur, ret, result,
                 short, fault>>

(* The connection is reset: unread bytes are lost.                          *)
PeerReset ==
  /\ sock \in {"up", "closed"}
  /\ sock' = "reset"
  /\ UNCHANGED <<req, nrep, endOf, cut, rpos, pc, wZipedSize, got, cur, ret,
                 result, short, fault>>

-----------------------------------------------------------------------------
(* The client: TDXHQ_GetSecurityBars.                                       *)

Returns(code) == ret' = code /\ pc' = "idle"

(* skHQ[connectID] is INVALID_SOCKET.                                       *)
CallNoSocket ==
  /\ pc = "idle" /\ ~fault /\ req < MaxReq
  /\ sock = "invalid"
  /\ req' = req + 1
  /\ result' = Buffer
  /\ Returns(TDXHQ_ERROR_CONT)
  /\ UNCHANGED <<sock, nrep, endOf, cut, rpos, wZipedSize, got, cur, short,
                 fault>>

(* send() takes the whole request.                                          *)
CallSend ==
  /\ pc = "idle" /\ ~fault /\ req < MaxReq
  /\ sock # "invalid"
  /\ req' = req + 1
  /\ result' = Buffer
  /\ pc' = "head"
  /\ UNCHANGED <<sock, nrep, endOf, cut, rpos, wZipedSize, got, cur, ret,
                 short, fault>>

(* send() fails: "the server dropped the line".                             *)
CallSendFails ==
  /\ pc = "idle" /\ ~fault /\ req < MaxReq
  /\ sock \in {"closed", "reset"}
  /\ req' = req + 1
  /\ result' = Buffer
  /\ Returns(TDXHQ_ERROR_SEND)
  /\ UNCHANGED <<sock, nrep, endOf, cut, rpos, wZipedSize, got, cur, short,
                 fault>>

(* recv() returns the whole head: the length it holds is that of the reply  *)
(* that starts here, or arbitrary when none does.                           *)
HeadRecv ==
  /\ pc = "head" /\ ~fault /\ sock # "reset"
  /\ HeadLen <= Avail
  /\ rpos' = rpos + HeadLen
  /\ \/ \E k \in 1 .. nrep :
          /\ endOf[k - 1] = rpos
          /\ cur' = k
          /\ wZipedSize' = endOf[k] - endOf[k - 1] - HeadLen
     \/ /\ \A k \in 1 .. nrep : endOf[k - 1] # rpos
        /\ cur' = 0
        /\ wZipedSize' \in GarbageSizes
  /\ got' = 0
  /\ pc' = "body"
  /\ UNCHANGED <<sock, req, nrep, endOf, cut, ret, result, short, fault>>

(* recv() returns only part of the head: the call fails, the rest of the    *)
(* reply stays in the stream.                                               *)
HeadShort(n) ==
  /\ pc = "head" /\ ~fault /\ sock # "reset"
  /\ n <= Avail
  /\ rpos' = rpos + n
  /\ short' = TRUE
  /\ Returns(TDXHQ_ERROR_RECV)
  /\ UNCHANGED <<sock, req, nrep, endOf, cut, wZipedSize, got, cur, result,
                 fault>>

(* Mutant: the head is awaited again when recv() returns 0.                 *)
HeadGoneRetries ==
  /\ pc = "head" /\ ~fault
  /\ sock = "reset"
  /\ Returns(TDXHQ_ERROR_RECV)
  /\ UNCHANGED <<sock, req, nrep, endOf, cut, rpos, wZipedSize, got, cur,
                 result, short, fault>>

(* recv() returns 0 or SOCKET_ERROR for the head.                           *)
HeadGone ==
  /\ pc = "head" /\ ~fault
  /\ sock = "reset" \/ (sock = "closed" /\ Avail = 0)
  /\ Returns(TDXHQ_ERROR_RECV)
  /\ UNCHANGED <<sock, req, nrep, endOf, cut, rpos, wZipedSize, got, cur,
                 result, short, fault>>

(* One round of the loop that does not end it.  Every round asks for        *)
(* wZipedSize bytes again, and the loop goes on when there are too many.    *)
BodyRecv(n) ==
  /\ pc = "body" /\ ~fault /\ sock # "reset"
  /\ n <= wZipedSize /\ n <= Avail
  /\ got + n # wZipedSize
  /\ rpos' = rpos + n
  /\ got' = got + n
  /\ UNCHANGED <<sock, req, nrep, endOf, cut, pc, wZipedSize, cur, ret, result,
                 short, fault>>

(* Mutant: the first recv() that returns data ends the loop.                *)
BodyDoneAtOnce(n) ==
  /\ pc = "body" /\ ~fault /\ sock # "reset"
  /\ n <= wZipedSize /\ n <= Avail
  /\ rpos' = rpos + n
  /\ got' = got + n
  /\ result' = IF cur = 0 THEN Garbage ELSE cur
  /\ Returns(TDXHQ_ERROR_OK)
  /\ UNCHANGED <<sock, req, nrep, endOf, cut, wZipedSize, cur, short, fault>>

(* The body is complete: it is unpacked, decoded and copied to szResult.    *)
(* Bytes that are no reply decode to anything.                              *)
BodyDone(n) ==
  /\ pc = "body" /\ ~fault /\ sock # "reset"
  /\ n <= wZipedSize /\ n <= Avail
  /\ got + n = wZipedSize
  /\ rpos' = rpos + n
  /\ got' = got + n
  /\ result' = IF cur = 0 THEN Garbage ELSE cur
  /\ Returns(TDXHQ_ERROR_OK)
  /\ UNCHANGED <<sock, req, nrep, endOf, cut, wZipedSize, cur, short, fault>>

(* Decoding bytes that are no reply runs past UzipedData or szResult.       *)
BodyOverrun(n) ==
  /\ pc = "body" /\ ~fault /\ sock # "reset"
  /\ n <= wZipedSize /\ n <= Avail
  /\ got + n = wZipedSize
  /\ cur = 0
  /\ fault' = TRUE
  /\ UNCHANGED <<sock, req, nrep, endOf, cut, rpos, pc, wZipedSize, got, cur,
                 ret, result, short>>

(* Mutant: a recv() of 0 is not told apart; bfRecvedBody.read() of the      *)
(* missing bytes throws.                                                    *)
BodyGoneUnchecked ==
  /\ pc = "body" /\ ~fault /\ sock # "reset"
  /\ wZipedSize = 0 \/ (sock = "closed" /\ Avail = 0)
  /\ fault' = TRUE
  /\ UNCHANGED <<sock, req, nrep, endOf, cut, rpos, pc, wZipedSize, got, cur,
                 ret, result, short>>

(* recv() returns 0: the server has closed, or zero bytes were asked for.   *)
BodyGone ==
  /\ pc = "body" /\ ~fault /\ sock # "reset"
  /\ wZipedSize = 0 \/ (sock = "closed" /\ Avail = 0)
  /\ Returns(TDXHQ_ERROR_RECV)
  /\ UNCHANGED <<sock, req, nrep, endOf, cut, rpos, wZipedSize, got, cur,
                 result, short, fault>>

(* recv() returns SOCKET_ERROR, which is passed on as a length to append(). *)
BodyReset ==
  /\ pc = "body" /\ ~fault /\ sock = "reset"
  /\ fault' = TRUE
  /\ UNCHANGED <<sock, req, nrep, endOf, cut, rpos, pc, wZipedSize, got, cur,
                 ret, result, short>>

(* TDXHQ_DisConnect between two calls.                                      *)
DisConnect ==
  /\ pc = "idle" /\ ~fault
  /\ sock # "invalid"
  /\ sock' = "invalid"
  /\ UNCHANGED <<req, nrep, endOf, cut, rpos, pc, wZipedSize, got, cur, ret,
                 result, short, fault>>

Call == CallNoSocket \/ CallSend \/ CallSendFails

Receive ==
  \/ HeadRecv
  \/ \E n \in 1 .. HeadLen - 1 : HeadShort(n)
  \/ HeadGone
  \/ \E n \in 1 .. wZipedSize : BodyRecv(n) \/ BodyDone(n) \/ BodyOverrun(n)
  \/ BodyGone \/ BodyReset

Server == (\E size \in Sizes : Reply(size)) \/ PeerClose \/ PeerReset

Next == Call \/ Receive \/ DisConnect \/ Server

Spec == Init /\ [][Next]_vars

(* The thread runs, recv() returns when there is something to return, and   *)
(* a server whose connection is up answers.                                 *)
FairSpec ==
  Spec /\ WF_vars(Receive) /\ WF_vars(\E size \in Sizes : Reply(size))

-----------------------------------------------------------------------------
(* As long as no head was cut, a call that returns OK has filled szResult   *)
(* from the reply to its own request: drops, resets and failed sends leave  *)
(* nothing behind that a later call could take for its answer.              *)
InSyncResult ==
  pc = "idle" /\ ret = TDXHQ_ERROR_OK /\ ~short => result = req

(* As long as no head was cut, the body loop has not passed its end: the    *)
(* test bfRecvedBody.size() != wZipedSize can still become false although   *)
(* every round asks for wZipedSize bytes.                                   *)
LoopCanEnd ==
  pc = "body" /\ ~short => got < wZipedSize

(* Apart from misread heads only a reset in the middle of a body is fatal   *)
(* (recv()'s -1 becomes a length); a reset anywhere else is an error code.  *)
FaultOnlyByReset ==
  fault => short \/ (sock = "reset" /\ pc = "body")

(* A connection that was down when a call began stays down: no later call   *)
(* on it returns OK (nothing in the host program ever replaces it).         *)
DropIsFinal ==
  \A r \in 0 .. MaxReq :
    []((pc = "idle" /\ req = r /\ sock # "up" /\ ~short)
         => [](pc = "idle" /\ req > r /\ ~short => ret # TDXHQ_ERROR_OK))

(* "Empty string on error" holds for callers that zero the buffer before    *)
(* the call, as CQuotation::Run does.                                       *)
ErrorLeavesEmpty ==
  CallerClears /\ pc = "idle"
  /\ ret \in {TDXHQ_ERROR_SEND, TDXHQ_ERROR_RECV, TDXHQ_ERROR_CONT}
    => result = Empty

(* "Result holds the data returned for the query": a call that returns OK   *)
(* has filled szResult from the reply to its own request.                   *)
ResultMatchesRequest ==
  pc = "idle" /\ ret = TDXHQ_ERROR_OK => result = req

(* As long as no head was cut every call returns, however the reply is      *)
(* split and whether or not the server stays.                               *)
CallReturns ==
  pc # "idle" ~> (pc = "idle" \/ fault \/ short)
=============================================================================
