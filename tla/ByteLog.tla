------------------------------- MODULE ByteLog -------------------------------
(***************************************************************************)
(* What users of CByteBuffer rely on: a log of bytes that grows at its end  *)
(* and a cursor from which it is read.  There is no write position, and     *)
(* nothing is said of how bytes are stored.                                 *)
(***************************************************************************)
EXTENDS Integers, Sequences

VARIABLES
  log,     \* the bytes
  cursor,  \* how many of them lie before the place of reading
  out      \* what the last read delivered

logvars == <<log, cursor, out>>

LogInit == log = <<>> /\ cursor = 0 /\ out = <<>>

\* Bytes written go behind all bytes there
Write ==
  /\ Len(log') > Len(log)
  /\ \A k \in 1 .. Len(log) : log'[k] = log[k]
  /\ UNCHANGED <<cursor, out>>

\* Reading delivers the next bytes in order and moves over them
Read ==
  \E n \in 0 .. Len(log) - cursor :
    /\ out' = SubSeq(log, cursor + 1, cursor + n)
    /\ cursor' = cursor + n
    /\ UNCHANGED log

\* The cursor is put anywhere; the bytes stay
Seek == cursor' \in Nat /\ UNCHANGED <<log, out>>

\* Bytes are dropped at the front, and reading starts at the first one left
Drop ==
  /\ \E n \in 0 .. Len(log) : log' = SubSeq(log, n + 1, Len(log))
  /\ cursor' = 0
  /\ UNCHANGED out

\* The log is cut or padded with zeros to another length
Fit ==
  /\ \A k \in 1 .. Len(log') : log'[k] = IF k <= Len(log) THEN log[k] ELSE 0
  /\ cursor' = 0
  /\ UNCHANGED out

\* Bytes that are there are replaced; nothing is added or moved
Patch == Len(log') = Len(log) /\ UNCHANGED <<cursor, out>>

LogNext == Write \/ Read \/ Seek \/ Drop \/ Fit \/ Patch

LogSpec == LogInit /\ [][LogNext]_logvars
=============================================================================
