----------------------------- MODULE ByteBuffer -----------------------------
(***************************************************************************)
(* The class CByteBuffer: a vector of bytes with a read and a write         *)
(* position.  Positions count from 0 as in the code, sequences from 1.      *)
(*                                                                         *)
(* A value of a type T is its sizeof(T) bytes, so that the typed operators  *)
(* << and >> are append and read of chunks.  A string is its bytes and a 0. *)
(* Memory behind a vector's storage holds Garbage.                          *)
(***************************************************************************)
EXTENDS Integers, Sequences

CONSTANTS
  Bytes,    \* what a byte may be; 0 ends a string
  Garbage,  \* a byte read from behind a vector's storage
  Chunks,   \* the byte sequences callers append, non-empty
  MaxLen,   \* bound: length of the storage
  MaxPos    \* bound: positions callers set

ASSUME BufferAssumption ==
  /\ 0 \in Bytes /\ Garbage \notin Bytes
  /\ Chunks \subseteq Seq(Bytes) /\ \A c \in Chunks : c # <<>>
  /\ MaxLen \in Nat /\ MaxPos \in Nat

VARIABLES
  mStorage, mReadPos, mWritePos,
  dest,     \* what the last read delivered
  ret,      \* "ok", "throw" (out_of_range), "refused" (Erase)
  rewound,  \* history: wpos(n) moved the write position
  taken     \* history: a buffer was appended that had been read from

bufferVars == <<mStorage, mReadPos, mWritePos, dest, ret, rewound, taken>>

size == Len(mStorage)

BufferInit ==
  /\ mStorage = <<>> /\ mReadPos = 0 /\ mWritePos = 0
  /\ dest = <<>> /\ ret = "ok"
  /\ rewound = FALSE /\ taken = FALSE

\* memcpy(&mStorage[pos], src, Len(src)) after a resize to newsize
Overwrite(s, pos, src, newsize) ==
  [k \in 1 .. newsize |->
     IF k \in pos + 1 .. pos + Len(src) THEN src[k - pos]
     ELSE IF k <= Len(s) THEN s[k] ELSE 0]

Larger(a, b) == IF a < b THEN b ELSE a

\* append(src, cnt); nothing happens for cnt = 0
AppendBytes(src) ==
  /\ mStorage' = Overwrite(mStorage, mWritePos, src, Larger(size, mWritePos + Len(src)))
  /\ mWritePos' = mWritePos + Len(src)

\* append(src, cnt), append(T) and << of every type
append(c) ==
  /\ mWritePos + Len(c) <= MaxLen
  /\ AppendBytes(c)
  /\ ret' = "ok"
  /\ UNCHANGED <<mReadPos, dest, rewound, taken>>

\* << of a string: its bytes and a terminator
appendString(c) ==
  /\ mWritePos + Len(c) + 1 <= MaxLen
  /\ AppendBytes(Append(c, 0))
  /\ ret' = "ok"
  /\ UNCHANGED <<mReadPos, dest, rewound, taken>>

\* Mutant: contents() begins one byte late
Contents_late(s, r) == [k \in 1 .. Len(s) |-> IF r + k < Len(s) THEN s[r + k + 1] ELSE Garbage]

\* size() bytes from contents(), the read position of the source
Contents(s, r) == [k \in 1 .. Len(s) |-> IF r + k <= Len(s) THEN s[r + k] ELSE Garbage]

\* append(const CByteBuffer&): the source holds s and was read up to r
appendBuffer(s, r) ==
  /\ mWritePos + Len(s) <= MaxLen
  /\ AppendBytes(Contents(s, r))
  /\ ret' = "ok"
  /\ taken' = (taken \/ r > 0)
  /\ UNCHANGED <<mReadPos, dest, rewound>>

\* put(pos, src, cnt), within the storage as its assertion demands
put(pos, c) ==
  /\ pos + Len(c) <= size
  /\ mStorage' = Overwrite(mStorage, pos, c, size)
  /\ ret' = "ok"
  /\ UNCHANGED <<mReadPos, mWritePos, dest, rewound, taken>>

\* Mutant: the position moves although the read throws
read_eager(n) ==
  /\ IF mReadPos + n <= size /\ mReadPos < size
     THEN dest' = SubSeq(mStorage, mReadPos + 1, mReadPos + n) /\ ret' = "ok"
     ELSE dest' = <<>> /\ ret' = "throw"
  /\ mReadPos' = mReadPos + n
  /\ UNCHANGED <<mStorage, mWritePos, rewound, taken>>

\* read(dest, len), read<T>() and >> of the fixed-size types.  at() also
\* throws for a length of 0 at the end.
read(n) ==
  /\ IF mReadPos + n <= size /\ mReadPos < size
     THEN /\ dest' = SubSeq(mStorage, mReadPos + 1, mReadPos + n)
          /\ mReadPos' = mReadPos + n
          /\ ret' = "ok"
     ELSE ret' = "throw" /\ UNCHANGED <<dest, mReadPos>>
  /\ UNCHANGED <<mStorage, mWritePos, rewound, taken>>

\* The length of the string at the read position: up to a 0 or to the end
StringLen ==
  CHOOSE n \in 0 .. size - mReadPos :
    /\ \A k \in 1 .. n : mStorage[mReadPos + k] # 0
    /\ mReadPos + n = size \/ mStorage[mReadPos + n + 1] = 0

\* >>(std::string&), and >>(char[]) apart from the copy into the caller's array:
\* bytes one by one up to a 0, which is taken too, or to the
\* end; nothing is read when the position is at the end or behind it
readString ==
  /\ mReadPos < size
  /\ LET n == StringLen
         m == IF mReadPos + n < size THEN n + 1 ELSE n
     IN  /\ dest' = SubSeq(mStorage, mReadPos + 1, mReadPos + m)
         /\ mReadPos' = mReadPos + m
  /\ ret' = "ok"
  /\ UNCHANGED <<mStorage, mWritePos, rewound, taken>>

\* rpos(n) takes any position
rpos(n) ==
  /\ mReadPos' = n
  /\ ret' = "ok"
  /\ UNCHANGED <<mStorage, mWritePos, dest, rewound, taken>>

\* wpos(n) takes any position, also one behind the end
wpos(n) ==
  /\ mWritePos' = n
  /\ ret' = "ok"
  /\ rewound' = TRUE
  /\ UNCHANGED <<mStorage, mReadPos, dest, taken>>

\* Mutant: the write position stays where it was
resize_only(n) ==
  /\ mStorage' = Overwrite(mStorage, 0, <<>>, n)
  /\ mReadPos' = 0
  /\ ret' = "ok"
  /\ UNCHANGED <<mWritePos, dest, rewound, taken>>

\* resize(n): cut or padded, both positions set
resize(n) ==
  /\ mStorage' = Overwrite(mStorage, 0, <<>>, n)
  /\ mReadPos' = 0 /\ mWritePos' = n
  /\ ret' = "ok"
  /\ UNCHANGED <<dest, rewound, taken>>

clear ==
  /\ mStorage' = <<>> /\ mReadPos' = 0 /\ mWritePos' = 0
  /\ ret' = "ok"
  /\ UNCHANGED <<dest, rewound, taken>>

\* Erase(num) drops the first bytes, or refuses
Erase(num) ==
  /\ IF num <= size
     THEN /\ mStorage' = SubSeq(mStorage, num + 1, size)
          /\ mReadPos' = 0 /\ mWritePos' = size - num
          /\ ret' = "ok"
     ELSE ret' = "refused" /\ UNCHANGED <<mStorage, mReadPos, mWritePos>>
  /\ UNCHANGED <<dest, rewound, taken>>

BufferNext ==
  \/ \E c \in Chunks : append(c) \/ appendString(c)
  \/ \E s \in Chunks : \E r \in 0 .. Len(s) : appendBuffer(s, r)
  \/ \E c \in Chunks, p \in 0 .. MaxPos : put(p, c)
  \/ \E n \in 0 .. MaxLen : read(n) \/ resize(n) \/ Erase(n)
  \/ \E n \in 0 .. MaxPos : rpos(n) \/ wpos(n)
  \/ readString \/ clear

\* Any sequence of calls
BufferSpec == BufferInit /\ [][BufferNext]_bufferVars

-----------------------------------------------------------------------------
\* Storage and positions are what their declarations say
BufferTypeOK ==
  /\ mStorage \in Seq(Bytes \cup {Garbage})
  /\ mReadPos \in Nat /\ mWritePos \in Nat
  /\ dest \in Seq(Bytes \cup {Garbage})
  /\ ret \in {"ok", "throw", "refused"}
  /\ rewound \in BOOLEAN /\ taken \in BOOLEAN

\* The write position is the end of the storage until wpos(n) moves it: no
\* sequence of appends, reads, seeks, resizes and erasures parts the two, so
\* that append() never overwrites bytes.
AppendsAtEnd == rewound \/ mWritePos = size

\* Bytes from behind a source's storage get into a buffer only by appending a
\* buffer that was read from: append(const CByteBuffer&) copies size() bytes
\* from the read position on, not from the start.  Positions stay in range.
NoForeignBytes ==
  /\ BufferTypeOK
  /\ taken \/ \A k \in 1 .. size : mStorage[k] # Garbage

\* Until wpos(n) is called, as TDXHQ.cpp never does, the buffer is a log read by a
\* cursor; a read that throws and an erasure that is refused change nothing.
Log == INSTANCE ByteLog WITH log <- mStorage, cursor <- mReadPos, out <- dest
ImplementsLog == Log!LogInit /\ [][~rewound' => Log!LogNext]_<<mStorage, mReadPos, dest>>
=============================================================================
