--------------------------- MODULE MCByteBuffer ---------------------------
(* Instances of CByteBuffer for TLC *)
EXTENDS ByteBuffer
\* Memory behind a vector, told apart from every byte
MCGarbage == -1

MCChunks == {<<1>>, <<1, 0>>}
=============================================================================
