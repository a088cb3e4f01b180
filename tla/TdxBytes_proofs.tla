-------------------------- MODULE TdxBytes_proofs --------------------------
(***************************************************************************)
(* Proofs about the decoder of the bars, for any bars, any number of them,  *)
(* any arguments of the call and any byte where unpacking stopped, and      *)
(* about CByteBuffer, for any bytes, chunks, lengths and positions and any  *)
(* sequence of calls.                                                       *)
(***************************************************************************)
EXTENDS BarCodec, ByteBuffer, SequenceTheorems, WellFoundedInduction, TLAPS

(* Induction over numbers, as a least counterexample.                       *)
LEMMA LeastNat ==
  ASSUME NEW T, T \subseteq Nat, T # {}
  PROVE  \E x \in T : \A y \in T : x <= y
<1>1. PICK x \in T : \A y \in T : ~(<<y, x>> \in OpToRel(<, Nat))
  BY NatLessThanWellFounded, WFMin
<1>2. \A y \in T : x <= y
  <2> TAKE y \in T
  <2>1. y \in Nat /\ x \in Nat
    OBVIOUS
  <2>2. y < x => <<y, x>> \in OpToRel(<, Nat)
    BY <2>1 DEF OpToRel
  <2>3. ~(y < x)
    BY <1>1, <2>2, Zenon
  <2>4. QED
    BY <2>1, <2>3
<1>3. QED
  BY <1>2

-----------------------------------------------------------------------------
(* What FlattenSeq computes: its recursive function, and the concatenation of  *)
(* the first k sequences.                                                      *)
IsFlat(f, s, n) ==
  f = [j \in 1 .. n |-> IF j = 1 THEN s[j] ELSE f[j - 1] \o s[j]]

Agree(f, g, k) == \A j \in 1 .. k : f[j] = g[j]

Part(s, k) == FlattenSeq(SubSeq(s, 1, k))

LEMMA FlatExists ==
  ASSUME NEW s, NEW n \in Nat
  PROVE  \E f : IsFlat(f, s, n)
<1> DEFINE T == {m \in Nat : ~\E f : IsFlat(f, s, m)}
<1> SUFFICES ASSUME T # {} PROVE FALSE
  OBVIOUS
<1>1. PICK x \in T : \A y \in T : x <= y
  <2>1. T \subseteq Nat
    OBVIOUS
  <2> HIDE DEF T
  <2>2. QED
    BY <2>1, LeastNat
<1>2. x \in Nat /\ ~\E f : IsFlat(f, s, x)
  OBVIOUS
<1>3. CASE x = 0
  <2>1. IsFlat([j \in 1 .. 0 |-> s[j]], s, 0)
    BY DEF IsFlat
  <2>2. QED
    BY <1>2, <1>3, <2>1
<1>4. CASE x > 0
  <2>1. PICK g : IsFlat(g, s, x - 1)
    <3>1. x - 1 \in Nat /\ ~(x <= x - 1)
      BY <1>2, <1>4
    <3>2. x - 1 \notin T
      BY <1>1, <3>1
    <3>3. QED
      BY <3>1, <3>2
  <2> DEFINE f == [j \in 1 .. x |-> IF j = x THEN (IF x = 1 THEN s[1] ELSE g[x - 1] \o s[x])
                                    ELSE g[j]]
  <2>2. \A j \in 1 .. x : f[j] = IF j = 1 THEN s[j] ELSE f[j - 1] \o s[j]
    <3> TAKE j \in 1 .. x
    <3>1. CASE j = x
      BY <1>2, <1>4, <3>1
    <3>2. CASE j # x
      <4>1. j \in 1 .. x - 1 /\ (j # 1 => j - 1 \in 1 .. x - 1 /\ j - 1 \in 1 .. x)
        BY <1>2, <3>2
      <4>2. g[j] = IF j = 1 THEN s[j] ELSE g[j - 1] \o s[j]
        BY <2>1, <4>1 DEF IsFlat
      <4>3. f[j] = g[j] /\ (j # 1 => f[j - 1] = g[j - 1])
        BY <1>2, <3>2, <4>1
      <4>4. QED
        BY <4>2, <4>3
    <3>3. QED
      BY <3>1, <3>2
  <2>3. f = [j \in 1 .. x |-> f[j]]
    OBVIOUS
  <2> HIDE DEF f
  <2>4. IsFlat(f, s, x)
    BY <2>2, <2>3 DEF IsFlat
  <2>5. QED
    BY <1>2, <2>4
<1>5. QED
  BY <1>2, <1>3, <1>4

(* The function is determined by the sequences up to its argument.            *)
LEMMA FlatUnique ==
  ASSUME NEW s, NEW t, NEW n \in Nat, NEW m \in Nat, NEW f, NEW g,
         IsFlat(f, s, n), IsFlat(g, t, m), NEW k \in Nat, k <= n, k <= m,
         Agree(s, t, k)
  PROVE  Agree(f, g, k)
<1> USE DEF Agree
<1> DEFINE T == {j \in 1 .. k : f[j] # g[j]}
<1> SUFFICES ASSUME T # {} PROVE FALSE
  OBVIOUS
<1>1. PICK x \in T : \A y \in T : x <= y
  <2>1. T \subseteq Nat
    OBVIOUS
  <2> HIDE DEF T
  <2>2. QED
    BY <2>1, LeastNat
<1>2. x \in 1 .. k /\ f[x] # g[x] /\ x \in 1 .. n /\ x \in 1 .. m /\ s[x] = t[x]
  OBVIOUS
<1>3. /\ f[x] = IF x = 1 THEN s[x] ELSE f[x - 1] \o s[x]
      /\ g[x] = IF x = 1 THEN t[x] ELSE g[x - 1] \o t[x]
  BY <1>2 DEF IsFlat
<1>4. x # 1 => f[x - 1] = g[x - 1]
  <2> SUFFICES ASSUME x # 1 PROVE f[x - 1] = g[x - 1]
    OBVIOUS
  <2>1. x - 1 \in 1 .. k /\ ~(x <= x - 1)
    BY <1>2
  <2>2. QED
    BY <1>1, <2>1
<1>5. QED
  BY <1>2, <1>3, <1>4

LEMMA FlatType ==
  ASSUME NEW S, NEW s, NEW n \in Nat, NEW f, IsFlat(f, s, n),
         \A j \in 1 .. n : s[j] \in Seq(S)
  PROVE  \A j \in 1 .. n : f[j] \in Seq(S)
<1> DEFINE T == {j \in 1 .. n : f[j] \notin Seq(S)}
<1> SUFFICES ASSUME T # {} PROVE FALSE
  OBVIOUS
<1>1. PICK x \in T : \A y \in T : x <= y
  <2>1. T \subseteq Nat
    OBVIOUS
  <2> HIDE DEF T
  <2>2. QED
    BY <2>1, LeastNat
<1>2. x \in 1 .. n /\ f[x] \notin Seq(S) /\ s[x] \in Seq(S)
  OBVIOUS
<1>3. f[x] = IF x = 1 THEN s[x] ELSE f[x - 1] \o s[x]
  BY <1>2 DEF IsFlat
<1>4. x # 1 => f[x - 1] \in Seq(S)
  <2> SUFFICES ASSUME x # 1 PROVE f[x - 1] \in Seq(S)
    OBVIOUS
  <2>1. x - 1 \in 1 .. n /\ ~(x <= x - 1)
    BY <1>2
  <2>2. QED
    BY <1>1, <2>1
<1>5. QED
  BY <1>2, <1>3, <1>4, ConcatProperties

LEMMA FlattenIs ==
  ASSUME NEW s, Len(s) \in Nat, Len(s) # 0
  PROVE  \E f : IsFlat(f, s, Len(s)) /\ FlattenSeq(s) = f[Len(s)]
<1> DEFINE h == CHOOSE f : IsFlat(f, s, Len(s))
<1>1. IsFlat(h, s, Len(s))
  BY FlatExists
<1>2. FlattenSeq(s) = h[Len(s)]
  BY DEF FlattenSeq, IsFlat
<1>3. QED
  BY <1>1, <1>2

(* One sequence more is concatenated at the end.                              *)
LEMMA PartStep ==
  ASSUME NEW S, NEW s \in Seq(Seq(S))
  PROVE  /\ Part(s, 0) = <<>>
         /\ Part(s, Len(s)) = FlattenSeq(s)
         /\ \A k \in 0 .. Len(s) : Part(s, k) \in Seq(S)
         /\ \A k \in 1 .. Len(s) : Part(s, k) = Part(s, k - 1) \o s[k]
<1>1. Len(s) \in Nat /\ \A j \in 1 .. Len(s) : s[j] \in Seq(S)
  BY LenProperties, ElementOfSeq
<1>2. Part(s, 0) = <<>> /\ <<>> \in Seq(S)
  <2>1. SubSeq(s, 1, 0) = <<>> /\ Len(<<>>) = 0 /\ <<>> \in Seq(S)
    BY SubSeqEmpty, EmptySeq
  <2>2. QED
    BY <2>1 DEF Part, FlattenSeq
<1>3. Part(s, Len(s)) = FlattenSeq(s)
  BY SubSeqFull DEF Part
<1>4. PICK f : IsFlat(f, s, Len(s))
  BY <1>1, FlatExists
<1>5. \A j \in 1 .. Len(s) : f[j] \in Seq(S)
  BY <1>1, <1>4, FlatType
<1>6. \A k \in 1 .. Len(s) : Part(s, k) = f[k]
  <2> TAKE k \in 1 .. Len(s)
  <2> DEFINE t == SubSeq(s, 1, k)
  <2>1. Len(t) = k /\ \A j \in 1 .. k : t[j] = s[j]
    <3>1. \A j \in 1 .. k : s[j] \in Seq(S)
      BY <1>1
    <3>2. /\ Len(t) = IF 1 <= k THEN k - 1 + 1 ELSE 0
          /\ \A j \in 1 .. k - 1 + 1 : t[j] = s[1 + j - 1]
      BY <1>1, <3>1, SubSeqProperties
    <3> HIDE DEF t
    <3>3. k - 1 + 1 = k /\ \A j \in 1 .. k : 1 + j - 1 = j
      BY <1>1
    <3>4. QED
      BY <1>1, <3>2, <3>3
  <2> HIDE DEF t
  <2>2. PICK g : IsFlat(g, t, k) /\ FlattenSeq(t) = g[k]
    BY <1>1, <2>1, FlattenIs
  <2>3. \A j \in 1 .. k : f[j] = g[j]
    <3>1. k \in Nat /\ k <= Len(s) /\ k <= k /\ Agree(s, t, k)
      BY <1>1, <2>1 DEF Agree
    <3>2. Agree(f, g, k)
      BY <1>1, <1>4, <2>2, <3>1, FlatUnique
    <3>3. QED
      BY <3>2 DEF Agree
  <2>4. QED
    BY <1>1, <2>2, <2>3 DEF Part, t
<1>7. \A k \in 1 .. Len(s) : Part(s, k) = Part(s, k - 1) \o s[k]
  <2> TAKE k \in 1 .. Len(s)
  <2>1. f[k] = IF k = 1 THEN s[k] ELSE f[k - 1] \o s[k]
    BY <1>4 DEF IsFlat
  <2>2. CASE k = 1
    <3>1. Part(s, k - 1) = <<>> /\ Part(s, k) = s[k] /\ s[k] \in Seq(S)
      BY <1>1, <1>2, <1>6, <2>1, <2>2
    <3>2. QED
      BY <3>1, ConcatEmptySeq
  <2>3. CASE k # 1
    <3>1. k - 1 \in 1 .. Len(s)
      BY <1>1, <2>3
    <3>2. QED
      BY <1>6, <2>1, <2>3, <3>1
  <2>4. QED
    BY <2>2, <2>3
<1>8. \A k \in 0 .. Len(s) : Part(s, k) \in Seq(S)
  <2> TAKE k \in 0 .. Len(s)
  <2>1. k = 0 \/ k \in 1 .. Len(s)
    BY <1>1
  <2>2. QED
    BY <1>2, <1>5, <1>6, <2>1
<1>9. QED
  BY <1>2, <1>3, <1>7, <1>8

-----------------------------------------------------------------------------
(* The bytes of w lie in d from the position p on.                            *)
Holds(d, p, w) == \A m \in 0 .. Len(w) - 1 : At(d, p + m) = At(w, m)

LEMMA AtConcat ==
  ASSUME NEW S, NEW u \in Seq(S), NEW v \in Seq(S), NEW p \in Nat
  PROVE  At(u \o v, p) = IF p < Len(u) THEN At(u, p) ELSE At(v, p - Len(u))
<1>1. /\ Len(u) \in Nat /\ Len(v) \in Nat /\ Len(u \o v) = Len(u) + Len(v)
      /\ \A j \in 1 .. Len(u) + Len(v) :
           (u \o v)[j] = IF j <= Len(u) THEN u[j] ELSE v[j - Len(u)]
  BY ConcatProperties, LenProperties
<1>2. CASE p < Len(u)
  BY <1>1, <1>2 DEF At
<1>3. CASE Len(u) <= p /\ p < Len(u) + Len(v)
  <2>1. /\ p + 1 \in 1 .. Len(u) + Len(v) /\ ~(p + 1 <= Len(u))
        /\ p + 1 - Len(u) = p - Len(u) + 1 /\ p - Len(u) < Len(v)
    BY <1>1, <1>3
  <2>2. QED
    BY <1>1, <1>3, <2>1 DEF At
<1>4. CASE Len(u) + Len(v) <= p
  BY <1>1, <1>4 DEF At
<1>5. QED
  BY <1>1, <1>2, <1>3, <1>4

LEMMA HoldsConcat ==
  ASSUME NEW S, NEW u \in Seq(S), NEW v \in Seq(S), NEW d, NEW p \in Nat,
         Holds(d, p, u \o v)
  PROVE  Holds(d, p, u) /\ Holds(d, p + Len(u), v)
<1>1. Len(u) \in Nat /\ Len(v) \in Nat /\ Len(u \o v) = Len(u) + Len(v)
  BY ConcatProperties, LenProperties
<1>2. \A m \in Nat : At(u \o v, m) = IF m < Len(u) THEN At(u, m) ELSE At(v, m - Len(u))
  BY AtConcat
<1>3. Holds(d, p, u)
  <2> SUFFICES ASSUME NEW m \in 0 .. Len(u) - 1 PROVE At(d, p + m) = At(u, m)
    BY DEF Holds
  <2>1. m \in 0 .. Len(u \o v) - 1 /\ m \in Nat /\ m < Len(u)
    BY <1>1
  <2>2. QED
    BY <1>2, <2>1 DEF Holds
<1>4. Holds(d, p + Len(u), v)
  <2> SUFFICES ASSUME NEW m \in 0 .. Len(v) - 1 PROVE At(d, p + Len(u) + m) = At(v, m)
    BY DEF Holds
  <2>1. /\ Len(u) + m \in 0 .. Len(u \o v) - 1 /\ Len(u) + m \in Nat
        /\ ~(Len(u) + m < Len(u)) /\ Len(u) + m - Len(u) = m
        /\ p + (Len(u) + m) = p + Len(u) + m
    BY <1>1
  <2>2. At(d, p + (Len(u) + m)) = At(u \o v, Len(u) + m)
    BY <2>1 DEF Holds
  <2>3. QED
    BY <1>2, <2>1, <2>2
<1>5. QED
  BY <1>3, <1>4

(* What lies in the second part lies in the whole, that much further back.     *)
LEMMA HoldsBehind ==
  ASSUME NEW S, NEW u \in Seq(S), NEW v \in Seq(S), NEW w \in Seq(S), NEW p \in Nat,
         Holds(v, p, w)
  PROVE  Holds(u \o v, Len(u) + p, w)
<1>1. Len(u) \in Nat /\ Len(w) \in Nat
  BY LenProperties
<1> SUFFICES ASSUME NEW m \in 0 .. Len(w) - 1 PROVE At(u \o v, Len(u) + p + m) = At(w, m)
  BY DEF Holds
<1>2. /\ Len(u) + p + m \in Nat /\ ~(Len(u) + p + m < Len(u))
      /\ Len(u) + p + m - Len(u) = p + m
  BY <1>1
<1>3. At(u \o v, Len(u) + p + m) = At(v, p + m)
  BY <1>2, AtConcat
<1>4. QED
  BY <1>3 DEF Holds

LEMMA HoldsFront ==
  ASSUME NEW S, NEW u \in Seq(S), NEW v \in Seq(S)
  PROVE  Holds(u \o v, 0, u)
<1>1. Len(u) \in Nat
  BY LenProperties
<1> SUFFICES ASSUME NEW m \in 0 .. Len(u) - 1 PROVE At(u \o v, 0 + m) = At(u, m)
  BY DEF Holds
<1>2. m \in Nat /\ 0 + m = m /\ m < Len(u)
  BY <1>1
<1>3. QED
  BY <1>2, AtConcat

LEMMA PartNext ==
  ASSUME NEW S, NEW s \in Seq(Seq(S)), NEW m \in 0 .. Len(s), m + 1 \in 1 .. Len(s)
  PROVE  /\ Part(s, m + 1) = Part(s, m) \o s[m + 1]
         /\ Part(s, m) \in Seq(S) /\ s[m + 1] \in Seq(S)
<1>1. \A j \in 1 .. Len(s) : Part(s, j) = Part(s, j - 1) \o s[j]
  BY PartStep
<1>2. \A j \in 0 .. Len(s) : Part(s, j) \in Seq(S)
  BY PartStep
<1>3. m + 1 - 1 = m
  OBVIOUS
<1>4. Part(s, m) \in Seq(S)
  BY <1>2
<1>5. s[m + 1] \in Seq(S)
  BY ElementOfSeq
<1>6. \A j \in 1 .. Len(s) : j = m + 1 => Part(s, j) = Part(s, m) \o s[j]
  <2> SUFFICES ASSUME NEW j \in 1 .. Len(s), j = m + 1
               PROVE  Part(s, j) = Part(s, m) \o s[j]
    OBVIOUS
  <2>1. j - 1 = m
    OBVIOUS
  <2>2. Part(s, j) = Part(s, j - 1) \o s[j]
    BY <1>1, Zenon
  <2>3. QED
    BY <2>1, <2>2, Zenon
<1>7. QED
  BY <1>4, <1>5, <1>6, Zenon

(* The concatenation begins with that of the first k sequences ...            *)
LEMMA PartInFront ==
  ASSUME NEW S, NEW s \in Seq(Seq(S)), NEW k \in 0 .. Len(s)
  PROVE  Holds(FlattenSeq(s), 0, Part(s, k)) /\ Len(Part(s, k)) <= Len(FlattenSeq(s))
<1> DEFINE F == FlattenSeq(s)
           Good(j) == Holds(F, 0, Part(s, j)) /\ Len(Part(s, j)) <= Len(F)
           T == {j \in 0 .. Len(s) : ~Good(Len(s) - j)}
<1>0. Len(s) \in Nat
  BY LenProperties
<1> SUFFICES ASSUME T # {} PROVE FALSE
  <2>1. Len(s) - k \in 0 .. Len(s) /\ Len(s) - (Len(s) - k) = k
    BY <1>0
  <2>2. Len(s) - k \notin T
    OBVIOUS
  <2>3. QED
    BY <2>1, <2>2
<1>1. PICK x \in T : \A y \in T : x <= y
  <2>1. T \subseteq Nat
    OBVIOUS
  <2> HIDE DEF T
  <2>2. QED
    BY <2>1, LeastNat
<1>2. x \in 0 .. Len(s) /\ ~Good(Len(s) - x)
  OBVIOUS
<1>3. x # 0
  <2>1. Part(s, Len(s)) = F /\ F \in Seq(S)
    <3>1. Len(s) \in 0 .. Len(s)
      BY <1>0
    <3>2. QED
      BY <3>1, PartStep
  <2>2. Len(F) \in Nat
    BY <2>1, LenProperties
  <2>3. Good(Len(s))
    <3>1. Holds(F, 0, F)
      BY <2>2 DEF Holds
    <3>2. QED
      BY <2>1, <2>2, <3>1
  <2>4. Len(s) - 0 = Len(s)
    BY <1>0
  <2>5. QED
    BY <1>2, <2>3, <2>4
<1>4. Good(Len(s) - (x - 1))
  <2>1. x - 1 \in 0 .. Len(s) /\ ~(x <= x - 1)
    BY <1>0, <1>2, <1>3
  <2>2. x - 1 \notin T
    BY <1>1, <2>1
  <2>3. QED
    BY <2>1, <2>2
<1> DEFINE m == Len(s) - x
<1>5. m \in 0 .. Len(s) /\ m + 1 \in 1 .. Len(s) /\ Len(s) - (x - 1) = m + 1 /\ m + 1 - 1 = m
  BY <1>0, <1>2, <1>3
<1> HIDE DEF m
<1>6. Part(s, m + 1) = Part(s, m) \o s[m + 1] /\ Part(s, m) \in Seq(S) /\ s[m + 1] \in Seq(S)
  <2> HIDE DEF T, Good, F
  <2>1. QED
    BY <1>5, PartNext
<1>7. Holds(F, 0, Part(s, m) \o s[m + 1]) /\ Len(Part(s, m) \o s[m + 1]) <= Len(F)
  BY <1>4, <1>5, <1>6
<1>8. Holds(F, 0, Part(s, m))
  <2> HIDE DEF F
  <2>1. 0 \in Nat
    OBVIOUS
  <2>2. QED
    BY <1>6, <1>7, <2>1, HoldsConcat
<1>9. Len(Part(s, m)) <= Len(F)
  <2>1. F \in Seq(S)
    <3>1. Len(s) \in 0 .. Len(s)
      BY <1>0
    <3>2. QED
      BY <3>1, PartStep
  <2>2. Len(F) \in Nat /\ Len(Part(s, m)) \in Nat /\ Len(s[m + 1]) \in Nat
    BY <1>6, <2>1, LenProperties
  <2>3. Len(Part(s, m) \o s[m + 1]) = Len(Part(s, m)) + Len(s[m + 1])
    BY <1>6, ConcatProperties
  <2> HIDE DEF F
  <2>4. QED
    BY <1>7, <2>2, <2>3
<1>10. QED
  BY <1>2, <1>8, <1>9 DEF m

(* ... and has the k-th one behind that.                                      *)
LEMMA PartHolds ==
  ASSUME NEW S, NEW s \in Seq(Seq(S)), NEW k \in 1 .. Len(s)
  PROVE  /\ Holds(FlattenSeq(s), Len(Part(s, k - 1)), s[k])
         /\ Len(Part(s, k)) = Len(Part(s, k - 1)) + Len(s[k])
<1>1. Len(s) \in Nat /\ s[k] \in Seq(S) /\ k - 1 \in 0 .. Len(s) /\ k \in 0 .. Len(s)
  BY LenProperties, ElementOfSeq
<1>2. Part(s, k) = Part(s, k - 1) \o s[k]
  BY PartStep
<1>3. Part(s, k - 1) \in Seq(S)
  <2>1. \A j \in 0 .. Len(s) : Part(s, j) \in Seq(S)
    BY PartStep
  <2>2. QED
    BY <1>1, <2>1
<1>4. Holds(FlattenSeq(s), 0, Part(s, k - 1) \o s[k])
  BY <1>1, <1>2, PartInFront
<1>5. Holds(FlattenSeq(s), 0 + Len(Part(s, k - 1)), s[k])
  <2>1. 0 \in Nat
    OBVIOUS
  <2>2. QED
    BY <1>1, <1>3, <1>4, <2>1, HoldsConcat
<1>6. 0 + Len(Part(s, k - 1)) = Len(Part(s, k - 1))
  BY <1>3, LenProperties
<1>7. QED
  BY <1>1, <1>2, <1>3, <1>5, <1>6, ConcatProperties

(* The body of an answer: two bytes with the number of the bars, then the bars. *)
Body(w) == U16(Len(w)) \o FlattenSeq(w)
EndOf(w, k) == 2 + Len(Part(w, k))

LEMMA U16Is ==
  ASSUME NEW n \in Int
  PROVE  /\ U16(n) \in Seq(Byte) /\ Len(U16(n)) = 2
         /\ At(U16(n), 0) = n % 256 /\ At(U16(n), 1) = (n \div 256) % 256
<1>1. n % 256 \in Byte /\ (n \div 256) % 256 \in Byte
  BY DEF Byte
<1>2. QED
  BY <1>1 DEF U16, At

LEMMA U32Is ==
  ASSUME NEW n \in Int
  PROVE  /\ U32(n) \in Seq(Byte) /\ Len(U32(n)) = 4
         /\ Holds(U32(n), 0, U16(n % 65536)) /\ Holds(U32(n), 2, U16(n \div 65536))
<1> DEFINE u == U16(n % 65536)
           v == U16(n \div 65536)
<1>1. n % 65536 \in Int /\ n \div 65536 \in Int
  OBVIOUS
<1>2. u \in Seq(Byte) /\ Len(u) = 2 /\ v \in Seq(Byte) /\ Len(v) = 2
  BY <1>1, U16Is
<1>3. U32(n) = u \o v
  BY DEF U32
<1> HIDE DEF u, v
<1>4. Holds(u \o v, 0, u)
  BY <1>2, HoldsFront
<1>5. Holds(u \o v, 2, v)
  <2>1. Holds(v, 0, v) /\ 0 \in Nat /\ 2 + 0 = 2
    BY <1>2 DEF Holds
  <2>2. Holds(u \o v, Len(u) + 0, v)
    BY <1>2, <2>1, HoldsBehind
  <2>3. QED
    BY <1>2, <2>1, <2>2
<1>6. u \o v \in Seq(Byte) /\ Len(u \o v) = 4
  <2>1. u \o v \in Seq(Byte) /\ Len(u \o v) = Len(u) + Len(v)
    BY <1>2, ConcatProperties
  <2>2. QED
    BY <1>2, <2>1
<1>7. QED
  BY <1>3, <1>4, <1>5, <1>6 DEF u, v

LEMMA BodyIs ==
  ASSUME NEW w \in Seq(Seq(Byte))
  PROVE  /\ Body(w) \in Seq(Byte) /\ Holds(Body(w), 0, U16(Len(w)))
         /\ EndOf(w, 0) = 2 /\ EndOf(w, Len(w)) = Len(Body(w))
         /\ \A k \in 0 .. Len(w) : EndOf(w, k) \in 2 .. Len(Body(w))
         /\ \A k \in 1 .. Len(w) : /\ EndOf(w, k) = EndOf(w, k - 1) + Len(w[k])
                                   /\ Holds(Body(w), EndOf(w, k - 1), w[k])
<1> DEFINE F == FlattenSeq(w)
<1>1. Len(w) \in Nat /\ \A k \in 1 .. Len(w) : w[k] \in Seq(Byte)
  BY LenProperties, ElementOfSeq
<1>2. /\ Part(w, 0) = <<>> /\ Part(w, Len(w)) = F
      /\ \A k \in 0 .. Len(w) : Part(w, k) \in Seq(Byte)
  BY PartStep
<1>3. F \in Seq(Byte) /\ Len(F) \in Nat
  <2>1. Len(w) \in 0 .. Len(w)
    BY <1>1
  <2>2. QED
    BY <1>2, <2>1, LenProperties
<1>4. U16(Len(w)) \in Seq(Byte) /\ Len(U16(Len(w))) = 2
  BY <1>1, U16Is
<1>5. Body(w) \in Seq(Byte) /\ Holds(Body(w), 0, U16(Len(w))) /\ Len(Body(w)) = 2 + Len(F)
  <2> DEFINE u == U16(Len(w))
  <2>1. Body(w) = u \o F /\ u \in Seq(Byte) /\ Len(u) = 2
    BY <1>4 DEF Body
  <2> HIDE DEF F, u
  <2>2. u \o F \in Seq(Byte) /\ Len(u \o F) = Len(u) + Len(F)
    BY <1>3, <2>1, ConcatProperties
  <2>3. Holds(u \o F, 0, u)
    BY <1>3, <2>1, HoldsFront
  <2>4. QED
    BY <1>3, <2>1, <2>2, <2>3 DEF u
<1>6. EndOf(w, 0) = 2 /\ EndOf(w, Len(w)) = Len(Body(w))
  BY <1>2, <1>5, EmptySeq DEF EndOf
<1>7. ASSUME NEW k \in 0 .. Len(w) PROVE EndOf(w, k) \in 2 .. Len(Body(w))
  <2>1. Len(Part(w, k)) \in Nat
    BY <1>2, LenProperties
  <2>2. Len(Part(w, k)) <= Len(F)
    BY PartInFront
  <2> HIDE DEF F
  <2>3. QED
    BY <1>3, <1>5, <2>1, <2>2 DEF EndOf
<1>8. ASSUME NEW k \in 1 .. Len(w)
      PROVE  /\ EndOf(w, k) = EndOf(w, k - 1) + Len(w[k])
             /\ Holds(Body(w), EndOf(w, k - 1), w[k])
  <2>1. Holds(F, Len(Part(w, k - 1)), w[k]) /\ Len(Part(w, k)) = Len(Part(w, k - 1)) + Len(w[k])
    BY PartHolds
  <2>2. Len(Part(w, k - 1)) \in Nat /\ w[k] \in Seq(Byte) /\ Len(w[k]) \in Nat
    <3>1. k - 1 \in 0 .. Len(w)
      BY <1>1
    <3>2. QED
      BY <1>1, <1>2, <3>1, LenProperties
  <2> HIDE DEF F
  <2>3. Holds(U16(Len(w)) \o F, Len(U16(Len(w))) + Len(Part(w, k - 1)), w[k])
    BY <1>3, <1>4, <2>1, <2>2, HoldsBehind
  <2>4. EndOf(w, k) = 2 + Len(Part(w, k)) /\ EndOf(w, k - 1) = 2 + Len(Part(w, k - 1))
    BY Zenon DEF EndOf
  <2>5. EndOf(w, k) = EndOf(w, k - 1) + Len(w[k])
    <3>1. \A x, y \in Nat : 2 + (x + y) = (2 + x) + y
      OBVIOUS
    <3>2. QED
      BY <2>1, <2>2, <2>4, <3>1, Zenon
  <2>6. Body(w) = U16(Len(w)) \o F
    BY Zenon DEF Body, F
  <2>7. QED
    BY <1>4, <2>3, <2>4, <2>5, <2>6, Zenon
<1>9. QED
  BY <1>5, <1>6, <1>7, <1>8

-----------------------------------------------------------------------------
(* The recursive function Groups: it exists, so it is what its equation says.  *)
IsGroups(g, n) ==
  g = [m \in 0 .. n |-> IF m < 128 THEN <<m>> ELSE <<128 + (m % 128)>> \o g[m \div 128]]

LEMMA Div128 ==
  ASSUME NEW n \in Nat
  PROVE  /\ n \div 128 \in Nat /\ n % 128 \in 0 .. 127 /\ n \div 128 <= n
         /\ n >= 128 => n \div 128 <= n - 1
         /\ n = (128 * (n \div 128)) + (n % 128)
OBVIOUS

LEMMA GroupsExist ==
  ASSUME NEW n \in Nat
  PROVE  \E g : IsGroups(g, n)
<1> DEFINE T == {m \in Nat : ~\E g : IsGroups(g, m)}
<1> SUFFICES ASSUME T # {} PROVE FALSE
  OBVIOUS
<1>1. PICK x \in T : \A y \in T : x <= y
  <2>1. T \subseteq Nat
    OBVIOUS
  <2> HIDE DEF T
  <2>2. QED
    BY <2>1, LeastNat
<1>2. x \in Nat /\ ~\E g : IsGroups(g, x)
  OBVIOUS
<1>3. x # 0
  <2>1. IsGroups([m \in 0 .. 0 |-> <<m>>], 0)
    BY DEF IsGroups
  <2>2. QED
    BY <1>2, <2>1
<1>4. PICK g : IsGroups(g, x - 1)
  <2>1. x - 1 \in Nat /\ ~(x <= x - 1)
    BY <1>2, <1>3
  <2>2. x - 1 \notin T
    BY <1>1, <2>1
  <2>3. QED
    BY <2>1, <2>2
<1> HIDE DEF T
<1> DEFINE top == IF x < 128 THEN <<x>> ELSE <<128 + (x % 128)>> \o g[x \div 128]
           h == [m \in 0 .. x |-> IF m = x THEN top ELSE g[m]]
<1>5. \A m \in 0 .. x :
        h[m] = IF m < 128 THEN <<m>> ELSE <<128 + (m % 128)>> \o h[m \div 128]
  <2> TAKE m \in 0 .. x
  <2>1. m \in Nat
    BY <1>2
  <2>2. m >= 128 => m \div 128 \in 0 .. x /\ m \div 128 # x
    BY <1>2, <2>1, Div128
  <2>3. m >= 128 => h[m \div 128] = g[m \div 128]
    BY <2>2
  <2>4. CASE m = x
    <3>1. h[m] = top
      BY <2>4
    <3> HIDE DEF h
    <3>2. QED
      BY <2>1, <2>3, <2>4, <3>1
  <2>5. CASE m # x
    <3>1. m \in 0 .. x - 1
      BY <1>2, <2>5
    <3>2. g[m] = IF m < 128 THEN <<m>> ELSE <<128 + (m % 128)>> \o g[m \div 128]
      BY <1>4, <3>1 DEF IsGroups
    <3>3. h[m] = g[m]
      BY <2>5
    <3> HIDE DEF h
    <3>4. QED
      BY <2>1, <2>3, <3>2, <3>3
  <2>6. QED
    BY <2>4, <2>5
<1>6. h = [m \in 0 .. x |-> h[m]]
  OBVIOUS
<1> HIDE DEF h
<1>7. IsGroups(h, x)
  BY <1>5, <1>6 DEF IsGroups
<1>8. QED
  BY <1>2, <1>7

LEMMA GroupsUnique ==
  ASSUME NEW n \in Nat, NEW m \in Nat, NEW g, NEW h, IsGroups(g, n), IsGroups(h, m),
         NEW k \in Nat, k <= n, k <= m
  PROVE  g[k] = h[k]
<1> DEFINE T == {j \in 0 .. k : g[j] # h[j]}
<1> SUFFICES ASSUME T # {} PROVE FALSE
  OBVIOUS
<1>1. PICK x \in T : \A y \in T : x <= y
  <2>1. T \subseteq Nat
    OBVIOUS
  <2> HIDE DEF T
  <2>2. QED
    BY <2>1, LeastNat
<1>2. x \in 0 .. k /\ g[x] # h[x] /\ x \in 0 .. n /\ x \in 0 .. m /\ x \in Nat
  OBVIOUS
<1>3. /\ g[x] = IF x < 128 THEN <<x>> ELSE <<128 + (x % 128)>> \o g[x \div 128]
      /\ h[x] = IF x < 128 THEN <<x>> ELSE <<128 + (x % 128)>> \o h[x \div 128]
  BY <1>2 DEF IsGroups
<1>4. x >= 128 => g[x \div 128] = h[x \div 128]
  <2> SUFFICES ASSUME x >= 128 PROVE g[x \div 128] = h[x \div 128]
    OBVIOUS
  <2>1. x \div 128 \in 0 .. k /\ ~(x <= x \div 128)
    BY <1>2, Div128
  <2>2. QED
    BY <1>1, <2>1
<1>5. QED
  BY <1>2, <1>3, <1>4

LEMMA GroupsIs ==
  \A n \in Nat :
    Groups[n] = IF n < 128 THEN <<n>> ELSE <<128 + (n % 128)>> \o Groups[n \div 128]
<1> DEFINE Fn(n) == CHOOSE g : IsGroups(g, n)
           G == [n \in Nat |-> Fn(n)[n]]
<1>1. \A n \in Nat : IsGroups(Fn(n), n)
  BY GroupsExist
<1> HIDE DEF Fn
<1>2. \A n \in Nat : G[n] = IF n < 128 THEN <<n>> ELSE <<128 + (n % 128)>> \o G[n \div 128]
  <2> TAKE n \in Nat
  <2>1. n \in 0 .. n /\ n \div 128 \in Nat /\ n \div 128 <= n
    BY Div128
  <2>2. Fn(n)[n] = IF n < 128 THEN <<n>> ELSE <<128 + (n % 128)>> \o Fn(n)[n \div 128]
    BY <1>1, <2>1 DEF IsGroups
  <2>3. Fn(n)[n \div 128] = Fn(n \div 128)[n \div 128]
    <3>1. n \div 128 <= n \div 128
      BY <2>1
    <3>2. QED
      BY <1>1, <2>1, <3>1, GroupsUnique
  <2>4. G[n] = Fn(n)[n] /\ G[n \div 128] = Fn(n \div 128)[n \div 128]
    BY <2>1
  <2> HIDE DEF G
  <2>5. QED
    BY <2>2, <2>3, <2>4
<1>3. G = [n \in Nat |-> G[n]]
  OBVIOUS
<1> HIDE DEF G
<1>4. G = [n \in Nat |-> IF n < 128 THEN <<n>> ELSE <<128 + (n % 128)>> \o G[n \div 128]]
  BY <1>2, <1>3
<1>5. Groups = [n \in Nat |-> IF n < 128 THEN <<n>>
                              ELSE <<128 + (n % 128)>> \o Groups[n \div 128]]
  BY <1>4 DEF Groups
<1>6. QED
  BY <1>5

(* The bytes w are a number n in groups of seven bits: rest[j] is what remains  *)
(* of it behind the j-th byte.                                                *)
Remains(w, n, rest) ==
  /\ rest \in [0 .. Len(w) -> Nat] /\ rest[0] = n /\ rest[Len(w)] = 0
  /\ \A j \in 1 .. Len(w) : rest[j - 1] = (128 * rest[j]) + (w[j] % 128)

GroupsOf(w, n) ==
  /\ w \in Seq(Byte) /\ Len(w) >= 1
  /\ \A j \in 1 .. Len(w) : w[j] >= 128 <=> j < Len(w)
  /\ \E rest : Remains(w, n, rest)

LEMMA OneGroup ==
  ASSUME NEW n \in Nat, n < 128
  PROVE  GroupsOf(<<n>>, n)
<1>1. <<n>> \in Seq(Byte) /\ Len(<<n>>) = 1 /\ <<n>>[1] = n
  BY DEF Byte
<1> DEFINE rest == [j \in 0 .. 1 |-> IF j = 0 THEN n ELSE 0]
           w == <<n>>
<1>2. /\ rest \in [0 .. 1 -> Nat] /\ rest[0] = n /\ rest[1] = 0
      /\ n = (128 * 0) + (n % 128)
  OBVIOUS
<1> HIDE DEF rest, w
<1>3. \A j \in 1 .. 1 : rest[j - 1] = (128 * rest[j]) + (w[j] % 128)
  <2> TAKE j \in 1 .. 1
  <2>1. j = 1 /\ j - 1 = 0 /\ w[1] = n
    BY <1>1 DEF w
  <2>2. QED
    BY <1>2, <2>1
<1>4. Remains(w, n, rest)
  BY <1>1, <1>2, <1>3 DEF Remains, w
<1>5. \A j \in 1 .. Len(w) : w[j] >= 128 <=> j < Len(w)
  BY <1>1 DEF w
<1>6. QED
  BY <1>1, <1>4, <1>5 DEF GroupsOf, w

(* One more group in front.                                                   *)
LEMMA GroupInFront ==
  ASSUME NEW n \in Nat, NEW u, GroupsOf(u, n \div 128)
  PROVE  GroupsOf(<<128 + (n % 128)>> \o u, n)
<1> DEFINE w == <<128 + (n % 128)>> \o u
<1>1. PICK r : Remains(u, n \div 128, r)
  BY DEF GroupsOf
<1>2. u \in Seq(Byte) /\ Len(u) \in Nat /\ Len(u) >= 1
  BY LenProperties DEF GroupsOf
<1>3. n % 128 \in 0 .. 127 /\ n = (128 * (n \div 128)) + (n % 128)
  BY Div128
<1>4. <<128 + (n % 128)>> \in Seq(Byte) /\ Len(<<128 + (n % 128)>>) = 1
  BY <1>3 DEF Byte
<1>5. /\ w \in Seq(Byte) /\ Len(w) = Len(u) + 1 /\ w[1] = 128 + (n % 128)
      /\ \A j \in 2 .. Len(u) + 1 : w[j] = u[j - 1]
  <2> DEFINE f == <<128 + (n % 128)>>
  <2>1. f[1] = 128 + (n % 128) /\ f \in Seq(Byte) /\ Len(f) = 1
    BY <1>4
  <2> HIDE DEF f
  <2>2. /\ f \o u \in Seq(Byte) /\ Len(f \o u) = Len(f) + Len(u)
        /\ \A j \in 1 .. Len(f) + Len(u) : (f \o u)[j] = IF j <= Len(f) THEN f[j] ELSE u[j - Len(f)]
    BY <1>2, <2>1, ConcatProperties
  <2>3. Len(f \o u) = Len(u) + 1 /\ (f \o u)[1] = f[1]
    BY <1>2, <2>1, <2>2
  <2>4. \A j \in 2 .. Len(u) + 1 : (f \o u)[j] = u[j - 1]
    BY <1>2, <2>1, <2>2
  <2>5. QED
    BY <2>1, <2>2, <2>3, <2>4 DEF f
<1> HIDE DEF w
<1> DEFINE rest == [j \in 0 .. Len(u) + 1 |-> IF j = 0 THEN n ELSE r[j - 1]]
<1>6. /\ r \in [0 .. Len(u) -> Nat] /\ r[0] = n \div 128 /\ r[Len(u)] = 0
      /\ \A j \in 1 .. Len(u) : r[j - 1] = (128 * r[j]) + (u[j] % 128)
  BY <1>1 DEF Remains
<1>7. /\ rest \in [0 .. Len(u) + 1 -> Nat] /\ rest[0] = n
      /\ \A j \in 1 .. Len(u) + 1 : rest[j] = r[j - 1]
  BY <1>2, <1>6
<1> HIDE DEF rest
<1>8. \A j \in 1 .. Len(u) + 1 : rest[j - 1] = (128 * rest[j]) + (w[j] % 128)
  <2> TAKE j \in 1 .. Len(u) + 1
  <2>1. CASE j = 1
    <3>1. w[1] % 128 = n % 128
      BY <1>3, <1>5
    <3>2. rest[1] = n \div 128 /\ rest[1 - 1] = n
      BY <1>2, <1>6, <1>7
    <3>3. QED
      BY <1>3, <2>1, <3>1, <3>2
  <2>2. CASE j # 1
    <3>1. j \in 2 .. Len(u) + 1 /\ j - 1 \in 1 .. Len(u) + 1 /\ j - 1 \in 1 .. Len(u)
      BY <1>2, <2>2
    <3>2. w[j] = u[j - 1] /\ rest[j] = r[j - 1] /\ rest[j - 1] = r[j - 1 - 1]
      BY <1>5, <1>7, <3>1
    <3>3. r[j - 1 - 1] = (128 * r[j - 1]) + (u[j - 1] % 128)
      BY <1>6, <3>1
    <3>4. QED
      BY <3>2, <3>3
  <2>3. QED
    BY <2>1, <2>2
<1>9. Remains(w, n, rest)
  <2>1. \A j \in 1 .. Len(u) + 1 : j = Len(u) + 1 => rest[j] = 0
    <3> SUFFICES ASSUME NEW j \in 1 .. Len(u) + 1, j = Len(u) + 1 PROVE rest[j] = 0
      OBVIOUS
    <3>1. j - 1 = Len(u)
      BY <1>2
    <3>2. QED
      BY <1>6, <1>7, <3>1
  <2>2. rest[Len(u) + 1] = 0
    BY <1>2, <2>1
  <2>3. QED
    BY <1>5, <1>7, <1>8, <2>2 DEF Remains
<1>10. \A j \in 1 .. Len(w) : w[j] >= 128 <=> j < Len(w)
  <2> TAKE j \in 1 .. Len(w)
  <2>1. CASE j = 1
    BY <1>2, <1>3, <1>5, <2>1
  <2>2. CASE j # 1
    <3>1. j \in 2 .. Len(u) + 1 /\ j - 1 \in 1 .. Len(u) /\ (j - 1 < Len(u) <=> j < Len(w))
      BY <1>2, <1>5, <2>2
    <3>2. u[j - 1] >= 128 <=> j - 1 < Len(u)
      BY <3>1 DEF GroupsOf
    <3>3. QED
      BY <1>5, <3>1, <3>2
  <2>3. QED
    BY <2>1, <2>2
<1>11. QED
  BY <1>2, <1>5, <1>9, <1>10 DEF GroupsOf, w

LEMMA GroupsAre == \A n \in Nat : GroupsOf(Groups[n], n)
<1> DEFINE T == {n \in Nat : ~GroupsOf(Groups[n], n)}
<1> SUFFICES ASSUME T # {} PROVE FALSE
  OBVIOUS
<1>1. PICK x \in T : \A y \in T : x <= y
  <2>1. T \subseteq Nat
    OBVIOUS
  <2> HIDE DEF T
  <2>2. QED
    BY <2>1, LeastNat
<1>2. x \in Nat /\ ~GroupsOf(Groups[x], x)
  OBVIOUS
<1>3. Groups[x] = IF x < 128 THEN <<x>> ELSE <<128 + (x % 128)>> \o Groups[x \div 128]
  BY <1>2, GroupsIs
<1>4. CASE x < 128
  BY <1>2, <1>3, <1>4, OneGroup
<1>5. CASE x >= 128
  <2>1. x \div 128 \in Nat /\ ~(x <= x \div 128)
    BY <1>2, <1>5, Div128
  <2>2. GroupsOf(Groups[x \div 128], x \div 128)
    BY <1>1, <2>1
  <2>3. GroupsOf(<<128 + (x % 128)>> \o Groups[x \div 128], x)
    BY <1>2, <2>2, GroupInFront
  <2>4. QED
    BY <1>2, <1>3, <1>5, <2>3
<1>6. QED
  BY <1>2, <1>4, <1>5

-----------------------------------------------------------------------------
(* A price v lies in d at p: n bytes with the bit 128, one without.  rest[m] is *)
(* what remains of its amount behind m + 1 bytes.                             *)
Abs(v) == IF v < 0 THEN -v ELSE v

Leaves(d, p, n, v, rest) ==
  /\ rest \in [0 .. n -> Nat] /\ rest[n] = 0
  /\ Abs(v) = (64 * rest[0]) + (At(d, p) % 64)
  /\ \A m \in 1 .. n : rest[m - 1] = (128 * rest[m]) + (At(d, p + m) % 128)

PriceIn(d, p, n, v) ==
  /\ \A m \in 0 .. n : At(d, p + m) \in Byte /\ (At(d, p + m) >= 128 <=> m < n)
  /\ (At(d, p) \div 64) % 2 = 1 <=> v < 0
  /\ \E rest : Leaves(d, p, n, v, rest)

LEMMA PriceHeld ==
  ASSUME NEW d, NEW p \in Nat, NEW w, NEW n \in Nat, NEW v, Len(w) = n + 1,
         Holds(d, p, w), PriceIn(w, 0, n, v)
  PROVE  PriceIn(d, p, n, v)
<1>1. \A m \in 0 .. n : At(d, p + m) = At(w, m) /\ 0 + m = m
  BY DEF Holds
<1>2. At(d, p) = At(w, 0)
  <2>1. 0 \in 0 .. n /\ p + 0 = p
    OBVIOUS
  <2>2. QED
    BY <1>1, <2>1
<1>3. \A m \in 0 .. n : At(d, p + m) \in Byte /\ (At(d, p + m) >= 128 <=> m < n)
  BY <1>1 DEF PriceIn
<1>4. PICK rest : Leaves(w, 0, n, v, rest)
  BY DEF PriceIn
<1>5. Leaves(d, p, n, v, rest)
  <2>1. \A m \in 1 .. n : rest[m - 1] = (128 * rest[m]) + (At(d, p + m) % 128)
    BY <1>1, <1>4 DEF Leaves
  <2>2. QED
    BY <1>2, <1>4, <2>1 DEF Leaves
<1>6. QED
  BY <1>2, <1>3, <1>5 DEF PriceIn

LEMMA EncodePriceIs ==
  ASSUME NEW v \in Int
  PROVE  /\ EncodePrice(v) \in Seq(Byte)
         /\ \E n \in Nat : Len(EncodePrice(v)) = n + 1 /\ PriceIn(EncodePrice(v), 0, n, v)
<1> DEFINE a == Abs(v)
           sign == IF v < 0 THEN 64 ELSE 0
<1>1. a \in Nat /\ sign \in {0, 64} /\ (sign = 64 <=> v < 0)
  BY DEF Abs
<1>2. EncodePrice(v) = IF a < 64 THEN <<a + sign>> ELSE <<128 + sign + (a % 64)>> \o Groups[a \div 64]
  BY DEF EncodePrice, Abs
<1> HIDE DEF a, sign
<1>3. CASE a < 64
  <2> DEFINE w == <<a + sign>>
             rest == [m \in 0 .. 0 |-> 0]
  <2>1. /\ w \in Seq(Byte) /\ Len(w) = 1 /\ At(w, 0) = a + sign
        /\ a + sign \in Byte /\ a + sign < 128
    BY <1>1, <1>3 DEF Byte, At
  <2>2. ((a + sign) \div 64) % 2 = 1 <=> v < 0
    BY <1>1, <1>3
  <2>3. a = (64 * 0) + ((a + sign) % 64)
    BY <1>1, <1>3
  <2>4. rest \in [0 .. 0 -> Nat] /\ rest[0] = 0
    OBVIOUS
  <2> HIDE DEF w, rest
  <2>5. Leaves(w, 0, 0, v, rest)
    BY <2>1, <2>3, <2>4 DEF Leaves, a
  <2>6. \A m \in 0 .. 0 : At(w, 0 + m) \in Byte /\ (At(w, 0 + m) >= 128 <=> m < 0)
    <3> TAKE m \in 0 .. 0
    <3>1. m = 0 /\ 0 + m = 0
      OBVIOUS
    <3>2. QED
      BY <1>1, <2>1, <3>1
  <2>7. PriceIn(w, 0, 0, v)
    BY <2>1, <2>2, <2>5, <2>6 DEF PriceIn
  <2>8. QED
    BY <1>2, <1>3, <2>1, <2>7 DEF w
<1>4. CASE a >= 64
  <2> DEFINE b == 128 + sign + (a % 64)
             u == Groups[a \div 64]
             w == <<b>> \o u
  <2>1. /\ b \in Byte /\ b >= 128 /\ ((b \div 64) % 2 = 1 <=> v < 0) /\ b % 64 = a % 64
        /\ a \div 64 \in Nat /\ a = (64 * (a \div 64)) + (a % 64)
    BY <1>1 DEF Byte
  <2>2. GroupsOf(u, a \div 64)
    BY <2>1, GroupsAre
  <2> HIDE DEF b, u
  <2>3. u \in Seq(Byte) /\ Len(u) \in Nat /\ Len(u) >= 1
    BY <2>2, LenProperties DEF GroupsOf
  <2>4. PICK rest : Remains(u, a \div 64, rest)
    BY <2>2 DEF GroupsOf
  <2>5. <<b>> \in Seq(Byte) /\ Len(<<b>>) = 1 /\ At(<<b>>, 0) = b
    BY <2>1 DEF At
  <2>6. w \in Seq(Byte) /\ Len(w) = Len(u) + 1
    <3> DEFINE f == <<b>>
    <3>1. f \in Seq(Byte) /\ Len(f) = 1
      BY <2>5
    <3> HIDE DEF f
    <3>2. f \o u \in Seq(Byte) /\ Len(f \o u) = Len(f) + Len(u)
      BY <2>3, <3>1, ConcatProperties
    <3>3. QED
      BY <2>3, <3>1, <3>2 DEF f
  <2>7. At(w, 0) = b /\ \A m \in 1 .. Len(u) : At(w, m) = u[m]
    <3> DEFINE f == <<b>>
    <3>1. f \in Seq(Byte) /\ Len(f) = 1 /\ At(f, 0) = b
      BY <2>5
    <3> HIDE DEF f
    <3>2. \A m \in Nat : At(f \o u, m) = IF m < Len(f) THEN At(f, m) ELSE At(u, m - Len(f))
      BY <2>3, <3>1, AtConcat
    <3>3. At(f \o u, 0) = b
      BY <3>1, <3>2
    <3>4. ASSUME NEW m \in 1 .. Len(u) PROVE At(f \o u, m) = u[m]
      <4>1. m \in Nat /\ ~(m < Len(f)) /\ m - Len(f) < Len(u) /\ m - Len(f) + 1 = m
        BY <2>3, <3>1
      <4>2. At(f \o u, m) = At(u, m - Len(f))
        BY <3>2, <4>1
      <4>3. QED
        BY <4>1, <4>2 DEF At
    <3>5. QED
      BY <3>3, <3>4 DEF f
  <2> HIDE DEF w
  <2>8. \A m \in 0 .. Len(u) : At(w, 0 + m) \in Byte /\ (At(w, 0 + m) >= 128 <=> m < Len(u))
    <3> TAKE m \in 0 .. Len(u)
    <3>1. 0 + m = m
      BY <2>3
    <3>2. CASE m = 0
      BY <2>1, <2>3, <2>7, <3>1, <3>2
    <3>3. CASE m # 0
      <4>1. m \in 1 .. Len(u)
        BY <2>3, <3>3
      <4>2. At(w, m) = u[m] /\ u[m] \in Byte /\ (u[m] >= 128 <=> m < Len(u))
        BY <2>2, <2>3, <2>7, <4>1, ElementOfSeq DEF GroupsOf
      <4>3. QED
        BY <3>1, <4>2
    <3>4. QED
      BY <3>2, <3>3
  <2>9. Leaves(w, 0, Len(u), v, rest)
    <3>1. /\ rest \in [0 .. Len(u) -> Nat] /\ rest[0] = a \div 64 /\ rest[Len(u)] = 0
          /\ \A m \in 1 .. Len(u) : rest[m - 1] = (128 * rest[m]) + (u[m] % 128)
      BY <2>4 DEF Remains
    <3>2. \A m \in 1 .. Len(u) : rest[m - 1] = (128 * rest[m]) + (At(w, 0 + m) % 128)
      <4> TAKE m \in 1 .. Len(u)
      <4>1. 0 + m = m /\ At(w, m) = u[m]
        BY <2>3, <2>7
      <4>2. QED
        BY <3>1, <4>1
    <3>3. Abs(v) = (64 * rest[0]) + (At(w, 0) % 64)
      BY <2>1, <2>7, <3>1 DEF a
    <3>4. QED
      BY <3>1, <3>2, <3>3 DEF Leaves
  <2>10. PriceIn(w, 0, Len(u), v)
    BY <2>1, <2>7, <2>8, <2>9 DEF PriceIn
  <2>11. EncodePrice(v) = w
    BY <1>1, <1>2, <1>4 DEF w, b, u
  <2>12. QED
    BY <2>3, <2>6, <2>10, <2>11
<1>5. QED
  BY <1>1, <1>3, <1>4

-----------------------------------------------------------------------------
(* What the loop of getPrice does.                                            *)
LEMMA AtByte ==
  ASSUME NEW d \in Seq(Byte), NEW p \in Nat
  PROVE  At(d, p) \in Byte /\ At(d, p) \in 0 .. 255
<1>1. Len(d) \in Nat
  BY LenProperties
<1>2. CASE p < Len(d)
  <2>1. p + 1 \in 1 .. Len(d)
    BY <1>1, <1>2
  <2>2. d[p + 1] \in Byte
    BY <2>1, ElementOfSeq
  <2>3. QED
    BY <1>2, <2>2 DEF At, Byte
<1>3. CASE ~(p < Len(d))
  BY <1>3 DEF At, Byte
<1>4. QED
  BY <1>2, <1>3

LEMMA LastByteIs ==
  ASSUME NEW d \in Seq(Byte), NEW p \in Nat, NEW e \in Nat, p <= e, e <= Len(d) + p,
         At(d, e) < 128, \A m \in p .. e - 1 : At(d, m) >= 128
  PROVE  LastByte(d, p) = e
<1> DEFINE Is(x) == At(d, x) < 128 /\ \A m \in p .. x - 1 : At(d, m) >= 128
           z == CHOOSE x \in p .. Len(d) + p : Is(x)
<1>1. Len(d) \in Nat /\ e \in p .. Len(d) + p /\ Is(e)
  BY LenProperties
<1>2. z \in p .. Len(d) + p /\ Is(z)
  <2> HIDE DEF Is
  <2>1. QED
    BY <1>1
<1>3. LastByte(d, p) = z
  BY DEF LastByte
<1> HIDE DEF z
<1>4. z \in Nat
  BY <1>1, <1>2
<1>5. ~(z < e)
  <2> SUFFICES ASSUME z < e PROVE FALSE
    OBVIOUS
  <2>1. z \in p .. e - 1
    BY <1>2, <1>4
  <2>2. At(d, z) >= 128 /\ At(d, z) < 128
    BY <1>2, <2>1
  <2>3. At(d, z) \in 0 .. 255
    BY <1>4, AtByte
  <2>4. \A x \in 0 .. 255 : ~(x >= 128 /\ x < 128)
    OBVIOUS
  <2>5. QED
    BY <2>2, <2>3, <2>4, Zenon
<1>6. ~(e < z)
  <2> SUFFICES ASSUME e < z PROVE FALSE
    OBVIOUS
  <2>1. e \in p .. z - 1
    BY <1>2, <1>4
  <2>2. At(d, e) >= 128 /\ At(d, e) < 128
    BY <1>2, <2>1
  <2>3. At(d, e) \in 0 .. 255
    BY <1>4, AtByte
  <2>4. \A x \in 0 .. 255 : ~(x >= 128 /\ x < 128)
    OBVIOUS
  <2>5. QED
    BY <2>2, <2>3, <2>4, Zenon
<1>7. QED
  BY <1>3, <1>4, <1>5, <1>6

IsLoop(f, d, p, e) ==
  f = [n \in p .. e |->
         IF n = p THEN [data |-> At(d, p) % 64, unit |-> 64]
         ELSE [data |-> f[n-1].data + (At(d, n) % 128) * f[n-1].unit,
               unit |-> 128 * f[n-1].unit]]

LEMMA LoopExists ==
  ASSUME NEW d, NEW p \in Nat, NEW n \in Nat
  PROVE  \E f : IsLoop(f, d, p, p + n)
<1> DEFINE T == {m \in Nat : ~\E f : IsLoop(f, d, p, p + m)}
<1> SUFFICES ASSUME T # {} PROVE FALSE
  OBVIOUS
<1>1. PICK x \in T : \A y \in T : x <= y
  <2>1. T \subseteq Nat
    OBVIOUS
  <2> HIDE DEF T
  <2>2. QED
    BY <2>1, LeastNat
<1>2. x \in Nat /\ ~\E f : IsLoop(f, d, p, p + x)
  OBVIOUS
<1> DEFINE first == [data |-> At(d, p) % 64, unit |-> 64]
<1>3. x # 0
  <2> DEFINE f == [j \in p .. p |-> first]
  <2>1. f = [j \in p .. p |-> f[j]] /\ \A j \in p .. p : f[j] = first /\ j = p
    OBVIOUS
  <2> HIDE DEF f
  <2>2. IsLoop(f, d, p, p)
    BY <2>1 DEF IsLoop
  <2>3. p + 0 = p
    OBVIOUS
  <2>4. QED
    BY <1>2, <2>2, <2>3
<1>4. PICK g : IsLoop(g, d, p, p + (x - 1))
  <2>1. x - 1 \in Nat /\ ~(x <= x - 1)
    BY <1>2, <1>3
  <2>2. x - 1 \notin T
    BY <1>1, <2>1
  <2>3. QED
    BY <2>1, <2>2
<1> HIDE DEF T
<1> DEFINE e == p + (x - 1)
           last == [data |-> g[e].data + (At(d, e + 1) % 128) * g[e].unit,
                    unit |-> 128 * g[e].unit]
           f == [j \in p .. e + 1 |-> IF j = e + 1 THEN last ELSE g[j]]
           Next1(h, j) == [data |-> h[j-1].data + (At(d, j) % 128) * h[j-1].unit,
                           unit |-> 128 * h[j-1].unit]
<1>5. e \in Nat /\ p <= e /\ e + 1 = p + x
  BY <1>2, <1>3
<1>6. IsLoop(g, d, p, e)
  BY <1>4
<1> HIDE DEF e
<1>7. \A j \in p .. e + 1 : f[j] = IF j = p THEN first ELSE Next1(f, j)
  <2> TAKE j \in p .. e + 1
  <2>1. CASE j = e + 1
    <3>1. j - 1 = e /\ e \in p .. e + 1 /\ e # e + 1 /\ j # p
      BY <1>5, <2>1
    <3>2. f[j] = last /\ f[j - 1] = g[e]
      BY <2>1, <3>1
    <3> HIDE DEF f
    <3>3. QED
      BY <2>1, <3>1, <3>2
  <2>2. CASE j # e + 1
    <3>1. j \in p .. e /\ (j # p => j - 1 \in p .. e + 1 /\ j - 1 # e + 1)
      BY <1>5, <2>2
    <3>2. g[j] = IF j = p THEN first ELSE Next1(g, j)
      BY <1>6, <3>1 DEF IsLoop
    <3>3. f[j] = g[j] /\ (j # p => f[j - 1] = g[j - 1])
      BY <2>2, <3>1
    <3> HIDE DEF f
    <3>4. QED
      BY <3>2, <3>3
  <2>3. QED
    BY <2>1, <2>2
<1>8. f = [j \in p .. e + 1 |-> f[j]]
  OBVIOUS
<1> HIDE DEF f
<1>9. IsLoop(f, d, p, e + 1)
  BY <1>7, <1>8 DEF IsLoop
<1>10. QED
  BY <1>2, <1>5, <1>9

(* One group more: what is read and what remains make up the same number.       *)
LEMMA Horner ==
  ASSUME NEW x \in Int, NEW W \in Int, NEW g \in Int, NEW r \in Int, NEW r1 \in Int,
         r1 = (128 * r) + g
  PROVE  (x + g * W) + ((128 * W) * r) = x + (W * r1)
OBVIOUS

LEMMA ByteBits == \A x \in 0 .. 255 : x % 64 \in Int /\ x % 128 \in Int
OBVIOUS

LEMMA LoopSum ==
  ASSUME NEW d \in Seq(Byte), NEW p \in Nat, NEW n \in Nat, NEW v \in Int, NEW f,
         IsLoop(f, d, p, p + n), NEW rest, Leaves(d, p, n, v, rest)
  PROVE  f[p + n].data = Abs(v)
<1> DEFINE Sums(m) == /\ f[p + m].data \in Int /\ f[p + m].unit \in Int
                      /\ f[p + m].data + (f[p + m].unit * rest[m]) = Abs(v)
           T == {m \in 0 .. n : ~Sums(m)}
<1>0. /\ rest \in [0 .. n -> Nat] /\ rest[n] = 0
      /\ Abs(v) = (64 * rest[0]) + (At(d, p) % 64)
      /\ \A m \in 1 .. n : rest[m - 1] = (128 * rest[m]) + (At(d, p + m) % 128)
  BY DEF Leaves
<1>a. T = {}
  <2> SUFFICES ASSUME T # {} PROVE FALSE
    OBVIOUS
  <2>1. PICK x \in T : \A y \in T : x <= y
    <3>1. T \subseteq Nat
      OBVIOUS
    <3> HIDE DEF T
    <3>2. QED
      BY <3>1, LeastNat
  <2>2. x \in 0 .. n /\ ~Sums(x)
    OBVIOUS
  <2>3. CASE x = 0
    <3>1. p + 0 = p /\ p \in p .. p + n /\ 0 \in 0 .. n
      OBVIOUS
    <3>2. f[p] = [data |-> At(d, p) % 64, unit |-> 64]
      BY <3>1 DEF IsLoop
    <3>3. f[p].data = At(d, p) % 64 /\ f[p].unit = 64
      BY <3>2
    <3>4. At(d, p) \in 0 .. 255
      BY AtByte
    <3>5. rest[0] \in Nat
      BY <1>0, <3>1
    <3>6. At(d, p) % 64 \in Int /\ 64 \in Int
      <4>1. 64 \in Int
        OBVIOUS
      <4>2. QED
        BY <3>4, <4>1, ByteBits, Zenon
    <3>7. (At(d, p) % 64) + (64 * rest[0]) = Abs(v)
      BY <1>0, <3>5, <3>6
    <3>8. Sums(0)
      BY <3>1, <3>3, <3>6, <3>7, Zenon
    <3>9. QED
      BY <2>2, <2>3, <3>8
  <2>4. CASE x # 0
    <3>1. x - 1 \in 0 .. n /\ ~(x <= x - 1) /\ x \in 1 .. n /\ p + (x - 1) = p + x - 1
          /\ p + x \in p .. p + n /\ p + x # p /\ p + x \in Nat
      BY <2>2, <2>4
    <3>2. Sums(x - 1)
      BY <2>1, <3>1
    <3> DEFINE W == f[p + x - 1].unit
               y == f[p + x - 1].data
               g == At(d, p + x) % 128
    <3>3. y \in Int /\ W \in Int /\ y + (W * rest[x - 1]) = Abs(v)
      BY <3>1, <3>2
    <3>4. f[p + x] = [data |-> y + g * W, unit |-> 128 * W]
      BY <3>1 DEF IsLoop
    <3>5. g \in Int /\ rest[x] \in Int /\ rest[x - 1] \in Int /\ rest[x - 1] = (128 * rest[x]) + g
      <4>1. At(d, p + x) \in 0 .. 255
        BY <3>1, AtByte
      <4>2. rest[x] \in Nat /\ rest[x - 1] \in Nat
        BY <1>0, <2>2, <3>1
      <4>3. g \in Int
        BY <4>1, ByteBits, Zenon
      <4>4. rest[x - 1] = (128 * rest[x]) + g
        BY <1>0, <3>1
      <4> HIDE DEF g
      <4>5. QED
        BY <4>2, <4>3, <4>4
    <3>6. f[p + x].data = y + g * W /\ f[p + x].unit = 128 * W
      BY <3>4
    <3> HIDE DEF y, W, g, Sums, T
    <3>7. (y + g * W) + ((128 * W) * rest[x]) = y + (W * rest[x - 1])
      <4> DEFINE r == rest[x]
                 r1 == rest[x - 1]
      <4>1. y \in Int /\ W \in Int /\ g \in Int /\ r \in Int /\ r1 \in Int /\ r1 = (128 * r) + g
        BY <3>3, <3>5
      <4> HIDE DEF r, r1
      <4>2. (y + g * W) + ((128 * W) * r) = y + (W * r1)
        BY <4>1, Horner
      <4>3. QED
        BY <4>2 DEF r, r1
    <3>8. y + g * W \in Int /\ 128 * W \in Int
      BY <3>3, <3>5
    <3>9. Sums(x)
      BY <3>3, <3>6, <3>7, <3>8, Zenon DEF Sums
    <3>10. QED
      BY <2>2, <3>9
  <2>5. QED
    BY <2>3, <2>4
<1>b. Sums(n)
  <2> HIDE DEF Sums
  <2>1. n \in 0 .. n
    OBVIOUS
  <2>2. QED
    BY <1>a, <2>1, Zenon
<1>c. f[p + n].unit * 0 = 0
  BY <1>b
<1>d. QED
  BY <1>0, <1>b, <1>c

(* A price that lies in the bytes is read as it is, and the position is moved    *)
(* behind it.                                                                 *)
LEMMA PriceRead ==
  ASSUME NEW d \in Seq(Byte), NEW p \in Nat, NEW n \in Nat, NEW v \in Int, n <= Len(d),
         PriceIn(d, p, n, v)
  PROVE  getPrice(d, p) = <<v, p + n + 1>>
<1>0. Len(d) \in Nat
  BY LenProperties
<1>1. LastByte(d, p) = p + n
  <2>1. \A m \in 0 .. n : At(d, p + m) >= 128 <=> m < n
    BY DEF PriceIn
  <2>2. At(d, p + n) < 128
    <3>1. n \in 0 .. n /\ p + n \in Nat /\ ~(n < n)
      OBVIOUS
    <3>2. ~(At(d, p + n) >= 128)
      BY <2>1, <3>1
    <3>3. At(d, p + n) \in 0 .. 255
      BY <3>1, AtByte
    <3>4. \A x \in 0 .. 255 : ~(x >= 128) => x < 128
      OBVIOUS
    <3>5. QED
      BY <3>2, <3>3, <3>4, Zenon
  <2>3. \A m \in p .. p + n - 1 : At(d, m) >= 128
    <3> TAKE m \in p .. p + n - 1
    <3>1. m - p \in 0 .. n /\ m - p < n /\ p + (m - p) = m
      OBVIOUS
    <3>2. QED
      BY <2>1, <3>1
  <2>4. p + n \in Nat /\ p <= p + n /\ p + n <= Len(d) + p
    BY <1>0
  <2>5. QED
    BY <2>2, <2>3, <2>4, LastByteIs
<1>2. PICK rest : Leaves(d, p, n, v, rest)
  BY DEF PriceIn
<1> DEFINE f == PriceLoop(d, p)
<1>3. IsLoop(f, d, p, p + n)
  <2>1. \E g : IsLoop(g, d, p, p + n)
    BY LoopExists
  <2>2. f = CHOOSE g : IsLoop(g, d, p, p + n)
    BY <1>1 DEF PriceLoop, IsLoop
  <2> HIDE DEF f
  <2>3. QED
    BY <2>1, <2>2
<1> HIDE DEF f
<1>4. f[p + n].data = Abs(v)
  BY <1>2, <1>3, LoopSum
<1>5. PriceValue(d, p) = v
  <2>1. (At(d, p) \div 64) % 2 = 1 <=> v < 0
    BY DEF PriceIn
  <2>2. PriceValue(d, p) = IF (At(d, p) \div 64) % 2 = 1 THEN -Abs(v) ELSE Abs(v)
    BY <1>1, <1>4 DEF PriceValue, f
  <2>3. QED
    BY <2>1, <2>2 DEF Abs
<1>6. QED
  BY <1>1, <1>5 DEF getPrice

-----------------------------------------------------------------------------
(* The bytes d are b as far as it was unpacked, and zero behind.               *)
CutAt(d, b, k) ==
  /\ d \in Seq(Byte) /\ b \in Seq(Byte) /\ Len(d) = Len(b) /\ k \in 0 .. Len(b)
  /\ \A m \in Nat : At(d, m) = IF m < k THEN At(b, m) ELSE 0

(* The position c is where it should be, q, or before it among the zeros.       *)
Near(c, q, k) == c \in Nat /\ q \in Nat /\ c <= q /\ (c = q \/ c >= k)

PriceAt(b, p, q, v) == \E n \in Nat : q = p + n + 1 /\ PriceIn(b, p, n, v)

LEMMA ZeroRead ==
  ASSUME NEW d \in Seq(Byte), NEW c \in Nat, At(d, c) = 0
  PROVE  LastByte(d, c) = c
<1>1. Len(d) \in Nat
  BY LenProperties
<1>2. c <= c /\ c <= Len(d) + c /\ At(d, c) < 128 /\ \A m \in c .. c - 1 : At(d, m) >= 128
  BY <1>1
<1>3. QED
  BY <1>2, LastByteIs

LEMMA PriceNear ==
  ASSUME NEW d, NEW b, NEW k, CutAt(d, b, k), NEW c, NEW q, Near(c, q, k),
         NEW n \in Nat, NEW v, PriceIn(b, q, n, v), q + n < Len(b)
  PROVE  Near(LastByte(d, c) + 1, q + n + 1, k)
<1>1. /\ d \in Seq(Byte) /\ b \in Seq(Byte) /\ Len(d) = Len(b) /\ k \in Nat
      /\ c \in Nat /\ q \in Nat /\ c <= q /\ Len(b) \in Nat
  BY LenProperties DEF CutAt, Near
<1>2. \A m \in Nat : At(d, m) = IF m < k THEN At(b, m) ELSE 0
  BY DEF CutAt
<1>3. \A m \in q .. q + n - 1 : At(b, m) >= 128
  <2> TAKE m \in q .. q + n - 1
  <2>1. m - q \in 0 .. n /\ m - q < n /\ q + (m - q) = m
    BY <1>1
  <2>2. QED
    BY <2>1 DEF PriceIn
<1>4. CASE c >= k
  <2>1. At(d, c) = 0
    BY <1>1, <1>2, <1>4
  <2>2. LastByte(d, c) = c
    BY <1>1, <2>1, ZeroRead
  <2>3. QED
    BY <1>1, <1>4, <2>2 DEF Near
<1>5. CASE c < k /\ q + n < k
  <2>1. c = q
    BY <1>1, <1>5 DEF Near
  <2>2. At(d, q + n) < 128
    <3>1. n \in 0 .. n /\ ~(n < n) /\ q + n \in Nat
      BY <1>1
    <3>2. At(d, q + n) = At(b, q + n) /\ ~(At(b, q + n) >= 128)
      BY <1>2, <1>5, <3>1 DEF PriceIn
    <3>3. At(b, q + n) \in 0 .. 255
      BY <1>1, <3>1, AtByte
    <3>4. \A x \in 0 .. 255 : ~(x >= 128) => x < 128
      OBVIOUS
    <3>5. QED
      BY <3>2, <3>3, <3>4, Zenon
  <2>3. \A m \in q .. q + n - 1 : At(d, m) >= 128
    <3> TAKE m \in q .. q + n - 1
    <3>1. m \in Nat /\ m < k
      BY <1>1, <1>5
    <3>2. QED
      BY <1>2, <1>3, <3>1
  <2>4. q + n \in Nat /\ q <= q + n /\ q + n <= Len(d) + q
    BY <1>1
  <2>5. LastByte(d, q) = q + n
    <3>1. PICK e : e = q + n
      OBVIOUS
    <3>2. e \in Nat /\ q <= e /\ e <= Len(d) + q /\ At(d, e) < 128
      BY <2>2, <2>4, <3>1
    <3>3. \A m \in q .. e - 1 : At(d, m) >= 128
      <4> TAKE m \in q .. e - 1
      <4>1. m \in q .. q + n - 1
        BY <1>1, <3>1
      <4>2. QED
        BY <2>3, <4>1
    <3>4. LastByte(d, q) = e
      BY <1>1, <3>2, <3>3, LastByteIs
    <3>5. QED
      BY <3>1, <3>4
  <2>6. QED
    BY <1>1, <2>1, <2>4, <2>5 DEF Near
<1>6. CASE c < k /\ k <= q + n
  <2>1. c = q
    BY <1>1, <1>6 DEF Near
  <2>2. At(d, k) < 128
    BY <1>1, <1>2
  <2>3. \A m \in q .. k - 1 : At(d, m) >= 128
    <3> TAKE m \in q .. k - 1
    <3>1. m \in Nat /\ m < k /\ m \in q .. q + n - 1
      BY <1>1, <1>6
    <3>2. QED
      BY <1>2, <1>3, <3>1
  <2>4. q <= k /\ k <= Len(d) + q
    BY <1>1, <1>6, <2>1
  <2>5. LastByte(d, q) = k
    BY <1>1, <2>2, <2>3, <2>4, LastByteIs
  <2>6. QED
    BY <1>1, <1>6, <2>1, <2>5 DEF Near
<1>7. QED
  BY <1>1, <1>4, <1>5, <1>6

(* The same for getPrice: the position stays near, and a price that was unpacked *)
(* is read as it is.                                                          *)
LEMMA PriceStep ==
  ASSUME NEW d, NEW b, NEW k, CutAt(d, b, k), NEW c, NEW q, Near(c, q, k),
         NEW v \in Int, NEW q2, PriceAt(b, q, q2, v), q2 <= Len(b)
  PROVE  /\ Near(getPrice(d, c)[2], q2, k) /\ q < q2
         /\ q2 <= k => c = q /\ getPrice(d, c)[1] = v /\ getPrice(d, c)[2] = q2
<1>1. PICK n \in Nat : q2 = q + n + 1 /\ PriceIn(b, q, n, v)
  BY DEF PriceAt
<1>2. /\ c \in Nat /\ q \in Nat /\ c <= q /\ Len(b) \in Nat /\ k \in Nat /\ k <= Len(b)
      /\ d \in Seq(Byte) /\ Len(d) = Len(b) /\ (c = q \/ c >= k)
  BY LenProperties DEF CutAt, Near
<1>3. q + n < Len(b) /\ q < q2 /\ q2 \in Nat
  BY <1>1, <1>2
<1>4. Near(LastByte(d, c) + 1, q + n + 1, k)
  BY <1>1, <1>3, PriceNear
<1>5. getPrice(d, c)[2] = LastByte(d, c) + 1
  BY DEF getPrice
<1>6. ASSUME q2 <= k PROVE c = q /\ getPrice(d, c)[1] = v /\ getPrice(d, c)[2] = q2
  <2>1. c = q
    BY <1>2, <1>3, <1>6
  <2>2. \A m \in 0 .. n : At(d, q + m) = At(b, q + m)
    <3> TAKE m \in 0 .. n
    <3>1. q + m \in Nat /\ q + m < k
      BY <1>1, <1>2, <1>6
    <3>2. QED
      BY <3>1 DEF CutAt
  <2>3. PriceIn(d, q, n, v)
    <3>1. At(d, q) = At(b, q)
      <4>1. 0 \in 0 .. n /\ q + 0 = q
        BY <1>2
      <4>2. QED
        BY <2>2, <4>1
    <3>2. PICK rest : Leaves(b, q, n, v, rest)
      BY <1>1 DEF PriceIn
    <3>3. \A m \in 1 .. n : rest[m - 1] = (128 * rest[m]) + (At(d, q + m) % 128)
      <4> TAKE m \in 1 .. n
      <4>1. m \in 0 .. n
        OBVIOUS
      <4>2. QED
        BY <2>2, <3>2, <4>1 DEF Leaves
    <3>4. Leaves(d, q, n, v, rest)
      BY <3>1, <3>2, <3>3 DEF Leaves
    <3>5. QED
      BY <1>1, <2>2, <3>1, <3>4 DEF PriceIn
  <2>4. n <= Len(d)
    BY <1>2, <1>3
  <2>5. getPrice(d, q) = <<v, q + n + 1>>
    BY <1>2, <2>3, <2>4, PriceRead
  <2>6. QED
    BY <1>1, <2>1, <2>5
<1>7. QED
  BY <1>1, <1>3, <1>4, <1>5, <1>6

-----------------------------------------------------------------------------
(* The parts of an encoded bar.                                               *)
LEMMA HoldsPrice ==
  ASSUME NEW v \in Int, NEW d, NEW p \in Nat, Holds(d, p, EncodePrice(v))
  PROVE  PriceAt(d, p, p + Len(EncodePrice(v)), v)
<1>1. PICK n \in Nat : Len(EncodePrice(v)) = n + 1 /\ PriceIn(EncodePrice(v), 0, n, v)
  BY EncodePriceIs
<1>2. PriceIn(d, p, n, v)
  BY <1>1, PriceHeld
<1>3. p + Len(EncodePrice(v)) = p + n + 1
  BY <1>1
<1>4. QED
  BY <1>2, <1>3 DEF PriceAt

(* A word, and a number of two words.                                          *)
Words == {n \in Nat : n <= 65535}
Low(n) == n % 65536
High(n) == n \div 65536
Join(l, h) == l + 65536 * h

LEMMA WordType ==
  ASSUME NEW n \in Words
  PROVE  n \in Nat /\ n <= 65535
BY SMT DEF Words

LEMMA WordIs ==
  ASSUME NEW n \in Nat, n <= 65535
  PROVE  n \in Words
BY SMT DEF Words

LEMMA WordSplit ==
  ASSUME NEW n \in Words
  PROVE  (n % 256) + 256 * ((n \div 256) % 256) = n
<1>1. n \in Nat /\ n <= 65535
  BY WordType, SMT
<1>2. n \div 256 \in Int /\ n \div 256 <= 255 /\ 0 <= n \div 256
  BY <1>1, SMT
<1>3. \A m \in Int : m <= 255 /\ 0 <= m => m % 256 = m
  OBVIOUS
<1>4. (n \div 256) % 256 = n \div 256
  BY <1>2, <1>3, Zenon
<1>5. n = 256 * (n \div 256) + (n % 256) /\ n % 256 \in Int
  BY <1>1, SMT
<1>6. QED
  BY <1>2, <1>4, <1>5, SMT

LEMMA NumberSplit ==
  ASSUME NEW n \in Nat
  PROVE  Low(n) \in Words /\ Join(Low(n), High(n)) = n
<1>1. n % 65536 \in Nat /\ n % 65536 <= 65535
  BY SMT
<1>2. (n % 65536) + 65536 * (n \div 65536) = n
  BY SMT
<1>3. QED
  BY <1>1, <1>2, WordIs, SMT DEF Low, High, Join

LEMMA U32Split == \A n : U32(n) = U16(Low(n)) \o U16(High(n))
BY DEF U32, Low, High

LEMMA WordRead ==
  ASSUME NEW n \in Words, NEW d, NEW p \in Nat, Holds(d, p, U16(n))
  PROVE  Word(d, p) = n
<1>0. n \in Nat
  BY WordType, SMT
<1>1. Len(U16(n)) = 2 /\ At(U16(n), 0) = n % 256 /\ At(U16(n), 1) = (n \div 256) % 256
  BY <1>0, U16Is
<1>2. \A m \in 0 .. 1 : At(d, p + m) = At(U16(n), m)
  BY <1>1 DEF Holds
<1>3. At(d, p) = n % 256 /\ At(d, p + 1) = (n \div 256) % 256
  <2>1. 0 \in 0 .. 1 /\ 1 \in 0 .. 1 /\ p + 0 = p
    OBVIOUS
  <2>2. QED
    BY <1>1, <1>2, <2>1
<1>4. (n % 256) + 256 * ((n \div 256) % 256) = n
  BY WordSplit
<1>5. QED
  BY <1>3, <1>4 DEF Word

LEMMA BarFields ==
  ASSUME NEW b \in Bars
  PROVE  /\ b.year \in 2004 .. 2035 /\ b.month \in 1 .. 12 /\ b.day \in 1 .. 31
         /\ b.hour \in 0 .. 23 /\ b.minute \in 0 .. 59
         /\ b.open \in Int /\ b.close \in Int /\ b.high \in Int /\ b.low \in Int
         /\ b.vol \in Int /\ b.amount \in Amount
<1>1. /\ b.open \in Price /\ b.close \in Price /\ b.high \in Price /\ b.low \in Price
      /\ b.vol \in Price
  BY DEF Bars
<1>2. \A x \in Price : x \in Int
  BY DEF Price
<1>3. /\ b.year \in 2004 .. 2035 /\ b.month \in 1 .. 12 /\ b.day \in 1 .. 31
      /\ b.hour \in 0 .. 23 /\ b.minute \in 0 .. 59 /\ b.amount \in Amount
  BY DEF Bars
<1>4. QED
  BY <1>1, <1>2, <1>3

IsDate(y, m, n) == y \in 2004 .. 2035 /\ m \in 1 .. 12 /\ n \in 1 .. 31
PackDay(y, m, n) == (y - 2004) * 2048 + m * 100 + n
PackDate(y, m, n) == y * 10000 + m * 100 + n

DayWord(b) == PackDay(b.year, b.month, b.day)
MinuteWord(b) == b.hour * 60 + b.minute
DateNumber(b) == PackDate(b.year, b.month, b.day)

LEMMA DayRange ==
  ASSUME NEW y, NEW m, NEW n, IsDate(y, m, n)
  PROVE  /\ PackDay(y, m, n) \in Words
         /\ PackDate(y, m, n) \in Nat /\ High(PackDate(y, m, n)) \in Words
<1>0. y \in 2004 .. 2035 /\ m \in 1 .. 12 /\ n \in 1 .. 31
  BY SMT DEF IsDate
<1>1. (y - 2004) * 2048 + m * 100 + n \in Nat
  BY <1>0, SMT
<1>2. (y - 2004) * 2048 + m * 100 + n <= 65535
  BY <1>0, SMT
<1>3. PICK z : z = y * 10000 + m * 100 + n
  OBVIOUS
<1>4. z \in Nat /\ z <= 20351231
  BY <1>0, <1>3, SMT
<1>5. z \div 65536 \in Nat /\ z \div 65536 <= 65535
  BY <1>4, SMT
<1>6. QED
  BY <1>1, <1>2, <1>3, <1>4, <1>5, WordIs, SMT DEF High, PackDay, PackDate

LEMMA MinuteRange ==
  ASSUME NEW h \in 0 .. 23, NEW m \in 0 .. 59
  PROVE  h * 60 + m \in Words
<1>1. h * 60 + m \in Nat /\ h * 60 + m <= 65535
  BY SMT
<1>2. QED
  BY <1>1, WordIs, SMT

LEMMA BarDates ==
  ASSUME NEW b \in Bars
  PROVE  /\ IsDate(b.year, b.month, b.day)
         /\ b.hour \in 0 .. 23 /\ b.minute \in 0 .. 59
BY BarFields, SMT DEF IsDate

LEMMA DateRange ==
  ASSUME NEW b \in Bars
  PROVE  /\ DayWord(b) \in Words /\ MinuteWord(b) \in Words
         /\ DateNumber(b) \in Nat /\ High(DateNumber(b)) \in Words
<1>1. IsDate(b.year, b.month, b.day) /\ b.hour \in 0 .. 23 /\ b.minute \in 0 .. 59
  BY BarDates, Zenon
<1>2. DayWord(b) \in Words /\ DateNumber(b) \in Nat /\ High(DateNumber(b)) \in Words
  BY <1>1, DayRange, Zenon DEF DayWord, DateNumber
<1>3. MinuteWord(b) \in Words
  BY <1>1, MinuteRange, SMT DEF MinuteWord
<1>4. QED
  BY <1>2, <1>3

(* Two words behind each other.                                               *)
LEMMA TwoWords ==
  ASSUME NEW m \in Words, NEW n \in Words
  PROVE  /\ U16(m) \o U16(n) \in Seq(Byte) /\ Len(U16(m) \o U16(n)) = 4
         /\ \A d : \A p \in Nat :
              Holds(d, p, U16(m) \o U16(n)) => Word(d, p) = m /\ Word(d, p + 2) = n
<1>0. m \in Nat /\ n \in Nat
  BY WordType, SMT
<1> DEFINE u == U16(m)
           v == U16(n)
<1>1. u \in Seq(Byte) /\ Len(u) = 2 /\ v \in Seq(Byte) /\ Len(v) = 2
  BY <1>0, U16Is
<1>2. u \o v \in Seq(Byte) /\ Len(u \o v) = 4
  <2> HIDE DEF u, v
  <2>1. u \o v \in Seq(Byte) /\ Len(u \o v) = Len(u) + Len(v)
    BY <1>1, ConcatProperties
  <2>2. QED
    BY <1>1, <2>1
<1>3. ASSUME NEW d, NEW p \in Nat, Holds(d, p, u \o v)
      PROVE  Word(d, p) = m /\ Word(d, p + 2) = n
  <2>1. Holds(d, p, u) /\ Holds(d, p + 2, v)
    <3> HIDE DEF u, v
    <3>1. Holds(d, p, u) /\ Holds(d, p + Len(u), v)
      BY <1>1, <1>3, HoldsConcat
    <3>2. QED
      BY <1>1, <3>1
  <2>2. p + 2 \in Nat
    OBVIOUS
  <2>3. QED
    BY <2>1, <2>2, WordRead, Zenon
<1>4. QED
  BY <1>2, <1>3, Zenon

LEMMA DateParts ==
  ASSUME NEW cat, NEW b \in Bars
  PROVE  /\ IsIntraday(cat) => EncodeDate(cat, b) = U16(DayWord(b)) \o U16(MinuteWord(b))
         /\ ~IsIntraday(cat) =>
              EncodeDate(cat, b) = U16(Low(DateNumber(b))) \o U16(High(DateNumber(b)))
<1>1. ~IsIntraday(cat) => EncodeDate(cat, b) = U32(DateNumber(b))
  BY SMT DEF EncodeDate, DateNumber, PackDate
<1>2. IsIntraday(cat) => EncodeDate(cat, b) = U16(DayWord(b)) \o U16(MinuteWord(b))
  BY SMT DEF EncodeDate, DayWord, MinuteWord, PackDay
<1>3. QED
  BY <1>1, <1>2, U32Split, Zenon

LEMMA EncodeDateIs ==
  ASSUME NEW cat, NEW b \in Bars
  PROVE  EncodeDate(cat, b) \in Seq(Byte) /\ Len(EncodeDate(cat, b)) = 4
<1>1. /\ DayWord(b) \in Words /\ MinuteWord(b) \in Words
      /\ Low(DateNumber(b)) \in Words /\ High(DateNumber(b)) \in Words
  BY DateRange, NumberSplit, Zenon
<1>2. \E m, n \in Words : EncodeDate(cat, b) = U16(m) \o U16(n)
  BY <1>1, DateParts, Zenon
<1>3. PICK m \in Words, n \in Words : EncodeDate(cat, b) = U16(m) \o U16(n)
  BY <1>2
<1>4. U16(m) \o U16(n) \in Seq(Byte) /\ Len(U16(m) \o U16(n)) = 4
  BY TwoWords
<1>5. QED
  BY <1>3, <1>4, Zenon

LEMMA DateRead ==
  ASSUME NEW cat, NEW b \in Bars, NEW d, NEW p \in Nat, Holds(d, p, EncodeDate(cat, b))
  PROVE  /\ IsIntraday(cat) => Word(d, p) = DayWord(b) /\ Word(d, p + 2) = MinuteWord(b)
         /\ ~IsIntraday(cat) => Join(Word(d, p), Word(d, p + 2)) = DateNumber(b)
<1>1. /\ DayWord(b) \in Words /\ MinuteWord(b) \in Words /\ DateNumber(b) \in Nat
      /\ Low(DateNumber(b)) \in Words /\ High(DateNumber(b)) \in Words
  BY DateRange, NumberSplit, Zenon
<1>2. ASSUME IsIntraday(cat) PROVE Word(d, p) = DayWord(b) /\ Word(d, p + 2) = MinuteWord(b)
  <2>1. Holds(d, p, U16(DayWord(b)) \o U16(MinuteWord(b)))
    BY <1>2, DateParts, Zenon
  <2>2. QED
    BY <1>1, <2>1, TwoWords
<1>3. ASSUME ~IsIntraday(cat)
      PROVE  Word(d, p) = Low(DateNumber(b)) /\ Word(d, p + 2) = High(DateNumber(b))
  <2>1. Holds(d, p, U16(Low(DateNumber(b))) \o U16(High(DateNumber(b))))
    BY <1>3, DateParts, Zenon
  <2>2. QED
    BY <1>1, <2>1, TwoWords
<1>4. Join(Low(DateNumber(b)), High(DateNumber(b))) = DateNumber(b)
  BY <1>1, NumberSplit, Zenon
<1>5. QED
  BY <1>2, <1>3, <1>4, Zenon

(* A bar lies in d from p to q.                                               *)
RowIn(d, p, q, cat, b, pre) ==
  \E p2, p3, p4, p5, p6 \in Nat :
    /\ Holds(d, p, EncodeDate(cat, b))
    /\ PriceAt(d, p + 4, p2, b.open - pre)
    /\ PriceAt(d, p2, p3, b.close - b.open)
    /\ PriceAt(d, p3, p4, b.high - b.open)
    /\ PriceAt(d, p4, p5, b.low - b.open)
    /\ PriceAt(d, p5, p6, b.vol)
    /\ Holds(d, p6, b.amount)
    /\ q = p6 + 4

(* The price behind some other bytes.                                         *)
LEMMA PieceHeld ==
  ASSUME NEW u \in Seq(Byte), NEW v \in Int, NEW d, NEW p \in Nat,
         Holds(d, p, u \o EncodePrice(v))
  PROVE  /\ Holds(d, p, u)
         /\ PriceAt(d, p + Len(u), p + Len(u \o EncodePrice(v)), v)
<1> DEFINE w == EncodePrice(v)
<1>1. w \in Seq(Byte) /\ Len(w) \in Nat /\ Len(u) \in Nat
  BY EncodePriceIs, LenProperties
<1>2. Holds(d, p, u) /\ Holds(d, p + Len(u), w) /\ Len(u \o w) = Len(u) + Len(w)
  <2> HIDE DEF w
  <2>1. Holds(d, p, u \o w)
    BY DEF w
  <2>2. QED
    BY <1>1, <2>1, HoldsConcat, ConcatProperties
<1>3. p + Len(u) \in Nat /\ p + Len(u) + Len(w) = p + Len(u \o w)
  BY <1>1, <1>2
<1>4. PriceAt(d, p + Len(u), p + Len(u) + Len(w), v)
  BY <1>2, <1>3, HoldsPrice
<1>5. QED
  BY <1>2, <1>3, <1>4

LEMMA PieceType ==
  ASSUME NEW u \in Seq(Byte), NEW v \in Int
  PROVE  u \o EncodePrice(v) \in Seq(Byte)
BY EncodePriceIs, ConcatProperties

LEMMA EncodeBarIs ==
  ASSUME NEW cat, NEW b \in Bars, NEW pre \in Int
  PROVE  /\ EncodeBar(cat, b, pre) \in Seq(Byte)
         /\ \A d : \A p \in Nat :
              Holds(d, p, EncodeBar(cat, b, pre)) =>
                RowIn(d, p, p + Len(EncodeBar(cat, b, pre)), cat, b, pre)
<1> DEFINE v1 == b.open - pre
           v2 == b.close - b.open
           v3 == b.high - b.open
           v4 == b.low - b.open
           v5 == b.vol
           w0 == EncodeDate(cat, b)
           w1 == w0 \o EncodePrice(v1)
           w2 == w1 \o EncodePrice(v2)
           w3 == w2 \o EncodePrice(v3)
           w4 == w3 \o EncodePrice(v4)
           w5 == w4 \o EncodePrice(v5)
           w  == w5 \o b.amount
<1>1. v1 \in Int /\ v2 \in Int /\ v3 \in Int /\ v4 \in Int /\ v5 \in Int
  BY BarFields
<1>2. b.amount \in Seq(Byte) /\ Len(b.amount) = 4
  BY BarFields DEF Amount
<1>3. w0 \in Seq(Byte) /\ Len(w0) = 4
  BY EncodeDateIs
<1>4. EncodeBar(cat, b, pre) = w
  BY DEF EncodeBar
<1>5. w1 \in Seq(Byte)
  BY <1>1, <1>3, PieceType
<1>6. w2 \in Seq(Byte)
  BY <1>1, <1>5, PieceType
<1>7. w3 \in Seq(Byte)
  BY <1>1, <1>6, PieceType
<1>8. w4 \in Seq(Byte)
  BY <1>1, <1>7, PieceType
<1>9. w5 \in Seq(Byte)
  BY <1>1, <1>8, PieceType
<1>10. w \in Seq(Byte) /\ Len(w) = Len(w5) + 4
  <2> HIDE DEF w5
  <2>1. w5 \o b.amount \in Seq(Byte) /\ Len(w5 \o b.amount) = Len(w5) + Len(b.amount)
    BY <1>2, <1>9, ConcatProperties, Zenon
  <2>2. QED
    BY <1>2, <2>1, Zenon
<1>11. ASSUME NEW d, NEW p \in Nat, Holds(d, p, w)
       PROVE  RowIn(d, p, p + Len(w), cat, b, pre)
  <2> HIDE DEF v1, v2, v3, v4, v5, w0
  <2>1. Holds(d, p, w5) /\ Holds(d, p + Len(w5), b.amount)
    <3> HIDE DEF w5
    <3>1. QED
      BY <1>2, <1>9, <1>11, HoldsConcat
  <2>2. Holds(d, p, w4) /\ PriceAt(d, p + Len(w4), p + Len(w5), v5)
    <3> HIDE DEF w4
    <3>1. QED
      BY <1>1, <1>8, <2>1, PieceHeld
  <2>3. Holds(d, p, w3) /\ PriceAt(d, p + Len(w3), p + Len(w4), v4)
    <3> HIDE DEF w3
    <3>1. QED
      BY <1>1, <1>7, <2>2, PieceHeld
  <2>4. Holds(d, p, w2) /\ PriceAt(d, p + Len(w2), p + Len(w3), v3)
    <3> HIDE DEF w2
    <3>1. QED
      BY <1>1, <1>6, <2>3, PieceHeld
  <2>5. Holds(d, p, w1) /\ PriceAt(d, p + Len(w1), p + Len(w2), v2)
    <3> HIDE DEF w1
    <3>1. QED
      BY <1>1, <1>5, <2>4, PieceHeld
  <2>6. Holds(d, p, w0) /\ PriceAt(d, p + Len(w0), p + Len(w1), v1)
    BY <1>1, <1>3, <2>5, PieceHeld
  <2> HIDE DEF w1, w2, w3, w4, w5, w
  <2>7. /\ p + Len(w1) \in Nat /\ p + Len(w2) \in Nat /\ p + Len(w3) \in Nat
        /\ p + Len(w4) \in Nat /\ p + Len(w5) \in Nat
    <3>1. /\ Len(w1) \in Nat /\ Len(w2) \in Nat /\ Len(w3) \in Nat
          /\ Len(w4) \in Nat /\ Len(w5) \in Nat
      BY <1>5, <1>6, <1>7, <1>8, <1>9, LenProperties
    <3>2. QED
      BY <3>1
  <2>8. p + Len(w0) = p + 4 /\ p + Len(w) = p + Len(w5) + 4
    <3>1. Len(w5) \in Nat
      BY <1>9, LenProperties
    <3>2. QED
      BY <1>3, <1>10, <3>1
  <2>9. /\ PriceAt(d, p + 4, p + Len(w1), b.open - pre)
        /\ PriceAt(d, p + Len(w1), p + Len(w2), b.close - b.open)
        /\ PriceAt(d, p + Len(w2), p + Len(w3), b.high - b.open)
        /\ PriceAt(d, p + Len(w3), p + Len(w4), b.low - b.open)
        /\ PriceAt(d, p + Len(w4), p + Len(w5), b.vol)
    BY <2>2, <2>3, <2>4, <2>5, <2>6, <2>8, Zenon DEF v1, v2, v3, v4, v5
  <2>10. Holds(d, p, EncodeDate(cat, b))
    BY <2>6, Zenon DEF w0
  <2>11. QED
    BY <2>1, <2>7, <2>8, <2>9, <2>10, Zenon DEF RowIn
<1>12. QED
  BY <1>4, <1>10, <1>11, Zenon

-----------------------------------------------------------------------------
(* What one pass of the loop makes of the bytes of a bar.                        *)

LEMMA DivMod ==
  /\ \A a \in Nat, r \in Nat : r < 2048 => (a * 2048 + r) \div 2048 = a
                                           /\ (a * 2048 + r) % 2048 = r
  /\ \A a \in Nat, r \in Nat : r < 100 => (a * 100 + r) \div 100 = a
                                          /\ (a * 100 + r) % 100 = r
  /\ \A a \in Nat, r \in Nat : r < 60 => (a * 60 + r) \div 60 = a
                                         /\ (a * 60 + r) % 60 = r
  /\ \A a \in Nat, r \in Nat : r < 10000 => (a * 10000 + r) \div 10000 = a
                                            /\ (a * 10000 + r) % 10000 = r
<1>1. \A a \in Nat, r \in Nat : r < 2048 => (a * 2048 + r) \div 2048 = a
                                           /\ (a * 2048 + r) % 2048 = r
  BY SMT
<1>2. \A a \in Nat, r \in Nat : r < 100 => (a * 100 + r) \div 100 = a
                                          /\ (a * 100 + r) % 100 = r
  BY SMT
<1>3. \A a \in Nat, r \in Nat : r < 60 => (a * 60 + r) \div 60 = a
                                         /\ (a * 60 + r) % 60 = r
  BY SMT
<1>4. \A a \in Nat, r \in Nat : r < 10000 => (a * 10000 + r) \div 10000 = a
                                            /\ (a * 10000 + r) % 10000 = r
  BY SMT
<1>5. QED
  BY <1>1, <1>2, <1>3, <1>4, SMT

DayOf(z) == <<(z \div 2048) + 2004, (z % 2048) \div 100, (z % 2048) % 100>>
DateOf(z) == <<z \div 10000, (z % 10000) \div 100, z % 100>>

LEMMA DayBack ==
  ASSUME NEW y, NEW m, NEW n, IsDate(y, m, n)
  PROVE  DayOf(PackDay(y, m, n)) = <<y, m, n>>
<1>0. y \in 2004 .. 2035 /\ m \in 1 .. 12 /\ n \in 1 .. 31
  BY SMT DEF IsDate
<1>1. PICK r : r = m * 100 + n
  OBVIOUS
<1>2. PICK a : a = y - 2004
  OBVIOUS
<1>3. r \in Nat /\ r < 2048 /\ a \in Nat /\ a + 2004 = y
  BY <1>0, <1>1, <1>2, SMT
<1>4. PackDay(y, m, n) = a * 2048 + r
  BY <1>0, <1>1, <1>2, <1>3, SMT DEF PackDay
<1>5. (a * 2048 + r) \div 2048 = a /\ (a * 2048 + r) % 2048 = r
  BY <1>3, DivMod, SMT
<1>6. r \div 100 = m /\ r % 100 = n
  <2>1. m \in Nat /\ n \in Nat /\ n < 100
    BY <1>0, SMT
  <2>2. QED
    BY <1>1, <2>1, DivMod, SMT
<1>7. QED
  BY <1>3, <1>4, <1>5, <1>6, SMT DEF DayOf

LEMMA DateBack ==
  ASSUME NEW y, NEW m, NEW n, IsDate(y, m, n)
  PROVE  DateOf(PackDate(y, m, n)) = <<y, m, n>>
<1>0. y \in 2004 .. 2035 /\ m \in 1 .. 12 /\ n \in 1 .. 31
  BY SMT DEF IsDate
<1>1. PICK r : r = m * 100 + n
  OBVIOUS
<1>2. r \in Nat /\ r < 10000 /\ y \in Nat /\ m \in Nat /\ n \in Nat /\ n < 100
  BY <1>0, <1>1, SMT
<1>3. PICK z : z = y * 10000 + r
  OBVIOUS
<1>4. z \div 10000 = y /\ z % 10000 = r
  BY <1>2, <1>3, DivMod, SMT
<1>5. r \div 100 = m
  BY <1>1, <1>2, DivMod, SMT
<1>6. z % 100 = n
  <2>1. z = (y * 100 + m) * 100 + n /\ y * 100 + m \in Nat
    BY <1>1, <1>2, <1>3, SMT
  <2>2. QED
    BY <1>2, <2>1, DivMod, SMT
<1>7. PackDate(y, m, n) = z
  BY <1>1, <1>2, <1>3, SMT DEF PackDate
<1>8. QED
  BY <1>4, <1>5, <1>6, <1>7, SMT DEF DateOf

(* An amount as RowOf has it, in units and in what a row shows.                   *)
Units(a1, a2, a3) ==
  (2^23 + (a3 % 128) * 2^16 + 256 * a2 + a1) * (IF a3 >= 128 THEN 2 ELSE 1)
Shown(value, close) == IF Tiny(value) THEN [exp |-> 0, units |-> close] ELSE value

LEMMA Powers ==
  2^16 \in Nat /\ 2^17 = 2 * 2^16 /\ 2^20 = 16 * 2^16 /\ 2^23 = 128 * 2^16
BY SMT

LEMMA VolumeIs ==
  ASSUME NEW a1 \in Byte, NEW a2 \in Byte, NEW a3 \in Byte, NEW a4 \in Byte,
         a4 < 128, a4 = 0 => a3 = 0, ~(a4 \in 1 .. 66 /\ a3 \in 1 .. 128)
  PROVE  GetVolume(<<a1, a2, a3, a4>>) = [exp |-> a4 * 2 - 150, units |-> Units(a1, a2, a3)]
<1>0. a1 \in Nat /\ a2 \in Nat /\ a3 \in Nat /\ a4 \in Nat /\ a3 <= 255
  BY SMT DEF Byte
<1> DEFINE X == 2^16
           rest == 2^23 + (IF a3 >= 128 THEN 2 ELSE 1) * (256 * a2 + a1)
           units == CASE a3 > 128 -> rest + 2^23 + (a3 % 128) * 2^17
                      [] a3 <= 128 /\ (a4 * 2 - 134 >= 0 \/ a3 = 0) -> rest + a3 * 2^16
                      [] OTHER -> IF a4 * 2 - 134 >= -3
                                  THEN rest + a3 * 2^(16 - 2 * (a4 * 2 - 134))
                                  ELSE Huge
<1>1. GetVolume(<<a1, a2, a3, a4>>) = [exp |-> a4 * 2 - 150, units |-> units]
  <2>1. ~(a4 >= 128)
    BY <1>0, SMT
  <2>2. QED
    BY <2>1, SMT DEF GetVolume
<1>2. X \in Nat /\ 2^17 = 2 * X /\ 2^23 = 128 * X
  BY Powers, SMT
<1>3. a3 > 128 \/ (a3 <= 128 /\ (a4 * 2 - 134 >= 0 \/ a3 = 0))
  BY <1>0, SMT
<1>4. units = IF a3 > 128 THEN rest + 2^23 + (a3 % 128) * 2^17 ELSE rest + a3 * X
  <2>1. CASE a3 > 128
    <3>1. ~(a3 <= 128)
      BY <1>0, <2>1, SMT
    <3>2. QED
      BY <2>1, <3>1, SMT
  <2>2. CASE ~(a3 > 128)
    BY <1>3, <2>2, SMT
  <2>3. QED
    BY <2>1, <2>2
<1> HIDE DEF units
<1>5. Units(a1, a2, a3) =
        (128 * X + (a3 % 128) * X + 256 * a2 + a1) * (IF a3 >= 128 THEN 2 ELSE 1)
  BY <1>2, SMT DEF Units
<1>6. a3 % 128 \in Nat /\ (a3 < 128 => a3 % 128 = a3) /\ (a3 = 128 => a3 % 128 = 0)
  BY <1>0, SMT
<1> HIDE DEF X
<1>7. units = Units(a1, a2, a3)
  <2>1. CASE a3 > 128
    <3>1. units = 128 * X + 2 * (256 * a2 + a1) + 128 * X + (a3 % 128) * (2 * X)
      BY <1>0, <1>2, <1>4, <2>1, SMT
    <3>2. Units(a1, a2, a3) = (128 * X + (a3 % 128) * X + 256 * a2 + a1) * 2
      BY <1>0, <1>5, <2>1, SMT
    <3>3. PICK r : r = a3 % 128
      OBVIOUS
    <3>4. r * (2 * X) = 2 * (r * X) /\ r * X \in Int
      BY <1>2, <1>6, <3>3, SMT
    <3>5. QED
      BY <1>0, <1>2, <3>1, <3>2, <3>3, <3>4, SMT
  <2>2. CASE a3 = 128
    <3>1. units = 128 * X + 2 * (256 * a2 + a1) + 128 * X
      BY <1>0, <1>2, <1>4, <2>2, SMT
    <3>2. Units(a1, a2, a3) = (128 * X + 0 * X + 256 * a2 + a1) * 2
      BY <1>0, <1>5, <1>6, <2>2, SMT
    <3>3. QED
      BY <1>0, <1>2, <3>1, <3>2, SMT
  <2>3. CASE a3 < 128
    <3>1. units = 128 * X + 1 * (256 * a2 + a1) + a3 * X
      BY <1>0, <1>2, <1>4, <2>3, SMT
    <3>2. Units(a1, a2, a3) = (128 * X + a3 * X + 256 * a2 + a1) * 1
      BY <1>0, <1>5, <1>6, <2>3, SMT
    <3>3. a3 * X \in Int
      BY <1>0, <1>2, SMT
    <3>4. QED
      BY <1>0, <1>2, <3>1, <3>2, <3>3, SMT
  <2>4. QED
    BY <1>0, <2>1, <2>2, <2>3, SMT
<1>8. QED
  BY <1>1, <1>7, SMT

LEMMA PriceNat == ASSUME NEW b \in Bars PROVE b.close \in Nat
<1>1. b.close \in Price
  BY DEF Bars
<1>2. \A x \in Price : x \in Nat
  BY DEF Price
<1>3. QED
  BY <1>1, <1>2, Zenon

(* The last branch of GetVolume with a negative dwEdx: another number, which is     *)
(* never taken for zero.                                                            *)
LEMMA VolumeIsNot ==
  ASSUME NEW a1 \in Byte, NEW a2 \in Byte, NEW a3 \in Byte, NEW a4 \in Byte,
         a4 \in 1 .. 66, a3 \in 1 .. 128, NEW close \in Nat
  PROVE  Shown(GetVolume(<<a1, a2, a3, a4>>), close) #
           Shown([exp |-> a4 * 2 - 150, units |-> Units(a1, a2, a3)], close)
<1>0. a1 \in Nat /\ a2 \in Nat /\ a3 \in Nat /\ a4 \in Nat /\ a3 <= 128 /\ a3 >= 1 /\ a4 <= 66
  BY SMT DEF Byte
<1> DEFINE X == 2^16
           rest == 2^23 + (IF a3 >= 128 THEN 2 ELSE 1) * (256 * a2 + a1)
           units == IF a4 * 2 - 134 >= -3 THEN rest + a3 * 2^(16 - 2 * (a4 * 2 - 134))
                                          ELSE Huge
           value == [exp |-> a4 * 2 - 150, units |-> Units(a1, a2, a3)]
           vol == [exp |-> a4 * 2 - 150, units |-> units]
<1>1. GetVolume(<<a1, a2, a3, a4>>) = vol
  <2>1. ~(a4 >= 128) /\ ~(a3 > 128) /\ ~(a4 * 2 - 134 >= 0) /\ ~(a3 = 0)
    BY <1>0, SMT
  <2>2. QED
    BY <2>1, SMT DEF GetVolume
<1>2. X \in Nat /\ X >= 1 /\ 2^23 = 128 * X
  BY Powers, SMT
<1>3. Units(a1, a2, a3) =
        (128 * X + (a3 % 128) * X + 256 * a2 + a1) * (IF a3 >= 128 THEN 2 ELSE 1)
  BY <1>2, SMT DEF Units
<1>4. a3 % 128 \in Nat /\ (a3 < 128 => a3 % 128 = a3) /\ (a3 = 128 => a3 % 128 = 0)
  BY <1>0, SMT
<1>5. value.exp = a4 * 2 - 150 /\ value.units = Units(a1, a2, a3)
      /\ vol.exp = a4 * 2 - 150 /\ vol.units = units
  OBVIOUS
<1>6. CASE a4 < 66
  <2>1. units = Huge
    BY <1>0, <1>6, SMT
  <2>2. ~Tiny(vol)
    <3> HIDE DEF vol, units, Huge
    <3>1. vol.units = Huge
      BY <1>5, <2>1, Zenon
    <3>2. QED
      BY <3>1, SMT DEF Tiny
  <2>3. Shown(vol, close).units = -1
    BY <1>5, <2>1, <2>2, Zenon DEF Shown, Huge
  <2> HIDE DEF X
  <2>4. Units(a1, a2, a3) \in Nat
    <3>1. PICK r \in Nat : r = a3 % 128
      BY <1>4
    <3>2. r * X \in Nat
      BY <1>2, <3>1, SMT
    <3>3. QED
      BY <1>0, <1>2, <1>3, <3>1, <3>2, SMT
  <2> HIDE DEF value, vol, units
  <2>5. Shown(value, close).units \in Nat
    <3>1. CASE Tiny(value)
      <4>1. Shown(value, close) = [exp |-> 0, units |-> close]
        BY <3>1, Zenon DEF Shown
      <4>2. QED
        BY <4>1
    <3>2. CASE ~Tiny(value)
      <4>1. Shown(value, close) = value
        BY <3>2, Zenon DEF Shown
      <4>2. QED
        BY <1>5, <2>4, <4>1
    <3>3. QED
      BY <3>1, <3>2, Zenon
  <2>6. Shown(vol, close) # Shown(value, close)
    BY <2>3, <2>5, SMT
  <2>7. QED
    BY <1>1, <2>6, Zenon DEF value
<1>7. CASE a4 = 66
  <2>1. a4 * 2 - 150 = -18 /\ 16 - 2 * (a4 * 2 - 134) = 20 /\ a4 * 2 - 134 >= -3
    BY <1>7, SMT
  <2>2. units = rest + a3 * 2^20 /\ 2^20 = 16 * X
    <3>1. units = rest + a3 * 2^(16 - 2 * (a4 * 2 - 134))
      BY <2>1, Zenon
    <3>2. 2^(16 - 2 * (a4 * 2 - 134)) = 2^20
      BY <2>1, Zenon
    <3>3. 2^20 = 16 * X
      BY Powers, SMT
    <3> HIDE DEF units, rest, X
    <3>4. QED
      BY <3>1, <3>2, <3>3, Zenon
  <2>3. ~Tiny(vol) /\ ~Tiny(value)
    <3>1. ~(-18 < -48) /\ ~(-18 = -48)
      BY SMT
    <3> HIDE DEF value, vol, units
    <3>2. vol.exp = -18 /\ value.exp = -18
      BY <1>5, <2>1, Zenon
    <3>3. QED
      BY <3>1, <3>2, SMT DEF Tiny
  <2> HIDE DEF X, units
  <2>4. a3 * X \in Nat /\ a3 * X >= 1 /\ a3 * (16 * X) = 16 * (a3 * X)
    BY <1>0, <1>2, SMT
  <2>5. units # Units(a1, a2, a3)
    <3>1. CASE a3 = 128
      <4>1. units = 128 * X + 2 * (256 * a2 + a1) + 128 * (16 * X)
        BY <1>0, <1>2, <2>2, <3>1, SMT
      <4>2. Units(a1, a2, a3) = (128 * X + 0 * X + 256 * a2 + a1) * 2
        BY <1>0, <1>3, <1>4, <3>1, SMT
      <4>3. QED
        BY <1>0, <1>2, <4>1, <4>2, SMT
    <3>2. CASE a3 < 128
      <4>1. units = 128 * X + 1 * (256 * a2 + a1) + a3 * (16 * X)
        BY <1>0, <1>2, <2>2, <3>2, SMT
      <4>2. Units(a1, a2, a3) = (128 * X + a3 * X + 256 * a2 + a1) * 1
        BY <1>0, <1>3, <1>4, <3>2, SMT
      <4>3. QED
        BY <1>0, <1>2, <2>4, <4>1, <4>2, SMT
    <3>3. QED
      BY <1>0, <3>1, <3>2, SMT
  <2> HIDE DEF value, vol
  <2>6. Shown(vol, close).units = units /\ Shown(value, close).units = Units(a1, a2, a3)
    BY <1>5, <2>3, Zenon DEF Shown
  <2>7. Shown(vol, close) # Shown(value, close)
    BY <2>5, <2>6, Zenon
  <2>8. QED
    BY <1>1, <2>7, Zenon DEF value
<1>8. QED
  BY <1>0, <1>6, <1>7, SMT

(* The date columns of a row, from the four bytes at c.                          *)
DateAt(d, c, cat) ==
  LET zipday == IF IsIntraday(cat) THEN Word(d, c) ELSE Word(d, c) + 65536 * Word(d, c + 2)
      mins   == Word(d, c + 2)
  IN  IF IsIntraday(cat)
      THEN <<(zipday \div 2048) + 2004, (zipday % 2048) \div 100,
             (zipday % 2048) % 100, mins \div 60, mins % 60>>
      ELSE <<zipday \div 10000, (zipday % 10000) \div 100, zipday % 100, 15, 0>>

BarDate(cat, b) == IF IsIntraday(cat)
                   THEN <<b.year, b.month, b.day, b.hour, b.minute>>
                   ELSE <<b.year, b.month, b.day, 15, 0>>

LEMMA DateDecoded ==
  ASSUME NEW cat, NEW b \in Bars, NEW d, NEW p \in Nat, Holds(d, p, EncodeDate(cat, b))
  PROVE  DateAt(d, p, cat) = BarDate(cat, b)
<1>1. IsDate(b.year, b.month, b.day) /\ b.hour \in 0 .. 23 /\ b.minute \in 0 .. 59
  BY BarDates, Zenon
<1>2. CASE IsIntraday(cat)
  <2>1. Word(d, p) = DayWord(b) /\ Word(d, p + 2) = MinuteWord(b)
    BY <1>2, DateRead, Zenon
  <2>2. DayOf(Word(d, p)) = <<b.year, b.month, b.day>>
    BY <1>1, <2>1, DayBack, Zenon DEF DayWord
  <2>3. PICK h, t : h = b.hour /\ t = b.minute
    OBVIOUS
  <2>4. MinuteWord(b) = h * 60 + t
    BY <2>3, SMT DEF MinuteWord
  <2>5. h \in Nat /\ t \in Nat /\ t < 60
    BY <1>1, <2>3, SMT
  <2>6. Word(d, p + 2) \div 60 = h /\ Word(d, p + 2) % 60 = t
    BY <2>1, <2>4, <2>5, DivMod, SMT
  <2>7. DateAt(d, p, cat) = <<DayOf(Word(d, p))[1], DayOf(Word(d, p))[2], DayOf(Word(d, p))[3],
                              Word(d, p + 2) \div 60, Word(d, p + 2) % 60>>
    BY <1>2, SMT DEF DateAt, DayOf
  <2>8. DateAt(d, p, cat) = <<b.year, b.month, b.day, h, t>>
    BY <2>2, <2>6, <2>7, SMT
  <2>9. QED
    BY <1>2, <2>3, <2>8, SMT DEF BarDate
<1>3. CASE ~IsIntraday(cat)
  <2> DEFINE z == Join(Word(d, p), Word(d, p + 2))
  <2>1. z = DateNumber(b)
    BY <1>3, DateRead, Zenon
  <2>2. DateOf(z) = <<b.year, b.month, b.day>>
    BY <1>1, <2>1, DateBack, Zenon DEF DateNumber
  <2>3. DateAt(d, p, cat) = <<DateOf(z)[1], DateOf(z)[2], DateOf(z)[3], 15, 0>>
    BY <1>3, SMT DEF DateAt, DateOf, Join
  <2> HIDE DEF z
  <2>4. DateAt(d, p, cat) = <<b.year, b.month, b.day, 15, 0>>
    BY <2>2, <2>3, SMT
  <2>5. QED
    BY <1>3, <2>4, SMT DEF BarDate
<1>4. QED
  BY <1>2, <1>3, Zenon

LEMMA RowOfIs ==
  ASSUME NEW cat, NEW b
  PROVE  RowOf(cat, b) =
           [date |-> BarDate(cat, b), open |-> b.open, close |-> b.close,
            high |-> b.high, low |-> b.low, vol |-> IF b.vol = 0 THEN 1 ELSE b.vol,
            amount |-> Shown([exp |-> b.amount[4] * 2 - 150,
                              units |-> Units(b.amount[1], b.amount[2], b.amount[3])],
                             b.close)]
BY DEF RowOf, BarDate, Shown, Units

(* The row is the bar: all of it, but for an amount that is misread.             *)
Fits(row, cat, b) ==
  /\ [row EXCEPT !.amount = RowOf(cat, b).amount] = RowOf(cat, b)
  /\ row.amount = RowOf(cat, b).amount <=> ~Misread(b)

LEMMA PriceMoves ==
  ASSUME NEW b, NEW p \in Nat, NEW q, NEW v, PriceAt(b, p, q, v)
  PROVE  q \in Nat /\ p < q
BY DEF PriceAt

LEMMA HoldsCut ==
  ASSUME NEW d, NEW b, NEW k, CutAt(d, b, k), NEW p \in Nat, NEW w,
         Len(w) \in Nat, Holds(b, p, w), p + Len(w) <= k
  PROVE  Holds(d, p, w)
<1>1. k \in Nat /\ Len(d) = Len(b)
  BY LenProperties DEF CutAt
<1>2. \A m \in 0 .. Len(w) - 1 : At(d, p + m) = At(b, p + m)
  <2> TAKE m \in 0 .. Len(w) - 1
  <2>1. p + m \in Nat /\ p + m < k
    BY <1>1
  <2>2. QED
    BY <2>1 DEF CutAt
<1>3. QED
  BY <1>1, <1>2 DEF Holds

LEMMA AmountDecoded ==
  ASSUME NEW b \in Bars, NEW d, NEW p \in Nat, Holds(d, p, b.amount),
         NEW close \in Nat
  PROVE  Shown(GetVolume(<<At(d, p), At(d, p + 1), At(d, p + 2), At(d, p + 3)>>), close) =
           Shown([exp |-> b.amount[4] * 2 - 150,
                  units |-> Units(b.amount[1], b.amount[2], b.amount[3])], close)
         <=> ~Misread(b)
<1>1. PICK a : a = b.amount
  OBVIOUS
<1>2. a \in Seq(Byte) /\ Len(a) = 4 /\ a[4] < 128 /\ (a[4] = 0 => a[3] = 0)
  BY <1>1, BarFields DEF Amount
<1>3. a[1] \in Byte /\ a[2] \in Byte /\ a[3] \in Byte /\ a[4] \in Byte
  <2>1. \A n \in 1 .. Len(a) : a[n] \in Byte
    BY <1>2, ElementOfSeq
  <2>2. 1 \in 1 .. 4 /\ 2 \in 1 .. 4 /\ 3 \in 1 .. 4 /\ 4 \in 1 .. 4
    OBVIOUS
  <2>3. QED
    BY <1>2, <2>1, <2>2
<1>4. Misread(b) <=> a[4] \in 1 .. 66 /\ a[3] \in 1 .. 128
  BY <1>1 DEF Misread
<1>5. \A m \in 0 .. 3 : At(d, p + m) = At(a, m)
  BY <1>1, <1>2 DEF Holds
<1>6. At(a, 0) = a[1] /\ At(a, 1) = a[2] /\ At(a, 2) = a[3] /\ At(a, 3) = a[4]
  BY <1>2 DEF At
<1>7. At(d, p) = a[1] /\ At(d, p + 1) = a[2] /\ At(d, p + 2) = a[3] /\ At(d, p + 3) = a[4]
  <2>1. 0 \in 0 .. 3 /\ 1 \in 0 .. 3 /\ 2 \in 0 .. 3 /\ 3 \in 0 .. 3 /\ p + 0 = p
    OBVIOUS
  <2>2. QED
    BY <1>5, <1>6, <2>1
<1>8. PICK a1 \in Byte, a2 \in Byte, a3 \in Byte, a4 \in Byte :
        a1 = a[1] /\ a2 = a[2] /\ a3 = a[3] /\ a4 = a[4]
  BY <1>3
<1>9. Misread(b) <=> a4 \in 1 .. 66 /\ a3 \in 1 .. 128
  BY <1>4, <1>8, Zenon
<1>10. ~Misread(b) =>
         GetVolume(<<a1, a2, a3, a4>>) = [exp |-> a4 * 2 - 150, units |-> Units(a1, a2, a3)]
  <2>1. a4 < 128 /\ (a4 = 0 => a3 = 0)
    BY <1>2, <1>8, SMT
  <2>2. QED
    BY <1>9, <2>1, VolumeIs, SMT
<1>11. Misread(b) => Shown(GetVolume(<<a1, a2, a3, a4>>), close) #
                       Shown([exp |-> a4 * 2 - 150, units |-> Units(a1, a2, a3)], close)
  BY <1>9, VolumeIsNot, SMT
<1>12. QED
  BY <1>1, <1>7, <1>8, <1>10, <1>11, Zenon

(* A pass that starts near the bar it should read ends near the next one; where   *)
(* all bytes of the bar were unpacked, and the close before it is known, the row  *)
(* is the bar.                                                                *)
LEMMA RowStep ==
  ASSUME NEW d, NEW b, NEW k, CutAt(d, b, k), NEW p \in Nat, NEW q, NEW cat,
         NEW bar \in Bars, NEW pre \in Int, RowIn(b, p, q, cat, bar, pre), q <= Len(b),
         NEW c, Near(c, p, k), NEW x
  PROVE  /\ Near(DecodeRow(d, c, cat, x).end, q, k) /\ p < q
         /\ (q <= k /\ x = pre) =>
              /\ Fits(DecodeRow(d, c, cat, x).row, cat, bar)
              /\ DecodeRow(d, c, cat, x).row.close = bar.close
              /\ DecodeRow(d, c, cat, x).end = q
<1> DEFINE v1 == bar.open - pre
           v2 == bar.close - bar.open
           v3 == bar.high - bar.open
           v4 == bar.low - bar.open
           v5 == bar.vol
<1>0. /\ k \in Nat /\ Len(b) \in Nat /\ k <= Len(b) /\ c \in Nat /\ c <= p /\ (c = p \/ c >= k)
  BY LenProperties DEF CutAt, Near
<1>1. v1 \in Int /\ v2 \in Int /\ v3 \in Int /\ v4 \in Int /\ v5 \in Int
  BY BarFields
<1>2. PICK p2 \in Nat, p3 \in Nat, p4 \in Nat, p5 \in Nat, p6 \in Nat :
        /\ Holds(b, p, EncodeDate(cat, bar)) /\ PriceAt(b, p + 4, p2, v1)
        /\ PriceAt(b, p2, p3, v2) /\ PriceAt(b, p3, p4, v3) /\ PriceAt(b, p4, p5, v4)
        /\ PriceAt(b, p5, p6, v5) /\ Holds(b, p6, bar.amount) /\ q = p6 + 4
  BY Zenon DEF RowIn
<1> HIDE DEF v1, v2, v3, v4, v5
<1>3. p + 4 \in Nat /\ c + 4 \in Nat
  BY <1>0
<1>4. p + 4 < p2 /\ p2 < p3 /\ p3 < p4 /\ p4 < p5 /\ p5 < p6
  BY <1>2, <1>3, PriceMoves
<1>5. /\ p2 <= Len(b) /\ p3 <= Len(b) /\ p4 <= Len(b) /\ p5 <= Len(b) /\ p6 <= Len(b)
      /\ p < q /\ q \in Nat
  BY <1>0, <1>2, <1>4
<1>6. PICK o : o = getPrice(d, c + 4)
  OBVIOUS
<1>7. PICK cl : cl = getPrice(d, o[2])
  OBVIOUS
<1>8. PICK h : h = getPrice(d, cl[2])
  OBVIOUS
<1>9. PICK l : l = getPrice(d, h[2])
  OBVIOUS
<1>10. PICK v : v = getPrice(d, l[2])
  OBVIOUS
<1>11. Near(c + 4, p + 4, k)
  BY <1>0, <1>3 DEF Near
<1>12. Near(o[2], p2, k) /\ (p2 <= k => o[1] = v1)
  BY <1>1, <1>2, <1>5, <1>6, <1>11, PriceStep
<1>13. Near(cl[2], p3, k) /\ (p3 <= k => cl[1] = v2)
  BY <1>1, <1>2, <1>5, <1>7, <1>12, PriceStep
<1>14. Near(h[2], p4, k) /\ (p4 <= k => h[1] = v3)
  BY <1>1, <1>2, <1>5, <1>8, <1>13, PriceStep
<1>15. Near(l[2], p5, k) /\ (p5 <= k => l[1] = v4)
  BY <1>1, <1>2, <1>5, <1>9, <1>14, PriceStep
<1>16. Near(v[2], p6, k) /\ (p6 <= k => v[1] = v5 /\ v[2] = p6)
  BY <1>1, <1>2, <1>5, <1>10, <1>15, PriceStep
<1> DEFINE a == v[2]
           row == [date |-> DateAt(d, c, cat), open |-> x + o[1], close |-> x + o[1] + cl[1],
                   high |-> x + o[1] + h[1], low |-> x + o[1] + l[1],
                   vol |-> IF v[1] = 0 THEN 1 ELSE v[1],
                   amount |-> Shown(GetVolume(<<At(d, a), At(d, a + 1), At(d, a + 2),
                                                At(d, a + 3)>>), x + o[1] + cl[1])]
<1>17. DecodeRow(d, c, cat, x).end = v[2] + 4 /\ DecodeRow(d, c, cat, x).row = row
  BY <1>6, <1>7, <1>8, <1>9, <1>10, SMT DEF DecodeRow, DateAt, Shown
<1>18. Near(v[2] + 4, q, k)
  <2>1. PICK e : e = v[2]
    OBVIOUS
  <2>2. Near(e, p6, k)
    BY <1>16, <2>1
  <2>3. Near(e + 4, p6 + 4, k)
    BY <1>0, <2>2 DEF Near
  <2>4. QED
    BY <1>2, <2>1, <2>3
<1>19. ASSUME q <= k, x = pre PROVE Fits(row, cat, bar) /\ row.close = bar.close /\ v[2] + 4 = q
  <2>1. c = p /\ p2 <= k /\ p3 <= k /\ p4 <= k /\ p5 <= k /\ p6 <= k
    BY <1>0, <1>2, <1>4, <1>19
  <2>2. o[1] = v1 /\ cl[1] = v2 /\ h[1] = v3 /\ l[1] = v4 /\ v[1] = v5 /\ a = p6
    BY <1>12, <1>13, <1>14, <1>15, <1>16, <2>1
  <2>3. /\ x + o[1] = bar.open /\ x + o[1] + cl[1] = bar.close
        /\ x + o[1] + h[1] = bar.high /\ x + o[1] + l[1] = bar.low /\ v[1] = bar.vol
    BY <1>19, <2>2, BarFields DEF v1, v2, v3, v4, v5
  <2>4. DateAt(d, c, cat) = BarDate(cat, bar)
    <3>1. Len(EncodeDate(cat, bar)) = 4
      BY EncodeDateIs
    <3>2. Len(EncodeDate(cat, bar)) \in Nat /\ p + Len(EncodeDate(cat, bar)) <= k
      BY <1>0, <1>4, <2>1, <3>1
    <3>3. Holds(d, p, EncodeDate(cat, bar))
      BY <1>2, <3>2, HoldsCut
    <3>4. QED
      BY <2>1, <3>3, DateDecoded
  <2>5. Holds(d, p6, bar.amount)
    <3>1. Len(bar.amount) = 4
      BY BarFields DEF Amount
    <3>2. Len(bar.amount) \in Nat /\ p6 + Len(bar.amount) <= k
      BY <1>2, <1>19, <3>1
    <3>3. QED
      BY <1>2, <3>2, HoldsCut
  <2> DEFINE vol == GetVolume(<<At(d, a), At(d, a + 1), At(d, a + 2), At(d, a + 3)>>)
             value == [exp |-> bar.amount[4] * 2 - 150,
                       units |-> Units(bar.amount[1], bar.amount[2], bar.amount[3])]
  <2>6. Shown(vol, bar.close) = Shown(value, bar.close) <=> ~Misread(bar)
    <3>1. bar.close \in Nat
      BY PriceNat, Zenon
    <3>2. QED
      BY <2>2, <2>5, <3>1, AmountDecoded
  <2> HIDE DEF vol, value
  <2>7. row = [date |-> BarDate(cat, bar), open |-> bar.open, close |-> bar.close,
               high |-> bar.high, low |-> bar.low, vol |-> IF bar.vol = 0 THEN 1 ELSE bar.vol,
               amount |-> Shown(vol, bar.close)]
    BY <2>3, <2>4, Zenon DEF vol
  <2>8. RowOf(cat, bar) =
          [date |-> BarDate(cat, bar), open |-> bar.open, close |-> bar.close,
           high |-> bar.high, low |-> bar.low, vol |-> IF bar.vol = 0 THEN 1 ELSE bar.vol,
           amount |-> Shown(value, bar.close)]
    BY RowOfIs, Zenon DEF value
  <2> HIDE DEF row
  <2>9. Fits(row, cat, bar)
    BY <2>6, <2>7, <2>8 DEF Fits
  <2>10. row.close = bar.close
    BY <2>7
  <2>11. v[2] + 4 = q
    BY <1>2, <2>2
  <2>12. QED
    BY <2>9, <2>10, <2>11
<1> HIDE DEF row
<1>20. QED
  BY <1>5, <1>17, <1>18, <1>19

-----------------------------------------------------------------------------
(* The request, and the bars a server takes from its history for it.              *)

LEMMA Glue ==
  ASSUME NEW u \in Seq(Byte), NEW w \in Seq(Byte)
  PROVE  u \o w \in Seq(Byte) /\ Len(u \o w) = Len(u) + Len(w)
BY ConcatProperties

LEMMA HoldsItself == ASSUME NEW d PROVE Holds(d, 0, d)
<1>1. \A m \in Int : 0 + m = m
  OBVIOUS
<1>2. \A m \in 0 .. Len(d) - 1 : At(d, 0 + m) = At(d, m)
  <2> TAKE m \in 0 .. Len(d) - 1
  <2>1. m \in Int
    OBVIOUS
  <2>2. QED
    BY <1>1, <2>1, Zenon
<1>3. QED
  BY <1>2 DEF Holds

(* The fields in front of Category: twenty bytes.                                *)
RequestHead(market) ==
  U16(268) \o U32(16868360) \o U16(18) \o U16(18) \o U16(1321) \o U16(market) \o Zqdm

LEMMA RequestHeadIs ==
  ASSUME NEW market \in Int
  PROVE  RequestHead(market) \in Seq(Byte) /\ Len(RequestHead(market)) = 20
<1>a. PICK a, b, c, e, f : a = 268 /\ b = 16868360 /\ c = 18 /\ e = 18 /\ f = 1321
  BY SMT
<1>b. a \in Int /\ b \in Int /\ c \in Int /\ e \in Int /\ f \in Int
  BY <1>a, SMT
<1>c. RequestHead(market) =
        U16(a) \o U32(b) \o U16(c) \o U16(e) \o U16(f) \o U16(market) \o Zqdm
  BY <1>a, SMT DEF RequestHead
<1>1. \A n \in Int : /\ U16(n) \in Seq(Byte) /\ Len(U16(n)) = 2
                     /\ U32(n) \in Seq(Byte) /\ Len(U32(n)) = 4
  BY U16Is, U32Is
<1>2. Zqdm \in Seq(Byte) /\ Len(Zqdm) = 6
  BY CodeAssumption
<1> DEFINE h1 == U16(a) \o U32(b)
           h2 == h1 \o U16(c)
           h3 == h2 \o U16(e)
           h4 == h3 \o U16(f)
           h5 == h4 \o U16(market)
           h6 == h5 \o Zqdm
<1>3. h1 \in Seq(Byte) /\ Len(h1) = 6
  <2>1. U16(a) \in Seq(Byte) /\ Len(U16(a)) = 2 /\ U32(b) \in Seq(Byte) /\ Len(U32(b)) = 4
    BY <1>b, <1>1
  <2>2. h1 \in Seq(Byte) /\ Len(h1) = Len(U16(a)) + Len(U32(b))
    BY <2>1, Glue, Zenon
  <2> HIDE DEF h1
  <2>3. QED
    BY <2>1, <2>2
<1>4. h2 \in Seq(Byte) /\ Len(h2) = 8
  <2>1. U16(c) \in Seq(Byte) /\ Len(U16(c)) = 2
    BY <1>b, <1>1
  <2> HIDE DEF h1
  <2>2. h2 \in Seq(Byte) /\ Len(h2) = Len(h1) + Len(U16(c))
    BY <1>3, <2>1, Glue, Zenon
  <2> HIDE DEF h2
  <2>3. QED
    BY <1>3, <2>1, <2>2
<1>5. h3 \in Seq(Byte) /\ Len(h3) = 10
  <2>1. U16(e) \in Seq(Byte) /\ Len(U16(e)) = 2
    BY <1>b, <1>1
  <2> HIDE DEF h2
  <2>2. h3 \in Seq(Byte) /\ Len(h3) = Len(h2) + Len(U16(e))
    BY <1>4, <2>1, Glue, Zenon
  <2> HIDE DEF h3
  <2>3. QED
    BY <1>4, <2>1, <2>2
<1>6. h4 \in Seq(Byte) /\ Len(h4) = 12
  <2>1. U16(f) \in Seq(Byte) /\ Len(U16(f)) = 2
    BY <1>b, <1>1
  <2> HIDE DEF h3
  <2>2. h4 \in Seq(Byte) /\ Len(h4) = Len(h3) + Len(U16(f))
    BY <1>5, <2>1, Glue, Zenon
  <2> HIDE DEF h4
  <2>3. QED
    BY <1>5, <2>1, <2>2
<1>7. h5 \in Seq(Byte) /\ Len(h5) = 14
  <2>1. U16(market) \in Seq(Byte) /\ Len(U16(market)) = 2
    BY <1>b, <1>1
  <2> HIDE DEF h4
  <2>2. h5 \in Seq(Byte) /\ Len(h5) = Len(h4) + Len(U16(market))
    BY <1>6, <2>1, Glue, Zenon
  <2> HIDE DEF h5
  <2>3. QED
    BY <1>6, <2>1, <2>2
<1>8. h6 \in Seq(Byte) /\ Len(h6) = 20
  <2> HIDE DEF h5
  <2>1. h6 \in Seq(Byte) /\ Len(h6) = Len(h5) + Len(Zqdm)
    BY <1>2, <1>7, Glue, Zenon
  <2> HIDE DEF h6
  <2>2. QED
    BY <1>2, <1>7, <2>1
<1>9. QED
  BY <1>c, <1>8, Zenon

LEMMA One == 1 \in Nat /\ Low(1) \in Words /\ High(1) = 0 /\ 0 \in Words
<1>1. 1 \div 65536 = 0
  BY SMT
<1>2. 0 <= 65535
  BY SMT
<1>3. QED
  BY <1>1, <1>2, NumberSplit, WordIs, SMT DEF High

(* A server reads from the request the category and the count the caller gave,    *)
(* and a start of 0 whatever start the caller gave.                              *)
LEMMA RequestRead ==
  ASSUME NEW c \in Words, NEW n \in Words, NEW s
  PROVE  /\ Request(c, 0, s, n) \in Seq(Byte)
         /\ ServerReads(Request(c, 0, s, n)) = [category |-> c, start |-> 0, count |-> n]
<1> DEFINE h0 == RequestHead(0)
           h1 == h0 \o U16(c)
           h2 == h1 \o U32(1)
           d  == h2 \o U16(n)
<1>0. c \in Int /\ n \in Int /\ 0 \in Int /\ 1 \in Int
  BY WordType, SMT
<1>1. h0 \in Seq(Byte) /\ Len(h0) = 20
  BY <1>0, RequestHeadIs
<1>2. /\ U16(c) \in Seq(Byte) /\ Len(U16(c)) = 2 /\ U16(n) \in Seq(Byte) /\ Len(U16(n)) = 2
      /\ U32(1) \in Seq(Byte) /\ Len(U32(1)) = 4
  BY <1>0, U16Is, U32Is
<1>3. Request(c, 0, s, n) = d
  BY SMT DEF Request, RequestHead
<1> HIDE DEF h0
<1>4. h1 \in Seq(Byte) /\ Len(h1) = 22
  <2>1. h1 \in Seq(Byte) /\ Len(h1) = Len(h0) + Len(U16(c))
    BY <1>1, <1>2, Glue, Zenon
  <2> HIDE DEF h1
  <2>2. QED
    BY <1>1, <1>2, <2>1
<1>5. h2 \in Seq(Byte) /\ Len(h2) = 26
  <2> HIDE DEF h1
  <2>1. h2 \in Seq(Byte) /\ Len(h2) = Len(h1) + Len(U32(1))
    BY <1>2, <1>4, Glue, Zenon
  <2> HIDE DEF h2
  <2>2. Len(h2) = 22 + 4
    BY <1>2, <1>4, <2>1, Zenon
  <2>3. 22 + 4 = 26
    OBVIOUS
  <2>4. QED
    BY <2>1, <2>2, <2>3, Zenon
<1>6. d \in Seq(Byte) /\ Holds(d, 0, h2) /\ Holds(d, 26, U16(n))
  <2> HIDE DEF h2
  <2>1. Holds(d, 0, d)
    BY HoldsItself
  <2>2. Holds(d, 0, h2) /\ Holds(d, 0 + Len(h2), U16(n))
    BY <1>2, <1>5, <2>1, HoldsConcat
  <2>3. d \in Seq(Byte)
    BY <1>2, <1>5, Glue
  <2>4. QED
    BY <1>5, <2>2, <2>3
<1> HIDE DEF d
<1>7. Holds(d, 0, h1) /\ Holds(d, 22, U32(1))
  <2> HIDE DEF h1
  <2>1. Holds(d, 0, h1) /\ Holds(d, 0 + Len(h1), U32(1))
    BY <1>2, <1>4, <1>6, HoldsConcat
  <2>2. QED
    BY <1>4, <2>1
<1>8. Holds(d, 20, U16(c))
  <2>1. Holds(d, 0 + Len(h0), U16(c))
    BY <1>1, <1>2, <1>7, HoldsConcat
  <2>2. QED
    BY <1>1, <2>1
<1>9. Word(d, 20) = c /\ Word(d, 26) = n
  BY <1>6, <1>8, WordRead
<1>10. Word(d, 24) = 0
  <2>1. Holds(d, 22, U16(Low(1)) \o U16(High(1)))
    BY <1>7, U32Split, Zenon
  <2>2. High(1) \in Words
    BY One
  <2>3. Word(d, 22 + 2) = High(1)
    BY <2>1, <2>2, One, TwoWords
  <2>4. QED
    BY <2>3, One
<1>11. QED
  BY <1>3, <1>6, <1>9, <1>10, Zenon DEF ServerReads

LEMMA MaxOfTwo ==
  ASSUME NEW m \in Int
  PROVE  Max({1, m}) \in {1, m} /\ Max({1, m}) >= 1 /\ Max({1, m}) >= m
<1>1. \E x \in {1, m} : \A y \in {1, m} : x >= y
  <2>1. CASE m >= 1
    BY <2>1
  <2>2. CASE ~(m >= 1)
    BY <2>2
  <2>3. QED
    BY <2>1, <2>2
<1>2. Max({1, m}) \in {1, m} /\ \A y \in {1, m} : Max({1, m}) >= y
  BY <1>1 DEF Max
<1>3. QED
  BY <1>2

LEMMA SectionIs ==
  ASSUME NEW h \in Seq(Bars), NEW n \in Nat
  PROVE  Section(h, 0, n) \in Seq(Bars) /\ Len(Section(h, 0, n)) <= n
<1>1. Len(h) \in Nat /\ \A j \in 1 .. Len(h) : h[j] \in Bars
  BY LenProperties, ElementOfSeq
<1>2. PICK L : L = Len(h) - 0
  OBVIOUS
<1>3. PICK m : m = Len(h) - 0 - n + 1
  OBVIOUS
<1>4. L \in Nat /\ L = Len(h) /\ m \in Int /\ m = L - n + 1
  BY <1>1, <1>2, <1>3
<1>5. PICK lo : lo = Max({1, m})
  OBVIOUS
<1>6. lo \in Int /\ lo >= 1 /\ lo >= m
  BY <1>4, <1>5, MaxOfTwo
<1>7. \A j \in lo .. L : h[j] \in Bars
  <2> TAKE j \in lo .. L
  <2>1. j \in 1 .. Len(h)
    BY <1>4, <1>6
  <2>2. QED
    BY <1>1, <2>1
<1>8. /\ SubSeq(h, lo, L) \in Seq(Bars)
      /\ Len(SubSeq(h, lo, L)) = IF lo <= L THEN L - lo + 1 ELSE 0
  BY <1>4, <1>6, <1>7, SubSeqProperties
<1>9. Section(h, 0, n) = SubSeq(h, lo, L)
  BY <1>2, <1>3, <1>5, Zenon DEF Section
<1>10. Len(SubSeq(h, lo, L)) <= n
  BY <1>4, <1>6, <1>8
<1>11. QED
  BY <1>8, <1>9, <1>10, Zenon

(* The close before the k-th bar of s, as the server encodes it.                  *)
CloseBefore(s, k) == IF k = 1 THEN 0 ELSE s[k-1].close

LEMMA CloseType ==
  ASSUME NEW s \in Seq(Bars), NEW k \in 1 .. Len(s)
  PROVE  CloseBefore(s, k) \in Int /\ s[k] \in Bars
<1>1. Len(s) \in Nat /\ \A j \in 1 .. Len(s) : s[j] \in Bars
  BY LenProperties, ElementOfSeq
<1>2. CASE k = 1
  BY <1>1, <1>2 DEF CloseBefore
<1>3. CASE k # 1
  <2>1. PICK j : j = k - 1
    OBVIOUS
  <2>2. j \in 1 .. Len(s)
    BY <1>1, <1>3, <2>1
  <2>3. s[j].close \in Int
    BY <1>1, <2>2, BarFields
  <2>4. CloseBefore(s, k) = s[j].close
    BY <1>3, <2>1 DEF CloseBefore
  <2>5. QED
    BY <1>1, <2>3, <2>4
<1>4. QED
  BY <1>2, <1>3

(* w is what the server makes of the bars s.                                      *)
IsAnswer(w, s, cat) ==
  /\ s \in Seq(Bars) /\ w \in Seq(Seq(Byte)) /\ Len(w) = Len(s)
  /\ \A k \in 1 .. Len(s) : w[k] = EncodeBar(cat, s[k], CloseBefore(s, k))

LEMMA AnswerIs ==
  ASSUME NEW h \in Seq(Bars), NEW cat, NEW n \in Nat
  PROVE  IsAnswer(ServerAnswers(h, [category |-> cat, start |-> 0, count |-> n]),
                  Section(h, 0, n), cat)
<1> DEFINE s == Section(h, 0, n)
           w == ServerAnswers(h, [category |-> cat, start |-> 0, count |-> n])
<1>1. s \in Seq(Bars)
  BY SectionIs
<1>2. w = [k \in 1 .. Len(s) |-> EncodeBar(cat, s[k], CloseBefore(s, k))]
  BY DEF ServerAnswers, CloseBefore
<1> HIDE DEF s, w
<1>3. Len(s) \in Nat
  BY <1>1, LenProperties
<1>4. \A k \in 1 .. Len(s) : EncodeBar(cat, s[k], CloseBefore(s, k)) \in Seq(Byte)
  BY <1>1, CloseType, EncodeBarIs
<1>5. w \in [1 .. Len(s) -> Seq(Byte)]
  BY <1>2, <1>4, Zenon
<1>6. w \in Seq(Seq(Byte)) /\ Len(w) = Len(s)
  BY <1>3, <1>5, SeqDef, LenProperties
<1>7. \A k \in 1 .. Len(s) : w[k] = EncodeBar(cat, s[k], CloseBefore(s, k))
  BY <1>2, Zenon
<1>8. IsAnswer(w, s, cat)
  BY <1>1, <1>6, <1>7, Zenon DEF IsAnswer
<1>9. QED
  BY <1>8, Zenon DEF s, w

(* The m-th bar of the body lies behind the ones before it.                       *)
LEMMA RowHeld ==
  ASSUME NEW w, NEW s, NEW cat, IsAnswer(w, s, cat), NEW m \in Nat, m + 1 <= Len(s)
  PROVE  /\ RowIn(Body(w), EndOf(w, m), EndOf(w, m + 1), cat, s[m + 1], CloseBefore(s, m + 1))
         /\ EndOf(w, m) \in Nat /\ EndOf(w, m + 1) \in Nat /\ EndOf(w, m + 1) <= Len(Body(w))
         /\ s[m + 1] \in Bars /\ CloseBefore(s, m + 1) \in Int
<1>0. s \in Seq(Bars) /\ w \in Seq(Seq(Byte)) /\ Len(w) = Len(s) /\ Len(s) \in Nat
  BY LenProperties DEF IsAnswer
<1>1. PICK k : k = m + 1
  OBVIOUS
<1>2. k \in 1 .. Len(s) /\ k \in 1 .. Len(w) /\ k - 1 = m /\ m \in 0 .. Len(w) /\ k \in 0 .. Len(w)
  BY <1>0, <1>1
<1>3. /\ EndOf(w, k) = EndOf(w, k - 1) + Len(w[k]) /\ Holds(Body(w), EndOf(w, k - 1), w[k])
  BY <1>0, <1>2, BodyIs
<1>4. /\ EndOf(w, m) \in 2 .. Len(Body(w)) /\ EndOf(w, k) \in 2 .. Len(Body(w))
      /\ Body(w) \in Seq(Byte)
  BY <1>0, <1>2, BodyIs
<1>5. /\ EndOf(w, m) \in Nat /\ EndOf(w, k) \in Nat /\ EndOf(w, k) <= Len(Body(w))
  BY <1>4, LenProperties
<1>6. s[k] \in Bars /\ CloseBefore(s, k) \in Int
  BY <1>0, <1>2, CloseType
<1>7. w[k] = EncodeBar(cat, s[k], CloseBefore(s, k))
  BY <1>2 DEF IsAnswer
<1>8. Holds(Body(w), EndOf(w, m), EncodeBar(cat, s[k], CloseBefore(s, k)))
  BY <1>2, <1>3, <1>7, Zenon
<1>9. RowIn(Body(w), EndOf(w, m), EndOf(w, m) + Len(EncodeBar(cat, s[k], CloseBefore(s, k))),
            cat, s[k], CloseBefore(s, k))
  BY <1>5, <1>6, <1>8, EncodeBarIs
<1>10. EndOf(w, m) + Len(EncodeBar(cat, s[k], CloseBefore(s, k))) = EndOf(w, k)
  BY <1>2, <1>3, <1>7
<1>11. RowIn(Body(w), EndOf(w, m), EndOf(w, k), cat, s[k], CloseBefore(s, k))
  BY <1>9, <1>10, Zenon
<1>12. QED
  BY <1>1, <1>5, <1>6, <1>11, Zenon

-----------------------------------------------------------------------------
(* What holds while the rows are decoded: s the bars asked for, w the server's    *)
(* answer, cut the bytes of it that were unpacked into d, cnt the count read from  *)
(* d, p and n the position and the number of rows, pre the close of the last row,  *)
(* rs the rows.                                                              *)
LoopInv(s, cat, w, cut, d, cnt, p, n, pre, rs) ==
  /\ IsAnswer(w, s, cat) /\ CutAt(d, Body(w), cut)
  /\ cnt \in Nat /\ cnt <= Len(w) /\ (cut >= 2 => cnt = Len(w))
  /\ n \in Nat /\ n <= cnt
  /\ Near(p, EndOf(w, n), cut)
  /\ (EndOf(w, n) <= cut => pre = CloseBefore(s, n + 1))
  /\ (\E S : rs \in Seq(S)) /\ Len(rs) = n
  /\ \A k \in 1 .. n : EndOf(w, k) <= cut => Fits(rs[k], cat, s[k])

LEMMA CutIs ==
  ASSUME NEW b \in Seq(Byte), NEW n \in 0 .. Len(b)
  PROVE  CutAt([k \in 1 .. Len(b) |-> IF k <= n THEN b[k] ELSE 0], b, n)
<1> DEFINE d == [k \in 1 .. Len(b) |-> IF k <= n THEN b[k] ELSE 0]
<1>1. Len(b) \in Nat /\ \A k \in 1 .. Len(b) : b[k] \in Byte
  BY LenProperties, ElementOfSeq
<1>2. 0 \in Byte
  BY DEF Byte
<1>3. d \in [1 .. Len(b) -> Byte]
  BY <1>1, <1>2
<1>4. d \in Seq(Byte) /\ Len(d) = Len(b)
  <2> HIDE DEF d
  <2>1. QED
    BY <1>1, <1>3, SeqDef, LenProperties
<1>5. \A m \in Nat : At(d, m) = IF m < n THEN At(b, m) ELSE 0
  <2> TAKE m \in Nat
  <2>1. CASE m < Len(b)
    <3>1. m + 1 \in 1 .. Len(b) /\ (m + 1 <= n <=> m < n)
      BY <1>1, <2>1
    <3>2. d[m + 1] = IF m + 1 <= n THEN b[m + 1] ELSE 0
      BY <3>1, Zenon
    <3>3. At(d, m) = d[m + 1] /\ At(b, m) = b[m + 1]
      BY <1>4, <2>1, Zenon DEF At
    <3>4. QED
      BY <3>1, <3>2, <3>3, Zenon
  <2>2. CASE ~(m < Len(b))
    <3>1. At(d, m) = 0 /\ At(b, m) = 0
      BY <1>4, <2>2, Zenon DEF At
    <3>2. QED
      BY <3>1, Zenon
  <2>3. QED
    BY <2>1, <2>2
<1> HIDE DEF d
<1>6. CutAt(d, b, n)
  BY <1>4, <1>5, Zenon DEF CutAt
<1>7. QED
  BY <1>6, Zenon DEF d

(* A count of which bytes were lost is smaller.                                 *)
LEMMA CountRead ==
  ASSUME NEW w \in Seq(Seq(Byte)), Len(w) \in Words, NEW d, NEW k, CutAt(d, Body(w), k)
  PROVE  Word(d, 0) \in Nat /\ Word(d, 0) <= Len(w) /\ (k >= 2 => Word(d, 0) = Len(w))
<1>1. PICK L : L = Len(w)
  OBVIOUS
<1>2. L \in Words /\ L \in Nat /\ k \in Nat
  BY <1>1, WordType, LenProperties, SMT DEF CutAt
<1>3. Holds(Body(w), 0, U16(L))
  BY <1>1, BodyIs
<1>4. Len(U16(L)) = 2 /\ At(U16(L), 0) = L % 256 /\ At(U16(L), 1) = (L \div 256) % 256
  BY <1>2, U16Is
<1>5. At(Body(w), 0) = L % 256 /\ At(Body(w), 1) = (L \div 256) % 256
  <2>1. \A m \in 0 .. 1 : At(Body(w), 0 + m) = At(U16(L), m)
    BY <1>3, <1>4 DEF Holds
  <2>2. 0 \in 0 .. 1 /\ 1 \in 0 .. 1 /\ 0 + 0 = 0 /\ 0 + 1 = 1
    OBVIOUS
  <2>3. QED
    BY <1>4, <2>1, <2>2
<1>6. (L % 256) + 256 * ((L \div 256) % 256) = L
  BY <1>2, WordSplit
<1>7. \A m \in Nat : At(d, m) = IF m < k THEN At(Body(w), m) ELSE 0
  BY DEF CutAt
<1>8. At(d, 0) = (IF 0 < k THEN L % 256 ELSE 0) /\ At(d, 1) = (IF 1 < k THEN (L \div 256) % 256 ELSE 0)
  BY <1>5, <1>7
<1>9. PICK x, y : x = L % 256 /\ y = (L \div 256) % 256
  OBVIOUS
<1>10. x \in Nat /\ y \in Nat /\ x + 256 * y = L
  BY <1>2, <1>6, <1>9
<1>11. Word(d, 0) = At(d, 0) + 256 * At(d, 1)
  BY DEF Word
<1>12. At(d, 0) = (IF 0 < k THEN x ELSE 0) /\ At(d, 1) = (IF 1 < k THEN y ELSE 0)
  BY <1>8, <1>9
<1>13. CASE k = 0
  BY <1>1, <1>2, <1>10, <1>11, <1>12, <1>13
<1>14. CASE k = 1
  BY <1>1, <1>2, <1>10, <1>11, <1>12, <1>14
<1>15. CASE k >= 2
  BY <1>1, <1>2, <1>10, <1>11, <1>12, <1>15
<1>16. QED
  BY <1>2, <1>13, <1>14, <1>15

LEMMA LoopStarts ==
  ASSUME NEW s, NEW cat, NEW w, IsAnswer(w, s, cat), Len(w) \in Words,
         NEW n \in 0 .. Len(Body(w)), NEW d,
         d = [k \in 1 .. Len(Body(w)) |-> IF k <= n THEN Body(w)[k] ELSE 0]
  PROVE  LoopInv(s, cat, w, n, d, Word(d, 0), 2, 0, 0, <<>>)
<1>1. w \in Seq(Seq(Byte)) /\ Len(w) \in Nat
  BY LenProperties DEF IsAnswer
<1>2. Body(w) \in Seq(Byte) /\ EndOf(w, 0) = 2
  BY <1>1, BodyIs
<1>3. CutAt(d, Body(w), n)
  BY <1>2, CutIs
<1>4. Word(d, 0) \in Nat /\ Word(d, 0) <= Len(w) /\ (n >= 2 => Word(d, 0) = Len(w))
  BY <1>1, <1>3, CountRead
<1>5. Near(2, EndOf(w, 0), n) /\ 0 \in Nat /\ 0 <= Word(d, 0)
  BY <1>2, <1>4 DEF Near
<1>6. CloseBefore(s, 0 + 1) = 0
  BY DEF CloseBefore
<1>7. <<>> \in Seq(Byte) /\ Len(<<>>) = 0
  BY EmptySeq
<1>8. \A k \in 1 .. 0 : EndOf(w, k) <= n => Fits(<<>>[k], cat, s[k])
  OBVIOUS
<1>9. \E S : <<>> \in Seq(S)
  BY <1>7
<1>10. QED
  BY <1>3, <1>4, <1>5, <1>6, <1>7, <1>8, <1>9, Zenon DEF LoopInv

LEMMA AppendIs ==
  ASSUME NEW S, NEW rs \in Seq(S), NEW r
  PROVE  /\ \E T : Append(rs, r) \in Seq(T)
         /\ Len(Append(rs, r)) = Len(rs) + 1
         /\ Append(rs, r)[Len(rs) + 1] = r
         /\ \A k \in 1 .. Len(rs) : Append(rs, r)[k] = rs[k]
<1> DEFINE T == S \cup {r}
<1>1. Len(rs) \in Nat /\ \A k \in 1 .. Len(rs) : rs[k] \in T
  BY LenProperties, ElementOfSeq
<1>2. rs \in [1 .. Len(rs) -> T]
  BY <1>1, LenProperties
<1>3. rs \in Seq(T) /\ r \in T
  BY <1>1, <1>2, SeqDef
<1> HIDE DEF T
<1>4. QED
  BY <1>1, <1>3, AppendProperties

LEMMA LoopGoes ==
  ASSUME NEW s, NEW cat, NEW w, NEW cut, NEW d, NEW cnt, NEW p, NEW n, NEW pre, NEW rs,
         LoopInv(s, cat, w, cut, d, cnt, p, n, pre, rs), n < cnt
  PROVE  LET r == DecodeRow(d, p, cat, pre)
         IN  /\ LoopInv(s, cat, w, cut, d, cnt, r.end, n + 1, r.row.close, Append(rs, r.row))
             /\ ~(r.end > Len(d))
<1> DEFINE r == DecodeRow(d, p, cat, pre)
           b == Body(w)
           e == EndOf(w, n)
           f == EndOf(w, n + 1)
<1>1. /\ IsAnswer(w, s, cat) /\ CutAt(d, b, cut)
      /\ cnt \in Nat /\ cnt <= Len(w) /\ (cut >= 2 => cnt = Len(w))
      /\ n \in Nat /\ Near(p, e, cut) /\ (e <= cut => pre = CloseBefore(s, n + 1))
      /\ Len(rs) = n
      /\ \A k \in 1 .. n : EndOf(w, k) <= cut => Fits(rs[k], cat, s[k])
  BY Zenon DEF LoopInv
<1>2. PICK S : rs \in Seq(S)
  BY DEF LoopInv
<1>3. Len(w) = Len(s) /\ Len(s) \in Nat
  BY <1>1, LenProperties DEF IsAnswer
<1>4. n + 1 <= Len(s) /\ n + 1 \in Nat /\ n + 1 <= cnt
  BY <1>1, <1>3
<1>5. /\ RowIn(b, e, f, cat, s[n + 1], CloseBefore(s, n + 1))
      /\ e \in Nat /\ f \in Nat /\ f <= Len(b)
      /\ s[n + 1] \in Bars /\ CloseBefore(s, n + 1) \in Int
  BY <1>1, <1>4, RowHeld
<1> HIDE DEF r, b, e, f
<1>6. /\ Near(r.end, f, cut) /\ e < f
      /\ (f <= cut /\ pre = CloseBefore(s, n + 1)) =>
           /\ Fits(r.row, cat, s[n + 1]) /\ r.row.close = s[n + 1].close /\ r.end = f
  BY <1>1, <1>5, RowStep DEF r
<1>7. cut \in Nat /\ Len(d) = Len(b) /\ Len(b) \in Nat
  BY <1>1, LenProperties DEF CutAt
<1>8. ~(r.end > Len(d))
  <2>1. PICK x : x = r.end
    OBVIOUS
  <2>2. x \in Nat /\ x <= f
    BY <1>6, <2>1 DEF Near
  <2>3. ~(x > Len(d))
    BY <1>5, <1>7, <2>2
  <2>4. QED
    BY <2>1, <2>3
<1>9. f <= cut => Fits(r.row, cat, s[n + 1]) /\ r.row.close = s[n + 1].close
  BY <1>1, <1>5, <1>6, <1>7
<1>10. CloseBefore(s, (n + 1) + 1) = s[n + 1].close
  <2>1. (n + 1) + 1 # 1 /\ ((n + 1) + 1) - 1 = n + 1
    BY <1>1
  <2>2. QED
    BY <2>1, Zenon DEF CloseBefore
<1> DEFINE rs1 == Append(rs, r.row)
<1>11. /\ (\E T : rs1 \in Seq(T)) /\ Len(rs1) = n + 1 /\ rs1[n + 1] = r.row
       /\ \A k \in 1 .. n : rs1[k] = rs[k]
  BY <1>1, <1>2, AppendIs
<1> HIDE DEF rs1
<1>12. \A k \in 1 .. n + 1 : EndOf(w, k) <= cut => Fits(rs1[k], cat, s[k])
  <2> TAKE k \in 1 .. n + 1
  <2>1. CASE k = n + 1
    BY <1>9, <1>11, <2>1, Zenon DEF f
  <2>2. CASE k # n + 1
    <3>1. k \in 1 .. n
      BY <1>1, <2>2
    <3>2. QED
      BY <1>1, <1>11, <3>1, Zenon
  <2>3. QED
    BY <2>1, <2>2
<1>13. f <= cut => r.row.close = CloseBefore(s, (n + 1) + 1)
  BY <1>9, <1>10, Zenon
<1>14. LoopInv(s, cat, w, cut, d, cnt, r.end, n + 1, r.row.close, rs1)
  BY <1>1, <1>4, <1>6, <1>11, <1>12, <1>13, Zenon DEF LoopInv, b, f
<1>15. QED
  BY <1>8, <1>14, Zenon DEF r, rs1

-----------------------------------------------------------------------------
(* The inductive invariant.                                                  *)

NotYet ==
  /\ UzipedData = <<>> /\ wire = <<>> /\ intact = 0 /\ pos = 0 /\ i = 0 /\ rows = <<>>

Asking ==
  /\ arg.category \in Words /\ arg.count \in Words /\ arg.count \in Nat
  /\ sent = Request(arg.category, 0, arg.start, arg.count)
  /\ sent \in Seq(Byte)

(* The bars a request stands for: the newest ones, whatever Start is.             *)
Newest == Section(hist, 0, arg.count)

Decoding ==
  LoopInv(Newest, arg.category, wire, intact, UzipedData, Count, pos, i, iPreClose, rows)

CodecInv ==
  /\ hist \in Histories /\ hist \in Seq(Bars)
  /\ pc \in {"call", "sent", "rows", "done"} /\ overrun = FALSE
  /\ Count \in Words
  /\ pc = "call" => NotYet /\ sent = <<>>
  /\ pc = "sent" => NotYet /\ Asking
  /\ pc \in {"rows", "done"} => Asking /\ Decoding
  /\ pc = "done" => i = Count

LEMMA InitInv == Init => CodecInv
<1> SUFFICES ASSUME Init PROVE CodecInv
  OBVIOUS
<1>1. hist \in Histories /\ pc = "call" /\ overrun = FALSE /\ Count = 0
      /\ NotYet /\ sent = <<>>
  BY DEF Init, NotYet
<1>2. Histories \subseteq Seq(Bars)
  BY HistoryAssumption
<1>3. Count \in Words
  BY <1>1, One, Zenon
<1>4. QED
  BY <1>1, <1>2, <1>3 DEF CodecInv

LEMMA ArgType ==
  ASSUME NEW c \in Categories, NEW n \in Counts
  PROVE  c \in Words /\ n \in Words /\ n \in Nat
<1>1. Categories \subseteq 0 .. 11 /\ Counts \subseteq 1 .. 800
  BY CallAssumption, Zenon
<1>2. c \in Nat /\ c <= 65535 /\ n \in Nat /\ n <= 65535
  BY <1>1, SMT
<1>3. QED
  BY <1>2, WordIs, SMT

LEMMA CallKeeps == CodecInv /\ Call => CodecInv'
<1> SUFFICES ASSUME CodecInv, Call PROVE CodecInv'
  OBVIOUS
<1>1. PICK c \in Categories, s \in Starts, n \in Counts :
        /\ arg' = [category |-> c, start |-> s, count |-> n] /\ Count' = n
        /\ sent' = Request(c, 0, s, n)
  BY DEF Call
<1>2. /\ pc = "call" /\ pc' = "sent" /\ hist' = hist /\ overrun' = overrun
      /\ UzipedData' = UzipedData /\ wire' = wire /\ intact' = intact /\ pos' = pos
      /\ i' = i /\ rows' = rows
  BY DEF Call
<1>3. hist \in Histories /\ hist \in Seq(Bars) /\ overrun = FALSE /\ NotYet
  BY <1>2 DEF CodecInv
<1>4. c \in Words /\ n \in Words /\ n \in Nat
  BY ArgType
<1>5. Request(c, 0, s, n) \in Seq(Byte)
  BY <1>4, RequestRead
<1>6. arg'.category = c /\ arg'.start = s /\ arg'.count = n
  BY <1>1
<1>7. Asking'
  BY <1>1, <1>4, <1>5, <1>6, Zenon DEF Asking
<1>8. NotYet'
  BY <1>2, <1>3, Zenon DEF NotYet
<1>9. Count' \in Words
  BY <1>1, <1>4, Zenon
<1>10. QED
  BY <1>2, <1>3, <1>7, <1>8, <1>9 DEF CodecInv

LEMMA UnpackKeeps == CodecInv /\ Unpack => CodecInv'
<1> SUFFICES ASSUME CodecInv, Unpack PROVE CodecInv'
  OBVIOUS
<1> DEFINE answer == ServerAnswers(hist, ServerReads(sent))
<1>1. /\ pc = "sent" /\ pc' = "rows" /\ hist' = hist /\ overrun' = overrun /\ arg' = arg
      /\ sent' = sent /\ pos' = 2 /\ i' = 0 /\ iPreClose' = 0 /\ rows' = <<>>
  BY DEF Unpack
<1>2. PICK n \in 0 .. Len(Body(answer)) :
        /\ wire' = answer /\ intact' = n
        /\ UzipedData' = [k \in 1 .. Len(Body(answer)) |->
                            IF k <= n THEN Body(answer)[k] ELSE 0]
        /\ Count' = Word(UzipedData', 0)
  BY Zenon DEF Unpack, Body
<1>3. hist \in Histories /\ hist \in Seq(Bars) /\ overrun = FALSE /\ Asking
  BY <1>1 DEF CodecInv
<1>4. arg.category \in Words /\ arg.count \in Words /\ arg.count \in Nat
  BY <1>3 DEF Asking
<1>5. answer = ServerAnswers(hist, [category |-> arg.category, start |-> 0, count |-> arg.count])
  BY <1>3, <1>4, RequestRead, Zenon DEF Asking
<1>6. IsAnswer(answer, Newest, arg.category)
  BY <1>3, <1>4, <1>5, AnswerIs, Zenon DEF Newest
<1>7. Newest' = Newest
  BY <1>1, Zenon DEF Newest
<1> HIDE DEF answer
<1>8. Len(answer) \in Words
  <2>1. Len(Newest) <= arg.count /\ Newest \in Seq(Bars)
    BY <1>3, <1>4, SectionIs DEF Newest
  <2>2. Len(answer) = Len(Newest)
    BY <1>6, Zenon DEF IsAnswer
  <2>3. PICK x, y : x = Len(Newest) /\ y = arg.count
    OBVIOUS
  <2>4. x \in Nat /\ x <= y /\ y \in Words
    BY <1>4, <2>1, <2>3, LenProperties, SMT
  <2>5. y \in Nat /\ y <= 65535
    BY <2>4, WordType, SMT
  <2>6. x <= 65535
    BY <2>4, <2>5, SMT
  <2>7. x \in Words
    BY <2>4, <2>6, WordIs, SMT
  <2>8. QED
    BY <2>2, <2>3, <2>7, Zenon
<1>9. LoopInv(Newest, arg.category, answer, n, UzipedData', Word(UzipedData', 0), 2, 0, 0, <<>>)
  BY <1>2, <1>6, <1>8, LoopStarts
<1>10. Decoding'
  BY <1>1, <1>2, <1>7, <1>9, Zenon DEF Decoding
<1>11. Asking'
  BY <1>1, <1>3, Zenon DEF Asking
<1>12. Count' \in Words
  <2>1. PICK x, y : x = Count' /\ y = Len(answer)
    OBVIOUS
  <2>2. x \in Nat /\ x <= y
    BY <1>2, <1>9, <2>1, Zenon DEF LoopInv
  <2>3. y \in Nat /\ y <= 65535
    BY <1>8, <2>1, WordType, SMT
  <2>4. x <= 65535
    BY <2>2, <2>3, SMT
  <2>5. x \in Words
    BY <2>2, <2>4, WordIs, SMT
  <2>6. QED
    BY <2>1, <2>5, Zenon
<1>13. QED
  BY <1>1, <1>3, <1>10, <1>11, <1>12 DEF CodecInv

LEMMA DecodeKeeps == CodecInv /\ DecodeNext => CodecInv'
<1> SUFFICES ASSUME CodecInv, DecodeNext PROVE CodecInv'
  OBVIOUS
<1> DEFINE r == DecodeRow(UzipedData, pos, arg.category, iPreClose)
<1>1. /\ pc = "rows" /\ pc' = pc /\ i < Count /\ hist' = hist /\ arg' = arg /\ sent' = sent
      /\ wire' = wire /\ intact' = intact /\ UzipedData' = UzipedData /\ Count' = Count
      /\ rows' = Append(rows, r.row) /\ pos' = r.end /\ iPreClose' = r.row.close
      /\ overrun' = (overrun \/ r.end > Len(UzipedData)) /\ i' = i + 1
  BY DEF DecodeNext
<1>2. /\ hist \in Histories /\ hist \in Seq(Bars) /\ overrun = FALSE /\ Count \in Words
      /\ Asking /\ Decoding
  BY <1>1 DEF CodecInv
<1> HIDE DEF r
<1>3. /\ LoopInv(Newest, arg.category, wire, intact, UzipedData, Count, r.end, i + 1,
                 r.row.close, Append(rows, r.row))
      /\ ~(r.end > Len(UzipedData))
  <2>1. LoopInv(Newest, arg.category, wire, intact, UzipedData, Count, pos, i, iPreClose, rows)
    BY <1>2, Zenon DEF Decoding
  <2>2. QED
    BY <1>1, <2>1, LoopGoes, Zenon DEF r
<1>4. overrun' = FALSE
  BY <1>1, <1>2, <1>3, Zenon
<1>5. Newest' = Newest
  BY <1>1, Zenon DEF Newest
<1>6. Decoding'
  BY <1>1, <1>3, <1>5, Zenon DEF Decoding
<1>7. Asking'
  BY <1>1, <1>2, Zenon DEF Asking
<1>8. pc' = "rows" /\ Count' \in Words /\ hist' \in Histories /\ hist' \in Seq(Bars)
  BY <1>1, <1>2, Zenon
<1>9. QED
  BY <1>4, <1>6, <1>7, <1>8 DEF CodecInv

LEMMA ReturnKeeps == CodecInv /\ Return => CodecInv'
<1> SUFFICES ASSUME CodecInv, Return PROVE CodecInv'
  OBVIOUS
<1>1. /\ pc = "rows" /\ pc' = "done" /\ i >= Count /\ hist' = hist /\ arg' = arg /\ sent' = sent
      /\ wire' = wire /\ intact' = intact /\ UzipedData' = UzipedData /\ Count' = Count
      /\ rows' = rows /\ pos' = pos /\ iPreClose' = iPreClose /\ overrun' = overrun /\ i' = i
  BY DEF Return
<1>2. /\ hist \in Histories /\ hist \in Seq(Bars) /\ overrun = FALSE /\ Count \in Words
      /\ Asking /\ Decoding
  BY <1>1 DEF CodecInv
<1>3. Asking' /\ Newest' = Newest
  BY <1>1, <1>2, Zenon DEF Asking, Newest
<1>4. Decoding'
  BY <1>1, <1>2, <1>3, Zenon DEF Decoding
<1>5. i' = Count'
  <2>1. i \in Nat /\ i <= Count /\ Count \in Nat
    BY <1>2, Zenon DEF Decoding, LoopInv
  <2>2. QED
    BY <1>1, <2>1
<1>6. hist' \in Histories /\ hist' \in Seq(Bars) /\ overrun' = FALSE /\ Count' \in Words
  BY <1>1, <1>2, Zenon
<1>7. QED
  BY <1>1, <1>3, <1>4, <1>5, <1>6 DEF CodecInv

LEMMA StutterKeeps == CodecInv /\ UNCHANGED vars => CodecInv'
<1> SUFFICES ASSUME CodecInv, UNCHANGED vars PROVE CodecInv'
  OBVIOUS
<1>1. /\ hist' = hist /\ arg' = arg /\ sent' = sent /\ wire' = wire /\ intact' = intact
      /\ UzipedData' = UzipedData /\ Count' = Count /\ pos' = pos /\ i' = i
      /\ iPreClose' = iPreClose /\ rows' = rows /\ pc' = pc /\ overrun' = overrun
  BY DEF vars
<1>2. NotYet' = NotYet /\ Asking' = Asking /\ Decoding' = Decoding
  BY <1>1, Zenon DEF NotYet, Asking, Decoding, Newest
<1>3. QED
  BY <1>1, <1>2 DEF CodecInv

(* The invariant holds in every state of the specification.                      *)
LEMMA CodecInvHolds == Spec => []CodecInv
<1>1. CodecInv /\ [Next]_vars => CodecInv'
  BY CallKeeps, UnpackKeeps, DecodeKeeps, ReturnKeeps, StutterKeeps, Zenon DEF Next
<1>2. QED
  BY <1>1, InitInv, PTL DEF Spec

LEMMA InsideFromInv == CodecInv => StaysInside
<1> SUFFICES ASSUME CodecInv PROVE StaysInside
  OBVIOUS
<1>1. Count \in 0 .. 2^16 - 1
  <2>1. Count \in Words
    BY DEF CodecInv
  <2>2. Count \in Nat /\ Count <= 65535
    BY <2>1, WordType, SMT
  <2>3. QED
    BY <2>2, SMT
<1>2. hist \in Histories /\ pc \in {"call", "sent", "rows", "done"} /\ overrun = FALSE
  BY DEF CodecInv
<1>3. \A s \in Seq(Byte) : \A k \in DOMAIN s : s[k] \in 0 .. 255
  BY ElementOfSeq, LenProperties DEF Byte
<1>4. CASE pc \in {"call", "sent"}
  <2>1. NotYet /\ sent \in Seq(Byte)
    BY <1>4, EmptySeq DEF CodecInv, Asking
  <2>2. UzipedData \in Seq(Byte) /\ pos \in Nat /\ i \in Nat /\ intact \in Nat /\ Len(rows) = i
    BY <2>1, EmptySeq DEF NotYet
  <2>3. (\A k \in DOMAIN sent : sent[k] \in 0 .. 255)
        /\ (\A k \in DOMAIN UzipedData : UzipedData[k] \in 0 .. 255)
    BY <1>3, <2>1, <2>2, Zenon
  <2>4. QED
    BY <1>1, <1>2, <2>2, <2>3, Zenon DEF StaysInside, TypeOK
<1>5. CASE pc \in {"rows", "done"}
  <2>1. Decoding /\ sent \in Seq(Byte)
    BY <1>5 DEF CodecInv, Asking
  <2>2. /\ CutAt(UzipedData, Body(wire), intact) /\ Near(pos, EndOf(wire, i), intact)
        /\ i \in Nat /\ Len(rows) = i
    BY <2>1, Zenon DEF Decoding, LoopInv
  <2>3. UzipedData \in Seq(Byte) /\ pos \in Nat /\ intact \in Nat
    BY <2>2, LenProperties DEF CutAt, Near
  <2>4. (\A k \in DOMAIN sent : sent[k] \in 0 .. 255)
        /\ (\A k \in DOMAIN UzipedData : UzipedData[k] \in 0 .. 255)
    BY <1>3, <2>1, <2>3, Zenon
  <2>5. QED
    BY <1>1, <1>2, <2>2, <2>3, <2>4, Zenon DEF StaysInside, TypeOK
<1>6. QED
  BY <1>2, <1>4, <1>5

(* GetSecurityBars never reads behind UzipedData, for all histories, categories,   *)
(* counts and codes, and wherever unpacking stopped: a position that has left its   *)
(* bar is among zeros and never overtakes the place it should be in.                *)
THEOREM InsideHolds == Spec => []StaysInside
BY CodecInvHolds, InsideFromInv, PTL

LEMMA CompleteFromInv == CodecInv => CompleteAnswer
<1> SUFFICES ASSUME CodecInv, arg.start = 0, pc = "done", intact = Len(UzipedData)
             PROVE  Count = Len(Newest) /\ Len(rows) = Count /\ pos = Len(UzipedData)
  BY Zenon DEF CompleteAnswer, Asked, Newest
<1>1. Decoding /\ i = Count
  BY DEF CodecInv
<1>2. /\ IsAnswer(wire, Newest, arg.category) /\ CutAt(UzipedData, Body(wire), intact)
      /\ (intact >= 2 => Count = Len(wire)) /\ Len(rows) = i
      /\ Near(pos, EndOf(wire, i), intact)
  BY <1>1, Zenon DEF Decoding, LoopInv
<1>3. wire \in Seq(Seq(Byte)) /\ Len(wire) = Len(Newest) /\ Len(wire) \in Nat
  BY <1>2, LenProperties DEF IsAnswer
<1>4. /\ EndOf(wire, Len(wire)) = Len(Body(wire)) /\ EndOf(wire, 0) = 2
      /\ \A k \in 0 .. Len(wire) : EndOf(wire, k) \in 2 .. Len(Body(wire))
  BY <1>3, BodyIs
<1>5. Len(UzipedData) = Len(Body(wire)) /\ Len(Body(wire)) \in Nat
  BY <1>2, LenProperties DEF CutAt
<1>6. intact >= 2
  <2>1. 0 \in 0 .. Len(wire)
    BY <1>3
  <2>2. 2 \in 2 .. Len(Body(wire))
    BY <1>4, <2>1
  <2>3. QED
    BY <1>5, <2>2
<1>7. Count = Len(wire)
  BY <1>2, <1>6
<1>8. EndOf(wire, i) = Len(Body(wire))
  BY <1>1, <1>4, <1>7
<1>9. pos = Len(UzipedData)
  BY <1>2, <1>5, <1>8 DEF Near
<1>10. QED
  BY <1>1, <1>2, <1>3, <1>7, <1>9

(* A call with Start 0 whose body was unpacked completely returns every bar the     *)
(* caller asked for and stops right behind the last one (GetSecurityBars).           *)
THEOREM CompleteHolds == Spec => []CompleteAnswer
BY CodecInvHolds, CompleteFromInv, PTL

LEMMA RowsFromInv == CodecInv => RowsAsked
<1> SUFFICES ASSUME CodecInv, NEW k \in DOMAIN rows, arg.start = 0, k <= Len(wire),
                    RowEnd(k) <= intact
             PROVE  /\ k <= Len(Newest)
                    /\ LET r == RowOf(arg.category, Newest[k])
                       IN  /\ [rows[k] EXCEPT !.amount = r.amount] = r
                           /\ rows[k].amount = r.amount <=> ~Misread(Newest[k])
  BY Zenon DEF RowsAsked, Asked, Newest
<1>1. CASE pc \in {"call", "sent"}
  <2>1. rows = <<>>
    BY <1>1 DEF CodecInv, NotYet
  <2>2. QED
    BY <2>1
<1>2. CASE pc \in {"rows", "done"}
  <2>1. Decoding
    BY <1>2 DEF CodecInv
  <2>2. /\ IsAnswer(wire, Newest, arg.category) /\ Len(rows) = i /\ (\E S : rows \in Seq(S))
        /\ \A j \in 1 .. i : EndOf(wire, j) <= intact => Fits(rows[j], arg.category, Newest[j])
    BY <2>1, Zenon DEF Decoding, LoopInv
  <2>3. k \in 1 .. i
    BY <2>2, LenProperties
  <2>4. EndOf(wire, k) <= intact
    BY Zenon DEF RowEnd, EndOf, Part
  <2>5. Fits(rows[k], arg.category, Newest[k])
    BY <2>2, <2>3, <2>4, Zenon
  <2>6. k <= Len(Newest)
    BY <2>2, Zenon DEF IsAnswer
  <2>7. QED
    BY <2>5, <2>6, Zenon DEF Fits
<1>3. QED
  BY <1>1, <1>2 DEF CodecInv

(* In a call with Start 0 every row made from bytes that were unpacked is the bar    *)
(* asked for: dates, chained prices and volumes survive EncodeBar and the decoding    *)
(* by GetSecurityBars for all bars, and the amount does exactly when its exponent is   *)
(* not among those the last branch of GetVolume gets wrong.                           *)
THEOREM RowsHold == Spec => []RowsAsked
BY CodecInvHolds, RowsFromInv, PTL

-----------------------------------------------------------------------------
(* CByteBuffer.                                                             *)

Memory == Bytes \cup {Garbage}

(* The inductive invariant: the storage holds bytes only, unless a buffer   *)
(* that had been read from was appended, and ends at the write position,    *)
(* unless that was moved.                                                   *)
BufferInv ==
  /\ BufferTypeOK
  /\ taken \/ mStorage \in Seq(Bytes)
  /\ AppendsAtEnd

-----------------------------------------------------------------------------
(* Sequences.                                                               *)

LEMMA FunctionIsSeq ==
  ASSUME NEW S, NEW n \in Nat, NEW f \in [1 .. n -> S]
  PROVE  f \in Seq(S) /\ Len(f) = n
<1>1. f \in Seq(S)
  BY SeqDef
<1>2. Len(f) \in Nat /\ DOMAIN f = 1 .. Len(f) /\ DOMAIN f = 1 .. n
  BY <1>1, LenProperties
<1>3. QED
  BY <1>1, <1>2

(* memcpy after a resize gives a vector of the length asked for.            *)
LEMMA OverwriteIs ==
  ASSUME NEW S, 0 \in S, NEW s \in Seq(S), NEW src \in Seq(S),
         NEW at \in Nat, NEW n \in Nat
  PROVE  /\ Overwrite(s, at, src, n) \in Seq(S)
         /\ Len(Overwrite(s, at, src, n)) = n
<1> DEFINE e(k) == IF k \in at + 1 .. at + Len(src) THEN src[k - at]
                   ELSE IF k <= Len(s) THEN s[k] ELSE 0
           f == [k \in 1 .. n |-> e(k)]
<1>1. Len(src) \in Nat /\ Len(s) \in Nat
  OBVIOUS
<1>2. \A k \in 1 .. n : e(k) \in S
  <2> TAKE k \in 1 .. n
  <2>1. CASE k \in at + 1 .. at + Len(src)
    <3>1. k - at \in 1 .. Len(src)
      BY <1>1, <2>1
    <3>2. src[k - at] \in S
      BY <3>1, ElementOfSeq
    <3>3. QED
      BY <2>1, <3>2
  <2>2. CASE k \notin at + 1 .. at + Len(src)
    <3>1. k <= Len(s) => s[k] \in S
      BY <1>1, ElementOfSeq
    <3>2. QED
      BY <2>2, <3>1
  <2>3. QED
    BY <2>1, <2>2
<1>3. f \in [1 .. n -> S]
  BY <1>2
<1>4. f \in Seq(S) /\ Len(f) = n
  BY <1>3, FunctionIsSeq, Zenon
<1>5. Overwrite(s, at, src, n) = f
  BY DEF Overwrite
<1>6. QED
  BY <1>4, <1>5

(* size() bytes from the read position on: bytes of the source as long as   *)
(* nothing was read from it.                                                *)
LEMMA ContentsIs ==
  ASSUME NEW s \in Seq(Bytes), NEW r \in 0 .. Len(s)
  PROVE  /\ Contents(s, r) \in Seq(Memory)
         /\ Len(Contents(s, r)) = Len(s)
         /\ r = 0 => Contents(s, r) \in Seq(Bytes)
<1> DEFINE e(k) == IF r + k <= Len(s) THEN s[r + k] ELSE Garbage
           f == [k \in 1 .. Len(s) |-> e(k)]
<1>1. Len(s) \in Nat /\ r \in Nat
  OBVIOUS
<1>2. \A k \in 1 .. Len(s) : /\ e(k) \in Memory
                             /\ r = 0 => e(k) \in Bytes
  <2> TAKE k \in 1 .. Len(s)
  <2>1. r + k <= Len(s) => s[r + k] \in Bytes
    <3>1. r + k <= Len(s) => r + k \in 1 .. Len(s)
      BY <1>1
    <3>2. QED
      BY <3>1, ElementOfSeq
  <2>2. r = 0 => r + k <= Len(s)
    BY <1>1
  <2>3. QED
    BY <2>1, <2>2 DEF Memory
<1>3. f \in [1 .. Len(s) -> Memory] /\ (r = 0 => f \in [1 .. Len(s) -> Bytes])
  BY <1>2
<1>4. /\ f \in Seq(Memory) /\ Len(f) = Len(s)
      /\ r = 0 => f \in Seq(Bytes)
  <2> HIDE DEF f
  <2>1. f \in Seq(Memory) /\ Len(f) = Len(s)
    BY <1>1, <1>3, FunctionIsSeq, Zenon
  <2>2. ASSUME r = 0 PROVE f \in Seq(Bytes)
    BY <1>1, <1>3, <2>2, FunctionIsSeq, Zenon
  <2>3. QED
    BY <2>1, <2>2
<1>5. Contents(s, r) = f
  BY DEF Contents
<1>6. QED
  BY <1>4, <1>5

LEMMA SliceIs ==
  ASSUME NEW S, NEW s \in Seq(S), NEW a \in Nat, NEW b \in Nat,
         a <= b, b <= Len(s)
  PROVE  SubSeq(s, a + 1, b) \in Seq(S) /\ Len(SubSeq(s, a + 1, b)) = b - a
<1>1. a + 1 \in Int /\ b \in Int /\ \A k \in (a + 1) .. b : s[k] \in S
  <2>1. \A k \in (a + 1) .. b : k \in 1 .. Len(s)
    OBVIOUS
  <2>2. QED
    BY <2>1, ElementOfSeq
<1>2. /\ SubSeq(s, a + 1, b) \in Seq(S)
      /\ Len(SubSeq(s, a + 1, b)) = IF a + 1 <= b THEN b - (a + 1) + 1 ELSE 0
  BY <1>1, SubSeqProperties
<1>3. QED
  BY <1>2

(* The string at the read position: the bytes up to the first 0, or all     *)
(* that are left.  There always is one.                                     *)
LEMMA StringLenIs ==
  ASSUME BufferTypeOK, mReadPos <= size
  PROVE  /\ StringLen \in 0 .. size - mReadPos
         /\ \A k \in 1 .. StringLen : mStorage[mReadPos + k] # 0
         /\ mReadPos + StringLen = size \/ mStorage[mReadPos + StringLen + 1] = 0
<1> DEFINE Ends(n) == mReadPos + n = size \/ mStorage[mReadPos + n + 1] = 0
           T == {n \in 0 .. size - mReadPos : Ends(n)}
<1>1. size \in Nat /\ mReadPos \in Nat
  BY DEF BufferTypeOK, size
<1>2. T \subseteq Nat
  BY <1>1
<1>3. size - mReadPos \in T
  BY <1>1
<1>4. PICK x \in T : \A y \in T : ~(<<y, x>> \in OpToRel(<, Nat))
  <2> HIDE DEF T
  <2>1. T # {}
    BY <1>3
  <2>2. QED
    BY <1>2, <2>1, NatLessThanWellFounded, WFMin
<1>5. \A y \in T : ~(y < x)
  <2> TAKE y \in T
  <2>1. y \in Nat /\ x \in Nat
    BY <1>1
  <2>2. y < x => <<y, x>> \in OpToRel(<, Nat)
    BY <2>1 DEF OpToRel
  <2>3. QED
    BY <1>4, <2>2
<1>6. x \in 0 .. size - mReadPos /\ Ends(x)
  OBVIOUS
<1>7. \A k \in 1 .. x : mStorage[mReadPos + k] # 0
  <2> SUFFICES ASSUME NEW k \in 1 .. x, mStorage[mReadPos + k] = 0 PROVE FALSE
    OBVIOUS
  <2>1. /\ k - 1 \in 0 .. size - mReadPos /\ k - 1 < x
        /\ mReadPos + (k - 1) + 1 = mReadPos + k
    BY <1>1, <1>6
  <2>2. k - 1 \in T
    BY <2>1
  <2>3. QED
    BY <1>5, <2>1, <2>2
<1>8. \E n \in 0 .. size - mReadPos :
        /\ \A k \in 1 .. n : mStorage[mReadPos + k] # 0
        /\ mReadPos + n = size \/ mStorage[mReadPos + n + 1] = 0
  BY <1>6, <1>7
<1>9. QED
  BY <1>8, Zenon DEF StringLen

-----------------------------------------------------------------------------
(* What the operations do to the storage.                                   *)

LEMMA BytesInMemory == \A q \in Seq(Bytes) : q \in Seq(Memory)
  BY SeqMonotonic DEF Memory

LEMMA AppendStaysIn ==
  ASSUME BufferInv, NEW src \in Seq(Memory), AppendBytes(src)
  PROVE  /\ mStorage' \in Seq(Memory) /\ mWritePos' \in Nat
         /\ mStorage \in Seq(Bytes) /\ src \in Seq(Bytes)
              => mStorage' \in Seq(Bytes)
         /\ ~rewound => /\ mWritePos' = Len(mStorage')
                        /\ Len(mStorage') = Len(mStorage) + Len(src)
                        /\ \A k \in 1 .. Len(mStorage) :
                             mStorage'[k] = mStorage[k]
<1> DEFINE n == Larger(size, mWritePos + Len(src))
<1>1. /\ mStorage \in Seq(Memory) /\ mWritePos \in Nat /\ Len(src) \in Nat
      /\ size \in Nat /\ size = Len(mStorage) /\ 0 \in Bytes /\ 0 \in Memory
  BY BufferAssumption DEF BufferInv, BufferTypeOK, Memory, size
<1>2. n \in Nat /\ n >= size /\ (mWritePos = size => n = size + Len(src))
  BY <1>1 DEF Larger
<1>3. /\ mStorage' = Overwrite(mStorage, mWritePos, src, n)
      /\ mWritePos' = mWritePos + Len(src)
  BY DEF AppendBytes
<1> HIDE DEF n
<1>4. /\ mStorage' \in Seq(Memory) /\ Len(mStorage') = n
      /\ \A k \in 1 .. n :
           mStorage'[k] = IF k \in mWritePos + 1 .. mWritePos + Len(src)
                          THEN src[k - mWritePos]
                          ELSE IF k <= Len(mStorage) THEN mStorage[k] ELSE 0
  <2>1. mStorage' \in Seq(Memory) /\ Len(mStorage') = n
    BY <1>1, <1>2, <1>3, OverwriteIs
  <2>2. QED
    BY <1>3, <2>1 DEF Overwrite
<1>5. ASSUME mStorage \in Seq(Bytes), src \in Seq(Bytes)
      PROVE  mStorage' \in Seq(Bytes)
  BY <1>1, <1>2, <1>3, <1>5, OverwriteIs
<1>6. ASSUME ~rewound
      PROVE  /\ mWritePos' = Len(mStorage')
             /\ Len(mStorage') = Len(mStorage) + Len(src)
             /\ \A k \in 1 .. Len(mStorage) : mStorage'[k] = mStorage[k]
  <2>1. mWritePos = size
    BY <1>6 DEF BufferInv, AppendsAtEnd
  <2>2. QED
    BY <1>1, <1>2, <1>3, <1>4, <2>1
<1>7. QED
  BY <1>1, <1>3, <1>4, <1>5, <1>6

(* The chunks that callers append, with a terminator or as a buffer.        *)
LEMMA ChunkFacts ==
  ASSUME NEW c \in Chunks
  PROVE  /\ c \in Seq(Bytes) /\ c \in Seq(Memory) /\ Len(c) \in Nat \ {0}
         /\ Append(c, 0) \in Seq(Bytes) /\ Append(c, 0) \in Seq(Memory)
         /\ Len(Append(c, 0)) = Len(c) + 1
<1>1. c \in Seq(Bytes) /\ c # <<>> /\ 0 \in Bytes
  BY BufferAssumption
<1>2. Len(c) \in Nat \ {0}
  BY <1>1, EmptySeq
<1>3. Append(c, 0) \in Seq(Bytes) /\ Len(Append(c, 0)) = Len(c) + 1
  BY <1>1
<1>4. QED
  BY <1>1, <1>2, <1>3, BytesInMemory

(* Whatever is appended goes behind all bytes there and is not empty.       *)
Appended(src) ==
  /\ AppendBytes(src) /\ src \in Seq(Memory) /\ Len(src) \in Nat \ {0}
  /\ UNCHANGED <<mReadPos, dest, rewound>> /\ ret' = "ok"
  /\ taken' \in BOOLEAN /\ (taken => taken') /\ (src \in Seq(Bytes) \/ taken')

LEMMA AppendsAre ==
  ASSUME BufferInv,
         \/ \E c \in Chunks : append(c) \/ appendString(c)
         \/ \E s \in Chunks : \E r \in 0 .. Len(s) : appendBuffer(s, r)
  PROVE  \E src \in Seq(Memory) : Appended(src)
<1>0. taken \in BOOLEAN
  BY DEF BufferInv, BufferTypeOK
<1>1. ASSUME NEW c \in Chunks, append(c) PROVE Appended(c)
  BY <1>0, <1>1, ChunkFacts DEF append, Appended
<1>2. ASSUME NEW c \in Chunks, appendString(c) PROVE Appended(Append(c, 0))
  <2> DEFINE src == Append(c, 0)
  <2>1. src \in Seq(Bytes) /\ src \in Seq(Memory) /\ Len(src) \in Nat \ {0}
    BY ChunkFacts
  <2>2. AppendBytes(src) /\ UNCHANGED <<mReadPos, dest, rewound, taken>> /\ ret' = "ok"
    BY <1>2 DEF appendString
  <2> HIDE DEF src
  <2>3. Appended(src)
    BY <1>0, <2>1, <2>2 DEF Appended
  <2>4. QED
    BY <2>3 DEF src
<1>3. ASSUME NEW s \in Chunks, NEW r \in 0 .. Len(s), appendBuffer(s, r)
      PROVE  Appended(Contents(s, r))
  <2> DEFINE src == Contents(s, r)
  <2>1. /\ src \in Seq(Memory) /\ Len(src) \in Nat \ {0}
        /\ r = 0 => src \in Seq(Bytes)
    BY ContentsIs, ChunkFacts
  <2>2. /\ AppendBytes(src) /\ UNCHANGED <<mReadPos, dest, rewound>> /\ ret' = "ok"
        /\ taken' = (taken \/ r > 0)
    BY <1>3 DEF appendBuffer
  <2>3. r = 0 \/ r > 0
    BY ChunkFacts
  <2> HIDE DEF src
  <2>4. taken' \in BOOLEAN /\ (taken => taken') /\ (src \in Seq(Bytes) \/ taken')
    BY <1>0, <2>1, <2>2, <2>3
  <2>5. Appended(src)
    BY <2>1, <2>2, <2>4 DEF Appended
  <2>6. QED
    BY <2>5 DEF src
<1>4. QED
  <2>1. \A c \in Chunks : c \in Seq(Memory) /\ Append(c, 0) \in Seq(Memory)
    BY ChunkFacts
  <2>2. \A s \in Chunks : \A r \in 0 .. Len(s) : Contents(s, r) \in Seq(Memory)
    BY ContentsIs, ChunkFacts
  <2>3. QED
    BY <1>1, <1>2, <1>3, <2>1, <2>2, Zenon

(* resize: cut or padded with zeros.                                        *)
LEMMA ResizeIs ==
  ASSUME BufferInv, NEW n \in Nat, resize(n)
  PROVE  /\ mStorage' \in Seq(Memory) /\ Len(mStorage') = n
         /\ mStorage \in Seq(Bytes) => mStorage' \in Seq(Bytes)
         /\ \A k \in 1 .. n :
              mStorage'[k] = IF k <= Len(mStorage) THEN mStorage[k] ELSE 0
<1>1. /\ mStorage \in Seq(Memory) /\ 0 \in Bytes /\ 0 \in Memory
      /\ <<>> \in Seq(Memory) /\ <<>> \in Seq(Bytes) /\ Len(<<>>) = 0
  BY BufferAssumption, EmptySeq DEF BufferInv, BufferTypeOK, Memory
<1>2. mStorage' = Overwrite(mStorage, 0, <<>>, n)
  BY DEF resize
<1>3. /\ mStorage' \in Seq(Memory) /\ Len(mStorage') = n
      /\ \A k \in 1 .. n :
           mStorage'[k] = IF k <= Len(mStorage) THEN mStorage[k] ELSE 0
  <2>1. mStorage' \in Seq(Memory) /\ Len(mStorage') = n
    BY <1>1, <1>2, OverwriteIs
  <2>2. QED
    BY <1>1, <1>2, <2>1 DEF Overwrite
<1>4. ASSUME mStorage \in Seq(Bytes) PROVE mStorage' \in Seq(Bytes)
  BY <1>1, <1>2, <1>4, OverwriteIs
<1>5. QED
  BY <1>1, <1>3, <1>4

(* put stays within the storage.                                            *)
LEMMA PutIs ==
  ASSUME BufferInv, NEW p \in Nat, NEW c \in Chunks, put(p, c)
  PROVE  /\ mStorage' \in Seq(Memory) /\ Len(mStorage') = Len(mStorage)
         /\ mStorage \in Seq(Bytes) => mStorage' \in Seq(Bytes)
<1>1. /\ mStorage \in Seq(Memory) /\ 0 \in Bytes /\ 0 \in Memory
      /\ Len(mStorage) \in Nat
  BY BufferAssumption DEF BufferInv, BufferTypeOK, Memory
<1>2. mStorage' = Overwrite(mStorage, p, c, Len(mStorage))
  BY DEF put, size
<1>3. c \in Seq(Memory) /\ c \in Seq(Bytes)
  BY ChunkFacts
<1>4. mStorage' \in Seq(Memory) /\ Len(mStorage') = Len(mStorage)
  BY <1>1, <1>2, <1>3, OverwriteIs
<1>5. ASSUME mStorage \in Seq(Bytes) PROVE mStorage' \in Seq(Bytes)
  BY <1>1, <1>2, <1>3, <1>5, OverwriteIs
<1>6. QED
  BY <1>4, <1>5

(* Erase drops the front or refuses.                                        *)
LEMMA EraseIs ==
  ASSUME BufferInv, NEW n \in Nat, Erase(n)
  PROVE  /\ mStorage' \in Seq(Memory)
         /\ mStorage \in Seq(Bytes) => mStorage' \in Seq(Bytes)
         /\ \/ UNCHANGED <<mStorage, mReadPos, mWritePos>>
            \/ /\ n <= Len(mStorage) /\ mReadPos' = 0
               /\ mStorage' = SubSeq(mStorage, n + 1, Len(mStorage))
               /\ mWritePos' = Len(mStorage') /\ mWritePos' \in Nat
<1>1. mStorage \in Seq(Memory) /\ Len(mStorage) \in Nat
  BY DEF BufferInv, BufferTypeOK, Memory
<1>2. CASE n > size
  BY <1>1, <1>2 DEF Erase, size
<1>3. CASE n <= size
  <2>1. /\ n <= Len(mStorage) /\ mReadPos' = 0
        /\ mStorage' = SubSeq(mStorage, n + 1, Len(mStorage))
        /\ mWritePos' = Len(mStorage) - n
    BY <1>3 DEF Erase, size
  <2>2. /\ mStorage' \in Seq(Memory) /\ Len(mStorage') = Len(mStorage) - n
        /\ mStorage \in Seq(Bytes) => mStorage' \in Seq(Bytes)
    BY <1>1, <2>1, SliceIs
  <2>3. QED
    BY <1>1, <2>1, <2>2
<1>4. QED
  BY <1>1, <1>2, <1>3 DEF size

(* A read delivers the next bytes, or nothing changes.                      *)
Delivers(n) ==
  /\ n \in 0 .. Len(mStorage) - mReadPos
  /\ dest' = SubSeq(mStorage, mReadPos + 1, mReadPos + n)
  /\ mReadPos' = mReadPos + n

LEMMA ReadsAre ==
  ASSUME BufferInv, (\E n \in 0 .. MaxLen : read(n)) \/ readString
  PROVE  /\ UNCHANGED <<mStorage, mWritePos, rewound, taken>>
         /\ ret' \in {"ok", "throw"}
         /\ \/ UNCHANGED <<mReadPos, dest>>
            \/ \E m \in Nat : Delivers(m)
<1>1. Len(mStorage) \in Nat /\ mReadPos \in Nat /\ size = Len(mStorage)
  BY DEF BufferInv, BufferTypeOK, size
<1>2. ASSUME NEW n \in 0 .. MaxLen, read(n)
      PROVE  UNCHANGED <<mReadPos, dest>> \/ \E m \in Nat : Delivers(m)
  <2>1. n \in Nat
    BY BufferAssumption
  <2>2. QED
    BY <1>1, <1>2, <2>1 DEF read, Delivers
<1>3. ASSUME readString PROVE \E m \in Nat : Delivers(m)
  <2> DEFINE n == StringLen
             m == IF mReadPos + n < size THEN n + 1 ELSE n
  <2>1. /\ dest' = SubSeq(mStorage, mReadPos + 1, mReadPos + m)
        /\ mReadPos' = mReadPos + m
        /\ mReadPos < size
    BY <1>3 DEF readString
  <2>2. n \in 0 .. size - mReadPos
    BY <1>1, <2>1, StringLenIs DEF BufferInv
  <2> HIDE DEF n
  <2>3. m \in Nat /\ m \in 0 .. Len(mStorage) - mReadPos
    BY <1>1, <2>2
  <2> HIDE DEF m
  <2>4. QED
    BY <2>1, <2>3 DEF Delivers
<1>4. UNCHANGED <<mStorage, mWritePos, rewound, taken>> /\ ret' \in {"ok", "throw"}
  BY DEF read, readString
<1>5. QED
  BY <1>2, <1>3, <1>4

-----------------------------------------------------------------------------
LEMMA InitBufferInv == BufferInit => BufferInv
<1> SUFFICES ASSUME BufferInit PROVE BufferInv
  OBVIOUS
<1>1. <<>> \in Seq(Memory) /\ <<>> \in Seq(Bytes) /\ Len(<<>>) = 0
  BY EmptySeq
<1>2. QED
  BY <1>1 DEF BufferInit, BufferInv, BufferTypeOK, AppendsAtEnd, Memory, size

LEMMA NextBufferInv == BufferInv /\ [BufferNext]_bufferVars => BufferInv'
<1> SUFFICES ASSUME BufferInv, [BufferNext]_bufferVars PROVE BufferInv'
  OBVIOUS
<1>0. /\ mStorage \in Seq(Memory) /\ dest \in Seq(Memory)
      /\ mReadPos \in Nat /\ mWritePos \in Nat /\ size = Len(mStorage)
      /\ Len(mStorage) \in Nat
      /\ rewound \in BOOLEAN /\ taken \in BOOLEAN
      /\ taken \/ mStorage \in Seq(Bytes)
      /\ rewound \/ mWritePos = Len(mStorage)
  BY DEF BufferInv, BufferTypeOK, Memory, AppendsAtEnd, size
<1> USE DEF BufferInv, BufferTypeOK, Memory, AppendsAtEnd, size
<1>1. CASE \/ \E c \in Chunks : append(c) \/ appendString(c)
           \/ \E s \in Chunks : \E r \in 0 .. Len(s) : appendBuffer(s, r)
  <2>1. PICK src \in Seq(Memory) : Appended(src)
    BY <1>1, AppendsAre
  <2>2. /\ AppendBytes(src) /\ UNCHANGED <<mReadPos, dest, rewound>> /\ ret' = "ok"
        /\ taken' \in BOOLEAN /\ (taken => taken') /\ (src \in Seq(Bytes) \/ taken')
    BY <2>1 DEF Appended
  <2>3. /\ mStorage' \in Seq(Memory) /\ mWritePos' \in Nat
        /\ mStorage \in Seq(Bytes) /\ src \in Seq(Bytes)
             => mStorage' \in Seq(Bytes)
        /\ ~rewound => mWritePos' = Len(mStorage')
    BY <2>2, AppendStaysIn
  <2>4. QED
    BY <1>0, <2>2, <2>3
<1>2. ASSUME NEW c \in Chunks, NEW p \in 0 .. MaxPos, put(p, c)
      PROVE  BufferInv'
  <2>1. p \in Nat
    BY BufferAssumption
  <2>2. /\ mStorage' \in Seq(Memory) /\ Len(mStorage') = Len(mStorage)
        /\ mStorage \in Seq(Bytes) => mStorage' \in Seq(Bytes)
    BY <1>2, <2>1, PutIs
  <2>3. QED
    BY <1>0, <1>2, <2>2 DEF put
<1>3. CASE (\E n \in 0 .. MaxLen : read(n)) \/ readString
  <2>1. /\ UNCHANGED <<mStorage, mWritePos, rewound, taken>>
        /\ ret' \in {"ok", "throw"}
        /\ UNCHANGED <<mReadPos, dest>> \/ \E m \in Nat : Delivers(m)
    BY <1>3, ReadsAre
  <2>2. ASSUME NEW m \in Nat, Delivers(m)
        PROVE  dest' \in Seq(Memory) /\ mReadPos' \in Nat
    <3>1. /\ mReadPos + m \in Nat /\ mReadPos <= mReadPos + m
          /\ mReadPos + m <= Len(mStorage)
      BY <1>0, <2>2 DEF Delivers
    <3>2. SubSeq(mStorage, mReadPos + 1, mReadPos + m) \in Seq(Memory)
      BY <1>0, <3>1, SliceIs
    <3>3. QED
      BY <2>2, <3>1, <3>2 DEF Delivers
  <2>3. dest' \in Seq(Memory) /\ mReadPos' \in Nat
    BY <1>0, <2>1, <2>2
  <2>4. QED
    BY <1>0, <2>1, <2>3
<1>4. ASSUME NEW n \in 0 .. MaxLen, resize(n) PROVE BufferInv'
  <2>1. n \in Nat
    BY BufferAssumption
  <2>2. /\ mStorage' \in Seq(Memory) /\ Len(mStorage') = n
        /\ mStorage \in Seq(Bytes) => mStorage' \in Seq(Bytes)
    BY <1>4, <2>1, ResizeIs
  <2>3. QED
    BY <1>0, <1>4, <2>1, <2>2 DEF resize
<1>5. ASSUME NEW n \in 0 .. MaxLen, Erase(n) PROVE BufferInv'
  <2>1. n \in Nat
    BY BufferAssumption
  <2>2. /\ mStorage' \in Seq(Memory)
        /\ mStorage \in Seq(Bytes) => mStorage' \in Seq(Bytes)
        /\ \/ UNCHANGED <<mStorage, mReadPos, mWritePos>>
           \/ mReadPos' = 0 /\ mWritePos' = Len(mStorage') /\ mWritePos' \in Nat
    BY <1>5, <2>1, EraseIs
  <2>3. ret' \in {"ok", "refused"} /\ UNCHANGED <<dest, rewound, taken>>
    BY <1>5 DEF Erase
  <2>4. QED
    BY <1>0, <2>2, <2>3
<1>6. ASSUME NEW n \in 0 .. MaxPos, rpos(n) \/ wpos(n) PROVE BufferInv'
  <2>1. n \in Nat
    BY BufferAssumption
  <2>2. QED
    BY <1>0, <1>6, <2>1 DEF rpos, wpos
<1>7. CASE clear
  <2>1. <<>> \in Seq(Memory) /\ <<>> \in Seq(Bytes) /\ Len(<<>>) = 0
    BY EmptySeq
  <2>2. QED
    BY <1>0, <1>7, <2>1 DEF clear
<1>8. CASE UNCHANGED bufferVars
  BY <1>0, <1>8 DEF bufferVars
<1>9. QED
  BY <1>1, <1>2, <1>3, <1>4, <1>5, <1>6, <1>7, <1>8 DEF BufferNext

LEMMA BufferInvariant == BufferSpec => []BufferInv
  BY InitBufferInv, NextBufferInv, PTL DEF BufferSpec

(* No sequence of appends, reads, seeks, resizes and erasures parts the     *)
(* write position from the end of the storage: append() overwrites nothing. *)
THEOREM AppendsStayAtEnd == BufferSpec => []AppendsAtEnd
  BY BufferInvariant, PTL DEF BufferInv

(* Bytes from behind a vector get into a buffer only by append() of a       *)
(* buffer that was read from.                                               *)
THEOREM BytesAreOwn == BufferSpec => []NoForeignBytes
<1>1. BufferInv => NoForeignBytes
  <2> SUFFICES ASSUME BufferInv, ~taken, NEW k \in 1 .. size
               PROVE  mStorage[k] # Garbage
    BY DEF BufferInv, NoForeignBytes
  <2>1. mStorage \in Seq(Bytes) /\ k \in 1 .. Len(mStorage)
    BY DEF BufferInv, size
  <2>2. mStorage[k] \in Bytes
    BY <2>1, ElementOfSeq
  <2>3. QED
    BY <2>2, BufferAssumption
<1>2. QED
  BY <1>1, BufferInvariant, PTL

-----------------------------------------------------------------------------
(* Every call is, for its users, one operation of the log or none: the      *)
(* buffer implements the log until wpos(n) is called.                       *)
THEOREM BufferImplementsLog == BufferSpec => ImplementsLog
<1> DEFINE view == <<mStorage, mReadPos, dest>>
<1>1. BufferInit => Log!LogInit
  BY DEF BufferInit, Log!LogInit
<1>2. BufferInv /\ [BufferNext]_bufferVars => [~rewound' => Log!LogNext]_view
  <2> SUFFICES ASSUME BufferInv, BufferNext, ~rewound'
               PROVE  Log!LogNext \/ UNCHANGED view
    BY DEF bufferVars
  <2>0. /\ mStorage \in Seq(Memory) /\ Len(mStorage) \in Nat
        /\ mReadPos \in Nat
    BY DEF BufferInv, BufferTypeOK, Memory
  <2>1. CASE \/ \E c \in Chunks : append(c) \/ appendString(c)
             \/ \E s \in Chunks : \E r \in 0 .. Len(s) : appendBuffer(s, r)
    <3>1. PICK src \in Seq(Memory) : Appended(src)
      BY <2>1, AppendsAre
    <3>2. /\ AppendBytes(src) /\ UNCHANGED <<mReadPos, dest>> /\ ~rewound
          /\ Len(src) \in Nat \ {0}
      BY <3>1 DEF Appended
    <3>3. /\ Len(mStorage') = Len(mStorage) + Len(src)
          /\ \A k \in 1 .. Len(mStorage) : mStorage'[k] = mStorage[k]
      BY <3>2, AppendStaysIn
    <3>4. Log!Write
      BY <2>0, <3>2, <3>3 DEF Log!Write
    <3>5. QED
      BY <3>4 DEF Log!LogNext
  <2>2. ASSUME NEW c \in Chunks, NEW p \in 0 .. MaxPos, put(p, c)
        PROVE  Log!LogNext
    <3>1. p \in Nat
      BY BufferAssumption
    <3>2. Log!Patch
      BY <2>2, <3>1, PutIs DEF put, Log!Patch
    <3>3. QED
      BY <3>2 DEF Log!LogNext
  <2>3. CASE (\E n \in 0 .. MaxLen : read(n)) \/ readString
    <3>1. /\ UNCHANGED mStorage
          /\ UNCHANGED <<mReadPos, dest>> \/ \E m \in Nat : Delivers(m)
      BY <2>3, ReadsAre
    <3>2. (\E m \in Nat : Delivers(m)) => Log!Read
      BY <3>1 DEF Delivers, Log!Read
    <3>3. QED
      BY <3>1, <3>2 DEF Log!LogNext
  <2>4. ASSUME NEW n \in 0 .. MaxLen, resize(n) PROVE Log!LogNext
    <3>1. n \in Nat
      BY BufferAssumption
    <3>2. /\ Len(mStorage') = n
          /\ \A k \in 1 .. n :
               mStorage'[k] = IF k <= Len(mStorage) THEN mStorage[k] ELSE 0
      BY <2>4, <3>1, ResizeIs
    <3>3. mReadPos' = 0 /\ UNCHANGED dest
      BY <2>4 DEF resize
    <3>4. Log!Fit
      BY <3>2, <3>3 DEF Log!Fit
    <3>5. QED
      BY <3>4 DEF Log!LogNext
  <2>5. ASSUME NEW n \in 0 .. MaxLen, Erase(n)
        PROVE  Log!LogNext \/ UNCHANGED view
    <3>1. n \in Nat
      BY BufferAssumption
    <3>2. /\ \/ UNCHANGED <<mStorage, mReadPos>>
             \/ /\ n <= Len(mStorage) /\ mReadPos' = 0
                /\ mStorage' = SubSeq(mStorage, n + 1, Len(mStorage))
      BY <2>5, <3>1, EraseIs
    <3>3. UNCHANGED dest
      BY <2>5 DEF Erase
    <3>4. CASE UNCHANGED <<mStorage, mReadPos>>
      BY <3>3, <3>4
    <3>5. CASE /\ n <= Len(mStorage) /\ mReadPos' = 0
               /\ mStorage' = SubSeq(mStorage, n + 1, Len(mStorage))
      <4>1. n \in 0 .. Len(mStorage)
        BY <2>0, <3>1, <3>5
      <4>2. Log!Drop
        BY <3>3, <3>5, <4>1 DEF Log!Drop
      <4>3. QED
        BY <4>2 DEF Log!LogNext
    <3>6. QED
      BY <3>2, <3>4, <3>5
  <2>6. ASSUME NEW n \in 0 .. MaxPos, rpos(n) PROVE Log!LogNext
    <3>1. n \in Nat
      BY BufferAssumption
    <3>2. Log!Seek
      BY <2>6, <3>1 DEF rpos, Log!Seek
    <3>3. QED
      BY <3>2 DEF Log!LogNext
  <2>7. ASSUME NEW n \in 0 .. MaxPos, wpos(n) PROVE FALSE
    BY <2>7 DEF wpos
  <2>8. CASE clear
    <3>1. mStorage' = <<>> /\ mReadPos' = 0 /\ UNCHANGED dest
      BY <2>8 DEF clear
    <3>2. Len(<<>>) = 0
      OBVIOUS
    <3>3. Log!Fit
      BY <3>1, <3>2 DEF Log!Fit
    <3>4. QED
      BY <3>3 DEF Log!LogNext
  <2>9. QED
    BY <2>1, <2>2, <2>3, <2>4, <2>5, <2>6, <2>7, <2>8 DEF BufferNext
<1>3. QED
  BY <1>1, <1>2, BufferInvariant, PTL DEF BufferSpec, ImplementsLog
=============================================================================
