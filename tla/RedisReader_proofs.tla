------------------------- MODULE RedisReader_proofs -------------------------
(***************************************************************************)
(* Proofs about the receive functions, for any replies and texts, any sizes *)
(* of the buffer, any pieces in which the bytes arrive and any end of the   *)
(* connection: OneReplyPerCall and OutcomesRight of RedisReader.            *)
(***************************************************************************)
EXTENDS RedisReader, SequenceTheorems, WellFoundedInduction, TLAPS

(* Induction over numbers, as a least counterexample.                       *)
LEMMA LeastNat ==
  ASSUME NEW T, T \subseteq Nat, T # {}
  PROVE  \E x \in T : \A y \in T : x <= y
<1>1. PICK x \in T : \A y \in T : ~(<<y, x>> \in OpToRel(<, Nat))
  BY NatLessThanWellFounded, WFMin
<1>2. \A y \in T : x <= y
  <2> TAKE y \in T
  <2>1. y \in Nat /\ x \in Nat
    OBVIOUS
  <2>2. y < x => <<y, x>> \in OpToRel(<, Nat)
    BY <2>1 DEF OpToRel
  <2>3. ~(y < x)
    BY <1>1, <2>2, Zenon
  <2>4. QED
    BY <2>1, <2>3
<1>3. QED
  BY <1>2

-----------------------------------------------------------------------------
(* What FlattenSeq computes: its recursive function, and the concatenation of  *)
(* the first k sequences.                                                      *)
IsFlat(f, s, n) ==
  f = [j \in 1 .. n |-> IF j = 1 THEN s[j] ELSE f[j - 1] \o s[j]]

Agree(f, g, k) == \A j \in 1 .. k : f[j] = g[j]

Part(s, k) == FlattenSeq(SubSeq(s, 1, k))

LEMMA FlatExists ==
  ASSUME NEW s, NEW n \in Nat
  PROVE  \E f : IsFlat(f, s, n)
<1> DEFINE T == {m \in Nat : ~\E f : IsFlat(f, s, m)}
<1> SUFFICES ASSUME T # {} PROVE FALSE
  OBVIOUS
<1>1. PICK x \in T : \A y \in T : x <= y
  <2>1. T \subseteq Nat
    OBVIOUS
  <2> HIDE DEF T
  <2>2. QED
    BY <2>1, LeastNat
<1>2. x \in Nat /\ ~\E f : IsFlat(f, s, x)
  OBVIOUS
<1>3. CASE x = 0
  <2>1. IsFlat([j \in 1 .. 0 |-> s[j]], s, 0)
    BY DEF IsFlat
  <2>2. QED
    BY <1>2, <1>3, <2>1
<1>4. CASE x > 0
  <2>1. PICK g : IsFlat(g, s, x - 1)
    <3>1. x - 1 \in Nat /\ ~(x <= x - 1)
      BY <1>2, <1>4
    <3>2. x - 1 \notin T
      BY <1>1, <3>1
    <3>3. QED
      BY <3>1, <3>2
  <2> DEFINE f == [j \in 1 .. x |-> IF j = x THEN (IF x = 1 THEN s[1] ELSE g[x - 1] \o s[x])
                                    ELSE g[j]]
  <2>2. \A j \in 1 .. x : f[j] = IF j = 1 THEN s[j] ELSE f[j - 1] \o s[j]
    <3> TAKE j \in 1 .. x
    <3>1. CASE j = x
      BY <1>2, <1>4, <3>1
    <3>2. CASE j # x
      <4>1. j \in 1 .. x - 1 /\ (j # 1 => j - 1 \in 1 .. x - 1 /\ j - 1 \in 1 .. x)
        BY <1>2, <3>2
      <4>2. g[j] = IF j = 1 THEN s[j] ELSE g[j - 1] \o s[j]
        BY <2>1, <4>1 DEF IsFlat
      <4>3. f[j] = g[j] /\ (j # 1 => f[j - 1] = g[j - 1])
        BY <1>2, <3>2, <4>1
      <4>4. QED
        BY <4>2, <4>3
    <3>3. QED
      BY <3>1, <3>2
  <2>3. f = [j \in 1 .. x |-> f[j]]
    OBVIOUS
  <2> HIDE DEF f
  <2>4. IsFlat(f, s, x)
    BY <2>2, <2>3 DEF IsFlat
  <2>5. QED
    BY <1>2, <2>4
<1>5. QED
  BY <1>2, <1>3, <1>4

(* The function is determined by the sequences up to its argument.            *)
LEMMA FlatUnique ==
  ASSUME NEW s, NEW t, NEW n \in Nat, NEW m \in Nat, NEW f, NEW g,
         IsFlat(f, s, n), IsFlat(g, t, m), NEW k \in Nat, k <= n, k <= m,
         Agree(s, t, k)
  PROVE  Agree(f, g, k)
<1> USE DEF Agree
<1> DEFINE T == {j \in 1 .. k : f[j] # g[j]}
<1> SUFFICES ASSUME T # {} PROVE FALSE
  OBVIOUS
<1>1. PICK x \in T : \A y \in T : x <= y
  <2>1. T \subseteq Nat
    OBVIOUS
  <2> HIDE DEF T
  <2>2. QED
    BY <2>1, LeastNat
<1>2. x \in 1 .. k /\ f[x] # g[x] /\ x \in 1 .. n /\ x \in 1 .. m /\ s[x] = t[x]
  OBVIOUS
<1>3. /\ f[x] = IF x = 1 THEN s[x] ELSE f[x - 1] \o s[x]
      /\ g[x] = IF x = 1 THEN t[x] ELSE g[x - 1] \o t[x]
  BY <1>2 DEF IsFlat
<1>4. x # 1 => f[x - 1] = g[x - 1]
  <2> SUFFICES ASSUME x # 1 PROVE f[x - 1] = g[x - 1]
    OBVIOUS
  <2>1. x - 1 \in 1 .. k /\ ~(x <= x - 1)
    BY <1>2
  <2>2. QED
    BY <1>1, <2>1
<1>5. QED
  BY <1>2, <1>3, <1>4

LEMMA FlatType ==
  ASSUME NEW S, NEW s, NEW n \in Nat, NEW f, IsFlat(f, s, n),
         \A j \in 1 .. n : s[j] \in Seq(S)
  PROVE  \A j \in 1 .. n : f[j] \in Seq(S)
<1> DEFINE T == {j \in 1 .. n : f[j] \notin Seq(S)}
<1> SUFFICES ASSUME T # {} PROVE FALSE
  OBVIOUS
<1>1. PICK x \in T : \A y \in T : x <= y
  <2>1. T \subseteq Nat
    OBVIOUS
  <2> HIDE DEF T
  <2>2. QED
    BY <2>1, LeastNat
<1>2. x \in 1 .. n /\ f[x] \notin Seq(S) /\ s[x] \in Seq(S)
  OBVIOUS
<1>3. f[x] = IF x = 1 THEN s[x] ELSE f[x - 1] \o s[x]
  BY <1>2 DEF IsFlat
<1>4. x # 1 => f[x - 1] \in Seq(S)
  <2> SUFFICES ASSUME x # 1 PROVE f[x - 1] \in Seq(S)
    OBVIOUS
  <2>1. x - 1 \in 1 .. n /\ ~(x <= x - 1)
    BY <1>2
  <2>2. QED
    BY <1>1, <2>1
<1>5. QED
  BY <1>2, <1>3, <1>4, ConcatProperties

LEMMA FlattenIs ==
  ASSUME NEW s, Len(s) \in Nat, Len(s) # 0
  PROVE  \E f : IsFlat(f, s, Len(s)) /\ FlattenSeq(s) = f[Len(s)]
<1> DEFINE h == CHOOSE f : IsFlat(f, s, Len(s))
<1>1. IsFlat(h, s, Len(s))
  BY FlatExists
<1>2. FlattenSeq(s) = h[Len(s)]
  BY DEF FlattenSeq, IsFlat
<1>3. QED
  BY <1>1, <1>2

(* One sequence more is concatenated at the end.                              *)
LEMMA PartStep ==
  ASSUME NEW S, NEW s \in Seq(Seq(S))
  PROVE  /\ Part(s, 0) = <<>>
         /\ Part(s, Len(s)) = FlattenSeq(s)
         /\ \A k \in 0 .. Len(s) : Part(s, k) \in Seq(S)
         /\ \A k \in 1 .. Len(s) : Part(s, k) = Part(s, k - 1) \o s[k]
<1>1. Len(s) \in Nat /\ \A j \in 1 .. Len(s) : s[j] \in Seq(S)
  BY LenProperties, ElementOfSeq
<1>2. Part(s, 0) = <<>> /\ <<>> \in Seq(S)
  <2>1. SubSeq(s, 1, 0) = <<>> /\ Len(<<>>) = 0 /\ <<>> \in Seq(S)
    BY SubSeqEmpty, EmptySeq
  <2>2. QED
    BY <2>1 DEF Part, FlattenSeq
<1>3. Part(s, Len(s)) = FlattenSeq(s)
  BY SubSeqFull DEF Part
<1>4. PICK f : IsFlat(f, s, Len(s))
  BY <1>1, FlatExists
<1>5. \A j \in 1 .. Len(s) : f[j] \in Seq(S)
  BY <1>1, <1>4, FlatType
<1>6. \A k \in 1 .. Len(s) : Part(s, k) = f[k]
  <2> TAKE k \in 1 .. Len(s)
  <2> DEFINE t == SubSeq(s, 1, k)
  <2>1. Len(t) = k /\ \A j \in 1 .. k : t[j] = s[j]
    <3>1. \A j \in 1 .. k : s[j] \in Seq(S)
      BY <1>1
    <3>2. /\ Len(t) = IF 1 <= k THEN k - 1 + 1 ELSE 0
          /\ \A j \in 1 .. k - 1 + 1 : t[j] = s[1 + j - 1]
      BY <1>1, <3>1, SubSeqProperties
    <3> HIDE DEF t
    <3>3. k - 1 + 1 = k /\ \A j \in 1 .. k : 1 + j - 1 = j
      BY <1>1
    <3>4. QED
      BY <1>1, <3>2, <3>3
  <2> HIDE DEF t
  <2>2. PICK g : IsFlat(g, t, k) /\ FlattenSeq(t) = g[k]
    BY <1>1, <2>1, FlattenIs
  <2>3. \A j \in 1 .. k : f[j] = g[j]
    <3>1. k \in Nat /\ k <= Len(s) /\ k <= k /\ Agree(s, t, k)
      BY <1>1, <2>1 DEF Agree
    <3>2. Agree(f, g, k)
      BY <1>1, <1>4, <2>2, <3>1, FlatUnique
    <3>3. QED
      BY <3>2 DEF Agree
  <2>4. QED
    BY <1>1, <2>2, <2>3 DEF Part, t
<1>7. \A k \in 1 .. Len(s) : Part(s, k) = Part(s, k - 1) \o s[k]
  <2> TAKE k \in 1 .. Len(s)
  <2>1. f[k] = IF k = 1 THEN s[k] ELSE f[k - 1] \o s[k]
    BY <1>4 DEF IsFlat
  <2>2. CASE k = 1
    <3>1. Part(s, k - 1) = <<>> /\ Part(s, k) = s[k] /\ s[k] \in Seq(S)
      BY <1>1, <1>2, <1>6, <2>1, <2>2
    <3>2. QED
      BY <3>1, ConcatEmptySeq
  <2>3. CASE k # 1
    <3>1. k - 1 \in 1 .. Len(s)
      BY <1>1, <2>3
    <3>2. QED
      BY <1>6, <2>1, <2>3, <3>1
  <2>4. QED
    BY <2>2, <2>3
<1>8. \A k \in 0 .. Len(s) : Part(s, k) \in Seq(S)
  <2> TAKE k \in 0 .. Len(s)
  <2>1. k = 0 \/ k \in 1 .. Len(s)
    BY <1>1
  <2>2. QED
    BY <1>2, <1>5, <1>6, <2>1
<1>9. QED
  BY <1>2, <1>3, <1>7, <1>8

LEMMA PartNext ==
  ASSUME NEW S, NEW s \in Seq(Seq(S)), NEW m \in 0 .. Len(s), m + 1 \in 1 .. Len(s)
  PROVE  /\ Part(s, m + 1) = Part(s, m) \o s[m + 1]
         /\ Part(s, m) \in Seq(S) /\ s[m + 1] \in Seq(S)
<1>1. \A j \in 1 .. Len(s) : Part(s, j) = Part(s, j - 1) \o s[j]
  BY PartStep
<1>2. \A j \in 0 .. Len(s) : Part(s, j) \in Seq(S)
  BY PartStep
<1>3. m + 1 - 1 = m
  OBVIOUS
<1>4. Part(s, m) \in Seq(S)
  BY <1>2
<1>5. s[m + 1] \in Seq(S)
  BY ElementOfSeq
<1>6. \A j \in 1 .. Len(s) : j = m + 1 => Part(s, j) = Part(s, m) \o s[j]
  <2> SUFFICES ASSUME NEW j \in 1 .. Len(s), j = m + 1
               PROVE  Part(s, j) = Part(s, m) \o s[j]
    OBVIOUS
  <2>1. j - 1 = m
    OBVIOUS
  <2>2. Part(s, j) = Part(s, j - 1) \o s[j]
    BY <1>1, Zenon
  <2>3. QED
    BY <2>1, <2>2, Zenon
<1>7. QED
  BY <1>4, <1>5, <1>6, Zenon

-----------------------------------------------------------------------------
(* The bytes of w lie in d behind the first p.                               *)
Holds(d, p, w) == p + Len(w) <= Len(d) /\ \A j \in 1 .. Len(w) : d[p + j] = w[j]

LEMMA ConcatIs ==
  ASSUME NEW S, NEW u \in Seq(S), NEW v \in Seq(S)
  PROVE  /\ u \o v \in Seq(S) /\ Len(u) \in Nat /\ Len(v) \in Nat
         /\ Len(u \o v) = Len(u) + Len(v)
         /\ \A j \in 1 .. Len(u) : (u \o v)[j] = u[j]
         /\ \A j \in 1 .. Len(v) : (u \o v)[Len(u) + j] = v[j]
<1>1. /\ Len(u) \in Nat /\ Len(v) \in Nat /\ Len(u \o v) = Len(u) + Len(v)
      /\ u \o v \in Seq(S)
      /\ \A j \in 1 .. Len(u) + Len(v) :
           (u \o v)[j] = IF j <= Len(u) THEN u[j] ELSE v[j - Len(u)]
  BY ConcatProperties, LenProperties
<1>2. ASSUME NEW j \in 1 .. Len(u) PROVE (u \o v)[j] = u[j]
  <2>1. j \in 1 .. Len(u) + Len(v) /\ j <= Len(u)
    BY <1>1
  <2>2. QED
    BY <1>1, <2>1
<1>3. ASSUME NEW j \in 1 .. Len(v) PROVE (u \o v)[Len(u) + j] = v[j]
  <2>1. /\ Len(u) + j \in 1 .. Len(u) + Len(v) /\ ~(Len(u) + j <= Len(u))
        /\ Len(u) + j - Len(u) = j
    BY <1>1
  <2>2. QED
    BY <1>1, <2>1
<1>4. QED
  BY <1>1, <1>2, <1>3

LEMMA HoldsConcat ==
  ASSUME NEW S, NEW u \in Seq(S), NEW v \in Seq(S), NEW d, Len(d) \in Nat, NEW p \in Nat
  PROVE  Holds(d, p, u \o v) <=> Holds(d, p, u) /\ Holds(d, p + Len(u), v)
<1>1. /\ Len(u) \in Nat /\ Len(v) \in Nat
      /\ Len(u \o v) = Len(u) + Len(v)
      /\ \A j \in 1 .. Len(u) : (u \o v)[j] = u[j]
      /\ \A j \in 1 .. Len(v) : (u \o v)[Len(u) + j] = v[j]
  BY ConcatIs
<1>2. ASSUME Holds(d, p, u \o v) PROVE Holds(d, p, u) /\ Holds(d, p + Len(u), v)
  <2>1. \A j \in 1 .. Len(u) : j \in 1 .. Len(u \o v)
    BY <1>1
  <2>2. \A j \in 1 .. Len(v) : Len(u) + j \in 1 .. Len(u \o v) /\ p + Len(u) + j = p + (Len(u) + j)
    BY <1>1
  <2>3. p + Len(u) <= Len(d) /\ p + Len(u) + Len(v) <= Len(d)
    BY <1>1, <1>2 DEF Holds
  <2>4. \A j \in 1 .. Len(u) : d[p + j] = u[j]
    BY <1>1, <1>2, <2>1 DEF Holds
  <2>5. \A j \in 1 .. Len(v) : d[p + Len(u) + j] = v[j]
    BY <1>1, <1>2, <2>2 DEF Holds
  <2>6. QED
    BY <2>3, <2>4, <2>5 DEF Holds
<1>3. ASSUME Holds(d, p, u), Holds(d, p + Len(u), v) PROVE Holds(d, p, u \o v)
  <2>1. ASSUME NEW j \in 1 .. Len(u \o v) PROVE d[p + j] = (u \o v)[j]
    <3>1. CASE j \in 1 .. Len(u)
      BY <1>1, <1>3, <3>1 DEF Holds
    <3>2. CASE j \notin 1 .. Len(u)
      <4>1. j - Len(u) \in 1 .. Len(v) /\ Len(u) + (j - Len(u)) = j
            /\ p + Len(u) + (j - Len(u)) = p + j
        BY <1>1, <3>2
      <4>2. d[p + Len(u) + (j - Len(u))] = v[j - Len(u)]
        BY <1>3, <4>1 DEF Holds
      <4>3. (u \o v)[Len(u) + (j - Len(u))] = v[j - Len(u)]
        BY <1>1, <4>1
      <4>4. QED
        BY <4>1, <4>2, <4>3
    <3>3. QED
      BY <3>1, <3>2
  <2>2. p + Len(u \o v) <= Len(d)
    BY <1>1, <1>3 DEF Holds
  <2>3. QED
    BY <2>1, <2>2 DEF Holds
<1>4. QED
  BY <1>2, <1>3

(* What lies in the second part lies in the whole, that much further back.     *)
LEMMA HoldsBehind ==
  ASSUME NEW S, NEW u \in Seq(S), NEW v \in Seq(S), NEW w \in Seq(S), NEW p \in Nat,
         Holds(v, p, w)
  PROVE  Holds(u \o v, Len(u) + p, w)
<1>1. /\ Len(u) \in Nat /\ Len(v) \in Nat /\ Len(w) \in Nat
      /\ Len(u \o v) = Len(u) + Len(v)
      /\ \A j \in 1 .. Len(v) : (u \o v)[Len(u) + j] = v[j]
  BY ConcatIs, LenProperties
<1>2. ASSUME NEW j \in 1 .. Len(w) PROVE (u \o v)[Len(u) + p + j] = w[j]
  <2>1. p + j \in 1 .. Len(v) /\ Len(u) + p + j = Len(u) + (p + j)
    BY <1>1 DEF Holds
  <2>2. QED
    BY <1>1, <2>1 DEF Holds
<1>3. Len(u) + p + Len(w) <= Len(u \o v)
  BY <1>1 DEF Holds
<1>4. QED
  BY <1>2, <1>3 DEF Holds

(* A concatenation begins with that of the first k sequences, and the next one *)
(* lies behind them.                                                           *)
LEMMA PartInFront ==
  ASSUME NEW S, NEW s \in Seq(Seq(S)), NEW k \in 0 .. Len(s)
  PROVE  Holds(FlattenSeq(s), 0, Part(s, k))
<1> DEFINE F == FlattenSeq(s)
           Good(j) == Holds(F, 0, Part(s, j))
           T == {j \in 0 .. Len(s) : ~Good(Len(s) - j)}
<1>0. Len(s) \in Nat
  BY LenProperties
<1> SUFFICES ASSUME T # {} PROVE FALSE
  <2>1. Len(s) - k \in 0 .. Len(s) /\ Len(s) - (Len(s) - k) = k
    BY <1>0
  <2>2. Len(s) - k \notin T
    OBVIOUS
  <2>3. QED
    BY <2>1, <2>2
<1>1. PICK x \in T : \A y \in T : x <= y
  <2>1. T \subseteq Nat
    OBVIOUS
  <2> HIDE DEF T
  <2>2. QED
    BY <2>1, LeastNat
<1>2. x \in 0 .. Len(s) /\ ~Good(Len(s) - x)
  OBVIOUS
<1>3. Part(s, Len(s)) = F /\ F \in Seq(S) /\ Len(F) \in Nat
  <2>1. Len(s) \in 0 .. Len(s)
    BY <1>0
  <2>2. Part(s, Len(s)) = F /\ F \in Seq(S)
    BY <2>1, PartStep
  <2>3. QED
    BY <2>2, LenProperties
<1>4. x # 0
  <2>1. Good(Len(s))
    <3>1. Holds(F, 0, F)
      BY <1>3 DEF Holds
    <3>2. QED
      BY <1>3, <3>1
  <2>2. Len(s) - 0 = Len(s)
    BY <1>0
  <2>3. QED
    BY <1>2, <2>1, <2>2
<1>5. Good(Len(s) - (x - 1))
  <2>1. x - 1 \in 0 .. Len(s) /\ ~(x <= x - 1)
    BY <1>0, <1>2, <1>4
  <2>2. x - 1 \notin T
    BY <1>1, <2>1
  <2>3. QED
    BY <2>1, <2>2
<1> DEFINE m == Len(s) - x
<1>6. m \in 0 .. Len(s) /\ m + 1 \in 1 .. Len(s) /\ Len(s) - (x - 1) = m + 1
  BY <1>0, <1>2, <1>4
<1> HIDE DEF m
<1>7. Part(s, m + 1) = Part(s, m) \o s[m + 1] /\ Part(s, m) \in Seq(S) /\ s[m + 1] \in Seq(S)
  <2> HIDE DEF T, Good, F
  <2>1. QED
    BY <1>6, PartNext
<1>8. Holds(F, 0, Part(s, m) \o s[m + 1])
  BY <1>5, <1>6, <1>7
<1>9. Good(m)
  <2> HIDE DEF F
  <2>1. 0 \in Nat
    OBVIOUS
  <2>2. QED
    BY <1>3, <1>7, <1>8, <2>1, HoldsConcat
<1>10. QED
  BY <1>2, <1>9 DEF m

-----------------------------------------------------------------------------
(* The bytes of a reply.  Worth is the number its first line carries.          *)
Kinds == {"+", "-", ":", "$", "nil", "*", "nomulti"}
Plains == PlainReplies(DOMAIN Texts)
Worth(r) == CASE r.t = "$" -> Len(Texts[r.v]) [] r.t \in {"nil", "nomulti"} -> -1
              [] r.t = "*" -> Len(r.e) [] OTHER -> r.v

LEMMA PrefixIs ==
  ASSUME NEW t \in Kinds
  PROVE  Prefix(t) \in Int /\ Prefix(t) # CR /\ Prefix(t) # LF
BY DEF Prefix, Kinds, CR, LF

LEMMA NumberIs ==
  ASSUME NEW n \in Int
  PROVE  Number(n) \in Int /\ Number(n) # CR /\ Number(n) # LF /\ Value(Number(n)) = n
BY DEF Number, Value, CR, LF

LEMMA LineIs ==
  ASSUME NEW t \in Kinds, NEW n \in Int
  PROVE  /\ Line(t, n) \in Seq(Int) /\ Len(Line(t, n)) = 4
         /\ Line(t, n)[1] = Prefix(t) /\ Line(t, n)[2] = Number(n)
         /\ Line(t, n)[3] = CR /\ Line(t, n)[4] = LF
<1>1. Prefix(t) \in Int /\ Number(n) \in Int /\ CR \in Int /\ LF \in Int
  BY PrefixIs, NumberIs DEF CR, LF
<1>2. QED
  BY <1>1 DEF Line

LEMMA TextIs ==
  ASSUME NEW x \in DOMAIN Texts
  PROVE  /\ Texts[x] \in Seq(Int) /\ Len(Texts[x]) \in Nat
         /\ Texts[x] \o <<CR, LF>> \in Seq(Int)
         /\ Len(Texts[x] \o <<CR, LF>>) = Len(Texts[x]) + 2
<1>1. Texts[x] \in Seq(Int)
  BY TextAssumption, ElementOfSeq
<1>2. <<CR, LF>> \in Seq(Int) /\ Len(<<CR, LF>>) = 2
  BY DEF CR, LF
<1>3. QED
  BY <1>1, <1>2, ConcatIs

LEMMA PlainKinds ==
  ASSUME NEW r \in Plains
  PROVE  /\ r.t \in Kinds /\ r.t # "*" /\ r.e = <<>>
         /\ r.t = "$" => r.v \in DOMAIN Texts
         /\ r.t \in {"+", "-", ":"} => r.v \in Int
         /\ r.t = "nil" => r.v = 0
         /\ Worth(r) \in Int
<1>1. CASE r \in [t : {"+", "-", ":"}, v : Int, e : {<<>>}]
  BY <1>1 DEF Kinds, Worth
<1>2. CASE r \in {Bulk(x) : x \in DOMAIN Texts}
  <2>1. PICK x \in DOMAIN Texts : r = Bulk(x)
    BY <1>2
  <2>2. r.t = "$" /\ r.v = x /\ r.e = <<>>
    BY <2>1 DEF Bulk
  <2>3. QED
    BY <2>2, TextIs DEF Kinds, Worth
<1>3. CASE r \in {Nil, NilMulti}
  BY <1>3 DEF Kinds, Worth, Nil, NilMulti
<1>4. QED
  BY <1>1, <1>2, <1>3 DEF Plains, PlainReplies

LEMMA PlainIs ==
  ASSUME NEW r \in Plains
  PROVE  /\ Plain(r) \in Seq(Int) /\ Len(Plain(r)) \in Nat
         /\ Holds(Plain(r), 0, Line(r.t, Worth(r)))
         /\ r.t # "$" => Len(Plain(r)) = 4
         /\ r.t = "$" => /\ Len(Plain(r)) = 4 + (Len(Texts[r.v]) + 2)
                         /\ Holds(Plain(r), 4, Texts[r.v] \o <<CR, LF>>)
<1>1. /\ r.t \in Kinds /\ r.t # "*" /\ (r.t = "$" => r.v \in DOMAIN Texts)
      /\ Worth(r) \in Int
  BY PlainKinds
<1> DEFINE l == Line(r.t, Worth(r))
<1>2. l \in Seq(Int) /\ Len(l) = 4
  BY <1>1, LineIs
<1>3. CASE r.t # "$"
  <2>1. Plain(r) = l
    BY <1>1, <1>3 DEF Plain, Worth, Kinds
  <2>2. Holds(l, 0, l)
    BY <1>2 DEF Holds
  <2>3. QED
    BY <1>2, <1>3, <2>1, <2>2
<1>4. CASE r.t = "$"
  <2> DEFINE w == Texts[r.v] \o <<CR, LF>>
  <2>1. w \in Seq(Int) /\ Len(w) = Len(Texts[r.v]) + 2 /\ Texts[r.v] \in Seq(Int)
    BY <1>1, <1>4, TextIs
  <2>2. Plain(r) = l \o w
    <3>1. Plain(r) = l \o Texts[r.v] \o <<CR, LF>>
      BY <1>4 DEF Plain, Worth
    <3>2. <<CR, LF>> \in Seq(Int)
      BY DEF CR, LF
    <3>3. (l \o Texts[r.v]) \o <<CR, LF>> = l \o (Texts[r.v] \o <<CR, LF>>)
      <4> DEFINE x == Texts[r.v]
                 y == <<CR, LF>>
      <4>1. x \in Seq(Int) /\ y \in Seq(Int)
        BY <2>1, <3>2
      <4> HIDE DEF l, x, y
      <4>2. (l \o x) \o y = l \o (x \o y)
        BY <1>2, <4>1, ConcatAssociative
      <4>3. QED
        BY <4>2 DEF x, y
    <3>4. QED
      BY <3>1, <3>3
  <2> HIDE DEF l, w
  <2>3. l \o w \in Seq(Int) /\ Len(l \o w) = 4 + Len(w) /\ Len(w) \in Nat
    <3>1. l \o w \in Seq(Int) /\ Len(l \o w) = Len(l) + Len(w) /\ Len(w) \in Nat
      BY <1>2, <2>1, ConcatIs, Zenon
    <3>2. QED
      BY <1>2, <3>1
  <2>4. Holds(l \o w, 0, l \o w) /\ 0 \in Nat
    BY <2>3 DEF Holds
  <2>5. Holds(l \o w, 0, l) /\ Holds(l \o w, 0 + Len(l), w)
    <3>1. Len(l \o w) \in Nat
      BY <2>3
    <3>2. QED
      BY <1>2, <2>1, <2>4, <3>1, HoldsConcat
  <2>6. 0 + Len(l) = 4
    BY <1>2
  <2>7. QED
    BY <1>4, <2>1, <2>2, <2>3, <2>5, <2>6 DEF l, w
<1>5. QED
  BY <1>3, <1>4

(* The elements of a list as bytes, and where the k-th ends in the reply.      *)
Pieces(e) == [k \in DOMAIN e |-> Plain(e[k])]
Off(e, k) == 4 + Len(Part(Pieces(e), k))

LEMMA PiecesIs ==
  ASSUME NEW e \in Seq(Plains)
  PROVE  /\ Pieces(e) \in Seq(Seq(Int)) /\ Len(Pieces(e)) = Len(e) /\ Len(e) \in Nat
         /\ \A k \in 1 .. Len(e) : Pieces(e)[k] = Plain(e[k]) /\ e[k] \in Plains
<1>1. Len(e) \in Nat /\ DOMAIN e = 1 .. Len(e) /\ \A k \in 1 .. Len(e) : e[k] \in Plains
  BY LenProperties, ElementOfSeq
<1>2. \A k \in 1 .. Len(e) : Plain(e[k]) \in Seq(Int)
  BY <1>1, PlainIs
<1>3. Pieces(e) \in [1 .. Len(e) -> Seq(Int)]
  BY <1>1, <1>2 DEF Pieces
<1>4. Pieces(e) \in Seq(Seq(Int)) /\ Len(Pieces(e)) = Len(e)
  BY <1>1, <1>3, SeqDef, LenProperties
<1>5. QED
  BY <1>1, <1>4 DEF Pieces

(* Where the elements of a list lie in the reply.                             *)
LEMMA ListIs ==
  ASSUME NEW r, r.t = "*", r.e \in Seq(Plains)
  PROVE  /\ Render(r) \in Seq(Int) /\ Len(Render(r)) \in Nat
         /\ Holds(Render(r), 0, Line("*", Len(r.e)))
         /\ Off(r.e, 0) = 4 /\ Off(r.e, Len(r.e)) = Len(Render(r))
         /\ \A k \in 0 .. Len(r.e) : Off(r.e, k) \in Nat
         /\ \A k \in 0 .. Len(r.e) - 1 :
              /\ Off(r.e, k + 1) = Off(r.e, k) + Len(Plain(r.e[k + 1]))
              /\ Holds(Render(r), Off(r.e, k), Plain(r.e[k + 1]))
<1> DEFINE e == r.e
           s == Pieces(e)
           l == Line("*", Len(e))
           F == FlattenSeq(s)
<1>1. /\ s \in Seq(Seq(Int)) /\ Len(s) = Len(e) /\ Len(e) \in Nat
      /\ \A k \in 1 .. Len(e) : s[k] = Plain(e[k]) /\ e[k] \in Plains
  BY PiecesIs
<1>2. Render(r) = l \o F
  BY DEF Render, Pieces
<1>3. l \in Seq(Int) /\ Len(l) = 4
  <2>1. "*" \in Kinds
    BY DEF Kinds
  <2>2. Len(e) \in Int
    BY <1>1
  <2> HIDE DEF e
  <2>3. QED
    BY <2>1, <2>2, LineIs
<1> HIDE DEF e, s, l
<1>4. /\ Part(s, 0) = <<>> /\ Part(s, Len(s)) = F
      /\ \A k \in 0 .. Len(s) : Part(s, k) \in Seq(Int)
  BY <1>1, PartStep
<1>5. F \in Seq(Int) /\ Len(F) \in Nat
  <2>1. Len(s) \in 0 .. Len(s)
    BY <1>1
  <2>2. QED
    BY <1>4, <2>1, LenProperties
<1> HIDE DEF F
<1>6. l \o F \in Seq(Int) /\ Len(l \o F) = 4 + Len(F)
  <2>1. l \o F \in Seq(Int) /\ Len(l \o F) = Len(l) + Len(F)
    BY <1>3, <1>5, ConcatIs, Zenon
  <2>2. QED
    BY <1>3, <2>1
<1>7. Holds(l \o F, 0, l)
  <2>1. Holds(l \o F, 0, l \o F) /\ Len(l \o F) \in Nat /\ 0 \in Nat
    BY <1>5, <1>6 DEF Holds
  <2>2. QED
    BY <1>3, <1>5, <2>1, HoldsConcat
<1>8. Off(e, 0) = 4 /\ Off(e, Len(e)) = Len(l \o F)
  <2>1. Len(<<>>) = 0
    OBVIOUS
  <2>2. QED
    BY <1>1, <1>4, <1>6, <2>1 DEF Off, s
<1>9. \A k \in 0 .. Len(e) : Off(e, k) \in Nat
  <2> TAKE k \in 0 .. Len(e)
  <2>1. Part(s, k) \in Seq(Int)
    BY <1>1, <1>4
  <2>2. Len(Part(s, k)) \in Nat
    BY <2>1, LenProperties
  <2>3. QED
    BY <2>2 DEF Off, s
<1>10. ASSUME NEW k \in 0 .. Len(e) - 1
       PROVE  /\ Off(e, k + 1) = Off(e, k) + Len(Plain(e[k + 1]))
              /\ Holds(l \o F, Off(e, k), Plain(e[k + 1]))
  <2>1. k \in 0 .. Len(s) /\ k + 1 \in 1 .. Len(s) /\ k + 1 \in 0 .. Len(s)
    BY <1>1
  <2>2. /\ Part(s, k + 1) = Part(s, k) \o s[k + 1]
        /\ Part(s, k) \in Seq(Int) /\ s[k + 1] \in Seq(Int)
    BY <1>1, <2>1, PartNext
  <2>3. s[k + 1] = Plain(e[k + 1])
    BY <1>1, <2>1
  <2>4. Len(Part(s, k + 1)) = Len(Part(s, k)) + Len(s[k + 1]) /\ Len(Part(s, k)) \in Nat
        /\ Len(s[k + 1]) \in Nat
    BY <2>2, ConcatIs
  <2>5. Holds(F, 0, Part(s, k) \o s[k + 1])
    BY <1>1, <2>1, <2>2, PartInFront DEF F
  <2>6. Holds(F, 0 + Len(Part(s, k)), s[k + 1])
    <3>1. 0 \in Nat
      OBVIOUS
    <3>2. QED
      BY <1>5, <2>2, <2>5, <3>1, HoldsConcat
  <2>7. 0 + Len(Part(s, k)) = Len(Part(s, k))
    BY <2>4
  <2>8. Holds(l \o F, Len(l) + Len(Part(s, k)), s[k + 1])
    BY <1>3, <1>5, <2>2, <2>4, <2>6, <2>7, HoldsBehind
  <2>9. Len(l) + Len(Part(s, k)) = Off(e, k)
    BY <1>3 DEF Off, s
  <2>10. Off(e, k + 1) = Off(e, k) + Len(s[k + 1])
    <3>1. Off(e, k + 1) = 4 + Len(Part(s, k + 1)) /\ Off(e, k) = 4 + Len(Part(s, k))
      BY DEF Off, s
    <3> DEFINE a == Len(Part(s, k + 1))
               b == Len(Part(s, k))
               c == Len(s[k + 1])
    <3>2. a = b + c /\ b \in Nat /\ c \in Nat
      BY <2>4
    <3> HIDE DEF a, b, c
    <3>3. 4 + a = 4 + b + c
      BY <3>2
    <3>4. QED
      BY <3>1, <3>3 DEF a, b, c
  <2>11. QED
    BY <2>3, <2>8, <2>9, <2>10
<1>11. QED
  BY <1>2, <1>5, <1>6, <1>7, <1>8, <1>9, <1>10 DEF e, l

-----------------------------------------------------------------------------
(* What is being read when m elements of the reply r are still to come: the    *)
(* reply itself or an element of it, and where it begins.                      *)
Item(r, m) == IF m = 0 THEN r ELSE r.e[Len(r.e) - m + 1]
Base(r, m) == IF m = 0 THEN 0 ELSE Off(r.e, Len(r.e) - m)

Reading(r, m) ==
  /\ IsReply(r, DOMAIN Texts) /\ m \in Nat
  /\ m > 0 => r.t = "*" /\ m <= Len(r.e)

LEMMA ReplyIs ==
  ASSUME NEW r, IsReply(r, DOMAIN Texts)
  PROVE  /\ r.t # "*" => r \in Plains /\ Render(r) = Plain(r)
         /\ r.t = "*" => r.e \in Seq(Plains) /\ Len(r.e) \in Nat
         /\ r.t \in Kinds /\ Worth(r) \in Int
<1>1. CASE r \in Plains
  <2>1. r.t \in Kinds /\ r.t # "*" /\ Worth(r) \in Int
    BY <1>1, PlainKinds
  <2>2. QED
    BY <1>1, <2>1 DEF Render
<1>2. CASE r = Multi(r.e) /\ r.e \in Seq(Plains)
  <2>1. r.t = "*"
    BY <1>2 DEF Multi
  <2>2. Len(r.e) \in Nat
    BY <1>2, LenProperties
  <2>3. QED
    BY <1>2, <2>1, <2>2 DEF Kinds, Worth
<1>3. QED
  BY <1>1, <1>2 DEF IsReply, Plains

(* The bytes of the item: its first line, and the text of a bulk reply.        *)
LEMMA ItemIs ==
  ASSUME NEW r, NEW m, Reading(r, m)
  PROVE  /\ Render(r) \in Seq(Int) /\ Len(Render(r)) \in Nat /\ Base(r, m) \in Nat
         /\ Item(r, m).t \in Kinds /\ Worth(Item(r, m)) \in Int
         /\ Holds(Render(r), Base(r, m), Line(Item(r, m).t, Worth(Item(r, m))))
         /\ Item(r, m).t # "*" => Item(r, m) \in Plains
         /\ m > 0 => Item(r, m).t # "*"
         /\ Item(r, m).t # "*" => Holds(Render(r), Base(r, m), Plain(Item(r, m)))
<1>1. CASE m = 0 /\ r.t # "*"
  <2>1. r \in Plains /\ Render(r) = Plain(r)
    BY <1>1, ReplyIs DEF Reading
  <2>2. /\ Plain(r) \in Seq(Int) /\ Len(Plain(r)) \in Nat
        /\ Holds(Plain(r), 0, Line(r.t, Worth(r)))
        /\ r.t \in Kinds /\ Worth(r) \in Int
    BY <2>1, PlainIs, PlainKinds
  <2>3. Holds(Plain(r), 0, Plain(r))
    BY <2>2 DEF Holds
  <2>4. QED
    BY <1>1, <2>1, <2>2, <2>3 DEF Item, Base
<1>2. CASE m = 0 /\ r.t = "*"
  <2>1. r.e \in Seq(Plains) /\ r.t \in Kinds /\ Worth(r) \in Int /\ Worth(r) = Len(r.e)
    BY <1>2, ReplyIs DEF Reading, Worth
  <2>2. /\ Render(r) \in Seq(Int) /\ Len(Render(r)) \in Nat
        /\ Holds(Render(r), 0, Line("*", Len(r.e)))
    BY <1>2, <2>1, ListIs
  <2>3. QED
    BY <1>2, <2>1, <2>2 DEF Item, Base
<1>3. CASE m > 0
  <2>1. r.t = "*" /\ m <= Len(r.e) /\ r.e \in Seq(Plains) /\ Len(r.e) \in Nat /\ m \in Nat
    BY <1>3, ReplyIs DEF Reading
  <2> DEFINE k == Len(r.e) - m
             x == r.e[k + 1]
  <2>2. /\ k \in 0 .. Len(r.e) - 1 /\ k \in 0 .. Len(r.e) /\ k + 1 \in 1 .. Len(r.e)
        /\ Len(r.e) - m + 1 = k + 1
    BY <1>3, <2>1
  <2>3. Item(r, m) = x /\ Base(r, m) = Off(r.e, k) /\ x \in Plains
    BY <1>3, <2>1, <2>2, ElementOfSeq DEF Item, Base
  <2> HIDE DEF k
  <2>4. /\ Render(r) \in Seq(Int) /\ Len(Render(r)) \in Nat
        /\ Off(r.e, k) \in Nat /\ Holds(Render(r), Off(r.e, k), Plain(x))
    BY <2>1, <2>2, ListIs
  <2> HIDE DEF x
  <2>5. /\ x.t \in Kinds /\ x.t # "*" /\ Worth(x) \in Int
        /\ Plain(x) \in Seq(Int) /\ Len(Plain(x)) \in Nat
        /\ Holds(Plain(x), 0, Line(x.t, Worth(x)))
    BY <2>3, PlainKinds, PlainIs
  <2>6. Holds(Render(r), Off(r.e, k), Line(x.t, Worth(x)))
    <3> DEFINE p == Off(r.e, k)
               l == Line(x.t, Worth(x))
               d == Render(r)
               w == Plain(x)
    <3>1. /\ p \in Nat /\ l \in Seq(Int) /\ Len(l) = 4 /\ Len(d) \in Nat /\ Len(w) \in Nat
          /\ Holds(d, p, w) /\ Holds(w, 0, l)
      BY <2>4, <2>5, LineIs
    <3> HIDE DEF p, l, d, w
    <3>2. 4 <= Len(w) /\ \A j \in 1 .. 4 : w[j] = l[j]
      BY <3>1 DEF Holds
    <3>3. p + 4 <= Len(d) /\ \A j \in 1 .. 4 : d[p + j] = w[j]
      BY <3>1, <3>2 DEF Holds
    <3>4. Holds(d, p, l)
      BY <3>1, <3>2, <3>3 DEF Holds
    <3>5. QED
      BY <3>4 DEF p, l, d
  <2>7. QED
    BY <2>3, <2>4, <2>5, <2>6
<1>4. QED
  BY <1>1, <1>2, <1>3 DEF Reading

(* Where it ends: at the next element or at the end of the reply.              *)
LEMMA ItemEnds ==
  ASSUME NEW r, NEW m, Reading(r, m)
  PROVE  /\ Item(r, m).t # "*" =>
              Base(r, m) + Len(Plain(Item(r, m))) = IF m > 1 THEN Base(r, m - 1) ELSE Len(Render(r))
         /\ m > 0 => Base(r, m) < Len(Render(r))
<1>1. CASE m = 0
  <2>1. ASSUME r.t # "*" PROVE 0 + Len(Plain(r)) = Len(Render(r))
    <3>1. r \in Plains /\ Render(r) = Plain(r)
      BY <2>1, ReplyIs DEF Reading
    <3>2. Len(Plain(r)) \in Nat
      BY <3>1, PlainIs
    <3>3. QED
      BY <3>1, <3>2
  <2>2. QED
    BY <1>1, <2>1 DEF Item, Base
<1>2. CASE m > 0
  <2>1. r.t = "*" /\ m <= Len(r.e) /\ r.e \in Seq(Plains) /\ Len(r.e) \in Nat /\ m \in Nat
    BY <1>2, ReplyIs DEF Reading
  <2> DEFINE k == Len(r.e) - m
             x == r.e[k + 1]
  <2>2. /\ k \in 0 .. Len(r.e) - 1 /\ k + 1 \in 0 .. Len(r.e) /\ k + 1 \in 1 .. Len(r.e)
        /\ Len(r.e) - m + 1 = k + 1 /\ k \in 0 .. Len(r.e)
        /\ m > 1 => m - 1 # 0 /\ Len(r.e) - (m - 1) = k + 1
        /\ ~(m > 1) => k + 1 = Len(r.e)
    BY <1>2, <2>1
  <2>3. Item(r, m) = x /\ Base(r, m) = Off(r.e, k) /\ x \in Plains
    BY <1>2, <2>1, <2>2, ElementOfSeq DEF Item, Base
  <2>4. m > 1 => Base(r, m - 1) = Off(r.e, k + 1)
    BY <2>2 DEF Base
  <2> HIDE DEF k
  <2>5. /\ Len(Render(r)) \in Nat /\ Off(r.e, Len(r.e)) = Len(Render(r))
        /\ Off(r.e, k) \in Nat
        /\ Off(r.e, k + 1) = Off(r.e, k) + Len(Plain(x))
        /\ Holds(Render(r), Off(r.e, k), Plain(x))
    BY <2>1, <2>2, ListIs
  <2> HIDE DEF x
  <2>6. Len(Plain(x)) \in Nat /\ Len(Plain(x)) >= 4
    <3>1. /\ Plain(x) \in Seq(Int) /\ Len(Plain(x)) \in Nat
          /\ Holds(Plain(x), 0, Line(x.t, Worth(x))) /\ Len(Line(x.t, Worth(x))) = 4
      BY <2>3, PlainKinds, PlainIs, LineIs
    <3>2. QED
      BY <3>1 DEF Holds
  <2>7. Off(r.e, k) + Len(Plain(x)) <= Len(Render(r))
    BY <2>5 DEF Holds
  <2>8. Off(r.e, k) < Len(Render(r))
    BY <2>5, <2>6, <2>7
  <2>9. CASE m > 1
    BY <2>3, <2>4, <2>5, <2>8, <2>9
  <2>10. CASE ~(m > 1)
    BY <2>2, <2>3, <2>5, <2>8, <2>10
  <2>11. QED
    BY <2>9, <2>10
<1>3. QED
  BY <1>1, <1>2 DEF Reading

(* Behind the head of a list: its first element, or nothing.                   *)
LEMMA HeadEnds ==
  ASSUME NEW r, IsReply(r, DOMAIN Texts), r.t = "*"
  PROVE  IF Len(r.e) = 0 THEN Len(Render(r)) = 4
         ELSE Reading(r, Len(r.e)) /\ Base(r, Len(r.e)) = 4 /\ 4 < Len(Render(r))
<1>1. r.e \in Seq(Plains) /\ Len(r.e) \in Nat
  BY ReplyIs
<1>2. Off(r.e, 0) = 4 /\ Off(r.e, Len(r.e)) = Len(Render(r))
  BY <1>1, ListIs
<1>3. CASE Len(r.e) = 0
  BY <1>2, <1>3
<1>4. CASE Len(r.e) # 0
  <2>1. Reading(r, Len(r.e)) /\ Len(r.e) > 0
    BY <1>1, <1>4 DEF Reading
  <2>2. Base(r, Len(r.e)) = 4
    <3>1. Len(r.e) - Len(r.e) = 0
      BY <1>1
    <3>2. QED
      BY <1>2, <1>4, <3>1 DEF Base
  <2>3. Base(r, Len(r.e)) < Len(Render(r))
    BY <2>1, ItemEnds
  <2>4. QED
    BY <1>4, <2>1, <2>2, <2>3
<1>5. QED
  BY <1>3, <1>4

-----------------------------------------------------------------------------
(* p bytes of the reply s were taken: the next ones are in the socket (i) or   *)
(* on their way (w), and, unless the server has closed (c), all that follow.   *)
Synced(s, p, i, w, c) ==
  /\ p \in Nat /\ Holds(s, p, i) /\ Holds(s, p + Len(i), w)
  /\ ~c => p + Len(i) + Len(w) = Len(s)

LEMMA SplitIs ==
  ASSUME NEW S, NEW s \in Seq(S), NEW k \in 0 .. Len(s)
  PROVE  /\ SubSeq(s, 1, k) \in Seq(S) /\ Len(SubSeq(s, 1, k)) = k
         /\ SubSeq(s, k + 1, Len(s)) \in Seq(S) /\ Len(SubSeq(s, k + 1, Len(s))) = Len(s) - k
         /\ \A j \in 1 .. k : SubSeq(s, 1, k)[j] = s[j]
         /\ \A j \in 1 .. Len(s) - k : SubSeq(s, k + 1, Len(s))[j] = s[k + j]
         /\ SubSeq(s, 1, k) \o SubSeq(s, k + 1, Len(s)) = s
<1>1. Len(s) \in Nat /\ \A j \in 1 .. Len(s) : s[j] \in S
  BY LenProperties, ElementOfSeq
<1> DEFINE a == SubSeq(s, 1, k)
           b == SubSeq(s, k + 1, Len(s))
<1>2. a \in Seq(S) /\ Len(a) = k /\ \A j \in 1 .. k : a[j] = s[j]
  BY <1>1
<1>3. b \in Seq(S) /\ Len(b) = Len(s) - k /\ \A j \in 1 .. Len(s) - k : b[j] = s[k + j]
  BY <1>1
<1> HIDE DEF a, b
<1>4. a \o b = s
  <2>1. /\ a \o b \in Seq(S) /\ Len(a \o b) = Len(a) + Len(b)
        /\ \A j \in 1 .. Len(a) : (a \o b)[j] = a[j]
        /\ \A j \in 1 .. Len(b) : (a \o b)[Len(a) + j] = b[j]
    BY <1>2, <1>3, ConcatIs
  <2>2. Len(a \o b) = Len(s)
    BY <1>1, <1>2, <1>3, <2>1
  <2>3. ASSUME NEW j \in 1 .. Len(s) PROVE (a \o b)[j] = s[j]
    <3>1. CASE j \in 1 .. k
      BY <1>2, <2>1, <3>1
    <3>2. CASE j \notin 1 .. k
      <4>1. j - k \in 1 .. Len(s) - k /\ k + (j - k) = j
        BY <1>1, <3>2
      <4>2. (a \o b)[k + (j - k)] = b[j - k] /\ b[j - k] = s[k + (j - k)]
        BY <1>2, <1>3, <2>1, <4>1
      <4>3. QED
        BY <4>1, <4>2
    <3>3. QED
      BY <3>1, <3>2
  <2>4. QED
    BY <2>1, <2>2, <2>3, SeqEqual
<1>5. QED
  BY <1>2, <1>3, <1>4 DEF a, b

(* Bytes arrive.                                                              *)
LEMMA Delivered ==
  ASSUME NEW s \in Seq(Int), NEW p, NEW i \in Seq(Int), NEW w \in Seq(Int), NEW c,
         Synced(s, p, i, w, c), NEW k \in 1 .. Len(w)
  PROVE  /\ i \o SubSeq(w, 1, k) \in Seq(Int) /\ SubSeq(w, k + 1, Len(w)) \in Seq(Int)
         /\ Synced(s, p, i \o SubSeq(w, 1, k), SubSeq(w, k + 1, Len(w)), c)
<1> DEFINE a == SubSeq(w, 1, k)
           b == SubSeq(w, k + 1, Len(w))
<1>1. Len(w) \in Nat /\ Len(i) \in Nat /\ Len(s) \in Nat /\ k \in 0 .. Len(w) /\ p \in Nat
  BY LenProperties DEF Synced
<1>2. a \in Seq(Int) /\ b \in Seq(Int) /\ Len(a) = k /\ Len(b) = Len(w) - k /\ a \o b = w
  BY <1>1, SplitIs
<1> HIDE DEF a, b
<1>3. i \o a \in Seq(Int) /\ Len(i \o a) = Len(i) + k
  BY <1>1, <1>2, ConcatIs
<1>4. Holds(s, p + Len(i), a) /\ Holds(s, p + Len(i) + Len(a), b)
  <2>1. p + Len(i) \in Nat /\ Holds(s, p + Len(i), a \o b)
    BY <1>1, <1>2 DEF Synced
  <2>2. QED
    BY <1>1, <1>2, <2>1, HoldsConcat
<1>5. Holds(s, p, i \o a)
  <2>1. Holds(s, p, i)
    BY DEF Synced
  <2>2. QED
    BY <1>1, <1>2, <1>4, <2>1, HoldsConcat
<1>6. p + Len(i \o a) = p + Len(i) + Len(a)
  BY <1>1, <1>2, <1>3
<1>7. ~c => p + Len(i \o a) + Len(b) = Len(s)
  <2>1. ~c => p + Len(i) + Len(w) = Len(s)
    BY DEF Synced
  <2>2. p + Len(i \o a) + Len(b) = p + Len(i) + Len(w)
    BY <1>1, <1>2, <1>3
  <2>3. QED
    BY <2>1, <2>2
<1>8. Synced(s, p, i \o a, b, c)
  BY <1>1, <1>4, <1>5, <1>6, <1>7 DEF Synced
<1>9. QED
  BY <1>2, <1>3, <1>8 DEF a, b

(* From the byte b of the reply on, l was collected.                          *)
Collected(s, b, l, i, w, c) ==
  /\ s \in Seq(Int) /\ l \in Seq(Int) /\ i \in Seq(Int) /\ w \in Seq(Int) /\ b \in Nat
  /\ Holds(s, b, l) /\ Synced(s, b + Len(l), i, w, c)

(* recv() takes the first k bytes.                                            *)
LEMMA Taken ==
  ASSUME NEW s, NEW b, NEW l, NEW i, NEW w, NEW c, Collected(s, b, l, i, w, c),
         NEW k \in 0 .. Len(i)
  PROVE  /\ Collected(s, b, l \o SubSeq(i, 1, k), SubSeq(i, k + 1, Len(i)), w, c)
         /\ Len(l \o SubSeq(i, 1, k)) = Len(l) + k
<1> DEFINE x == SubSeq(i, 1, k)
           y == SubSeq(i, k + 1, Len(i))
           p == b + Len(l)
<1>0. /\ s \in Seq(Int) /\ l \in Seq(Int) /\ i \in Seq(Int) /\ w \in Seq(Int) /\ b \in Nat
      /\ Holds(s, b, l) /\ Synced(s, p, i, w, c)
  BY DEF Collected
<1>1. Len(w) \in Nat /\ Len(i) \in Nat /\ Len(s) \in Nat /\ Len(l) \in Nat /\ p \in Nat
  BY <1>0, LenProperties
<1>2. x \in Seq(Int) /\ y \in Seq(Int) /\ Len(x) = k /\ Len(y) = Len(i) - k /\ x \o y = i
  BY <1>0, <1>1, SplitIs
<1> HIDE DEF x, y
<1>3. l \o x \in Seq(Int) /\ Len(l \o x) = Len(l) + k
  BY <1>0, <1>1, <1>2, ConcatIs
<1>4. Holds(s, p, x) /\ Holds(s, p + Len(x), y)
  <2>1. Holds(s, p, x \o y)
    BY <1>0, <1>2 DEF Synced
  <2> HIDE DEF p
  <2>2. QED
    BY <1>1, <1>2, <2>1, HoldsConcat
<1>5. Holds(s, b, l \o x)
  BY <1>0, <1>1, <1>2, <1>4, HoldsConcat
<1>6. p + Len(x) = b + Len(l \o x) /\ b + Len(l \o x) \in Nat
      /\ b + Len(l \o x) + Len(y) = p + Len(i)
  BY <1>0, <1>1, <1>2, <1>3
<1>7. Holds(s, p + Len(i), w) /\ (~c => p + Len(i) + Len(w) = Len(s))
  BY <1>0 DEF Synced
<1>8. Synced(s, b + Len(l \o x), y, w, c)
  BY <1>4, <1>6, <1>7 DEF Synced
<1>9. Collected(s, b, l \o x, y, w, c)
  BY <1>0, <1>2, <1>3, <1>5, <1>8 DEF Collected
<1>10. QED
  BY <1>3, <1>9 DEF x, y

(* The server closes: what was on its way is lost.                            *)
LEMMA Lost ==
  ASSUME NEW s \in Seq(Int), NEW p, NEW i \in Seq(Int), NEW w \in Seq(Int), NEW c,
         Synced(s, p, i, w, c)
  PROVE  Synced(s, p, i, <<>>, TRUE)
<1>1. Len(i) \in Nat /\ Len(s) \in Nat /\ p \in Nat /\ Len(<<>>) = 0
  BY LenProperties DEF Synced
<1>2. Holds(s, p + Len(i), <<>>)
  BY <1>1 DEF Synced, Holds
<1>3. QED
  BY <1>2 DEF Synced

(* The end of a call: all of the reply was taken, or not.                      *)
LEMMA Over ==
  ASSUME NEW s \in Seq(Int), NEW p, NEW i \in Seq(Int), NEW w \in Seq(Int), NEW c,
         Synced(s, p, i, w, c)
  PROVE  /\ p = Len(s) => i = <<>> /\ w = <<>>
         /\ p # Len(s) /\ ~c => Len(i) + Len(w) > 0
<1>1. Len(i) \in Nat /\ Len(w) \in Nat /\ Len(s) \in Nat /\ p \in Nat
  BY LenProperties DEF Synced
<1>2. p + Len(i) <= Len(s) /\ p + Len(i) + Len(w) <= Len(s)
  BY DEF Synced, Holds
<1>3. ASSUME p = Len(s) PROVE i = <<>> /\ w = <<>>
  <2>1. Len(i) = 0 /\ Len(w) = 0
    BY <1>1, <1>2, <1>3
  <2>2. QED
    BY <2>1, EmptySeq
<1>4. p # Len(s) /\ ~c => Len(i) + Len(w) > 0
  BY <1>1, <1>2 DEF Synced
<1>5. QED
  BY <1>3, <1>4

-----------------------------------------------------------------------------
(* A line.                                                                    *)
LEMMA LineRest ==
  ASSUME NEW t \in Kinds, NEW n \in Int
  PROVE  rtrim(Line(t, n)) = <<Prefix(t), Number(n)>>
<1> DEFINE s == Line(t, n)
           Good(m) == /\ \A k \in m + 1 .. Len(s) : s[k] \in {CR, LF}
                      /\ m = 0 \/ s[m] \notin {CR, LF}
<1>1. /\ Len(s) = 4 /\ s \in Seq(Int) /\ s[1] = Prefix(t) /\ s[2] = Number(n)
      /\ s[3] = CR /\ s[4] = LF
  BY LineIs
<1>2. Number(n) # CR /\ Number(n) # LF
  BY NumberIs
<1> HIDE DEF s
<1>3. Good(2)
  <2>1. \A k \in 2 + 1 .. Len(s) : k = 3 \/ k = 4
    BY <1>1
  <2>2. QED
    BY <1>1, <1>2, <2>1
<1>4. ASSUME NEW m \in 0 .. Len(s), Good(m) PROVE m = 2
  <2>1. m # 3 /\ m # 4
    BY <1>1, <1>4
  <2>2. m # 0 /\ m # 1
    <3>1. m \in {0, 1} => 2 \in m + 1 .. Len(s)
      BY <1>1
    <3>2. QED
      BY <1>1, <1>2, <1>4, <3>1
  <2>3. QED
    BY <1>1, <2>1, <2>2
<1>5. (CHOOSE m \in 0 .. Len(s) : Good(m)) = 2
  <2>1. 2 \in 0 .. Len(s)
    BY <1>1
  <2> HIDE DEF Good
  <2>2. QED
    BY <1>3, <1>4, <2>1
<1>6. SubSeq(s, 1, 2) = <<s[1], s[2]>>
  <2> DEFINE a == SubSeq(s, 1, 2)
  <2>1. 2 \in 0 .. Len(s) /\ 1 \in 1 .. 2 /\ 2 \in 1 .. 2
    BY <1>1
  <2>2. a \in Seq(Int) /\ Len(a) = 2 /\ a[1] = s[1] /\ a[2] = s[2]
    BY <1>1, <2>1, SplitIs
  <2> HIDE DEF a
  <2>3. a = <<a[1], a[2]>>
    BY <2>2
  <2>4. QED
    BY <2>2, <2>3 DEF a
<1>7. rtrim(s) = SubSeq(s, 1, 2)
  BY <1>5 DEF rtrim
<1>8. QED
  BY <1>1, <1>6, <1>7 DEF s

(* read_line finds the end of a line once its fourth byte was peeked, and it    *)
(* takes the bytes up to that one.                                             *)
LEMMA EolIs ==
  ASSUME NEW s \in Seq(Int), NEW b \in Nat, NEW t \in Kinds, NEW n \in Int,
         Holds(s, b, Line(t, n)),
         NEW l \in Seq(Int), Len(l) <= 3, NEW i \in Seq(Int), Holds(s, b + Len(l), i),
         peeked \in Seq(Int), Holds(i, 0, peeked)
  PROVE  /\ HasEol <=> Len(l) + Len(peeked) >= 4
         /\ HasEol => ToRead = 4 - Len(l)
         /\ ~HasEol => ToRead = Len(peeked)
<1> DEFINE m == Len(l)
<1>1. /\ m \in 0 .. 3 /\ Len(i) \in Nat /\ Len(peeked) \in Nat /\ Len(s) \in Nat
      /\ DOMAIN peeked = 1 .. Len(peeked)
  <2>1. /\ Len(l) \in Nat /\ Len(i) \in Nat /\ Len(peeked) \in Nat /\ Len(s) \in Nat
        /\ DOMAIN peeked = 1 .. Len(peeked)
    BY LenProperties
  <2>2. \A x \in Nat : x <= 3 => x \in 0 .. 3
    OBVIOUS
  <2>3. QED
    BY <2>1, <2>2, Zenon
<1>2. /\ s[b + 1] # LF /\ s[b + 2] # LF /\ s[b + 3] # LF /\ s[b + 4] = LF
  <2>1. /\ s[b + 1] = Prefix(t) /\ s[b + 2] = Number(n) /\ s[b + 3] = CR /\ s[b + 4] = LF
    <3> DEFINE x == Line(t, n)
    <3>1. /\ Len(x) = 4 /\ x[1] = Prefix(t) /\ x[2] = Number(n) /\ x[3] = CR /\ x[4] = LF
          /\ Holds(s, b, x)
      BY LineIs
    <3> HIDE DEF x
    <3>2. \A j \in 1 .. 4 : s[b + j] = x[j]
      BY <3>1 DEF Holds
    <3>3. 1 \in 1 .. 4 /\ 2 \in 1 .. 4 /\ 3 \in 1 .. 4 /\ 4 \in 1 .. 4
      OBVIOUS
    <3>4. QED
      BY <3>1, <3>2, <3>3, Zenon
  <2>2. Prefix(t) # LF /\ Number(n) # LF /\ CR # LF
    BY PrefixIs, NumberIs DEF CR, LF
  <2>3. QED
    BY <2>1, <2>2
<1>3. \A j \in 1 .. Len(peeked) : peeked[j] = s[b + (m + j)]
  <2> TAKE j \in 1 .. Len(peeked)
  <2>1. j \in 1 .. Len(i) /\ 0 + j = j /\ b + m + j = b + (m + j)
    BY <1>1 DEF Holds
  <2>2. peeked[j] = i[j] /\ i[j] = s[b + m + j]
    BY <2>1 DEF Holds
  <2>3. QED
    BY <2>1, <2>2
<1> HIDE DEF m
<1>4. \A j \in 1 .. Len(peeked) : m + j < 4 => peeked[j] # LF
  <2> TAKE j \in 1 .. Len(peeked)
  <2>1. m + j < 4 => m + j = 1 \/ m + j = 2 \/ m + j = 3
    BY <1>1
  <2>2. QED
    BY <1>2, <1>3, <2>1
<1>5. \A j \in 1 .. Len(peeked) : m + j = 4 => peeked[j] = LF
  BY <1>2, <1>3
<1>6. HasEol <=> m + Len(peeked) >= 4
  <2>1. ASSUME HasEol PROVE m + Len(peeked) >= 4
    <3>1. PICK j \in 1 .. Len(peeked) : peeked[j] = LF
      BY <1>1, <2>1 DEF HasEol
    <3>2. ~(m + j < 4)
      BY <1>4, <3>1
    <3>3. QED
      BY <1>1, <3>2
  <2>2. ASSUME m + Len(peeked) >= 4 PROVE HasEol
    <3>1. 4 - m \in 1 .. Len(peeked) /\ m + (4 - m) = 4
      BY <1>1, <2>2
    <3>2. QED
      BY <1>1, <1>5, <3>1 DEF HasEol
  <2>3. QED
    BY <2>1, <2>2
<1>7. ASSUME HasEol PROVE ToRead = 4 - m
  <2> DEFINE First(k) == peeked[k] = LF /\ \A j \in 1 .. k - 1 : peeked[j] # LF
  <2>1. 4 - m \in 1 .. Len(peeked) /\ m + (4 - m) = 4
    BY <1>1, <1>6, <1>7
  <2>2. First(4 - m)
    <3>1. \A j \in 1 .. (4 - m) - 1 : j \in 1 .. Len(peeked) /\ m + j < 4
      BY <1>1, <2>1
    <3>2. QED
      BY <1>4, <1>5, <2>1, <3>1
  <2>3. ASSUME NEW k \in 1 .. Len(peeked), First(k) PROVE k = 4 - m
    <3>1. ~(m + k < 4)
      BY <1>4, <2>3
    <3>2. ~(4 - m < k)
      <4>1. 4 - m < k => 4 - m \in 1 .. k - 1
        BY <1>1, <2>1
      <4>2. QED
        BY <2>2, <2>3, <4>1
    <3>3. QED
      BY <1>1, <3>1, <3>2
  <2>4. ToRead = CHOOSE k \in 1 .. Len(peeked) : First(k)
    BY <1>1, <1>7 DEF ToRead
  <2> HIDE DEF First
  <2>5. QED
    BY <2>1, <2>2, <2>3, <2>4
<1>8. ~HasEol => ToRead = Len(peeked)
  BY DEF ToRead
<1>9. QED
  BY <1>6, <1>7, <1>8 DEF m

(* What was collected then is the line, and rtrim leaves its first two bytes.   *)
LEMMA LineEnds ==
  ASSUME NEW s \in Seq(Int), NEW b \in Nat, NEW t \in Kinds, NEW n \in Int,
         Holds(s, b, Line(t, n)), NEW l \in Seq(Int), Len(l) = 4, Holds(s, b, l)
  PROVE  rtrim(l) = <<Prefix(t), Number(n)>>
<1>1. Line(t, n) \in Seq(Int) /\ Len(Line(t, n)) = 4
  BY LineIs
<1>2. \A j \in 1 .. 4 : l[j] = Line(t, n)[j]
  BY <1>1 DEF Holds
<1>3. l = Line(t, n)
  BY <1>1, <1>2, SeqEqual
<1>4. QED
  BY <1>3, LineRest

-----------------------------------------------------------------------------
(* The function recv_generic_reply_ chooses.                                   *)
Chosen(f, r) ==
  IF f # "generic" THEN f
  ELSE CASE r.t = "+" -> "single" [] r.t = "-" -> "error" [] r.t = ":" -> "int"
         [] r.t \in {"$", "nil"} -> "bulk" [] r.t \in {"*", "nomulti"} -> "multi"

(* The running or last call.                                                  *)
Now == calls[Len(calls)]

(* A line of the item is being read, the text of a bulk reply, and the elements *)
(* that were read.                                                            *)
AtLine(r, m, l, i, w, c) ==
  /\ Len(l) <= 3 /\ Holds(Render(r), Base(r, m), l)
  /\ Synced(Render(r), Base(r, m) + Len(l), i, w, c)

AtBlock(r, m, b, n, i, w, c) ==
  /\ Item(r, m).t = "$"
  /\ n = Len(Texts[Item(r, m).v]) + 2 - Len(b) /\ n > 0
  /\ Holds(Render(r), Base(r, m) + 4, b)
  /\ Synced(Render(r), Base(r, m) + 4 + Len(b), i, w, c)

Listed(r, f, m, d) ==
  /\ m = 0 => d = <<>>
  /\ m > 0 => /\ f = "multi" /\ r.t = "*" /\ m <= Len(r.e) /\ Len(d) = Len(r.e) - m
              /\ \A k \in 1 .. Len(d) : IsBulk(r.e[k]) /\ d[k] = TextOf(r.e[k].v)

TypeInv ==
  pc = "type" => /\ Now.reader = "generic" /\ left = 0 /\ line = <<>>
                 /\ Synced(Render(Now.reply), 0, inbuf, wire, closed)

LineInv == pc \in {"peek", "take"} => AtLine(Now.reply, left, line, inbuf, wire, closed)

PeekInv ==
  pc = "take" => peeked \in Seq(Int) /\ Len(peeked) > 0 /\ Holds(inbuf, 0, peeked)

BlockInv ==
  pc = "block" =>
    /\ line = <<>> /\ (left = 0 => reader = "bulk")
    /\ AtBlock(Now.reply, left, block, need, inbuf, wire, closed)

CallInv ==
  pc \notin {"idle", "broken"} =>
    /\ Len(calls) > 0
    /\ pc # "type" => reader = Chosen(Now.reader, Now.reply)
    /\ TypeInv /\ LineInv /\ PeekInv /\ BlockInv
    /\ Listed(Now.reply, reader, left, data)

(* Only the last call can have left something in the socket.                   *)
CutInv ==
  /\ \A k \in 1 .. Len(calls) - 1 : ~Leaves(calls[k].reader, calls[k].reply)
  /\ pc = "idle" => /\ ~Cut => inbuf = <<>> /\ wire = <<>>
                    /\ Cut /\ ~closed => Len(inbuf) + Len(wire) > 0

Results == [ok : BOOLEAN, n : Int, data : Seq(Seq(Int))]

ShapeInv ==
  /\ TypeOK
  /\ wire \in Seq(Int) /\ inbuf \in Seq(Int) /\ line \in Seq(Int) /\ block \in Seq(Int)
  /\ data \in Seq(Seq(Int)) /\ calls \in Seq(Pairs \cup Later) /\ outs \in Seq(Results)
  /\ Len(outs) = IF pc = "idle" THEN Len(calls) ELSE Len(calls) - 1

ReaderInv == ShapeInv /\ CallInv /\ CutInv /\ OutcomesRight

-----------------------------------------------------------------------------
(* What RedisReply says of a call, in the bytes of the texts.                  *)
Told(f, r) ==
  LET o == Outcome(f, r)
  IN  [o EXCEPT !.data = [j \in DOMAIN o.data |-> TextOf(o.data[j])]]

LEMMA NoTexts == [j \in DOMAIN <<>> |-> TextOf(<<>>[j])] = <<>>
OBVIOUS

LEMMA ToldIs ==
  ASSUME NEW f, NEW r, NEW k, NEW n, NEW v, Outcome(f, r) = [ok |-> k, n |-> n, data |-> v],
         NEW x, [j \in DOMAIN v |-> TextOf(v[j])] = x
  PROVE  Told(f, r) = [ok |-> k, n |-> n, data |-> x]
<1> DEFINE o == Outcome(f, r)
           y == [j \in DOMAIN o.data |-> TextOf(o.data[j])]
<1>1. o = [ok |-> k, n |-> n, data |-> v]
  OBVIOUS
<1>2. Told(f, r) = [o EXCEPT !.data = y]
  BY DEF Told
<1> HIDE DEF o
<1>3. o.data = v
  BY <1>1
<1>4. y = x
  BY <1>3
<1> HIDE DEF y
<1>5. [o EXCEPT !.data = y] = [ok |-> k, n |-> n, data |-> y]
  BY <1>1
<1>6. QED
  BY <1>2, <1>4, <1>5

LEMMA ToldThrow ==
  ASSUME NEW f, NEW r, ~Accepts(f, r)
  PROVE  Told(f, r) = [ok |-> FALSE, n |-> 0, data |-> <<>>]
<1>1. Outcome(f, r) = [ok |-> FALSE, n |-> 0, data |-> <<>>]
  BY DEF Outcome
<1>2. PICK v : v = <<>>
  OBVIOUS
<1>3. [j \in DOMAIN v |-> TextOf(v[j])] = v
  BY <1>2, NoTexts
<1>4. Outcome(f, r) = [ok |-> FALSE, n |-> 0, data |-> v]
  BY <1>1, <1>2
<1>5. Told(f, r) = [ok |-> FALSE, n |-> 0, data |-> v]
  BY <1>3, <1>4, ToldIs
<1>6. QED
  BY <1>2, <1>5

LEMMA ToldLine ==
  ASSUME NEW f, NEW r, Accepts(f, r), r.t # "*", ~IsBulk(r)
  PROVE  Told(f, r) = [ok |-> TRUE, n |-> r.v, data |-> <<>>]
<1>1. Outcome(f, r) = [ok |-> TRUE, n |-> r.v, data |-> <<>>]
  BY DEF Outcome
<1>2. PICK v : v = <<>>
  OBVIOUS
<1>3. [j \in DOMAIN v |-> TextOf(v[j])] = v
  BY <1>2, NoTexts
<1>4. Outcome(f, r) = [ok |-> TRUE, n |-> r.v, data |-> v]
  BY <1>1, <1>2
<1>5. Told(f, r) = [ok |-> TRUE, n |-> r.v, data |-> v]
  BY <1>3, <1>4, ToldIs
<1>6. QED
  BY <1>2, <1>5

LEMMA ToldBulk ==
  ASSUME NEW f, NEW r, Accepts(f, r), IsBulk(r)
  PROVE  Told(f, r) = [ok |-> TRUE, n |-> 0, data |-> <<TextOf(r.v)>>]
<1>1. Outcome(f, r) = [ok |-> TRUE, n |-> 0, data |-> <<r.v>>]
  BY DEF Outcome, IsBulk
<1>2. [j \in DOMAIN <<r.v>> |-> TextOf(<<r.v>>[j])] = <<TextOf(r.v)>>
  OBVIOUS
<1>3. QED
  BY <1>1, <1>2, ToldIs

LEMMA ToldList ==
  ASSUME NEW f, NEW r, Accepts(f, r), r.t = "*", r.e \in Seq(Plains),
         NEW S, NEW d \in Seq(S), Len(d) = Len(r.e),
         \A k \in 1 .. Len(d) : d[k] = TextOf(r.e[k].v)
  PROVE  Told(f, r) = [ok |-> TRUE, n |-> Len(r.e), data |-> d]
<1> DEFINE v == [k \in DOMAIN r.e |-> r.e[k].v]
           x == [j \in DOMAIN v |-> TextOf(v[j])]
<1>1. Outcome(f, r) = [ok |-> TRUE, n |-> Len(r.e), data |-> v]
  BY DEF Outcome
<1>2. DOMAIN r.e = 1 .. Len(r.e) /\ DOMAIN d = 1 .. Len(d) /\ d = [k \in 1 .. Len(d) |-> d[k]]
  BY LenProperties
<1>3. x = d
  BY <1>2
<1> HIDE DEF v
<1>4. QED
  BY <1>1, <1>3, ToldIs

-----------------------------------------------------------------------------
(* The end of a call keeps the invariant, when what is returned and what is     *)
(* left of the reply are what RedisReply says.                                 *)
LEMMA NowIs ==
  ASSUME ShapeInv, Len(calls) > 0
  PROVE  /\ Now.reader \in Readers /\ IsReply(Now.reply, DOMAIN Texts)
         /\ Render(Now.reply) \in Seq(Int) /\ Reading(Now.reply, 0)
<1>1. calls \in Seq(Pairs \cup Later) /\ Len(calls) \in 1 .. Len(calls)
  <2>1. calls \in Seq(Pairs \cup Later) /\ Len(calls) \in Nat
    BY LenProperties DEF ShapeInv
  <2>2. QED
    BY <2>1
<1>2. Now \in Pairs \cup Later
  BY <1>1, ElementOfSeq DEF Now
<1>3. Now.reader \in Readers /\ IsReply(Now.reply, DOMAIN Texts)
  BY <1>2, ReplyAssumption
<1>4. Reading(Now.reply, 0)
  BY <1>3 DEF Reading
<1>5. QED
  BY <1>3, <1>4, ItemIs

LEMMA CutIs ==
  ASSUME calls \in Seq(Pairs \cup Later), Len(calls) > 0,
         \A k \in 1 .. Len(calls) - 1 : ~Leaves(calls[k].reader, calls[k].reply)
  PROVE  Cut <=> Leaves(Now.reader, Now.reply)
<1>1. Len(calls) \in Nat /\ DOMAIN calls = 1 .. Len(calls)
  BY LenProperties
<1>2. Len(calls) \in DOMAIN calls
  BY <1>1
<1>3. \A k \in DOMAIN calls : k = Len(calls) \/ k \in 1 .. Len(calls) - 1
  BY <1>1
<1>4. QED
  BY <1>2, <1>3 DEF Cut, Now

LEMMA Finishes ==
  ASSUME ReaderInv, pc \notin {"idle", "broken"}, pc' = "idle", UNCHANGED <<calls, left, need, data>>,
         reader' \in Readers \cup {"error"}, closed' \in BOOLEAN,
         wire' \in Seq(Int), inbuf' \in Seq(Int), line' \in Seq(Int), block' \in Seq(Int),
         NEW o \in Results, outs' = Append(outs, o), o = Told(Now.reader, Now.reply),
         NEW p, Synced(Render(Now.reply), p, inbuf', wire', closed'),
         p = Len(Render(Now.reply)) <=> ~Leaves(Now.reader, Now.reply)
  PROVE  ReaderInv'
<1>1. /\ ShapeInv /\ Len(calls) > 0 /\ CutInv /\ OutcomesRight
      /\ calls \in Seq(Pairs \cup Later) /\ outs \in Seq(Results) /\ data \in Seq(Seq(Int))
      /\ need \in Nat /\ left \in Nat /\ Len(outs) = Len(calls) - 1 /\ Len(calls) <= MaxRecv
      /\ calls' = calls /\ left' = left /\ need' = need /\ data' = data
  BY DEF ReaderInv, ShapeInv, CallInv, TypeOK
<1>2. Len(calls) \in Nat /\ Len(outs) \in Nat
  BY <1>1, LenProperties
<1>3. /\ outs' \in Seq(Results) /\ Len(outs') = Len(outs) + 1 /\ DOMAIN outs' = 1 .. Len(outs) + 1
      /\ \A k \in 1 .. Len(outs) : outs'[k] = outs[k]
      /\ outs'[Len(outs) + 1] = o
  <2>1. /\ Append(outs, o) \in Seq(Results) /\ Len(Append(outs, o)) = Len(outs) + 1
        /\ \A k \in 1 .. Len(outs) : Append(outs, o)[k] = outs[k]
        /\ Append(outs, o)[Len(outs) + 1] = o
    BY <1>1, AppendProperties
  <2>2. DOMAIN Append(outs, o) = 1 .. Len(Append(outs, o))
    BY <2>1, LenProperties
  <2>3. QED
    BY <2>1, <2>2
<1>4. Len(outs') = Len(calls)
  BY <1>1, <1>2, <1>3
<1>5. ShapeInv'
  <2>1. TypeOK'
    BY <1>1, <1>2, <1>4 DEF TypeOK
  <2>2. QED
    BY <1>1, <1>3, <1>4, <2>1 DEF ShapeInv
<1>6. CallInv'
  BY DEF CallInv
<1>7. CutInv'
  <2>1. Cut <=> Leaves(Now.reader, Now.reply)
    BY <1>1, CutIs DEF CutInv
  <2>2. Cut' <=> Cut
    BY <1>1 DEF Cut
  <2>3. /\ p = Len(Render(Now.reply)) => inbuf' = <<>> /\ wire' = <<>>
        /\ p # Len(Render(Now.reply)) /\ ~closed' => Len(inbuf') + Len(wire') > 0
    <3>1. Render(Now.reply) \in Seq(Int)
      BY <1>1, NowIs
    <3>2. QED
      BY <3>1, Over
  <2>4. ~Cut' => inbuf' = <<>> /\ wire' = <<>>
    BY <2>1, <2>2, <2>3
  <2>5. Cut' /\ ~closed' => Len(inbuf') + Len(wire') > 0
    BY <2>1, <2>2, <2>3
  <2>6. QED
    BY <1>1, <2>4, <2>5 DEF CutInv
<1>8. OutcomesRight'
  <2>1. ASSUME NEW k \in DOMAIN outs' PROVE outs'[k] = Told(calls[k].reader, calls[k].reply)
    <3>1. CASE k \in 1 .. Len(outs)
      <4>1. k \in DOMAIN outs
        BY <1>1, <3>1, LenProperties
      <4>2. QED
        BY <1>1, <1>3, <3>1, <4>1 DEF OutcomesRight, Told
    <3>2. CASE k \notin 1 .. Len(outs)
      <4>1. k = Len(outs) + 1 /\ k = Len(calls)
        BY <1>1, <1>2, <1>3, <3>2
      <4>2. QED
        BY <1>3, <4>1 DEF Now
    <3>3. QED
      BY <3>1, <3>2
  <2>2. \A k \in DOMAIN outs' : outs'[k] = Told(calls'[k].reader, calls'[k].reply)
    BY <1>1, <2>1
  <2>3. QED
    BY <2>2 DEF OutcomesRight, Told
<1>9. QED
  BY <1>5, <1>6, <1>7, <1>8 DEF ReaderInv

(* A step within a call.                                                       *)
LEMMA Continues ==
  ASSUME ReaderInv, pc \notin {"idle", "broken"}, pc' \in {"type", "peek", "take", "block", "broken"},
         UNCHANGED <<calls, outs>>,
         reader' \in Readers \cup {"error"}, closed' \in BOOLEAN,
         wire' \in Seq(Int), inbuf' \in Seq(Int), line' \in Seq(Int), block' \in Seq(Int),
         need' \in Nat, left' \in Nat, data' \in Seq(Seq(Int)), CallInv'
  PROVE  ReaderInv'
<1>1. /\ ShapeInv /\ CutInv /\ OutcomesRight /\ calls' = calls /\ outs' = outs
      /\ pc \in {"type", "peek", "take", "block"}
  BY DEF ReaderInv, ShapeInv, TypeOK
<1>2. ShapeInv'
  BY <1>1 DEF ShapeInv, TypeOK
<1>3. CutInv'
  BY <1>1 DEF CutInv
<1>4. OutcomesRight'
  BY <1>1 DEF OutcomesRight
<1>5. QED
  BY <1>2, <1>3, <1>4 DEF ReaderInv

LEMMA TextOfIs ==
  ASSUME NEW x \in Plains, IsBulk(x)
  PROVE  /\ TextOf(x.v) \in Seq(Int)
         /\ x.t = "$" => TextOf(x.v) = Texts[x.v]
         /\ x.t = "nil" => TextOf(x.v) = Sentinel
<1>1. /\ x.t = "$" => x.v \in DOMAIN Texts
      /\ x.t = "nil" => x.v = 0
  BY PlainKinds
<1>2. CASE x.t = "$"
  <2>1. Texts[x.v] \in Seq(Int) /\ x.v \in DOMAIN Texts
    BY <1>1, <1>2, TextIs
  <2>2. x.v # missing_value
    <3>1. DOMAIN Texts = 1 .. Len(Texts) /\ Len(Texts) \in Nat
      BY TextAssumption, LenProperties
    <3>2. QED
      BY <2>1, <3>1 DEF missing_value
  <2>3. QED
    BY <1>2, <2>1, <2>2 DEF TextOf
<1>3. CASE x.t = "nil"
  <2>1. Sentinel \in Seq(Int)
    BY DEF Sentinel
  <2>2. QED
    BY <1>1, <1>3, <2>1 DEF TextOf, missing_value
<1>4. QED
  BY <1>2, <1>3 DEF IsBulk

(* A function that met a reply of its kind was called for it.                  *)
LEMMA ChosenIs ==
  ASSUME NEW f \in Readers, NEW r, r.t \in Kinds, NEW g, g = Chosen(f, r)
  PROVE  /\ g \in {"single", "ok", "int", "intok", "bulk", "multi", "error"}
         /\ f # "generic" => g = f
         /\ f = "generic" => /\ r.t = "+" <=> g = "single"
                             /\ r.t = "-" <=> g = "error"
                             /\ r.t = ":" <=> g = "int"
                             /\ r.t \in {"$", "nil"} <=> g = "bulk"
                             /\ r.t \in {"*", "nomulti"} <=> g = "multi"
                             /\ g \notin {"ok", "intok"}
<1>1. CASE f # "generic"
  BY <1>1 DEF Chosen, Readers
<1>2. CASE f = "generic"
  BY <1>2 DEF Chosen, Kinds
<1>3. QED
  BY <1>1, <1>2

(* A bulk reply was decoded.                                                   *)
LEMMA TextDone ==
  ASSUME ReaderInv, pc \in {"take", "block"}, NEW r, r = Now.reply, NEW x, x = Item(r, left),
         UNCHANGED <<calls, reader, closed>>,
         wire' \in Seq(Int), inbuf' \in Seq(Int), line' = <<>>, block' = <<>>,
         IsBulk(x), left = 0 => reader = "bulk",
         Synced(Render(r), Base(r, left) + Len(Plain(x)), inbuf', wire', closed'),
         GotText(TextOf(x.v))
  PROVE  ReaderInv'
<1> DEFINE f == Now.reader
           tx == TextOf(x.v)
<1>1. /\ ShapeInv /\ CallInv /\ Len(calls) > 0
      /\ reader = Chosen(f, r) /\ Listed(r, reader, left, data)
      /\ data \in Seq(Seq(Int)) /\ left \in Nat /\ need \in Nat
      /\ reader' = reader /\ calls' = calls /\ closed' = closed
      /\ reader' \in Readers \cup {"error"} /\ closed' \in BOOLEAN
  BY DEF ReaderInv, ShapeInv, CallInv, TypeOK
<1>2. f \in Readers /\ IsReply(r, DOMAIN Texts)
  BY <1>1, NowIs
<1>3. Reading(r, left)
  BY <1>1, <1>2 DEF Reading, Listed
<1>4. x.t # "*" /\ x \in Plains
  BY <1>3, ItemIs DEF IsBulk
<1>5. tx \in Seq(Int)
  BY <1>4, TextOfIs
<1>6. r.t \in Kinds /\ (r.t = "*" => r.e \in Seq(Plains) /\ Len(r.e) \in Nat)
  BY <1>2, ReplyIs
<1>7. /\ Append(data, tx) \in Seq(Seq(Int)) /\ Len(Append(data, tx)) = Len(data) + 1
      /\ \A k \in 1 .. Len(data) : Append(data, tx)[k] = data[k]
      /\ Append(data, tx)[Len(data) + 1] = tx /\ Len(data) \in Nat
  BY <1>1, <1>5, AppendProperties, LenProperties
<1> DEFINE d == Append(data, tx)
<1>8. ASSUME left > 0
      PROVE  /\ reader = "multi" /\ r.t = "*" /\ left <= Len(r.e) /\ Len(r.e) \in Nat
             /\ Len(d) = Len(r.e) - left + 1
             /\ \A k \in 1 .. Len(d) : IsBulk(r.e[k]) /\ d[k] = TextOf(r.e[k].v)
  <2>1. /\ reader = "multi" /\ r.t = "*" /\ left <= Len(r.e) /\ Len(data) = Len(r.e) - left
        /\ \A k \in 1 .. Len(data) : IsBulk(r.e[k]) /\ data[k] = TextOf(r.e[k].v)
    BY <1>1, <1>8 DEF Listed
  <2>2. x = r.e[Len(data) + 1]
    BY <1>1, <1>6, <1>8, <2>1 DEF Item
  <2>3. Len(d) = Len(r.e) - left + 1
    BY <1>7, <2>1
  <2> HIDE DEF tx, d
  <2>4. ASSUME NEW k \in 1 .. Len(d) PROVE IsBulk(r.e[k]) /\ d[k] = TextOf(r.e[k].v)
    <3>1. CASE k \in 1 .. Len(data)
      BY <1>7, <2>1, <3>1 DEF d
    <3>2. CASE k \notin 1 .. Len(data)
      <4>1. k = Len(data) + 1
        BY <1>7, <3>2 DEF d
      <4>2. QED
        BY <1>7, <2>2, <4>1 DEF d, tx
    <3>3. QED
      BY <3>1, <3>2
  <2>5. QED
    BY <1>6, <2>1, <2>3, <2>4
<1>9. CASE left > 1
  <2>1. /\ data' = d /\ left' = left - 1 /\ need' = 0 /\ pc' = "peek" /\ outs' = outs
    BY <1>9 DEF GotText
  <2>2. Listed(r, reader, left - 1, d)
    <3>1. /\ left - 1 # 0 /\ left > 0 /\ left - 1 \in Nat
          /\ \A n \in Nat : left <= n => left - 1 <= n /\ n - left + 1 = n - (left - 1)
      BY <1>1, <1>9
    <3> HIDE DEF d
    <3>2. QED
      BY <1>8, <3>1 DEF Listed
  <2>3. AtLine(r, left - 1, <<>>, inbuf', wire', closed')
    <3>1. Base(r, left) + Len(Plain(x)) = Base(r, left - 1)
      BY <1>3, <1>4, <1>9, ItemEnds
    <3>2. Reading(r, left - 1)
      BY <1>1, <1>8, <1>9, <1>2 DEF Reading
    <3>3. Base(r, left - 1) \in Nat /\ Len(Render(r)) \in Nat
      BY <3>2, ItemIs
    <3>4. Base(r, left - 1) < Len(Render(r))
      <4>1. left - 1 > 0
        BY <1>1, <1>9
      <4>2. QED
        BY <3>2, <4>1, ItemEnds
    <3>5. Len(<<>>) = 0 /\ Base(r, left - 1) + 0 = Base(r, left - 1)
      BY <3>3
    <3>6. Holds(Render(r), Base(r, left - 1), <<>>)
      BY <3>3, <3>4, <3>5 DEF Holds
    <3>7. Synced(Render(r), Base(r, left - 1) + Len(<<>>), inbuf', wire', closed')
      BY <3>1, <3>5
    <3>8. QED
      BY <3>5, <3>6, <3>7 DEF AtLine
  <2>4. CallInv'
    <3>1. Now' = Now /\ calls' = calls
      BY <1>1 DEF Now
    <3>2. TypeInv' /\ PeekInv' /\ BlockInv'
      BY <2>1 DEF TypeInv, PeekInv, BlockInv
    <3>3. LineInv'
      BY <2>1, <2>3, <3>1 DEF LineInv
    <3>4. QED
      BY <1>1, <2>1, <2>2, <3>1, <3>2, <3>3 DEF CallInv
  <2>5. left - 1 \in Nat /\ <<>> \in Seq(Int) /\ 0 \in Nat
    BY <1>1, <1>9
  <2>6. QED
    BY <1>1, <1>7, <2>1, <2>4, <2>5, Continues
<1>10. CASE ~(left > 1)
  <2> DEFINE n == IF reader = "multi" THEN Len(data) + 1 ELSE 0
             o == [ok |-> TRUE, n |-> n, data |-> d]
  <2>1. /\ outs' = Append(outs, o) /\ pc' = "idle" /\ left' = left /\ need' = need /\ data' = data
    BY <1>10 DEF GotText, Return
  <2>2. o \in Results
    <3>1. n \in Int /\ d \in Seq(Seq(Int))
      BY <1>7
    <3> HIDE DEF n, d
    <3>2. QED
      BY <3>1 DEF Results
  <2>3. Base(r, left) + Len(Plain(x)) = Len(Render(r))
    BY <1>3, <1>4, <1>10, ItemEnds
  <2>4. o = Told(f, r) /\ ~Leaves(f, r)
    <3>1. CASE left = 0
      <4>1. x = r /\ reader = "bulk" /\ data = <<>>
        BY <1>1, <3>1 DEF Item, Listed
      <4>2. f \in {"bulk", "generic"}
        BY <1>1, <1>2, <1>6, <4>1, ChosenIs
      <4>3. Accepts(f, r) /\ ~Leaves(f, r)
        BY <4>1, <4>2 DEF Accepts, Leaves, IsBulk
      <4>4. Told(f, r) = [ok |-> TRUE, n |-> 0, data |-> <<tx>>]
        BY <4>1, <4>3, ToldBulk
      <4>5. d = <<tx>> /\ n = 0
        <5> HIDE DEF tx
        <5>1. QED
          BY <4>1
      <4>6. QED
        BY <4>3, <4>4, <4>5
    <3>2. CASE left = 1
      <4>1. /\ reader = "multi" /\ r.t = "*" /\ Len(r.e) \in Nat
            /\ Len(d) = Len(r.e) - left + 1
            /\ \A k \in 1 .. Len(d) : IsBulk(r.e[k]) /\ d[k] = TextOf(r.e[k].v)
        <5>1. left > 0
          BY <3>2
        <5>2. QED
          BY <1>8, <5>1
      <4>2. f \in {"multi", "generic"}
        BY <1>1, <1>2, <1>6, <4>1, ChosenIs
      <4>3. Len(d) = Len(r.e)
        BY <3>2, <4>1
      <4>4. DOMAIN r.e = 1 .. Len(r.e)
        BY <1>6, <4>1, LenProperties
      <4>5. Accepts(f, r)
        BY <4>1, <4>2, <4>3, <4>4 DEF Accepts
      <4>6. ~Leaves(f, r)
        <5>1. \A k \in 1 .. Len(r.e) - 1 : k \in 1 .. Len(r.e)
          BY <4>1
        <5>2. QED
          BY <4>1, <4>2, <4>3, <5>1 DEF Leaves
      <4>7. Told(f, r) = [ok |-> TRUE, n |-> Len(r.e), data |-> d]
        <5>1. d \in Seq(Seq(Int))
          BY <1>7
        <5> HIDE DEF d
        <5>2. QED
          BY <1>6, <4>1, <4>3, <4>5, <5>1, ToldList
      <4>8. n = Len(r.e)
        BY <1>7, <4>1, <4>3
      <4>9. QED
        BY <4>6, <4>7, <4>8
    <3>3. QED
      BY <1>1, <1>10, <3>1, <3>2
  <2>5. <<>> \in Seq(Int)
    OBVIOUS
  <2> HIDE DEF o
  <2>6. QED
    BY <1>1, <2>1, <2>2, <2>3, <2>4, <2>5, Finishes
<1>11. QED
  BY <1>9, <1>10

-----------------------------------------------------------------------------
(* A line was read.  First the calls that end with it.                         *)
LEMMA SamePrefix ==
  ASSUME NEW t \in Kinds
  PROVE  /\ Prefix(t) = Prefix("+") <=> t = "+"
         /\ Prefix(t) = Prefix("-") <=> t = "-"
         /\ Prefix(t) = Prefix(":") <=> t = ":"
         /\ Prefix(t) = Prefix("$") <=> t \in {"$", "nil"}
         /\ Prefix(t) = Prefix("*") <=> t \in {"*", "nomulti"}
BY DEF Prefix, Kinds

LEMMA FirstLineEnds ==
  ASSUME NEW r, IsReply(r, DOMAIN Texts), NEW f,
         r.t = "$" => f \notin {"bulk", "generic"},
         r.t = "*" /\ Len(r.e) # 0 => f \notin {"multi", "generic"}
  PROVE  4 = Len(Render(r)) <=> ~Leaves(f, r)
<1>1. CASE r.t = "*"
  <2>1. r.e \in Seq(Plains) /\ Len(r.e) \in Nat
    BY <1>1, ReplyIs
  <2>2. (r.e = <<>>) <=> (Len(r.e) = 0)
    BY <2>1, EmptySeq
  <2>3. CASE Len(r.e) = 0
    <3>1. Len(Render(r)) = 4
      BY <1>1, <2>3, HeadEnds
    <3>2. ~\E k \in 1 .. Len(r.e) - 1 : ~IsBulk(r.e[k])
      BY <2>3
    <3>3. QED
      BY <1>1, <2>2, <2>3, <3>1, <3>2 DEF Leaves
  <2>4. CASE Len(r.e) # 0
    <3>1. 4 < Len(Render(r))
      BY <1>1, <2>4, HeadEnds
    <3>2. Len(Render(r)) \in Nat
      BY <1>1, <2>1, ListIs
    <3>3. Leaves(f, r)
      BY <1>1, <2>2, <2>4 DEF Leaves
    <3>4. \A n \in Nat : 4 < n => 4 # n
      OBVIOUS
    <3>5. QED
      BY <3>1, <3>2, <3>3, <3>4, Zenon
  <2>5. QED
    BY <2>3, <2>4
<1>2. CASE r.t # "*"
  <2>1. r \in Plains /\ Render(r) = Plain(r)
    BY <1>2, ReplyIs
  <2>2. /\ r.t # "$" => Len(Plain(r)) = 4
        /\ r.t = "$" => Len(Plain(r)) = 4 + (Len(Texts[r.v]) + 2)
    BY <2>1, PlainIs
  <2>3. r.t = "$" => Len(Texts[r.v]) \in Nat
    BY <2>1, PlainKinds, TextIs
  <2>4. CASE r.t = "$"
    <3>1. 4 # Len(Plain(r))
      <4>1. PICK n \in Nat : n = Len(Texts[r.v])
        BY <2>3, <2>4
      <4>2. Len(Plain(r)) = 4 + (n + 2)
        BY <2>2, <2>4, <4>1, Zenon
      <4>3. 4 # 4 + (n + 2)
        OBVIOUS
      <4>4. QED
        BY <4>2, <4>3, Zenon
    <3>2. Leaves(f, r)
      BY <2>4 DEF Leaves
    <3>3. QED
      BY <2>1, <3>1, <3>2
  <2>5. CASE r.t # "$"
    BY <1>2, <2>1, <2>2, <2>5 DEF Leaves
  <2>6. QED
    BY <2>4, <2>5
<1>3. QED
  BY <1>1, <1>2

LEMMA ThrowDone ==
  ASSUME ReaderInv, pc = "take", UNCHANGED <<calls, reader, closed>>,
         wire' \in Seq(Int), inbuf' \in Seq(Int), line' = <<>>, block' = <<>>, Throw,
         ~Accepts(Now.reader, Now.reply),
         NEW p, Synced(Render(Now.reply), p, inbuf', wire', closed'),
         p = Len(Render(Now.reply)) <=> ~Leaves(Now.reader, Now.reply)
  PROVE  ReaderInv'
<1> DEFINE o == [ok |-> FALSE, n |-> 0, data |-> <<>>]
<1>1. o \in Results /\ o = Told(Now.reader, Now.reply)
  <2>1. <<>> \in Seq(Seq(Int)) /\ 0 \in Int
    OBVIOUS
  <2>2. o \in Results
    BY <2>1 DEF Results
  <2>3. QED
    BY <2>2, ToldThrow
<1>2. /\ outs' = Append(outs, o) /\ pc' = "idle" /\ left' = left /\ need' = need /\ data' = data
  BY DEF Throw
<1>3. /\ reader' \in Readers \cup {"error"} /\ closed' \in BOOLEAN /\ calls' = calls
      /\ <<>> \in Seq(Int)
  BY DEF ReaderInv, ShapeInv, TypeOK
<1> HIDE DEF o
<1>4. QED
  BY <1>1, <1>2, <1>3, Finishes

LEMMA ReturnDone ==
  ASSUME ReaderInv, pc = "take", UNCHANGED <<calls, reader, closed>>,
         wire' \in Seq(Int), inbuf' \in Seq(Int), line' = <<>>, block' = <<>>,
         NEW n \in Int, Return(n, <<>>),
         Told(Now.reader, Now.reply) = [ok |-> TRUE, n |-> n, data |-> <<>>],
         NEW p, Synced(Render(Now.reply), p, inbuf', wire', closed'),
         p = Len(Render(Now.reply)) <=> ~Leaves(Now.reader, Now.reply)
  PROVE  ReaderInv'
<1> DEFINE o == [ok |-> TRUE, n |-> n, data |-> <<>>]
<1>1. o \in Results /\ o = Told(Now.reader, Now.reply)
  <2>1. <<>> \in Seq(Seq(Int))
    OBVIOUS
  <2>2. o \in Results
    BY <2>1 DEF Results
  <2>3. QED
    BY <2>2
<1>2. /\ outs' = Append(outs, o) /\ pc' = "idle" /\ left' = left /\ need' = need /\ data' = data
  BY DEF Return
<1>3. /\ reader' \in Readers \cup {"error"} /\ closed' \in BOOLEAN /\ calls' = calls
      /\ <<>> \in Seq(Int)
  BY DEF ReaderInv, ShapeInv, TypeOK
<1> HIDE DEF o
<1>4. QED
  BY <1>1, <1>2, <1>3, Finishes

(* p bytes of the reply were taken and a line is complete.                     *)
AfterLine(p) ==
  /\ UNCHANGED <<calls, reader, closed>> /\ line' = <<>> /\ block' = <<>>
  /\ wire' \in Seq(Int) /\ inbuf' \in Seq(Int)
  /\ Synced(Render(Now.reply), p, inbuf', wire', closed')

(* The two bytes rtrim leaves of the line of the item x.                       *)
LineOf(l, x) == l # <<>> /\ l[1] = Prefix(x.t) /\ Value(l[2]) = Worth(x)

LEMMA LineReplyDone ==
  ASSUME ReaderInv, pc = "take", left = 0, AfterLine(4), NEW l, LineOf(l, Now.reply),
         NEW t, NEW wanted, LineReply(l, t, wanted),
         \/ reader = "single" /\ t = "+" /\ wanted = {}
         \/ reader = "ok" /\ t = "+" /\ wanted = {OK}
         \/ reader = "error" /\ t = "-" /\ wanted = {}
         \/ reader = "int" /\ t = ":" /\ wanted = {}
         \/ reader = "intok" /\ t = ":" /\ wanted = {1}
  PROVE  ReaderInv'
<1> DEFINE r == Now.reply
           f == Now.reader
<1>1. ShapeInv /\ Len(calls) > 0 /\ reader = Chosen(f, r)
  BY DEF ReaderInv, CallInv
<1>2. f \in Readers /\ IsReply(r, DOMAIN Texts)
  BY <1>1, NowIs
<1> HIDE DEF f, r
<1>3. r.t \in Kinds /\ Worth(r) \in Int
  BY <1>2, ReplyIs
<1>4. /\ reader \in {"single", "ok", "int", "intok", "bulk", "multi", "error"}
      /\ f # "generic" => reader = f
      /\ f = "generic" => /\ r.t = "+" <=> reader = "single"
                          /\ r.t = "-" <=> reader = "error"
                          /\ r.t = ":" <=> reader = "int"
                          /\ r.t \in {"$", "nil"} <=> reader = "bulk"
                          /\ r.t \in {"*", "nomulti"} <=> reader = "multi"
                          /\ reader \notin {"ok", "intok"}
  BY <1>1, <1>2, <1>3, ChosenIs
<1>5. /\ r.t = "$" => f \notin {"bulk", "generic"}
      /\ r.t = "*" /\ Len(r.e) # 0 => f \notin {"multi", "generic"}
  BY <1>4
<1>6. 4 = Len(Render(r)) <=> ~Leaves(f, r)
  BY <1>2, <1>5, FirstLineEnds
<1>7. l[1] = Prefix(t) <=> r.t = t
  BY <1>3, SamePrefix DEF LineOf, r
<1>8. r.t \in {"+", "-", ":"} => Worth(r) = r.v
  BY DEF Worth
<1>9. Accepts(f, r) <=> r.t = t /\ (wanted = {} \/ r.v \in wanted)
  <2>1. f \in {"single", "ok", "int", "intok"} \/ f = "generic"
    BY <1>2, <1>4 DEF Readers
  <2>2. CASE f = "generic"
    <3>1. r.t = t /\ wanted = {} /\ t \in {"+", "-", ":"}
      BY <1>4, <2>2
    <3>2. QED
      BY <2>2, <3>1 DEF Accepts
  <2>3. CASE f = "single"
    BY <1>4, <2>3 DEF Accepts
  <2>4. CASE f = "ok"
    BY <1>4, <2>4 DEF Accepts
  <2>5. CASE f = "int"
    BY <1>4, <2>5 DEF Accepts
  <2>6. CASE f = "intok"
    BY <1>4, <2>6 DEF Accepts
  <2>7. QED
    BY <2>1, <2>2, <2>3, <2>4, <2>5, <2>6
<1>10. r.t = t => r.t \in {"+", "-", ":"}
  OBVIOUS
<1>11. CASE Accepts(f, r)
  <2>1. r.t \in {"+", "-", ":"} /\ r.v = Worth(r) /\ r.t # "*" /\ ~IsBulk(r)
    BY <1>8, <1>9, <1>10, <1>11 DEF IsBulk
  <2>2. Return(r.v, <<>>) /\ r.v \in Int
    BY <1>3, <1>7, <1>9, <1>11, <2>1 DEF LineReply, LineOf, r
  <2>3. Told(f, r) = [ok |-> TRUE, n |-> r.v, data |-> <<>>]
    BY <1>11, <2>1, ToldLine
  <2>4. QED
    BY <1>6, <2>2, <2>3, ReturnDone DEF AfterLine, f, r
<1>12. CASE ~Accepts(f, r)
  <2>1. Throw
    BY <1>7, <1>8, <1>9, <1>10, <1>12 DEF LineReply, LineOf, r
  <2>2. QED
    BY <1>6, <1>12, <2>1, ThrowDone DEF AfterLine, f, r
<1>13. QED
  BY <1>11, <1>12

LEMMA BulkLineDone ==
  ASSUME ReaderInv, pc = "take", NEW r, r = Now.reply, NEW x, x = Item(r, left),
         AfterLine(Base(r, left) + 4), NEW l, LineOf(l, x),
         left = 0 => reader = "bulk", BulkLine(l)
  PROVE  ReaderInv'
<1> DEFINE f == Now.reader
<1>1. /\ ShapeInv /\ Len(calls) > 0 /\ reader = Chosen(f, r)
      /\ Listed(r, reader, left, data) /\ left \in Nat
      /\ data \in Seq(Seq(Int)) /\ closed \in BOOLEAN /\ reader \in Readers \cup {"error"}
  BY DEF ReaderInv, CallInv, ShapeInv, TypeOK
<1>2. f \in Readers /\ IsReply(r, DOMAIN Texts)
  BY <1>1, NowIs
<1>3. Reading(r, left)
  BY <1>1, <1>2 DEF Reading, Listed
<1>4. /\ Render(r) \in Seq(Int) /\ Len(Render(r)) \in Nat /\ Base(r, left) \in Nat
      /\ x.t \in Kinds /\ (x.t # "*" => x \in Plains) /\ (left > 0 => x.t # "*")
      /\ x.t # "*" => Holds(Render(r), Base(r, left), Plain(x))
  BY <1>3, ItemIs
<1>5. r.t \in Kinds /\ (r.t = "*" => r.e \in Seq(Plains) /\ Len(r.e) \in Nat)
  BY <1>2, ReplyIs
<1>6. l[1] = Prefix("$") <=> IsBulk(x)
  BY <1>4, SamePrefix DEF LineOf, IsBulk
<1>7. CASE ~IsBulk(x)
  <2>1. Throw
    BY <1>6, <1>7 DEF BulkLine
  <2>2. CASE left = 0
    <3>1. x = r /\ reader = "bulk" /\ Base(r, left) + 4 = 4
      BY <2>2 DEF Item, Base
    <3>2. f = "bulk"
      <4>1. r.t \notin {"$", "nil"}
        BY <1>7, <3>1 DEF IsBulk
      <4> HIDE DEF f
      <4>2. f = "generic" => (r.t \in {"$", "nil"} <=> reader = "bulk")
        BY <1>1, <1>2, <1>5, ChosenIs
      <4>3. f # "generic" => reader = f
        BY <1>1, <1>2, <1>5, ChosenIs
      <4>4. QED
        BY <3>1, <4>1, <4>2, <4>3
    <3>3. ~Accepts(f, r)
      BY <1>7, <3>1, <3>2 DEF Accepts
    <3>4. 4 = Len(Render(r)) <=> ~Leaves(f, r)
      BY <1>2, <1>7, <3>1, <3>2, FirstLineEnds DEF IsBulk
    <3>5. QED
      BY <2>1, <3>1, <3>3, <3>4, ThrowDone DEF AfterLine
  <2>3. CASE left > 0
    <3>1. /\ reader = "multi" /\ r.t = "*" /\ left <= Len(r.e) /\ Len(data) = Len(r.e) - left
          /\ \A k \in 1 .. Len(data) : IsBulk(r.e[k])
          /\ r.e \in Seq(Plains) /\ Len(r.e) \in Nat
      BY <1>1, <1>5, <2>3 DEF Listed
    <3>2. f \in {"multi", "generic"}
      BY <1>1, <1>2, <1>5, <3>1, ChosenIs
    <3> DEFINE k == Len(r.e) - left + 1
    <3>3. k \in 1 .. Len(r.e) /\ DOMAIN r.e = 1 .. Len(r.e) /\ x = r.e[k]
      <4>1. k \in 1 .. Len(r.e)
        <5>1. \A n, m \in Nat : m > 0 /\ m <= n => n - m + 1 \in 1 .. n
          OBVIOUS
        <5>2. QED
          BY <1>1, <2>3, <3>1, <5>1
      <4>2. x = r.e[k]
        BY <1>1, <2>3 DEF Item
      <4>3. QED
        BY <3>1, <4>1, <4>2, LenProperties
    <3>4. ~Accepts(f, r)
      BY <1>7, <3>1, <3>2, <3>3 DEF Accepts
    <3>5. Len(Plain(x)) = 4
      BY <1>4, <1>7, <2>3, PlainIs DEF IsBulk
    <3>6. Base(r, left) + 4 = IF left > 1 THEN Base(r, left - 1) ELSE Len(Render(r))
      BY <1>3, <1>4, <2>3, <3>5, ItemEnds
    <3>7. Base(r, left) + 4 = Len(Render(r)) <=> ~Leaves(f, r)
      <4>1. CASE left > 1
        <5>1. Base(r, left - 1) < Len(Render(r)) /\ Base(r, left - 1) \in Nat
          <6>1. left - 1 > 0 /\ Reading(r, left - 1)
            BY <1>1, <1>3, <4>1, <3>1 DEF Reading
          <6>2. QED
            BY <6>1, ItemEnds, ItemIs
        <5>2. Base(r, left) + 4 # Len(Render(r))
          BY <1>4, <3>6, <4>1, <5>1
        <5>3. k \in 1 .. Len(r.e) - 1
          BY <1>1, <3>1, <4>1
        <5>4. Leaves(f, r)
          BY <1>7, <3>1, <3>2, <3>3, <5>3 DEF Leaves
        <5>5. QED
          BY <5>2, <5>4
      <4>2. CASE ~(left > 1)
        <5>1. left = 1 /\ Len(data) = Len(r.e) - 1
          BY <1>1, <2>3, <3>1, <4>2
        <5>2. ~Leaves(f, r)
          BY <3>1, <3>2, <5>1 DEF Leaves
        <5>3. QED
          BY <3>6, <4>2, <5>2
      <4>3. QED
        BY <4>1, <4>2
    <3>8. QED
      BY <2>1, <3>4, <3>7, ThrowDone DEF AfterLine
  <2>4. QED
    BY <1>1, <2>2, <2>3
<1>8. CASE x.t = "nil"
  <2>1. IsBulk(x) /\ Worth(x) = -1 /\ x \in Plains
    BY <1>4, <1>8 DEF IsBulk, Worth
  <2>2. GotText(TextOf(x.v))
    <3>1. TextOf(x.v) = Sentinel
      BY <1>8, <2>1, TextOfIs
    <3>2. QED
      BY <1>6, <2>1, <3>1 DEF BulkLine, LineOf
  <2>3. Len(Plain(x)) = 4
    BY <1>8, <2>1, PlainIs
  <2>4. Synced(Render(r), Base(r, left) + Len(Plain(x)), inbuf', wire', closed')
    BY <2>3 DEF AfterLine
  <2>5. pc \in {"take", "block"} /\ IsBulk(x)
    BY <2>1
  <2>6. QED
    BY <2>2, <2>4, <2>5, TextDone DEF AfterLine
<1>9. CASE x.t = "$"
  <2>1. IsBulk(x) /\ Worth(x) = Len(Texts[x.v]) /\ x \in Plains
    BY <1>4, <1>9 DEF IsBulk, Worth
  <2>2. x.v \in DOMAIN Texts /\ Len(Texts[x.v]) \in Nat
    BY <1>9, <2>1, PlainKinds, TextIs
  <2>3. /\ need' = Len(Texts[x.v]) + 2 /\ pc' = "block" /\ left' = left /\ data' = data
        /\ outs' = outs
    BY <1>6, <2>1, <2>2 DEF BulkLine, LineOf
  <2>4. AtBlock(r, left, <<>>, need', inbuf', wire', closed')
    <3>1. Len(<<>>) = 0 /\ Base(r, left) + 4 + 0 = Base(r, left) + 4
      BY <1>4
    <3>2. need' = Len(Texts[x.v]) + 2 - 0 /\ need' > 0
      BY <2>2, <2>3
    <3>3. Len(Plain(x)) = 4 + (Len(Texts[x.v]) + 2)
      BY <1>9, <2>1, PlainIs
    <3>4. Base(r, left) + 4 <= Len(Render(r))
      <4>1. Base(r, left) + Len(Plain(x)) <= Len(Render(r))
        BY <1>4, <1>9 DEF Holds
      <4>2. QED
        BY <1>4, <2>2, <3>3, <4>1
    <3>5. Holds(Render(r), Base(r, left) + 4, <<>>)
      BY <1>4, <3>1, <3>4 DEF Holds
    <3>6. QED
      BY <1>9, <3>1, <3>2, <3>5 DEF AtBlock, AfterLine
  <2>5. CallInv'
    <3>1. Now' = Now /\ calls' = calls /\ reader' = reader
      BY DEF Now, AfterLine
    <3>2. TypeInv' /\ PeekInv' /\ LineInv'
      BY <2>3 DEF TypeInv, PeekInv, LineInv
    <3>3. BlockInv'
      BY <2>3, <2>4, <3>1 DEF BlockInv, AfterLine
    <3>4. QED
      BY <1>1, <2>3, <3>1, <3>2, <3>3 DEF CallInv
  <2>6. need' \in Nat /\ <<>> \in Seq(Int)
    BY <2>2, <2>3
  <2>7. QED
    BY <1>1, <2>3, <2>5, <2>6, Continues DEF AfterLine
<1>10. QED
  BY <1>7, <1>8, <1>9 DEF IsBulk

LEMMA MultiLineDone ==
  ASSUME ReaderInv, pc = "take", left = 0, NEW r, r = Now.reply, AfterLine(4),
         NEW l, LineOf(l, r), reader = "multi", MultiLine(l)
  PROVE  ReaderInv'
<1> DEFINE f == Now.reader
<1>1. /\ ShapeInv /\ Len(calls) > 0 /\ reader = Chosen(f, r)
      /\ Listed(r, reader, left, data) /\ left \in Nat /\ need \in Nat
      /\ data \in Seq(Seq(Int)) /\ closed \in BOOLEAN /\ reader \in Readers \cup {"error"}
  BY DEF ReaderInv, CallInv, ShapeInv, TypeOK
<1>2. f \in Readers /\ IsReply(r, DOMAIN Texts)
  BY <1>1, NowIs
<1>3. /\ r.t \in Kinds /\ (r.t = "*" => r.e \in Seq(Plains) /\ Len(r.e) \in Nat)
      /\ Render(r) \in Seq(Int)
  BY <1>1, <1>2, ReplyIs, NowIs
<1>4. f \in {"multi", "generic"} /\ (f = "generic" => r.t \in {"*", "nomulti"})
  <2> HIDE DEF f
  <2>1. f = "generic" => (r.t \in {"*", "nomulti"} <=> reader = "multi")
    BY <1>1, <1>2, <1>3, ChosenIs
  <2>2. f # "generic" => reader = f
    BY <1>1, <1>2, <1>3, ChosenIs
  <2>3. QED
    BY <2>1, <2>2
<1>5. l[1] = Prefix("*") <=> r.t \in {"*", "nomulti"}
  BY <1>3, SamePrefix DEF LineOf
<1>6. CASE r.t # "*"
  <2>1. Throw
    <3>1. r.t = "nomulti" => Value(l[2]) = -1
      BY DEF LineOf, Worth
    <3>2. QED
      BY <1>5, <1>6, <3>1 DEF MultiLine
  <2>2. ~Accepts(f, r)
    BY <1>4, <1>6 DEF Accepts
  <2>3. 4 = Len(Render(r)) <=> ~Leaves(f, r)
    BY <1>2, <1>4, <1>6, FirstLineEnds
  <2>4. QED
    BY <2>1, <2>2, <2>3, ThrowDone DEF AfterLine
<1>7. CASE r.t = "*" /\ Len(r.e) = 0
  <2>1. Value(l[2]) = 0 /\ l[1] = Prefix("*") /\ l # <<>>
    BY <1>5, <1>7 DEF LineOf, Worth
  <2>2. Return(0, <<>>)
    BY <2>1 DEF MultiLine
  <2>3. r.e = <<>> /\ DOMAIN r.e = {} /\ Len(<<>>) = 0
    BY <1>3, <1>7, EmptySeq
  <2>4. Accepts(f, r) /\ ~Leaves(f, r)
    <3>1. Accepts(f, r)
      BY <1>4, <1>7, <2>3 DEF Accepts
    <3>2. ~\E k \in 1 .. Len(r.e) - 1 : ~IsBulk(r.e[k])
      BY <1>7
    <3>3. ~Leaves(f, r)
      BY <1>4, <1>7, <2>3, <3>2 DEF Leaves
    <3>4. QED
      BY <3>1, <3>3
  <2>5. Told(f, r) = [ok |-> TRUE, n |-> 0, data |-> <<>>]
    <3>1. <<>> \in Seq(Int) /\ \A k \in 1 .. Len(<<>>) : <<>>[k] = TextOf(r.e[k].v)
      BY <2>3
    <3>2. Told(f, r) = [ok |-> TRUE, n |-> Len(r.e), data |-> <<>>]
      BY <1>3, <1>7, <2>3, <2>4, <3>1, ToldList
    <3>3. QED
      BY <1>7, <3>2
  <2>6. Len(Render(r)) = 4
    BY <1>2, <1>7, HeadEnds
  <2>7. 4 = Len(Render(r)) <=> ~Leaves(f, r)
    BY <2>4, <2>6
  <2>8. 0 \in Int
    OBVIOUS
  <2>9. QED
    BY <2>2, <2>5, <2>7, <2>8, ReturnDone DEF AfterLine
<1>8. CASE r.t = "*" /\ Len(r.e) # 0
  <2> DEFINE n == Len(r.e)
  <2>1. n \in Nat /\ n > 0 /\ Value(l[2]) = n /\ l[1] = Prefix("*") /\ l # <<>>
    BY <1>3, <1>5, <1>8 DEF LineOf, Worth
  <2>2. left' = n /\ pc' = "peek" /\ need' = need /\ data' = data /\ outs' = outs
    BY <2>1 DEF MultiLine
  <2>3. Reading(r, n) /\ Base(r, n) = 4 /\ 4 < Len(Render(r)) /\ Len(Render(r)) \in Nat
    BY <1>2, <1>3, <1>8, HeadEnds, LenProperties
  <2>4. AtLine(r, n, <<>>, inbuf', wire', closed')
    <3>1. Len(<<>>) = 0 /\ 4 + 0 = 4
      OBVIOUS
    <3>2. Holds(Render(r), 4, <<>>)
      BY <2>3, <3>1 DEF Holds
    <3>3. QED
      BY <2>3, <3>1, <3>2 DEF AtLine, AfterLine
  <2>5. Listed(r, reader, n, data)
    <3>1. data = <<>> /\ Len(<<>>) = 0 /\ n - n = 0 /\ n <= n /\ n # 0
      BY <1>1, <2>1 DEF Listed
    <3>2. QED
      BY <1>8, <3>1 DEF Listed
  <2>6. CallInv'
    <3>1. Now' = Now /\ calls' = calls /\ reader' = reader
      BY DEF Now, AfterLine
    <3>2. TypeInv' /\ PeekInv' /\ BlockInv'
      BY <2>2 DEF TypeInv, PeekInv, BlockInv
    <3>3. LineInv'
      BY <2>2, <2>4, <3>1 DEF LineInv, AfterLine
    <3>4. QED
      BY <1>1, <2>2, <2>5, <3>1, <3>2, <3>3 DEF CallInv
  <2>7. left' \in Nat /\ need' \in Nat /\ <<>> \in Seq(Int) /\ data' \in Seq(Seq(Int))
    BY <1>1, <2>1, <2>2
  <2>8. QED
    BY <1>1, <2>2, <2>6, <2>7, Continues DEF AfterLine
<1>9. QED
  BY <1>6, <1>7, <1>8

-----------------------------------------------------------------------------
(* The calls of recv(), one by one.                                            *)
LEMMA SameFront ==
  ASSUME NEW i \in Seq(Int), NEW q \in Seq(Int), Holds(i, 0, q), NEW k \in 0 .. Len(q)
  PROVE  SubSeq(q, 1, k) = SubSeq(i, 1, k) /\ k \in 0 .. Len(i)
<1>1. Len(q) \in Nat /\ Len(i) \in Nat /\ Len(q) <= Len(i) /\ \A j \in 1 .. Len(q) : i[j] = q[j]
  <2>1. Len(q) \in Nat /\ Len(i) \in Nat
    BY LenProperties
  <2>2. 0 + Len(q) <= Len(i) /\ \A j \in 1 .. Len(q) : i[0 + j] = q[j]
    BY DEF Holds
  <2>3. QED
    BY <2>1, <2>2
<1>2. k \in 0 .. Len(i)
  BY <1>1
<1> DEFINE u == SubSeq(q, 1, k)
           v == SubSeq(i, 1, k)
<1>3. u \in Seq(Int) /\ Len(u) = k /\ \A j \in 1 .. k : u[j] = q[j]
  BY SplitIs
<1>4. v \in Seq(Int) /\ Len(v) = k /\ \A j \in 1 .. k : v[j] = i[j]
  BY <1>2, SplitIs
<1> HIDE DEF u, v
<1>5. \A j \in 1 .. k : u[j] = v[j]
  <2>1. \A j \in 1 .. k : j \in 1 .. Len(q)
    BY <1>1
  <2>2. QED
    BY <1>1, <1>3, <1>4, <2>1, Zenon
<1>6. u = v
  BY <1>3, <1>4, <1>5, SeqEqual
<1>7. QED
  BY <1>2, <1>6 DEF u, v

LEMMA HoldsIn ==
  ASSUME NEW d \in Seq(Int), NEW p \in Nat, NEW w \in Seq(Int), Holds(d, p, w),
         NEW q \in Nat, NEW v \in Seq(Int), Holds(w, q, v)
  PROVE  Holds(d, p + q, v)
<1>1. Len(d) \in Nat /\ Len(w) \in Nat /\ Len(v) \in Nat
  BY LenProperties
<1>2. p + Len(w) <= Len(d) /\ q + Len(v) <= Len(w)
  BY DEF Holds
<1>3. ASSUME NEW j \in 1 .. Len(v) PROVE d[p + q + j] = v[j]
  <2>1. q + j \in 1 .. Len(w) /\ p + q + j = p + (q + j)
    BY <1>1, <1>2
  <2>2. QED
    BY <2>1 DEF Holds
<1>4. p + q + Len(v) <= Len(d)
  BY <1>1, <1>2
<1>5. QED
  BY <1>3, <1>4 DEF Holds

(* LineRead goes on with the function that was chosen.                         *)
LEMMA LineDone ==
  ASSUME ReaderInv, pc = "take", NEW r, r = Now.reply, NEW x, x = Item(r, left),
         AfterLine(Base(r, left) + 4), NEW l, LineOf(l, x), LineRead(l)
  PROVE  ReaderInv'
<1>1. /\ ShapeInv /\ Len(calls) > 0 /\ reader = Chosen(Now.reader, r) /\ left \in Nat
  BY DEF ReaderInv, CallInv, ShapeInv, TypeOK
<1>2. CASE left > 0
  <2>1. left # 0
    BY <1>2
  <2>2. BulkLine(l)
    BY <1>2, <2>1 DEF LineRead
  <2>3. QED
    BY <2>1, <2>2, BulkLineDone
<1>3. CASE left = 0
  <2>1. x = r /\ Base(r, left) + 4 = 4 /\ ~(left > 0)
    BY <1>3 DEF Item, Base
  <2>2. AfterLine(4) /\ LineOf(l, Now.reply)
    BY <2>1
  <2>3. reader \in {"single", "ok", "int", "intok", "bulk", "multi", "error"}
    <3>1. Now.reader \in Readers /\ r.t \in Kinds
      BY <1>1, NowIs, ReplyIs
    <3>2. QED
      BY <1>1, <3>1, ChosenIs
  <2>4. CASE reader = "bulk"
    <3>1. BulkLine(l)
      BY <1>3, <2>1, <2>4 DEF LineRead
    <3>2. QED
      BY <2>4, <3>1, BulkLineDone
  <2>5. CASE reader = "multi"
    <3>1. MultiLine(l)
      BY <1>3, <2>1, <2>5 DEF LineRead
    <3>2. QED
      BY <1>3, <2>1, <2>2, <2>5, <3>1, MultiLineDone
  <2>6. CASE reader = "single"
    <3>1. LineReply(l, "+", {})
      BY <1>3, <2>1, <2>6 DEF LineRead
    <3>2. QED
      BY <1>3, <2>2, <2>6, <3>1, LineReplyDone
  <2>7. CASE reader = "ok"
    <3>1. LineReply(l, "+", {OK})
      BY <1>3, <2>1, <2>7 DEF LineRead
    <3>2. QED
      BY <1>3, <2>2, <2>7, <3>1, LineReplyDone
  <2>8. CASE reader = "error"
    <3>1. LineReply(l, "-", {})
      BY <1>3, <2>1, <2>8 DEF LineRead
    <3>2. QED
      BY <1>3, <2>2, <2>8, <3>1, LineReplyDone
  <2>9. CASE reader = "int"
    <3>1. LineReply(l, ":", {})
      BY <1>3, <2>1, <2>9 DEF LineRead
    <3>2. QED
      BY <1>3, <2>2, <2>9, <3>1, LineReplyDone
  <2>10. CASE reader = "intok"
    <3>1. LineReply(l, ":", {1})
      BY <1>3, <2>1, <2>10 DEF LineRead
    <3>2. QED
      BY <1>3, <2>2, <2>10, <3>1, LineReplyDone
  <2>11. QED
    BY <2>3, <2>4, <2>5, <2>6, <2>7, <2>8, <2>9, <2>10
<1>4. QED
  BY <1>1, <1>2, <1>3

LEMMA TakeStep ==
  ASSUME ReaderInv, Take
  PROVE  ReaderInv'
<1> DEFINE r == Now.reply
           x == Item(r, left)
           s == Render(r)
           b == Base(r, left)
           got == line \o SubSeq(peeked, 1, ToRead)
<1>1. /\ pc = "take" /\ ShapeInv /\ Len(calls) > 0 /\ Listed(r, reader, left, data)
      /\ reader = Chosen(Now.reader, r)
      /\ left \in Nat /\ need \in Nat /\ wire \in Seq(Int) /\ inbuf \in Seq(Int)
      /\ line \in Seq(Int) /\ data \in Seq(Seq(Int)) /\ closed \in BOOLEAN
      /\ reader \in Readers \cup {"error"}
  BY DEF Take, ReaderInv, CallInv, ShapeInv, TypeOK
<1>2. /\ Len(line) <= 3 /\ Holds(s, b, line) /\ Synced(s, b + Len(line), inbuf, wire, closed)
      /\ peeked \in Seq(Int) /\ Len(peeked) > 0 /\ Holds(inbuf, 0, peeked)
  BY <1>1 DEF ReaderInv, CallInv, LineInv, PeekInv, AtLine
<1>3. IsReply(r, DOMAIN Texts)
  BY <1>1, NowIs
<1>4. Reading(r, left)
  BY <1>1, <1>3 DEF Reading, Listed
<1>5. /\ s \in Seq(Int) /\ b \in Nat /\ x.t \in Kinds /\ Worth(x) \in Int
      /\ Holds(s, b, Line(x.t, Worth(x)))
  BY <1>4, ItemIs
<1>6. /\ inbuf' = SubSeq(inbuf, ToRead + 1, Len(inbuf)) /\ block' = <<>>
      /\ wire' = wire /\ closed' = closed /\ calls' = calls /\ reader' = reader
  BY DEF Take
<1> HIDE DEF r, x, s, b
<1>7. /\ HasEol <=> Len(line) + Len(peeked) >= 4
      /\ HasEol => ToRead = 4 - Len(line)
      /\ ~HasEol => ToRead = Len(peeked)
  <2>1. Holds(s, b + Len(line), inbuf)
    BY <1>2 DEF Synced
  <2>2. QED
    BY <1>1, <1>2, <1>5, <2>1, EolIs
<1>8. Len(line) \in Nat /\ Len(peeked) \in Nat
  BY <1>1, <1>2, LenProperties
<1>9. ToRead \in 0 .. Len(peeked)
  BY <1>2, <1>7, <1>8
<1>10. SubSeq(peeked, 1, ToRead) = SubSeq(inbuf, 1, ToRead) /\ ToRead \in 0 .. Len(inbuf)
  BY <1>1, <1>2, <1>9, SameFront
<1>11. /\ inbuf' \in Seq(Int) /\ got \in Seq(Int) /\ Len(got) = Len(line) + ToRead
       /\ Holds(s, b, got) /\ Synced(s, b + (Len(line) + ToRead), inbuf', wire, closed)
  <2>1. Collected(s, b, line, inbuf, wire, closed)
    BY <1>1, <1>2, <1>5 DEF Collected
  <2>2. /\ Collected(s, b, line \o SubSeq(inbuf, 1, ToRead),
                     SubSeq(inbuf, ToRead + 1, Len(inbuf)), wire, closed)
        /\ Len(line \o SubSeq(inbuf, 1, ToRead)) = Len(line) + ToRead
    BY <1>10, <2>1, Taken
  <2>3. Collected(s, b, got, inbuf', wire, closed) /\ Len(got) = Len(line) + ToRead
    BY <1>6, <1>10, <2>2
  <2> HIDE DEF got
  <2>4. QED
    BY <2>3 DEF Collected
<1>12. CASE HasEol
  <2>1. Len(line) + ToRead = 4
    BY <1>7, <1>8, <1>12
  <2>2. line' = <<>> /\ LineRead(rtrim(got))
    BY <1>12 DEF Take
  <2> HIDE DEF got
  <2>3. rtrim(got) = <<Prefix(x.t), Number(Worth(x))>>
    <3>1. Len(got) = 4
      BY <1>11, <2>1
    <3>2. QED
      BY <1>5, <1>11, <3>1, LineEnds, Zenon
  <2> DEFINE l == <<Prefix(x.t), Number(Worth(x))>>
  <2>4. LineOf(l, x) /\ LineRead(l)
    <3>1. l # <<>> /\ l[1] = Prefix(x.t) /\ l[2] = Number(Worth(x))
      OBVIOUS
    <3>2. Value(Number(Worth(x))) = Worth(x)
      BY <1>5, NumberIs
    <3> HIDE DEF l
    <3>3. QED
      BY <2>2, <2>3, <3>1, <3>2 DEF LineOf, l
  <2> HIDE DEF l
  <2>5. AfterLine(b + 4)
    BY <1>1, <1>6, <1>11, <2>1, <2>2 DEF AfterLine, s, r
  <2>6. QED
    BY <1>1, <2>4, <2>5, LineDone DEF x, r, b
<1>13. CASE ~HasEol
  <2>1. line' = line \o peeked /\ pc' = "peek" /\ UNCHANGED <<left, need, data, outs>>
    BY <1>13 DEF Take
  <2>2. got = line'
    <3>1. SubSeq(peeked, 1, Len(peeked)) = peeked
      BY <1>2, SubSeqFull
    <3>2. QED
      BY <1>7, <1>13, <2>1, <3>1
  <2>3. Len(line') <= 3 /\ Len(line') = Len(line) + ToRead
    <3>1. Len(line) + ToRead <= 3
      BY <1>7, <1>8, <1>13
    <3>2. QED
      BY <1>11, <2>2, <3>1
  <2> HIDE DEF got
  <2>4. AtLine(r, left, line', inbuf', wire', closed')
    BY <1>6, <1>11, <2>2, <2>3 DEF AtLine, s, b
  <2>5. CallInv'
    <3>1. Now' = Now /\ calls' = calls /\ reader' = reader /\ left' = left /\ data' = data
      BY <1>6, <2>1 DEF Now
    <3>2. TypeInv' /\ PeekInv' /\ BlockInv'
      BY <2>1 DEF TypeInv, PeekInv, BlockInv
    <3>3. LineInv'
      BY <2>1, <2>4, <3>1 DEF LineInv, r
    <3>4. QED
      BY <1>1, <2>1, <3>1, <3>2, <3>3 DEF CallInv, r
  <2>6. line' \in Seq(Int) /\ <<>> \in Seq(Int)
    BY <1>11, <2>2
  <2>7. QED
    BY <1>1, <1>6, <1>11, <2>1, <2>5, <2>6, Continues
<1>14. QED
  BY <1>12, <1>13

LEMMA ReadNStep ==
  ASSUME ReaderInv, ReadN
  PROVE  ReaderInv'
<1> DEFINE r == Now.reply
           x == Item(r, left)
           s == Render(r)
           b == Base(r, left) + 4
           text == Texts[x.v]
           k == IF Len(inbuf) < need THEN Len(inbuf) ELSE need
           got == block \o SubSeq(inbuf, 1, k)
<1>1. /\ pc = "block" /\ ShapeInv /\ Len(calls) > 0 /\ Listed(r, reader, left, data)
      /\ reader = Chosen(Now.reader, r)
      /\ left \in Nat /\ need \in Nat /\ wire \in Seq(Int) /\ inbuf \in Seq(Int)
      /\ line \in Seq(Int) /\ block \in Seq(Int) /\ data \in Seq(Seq(Int)) /\ closed \in BOOLEAN
      /\ reader \in Readers \cup {"error"}
  BY DEF ReadN, ReaderInv, CallInv, ShapeInv, TypeOK
<1>2. /\ line = <<>> /\ (left = 0 => reader = "bulk") /\ x.t = "$"
      /\ need = Len(text) + 2 - Len(block) /\ need > 0
      /\ Holds(s, b, block) /\ Synced(s, b + Len(block), inbuf, wire, closed)
  BY <1>1 DEF ReaderInv, CallInv, BlockInv, AtBlock
<1>3. IsReply(r, DOMAIN Texts)
  BY <1>1, NowIs
<1>4. Reading(r, left)
  BY <1>1, <1>3 DEF Reading, Listed
<1>5. /\ s \in Seq(Int) /\ Base(r, left) \in Nat /\ b \in Nat /\ x \in Plains
      /\ Holds(s, Base(r, left), Plain(x))
  BY <1>2, <1>4, ItemIs
<1>6. /\ Plain(x) \in Seq(Int) /\ Len(Plain(x)) = 4 + (Len(text) + 2)
      /\ Holds(Plain(x), 4, text \o <<CR, LF>>)
      /\ text \in Seq(Int) /\ Len(text) \in Nat
      /\ text \o <<CR, LF>> \in Seq(Int) /\ Len(text \o <<CR, LF>>) = Len(text) + 2
  BY <1>2, <1>5, PlainIs, PlainKinds, TextIs
<1>7. /\ inbuf' = SubSeq(inbuf, k + 1, Len(inbuf))
      /\ wire' = wire /\ closed' = closed /\ calls' = calls /\ reader' = reader /\ line' = line
      /\ k < need => block' = got /\ need' = need - k /\ UNCHANGED <<pc, left, data, outs>>
      /\ ~(k < need) => block' = <<>> /\ GotText(SubSeq(got, 1, Len(got) - 2))
  BY DEF ReadN
<1>8. Len(inbuf) \in Nat /\ Len(block) \in Nat
  BY <1>1, LenProperties
<1>9. k \in 0 .. Len(inbuf) /\ k <= need
  BY <1>1, <1>8
<1> HIDE DEF r, x, s, text, k
<1>10. Collected(s, b, got, inbuf', wire, closed) /\ Len(got) = Len(block) + k
  <2> HIDE DEF b
  <2>1. Collected(s, b, block, inbuf, wire, closed)
    BY <1>1, <1>2, <1>5 DEF Collected
  <2>2. /\ Collected(s, b, block \o SubSeq(inbuf, 1, k), SubSeq(inbuf, k + 1, Len(inbuf)), wire, closed)
        /\ Len(block \o SubSeq(inbuf, 1, k)) = Len(block) + k
    BY <1>9, <2>1, Taken
  <2>3. QED
    BY <1>7, <2>2
<1> HIDE DEF got
<1>11. /\ got \in Seq(Int) /\ inbuf' \in Seq(Int) /\ Holds(s, b, got)
       /\ Synced(s, b + Len(got), inbuf', wire, closed) /\ <<>> \in Seq(Int)
  BY <1>10 DEF Collected
<1>12. CASE k < need
  <2>1. /\ block' = got /\ need' = need - k /\ pc' = "block" /\ left' = left /\ data' = data
        /\ outs' = outs
    BY <1>1, <1>7, <1>12
  <2>2. need' = Len(text) + 2 - Len(got) /\ need' > 0 /\ need' \in Nat
    BY <1>1, <1>2, <1>6, <1>8, <1>9, <1>10, <1>12, <2>1
  <2>3. AtBlock(r, left, got, need', inbuf', wire', closed')
    BY <1>2, <1>7, <1>11, <2>2 DEF AtBlock, s, b, x, text
  <2>4. CallInv'
    <3>1. Now' = Now /\ calls' = calls /\ reader' = reader /\ left' = left /\ data' = data
      BY <1>7, <2>1 DEF Now
    <3>2. TypeInv' /\ PeekInv' /\ LineInv'
      BY <2>1 DEF TypeInv, PeekInv, LineInv
    <3>3. BlockInv'
      BY <1>2, <1>7, <2>1, <2>3, <3>1 DEF BlockInv, r
    <3>4. QED
      BY <1>1, <2>1, <3>1, <3>2, <3>3 DEF CallInv, r
  <2>5. QED
    BY <1>1, <1>7, <1>11, <2>1, <2>2, <2>4, Continues
<1>13. CASE ~(k < need)
  <2>1. k = need /\ Len(got) = Len(text) + 2
    BY <1>1, <1>2, <1>6, <1>8, <1>9, <1>10, <1>13
  <2> DEFINE w == text \o <<CR, LF>>
  <2>2. w \in Seq(Int) /\ Len(w) = Len(text) + 2 /\ Holds(Plain(x), 4, w)
    BY <1>6
  <2>3. \A j \in 1 .. Len(text) : w[j] = text[j]
    <3>1. <<CR, LF>> \in Seq(Int)
      BY DEF CR, LF
    <3>2. QED
      BY <1>6, <3>1, ConcatIs
  <2> HIDE DEF w
  <2>4. Holds(s, b, w)
    <3>1. 4 \in Nat
      OBVIOUS
    <3>2. Holds(s, Base(r, left) + 4, w)
      BY <1>5, <1>6, <2>2, <3>1, HoldsIn
    <3>3. QED
      BY <3>2
  <2>5. \A j \in 1 .. Len(text) : got[j] = text[j]
    <3> TAKE j \in 1 .. Len(text)
    <3>1. j \in 1 .. Len(got) /\ j \in 1 .. Len(w)
      BY <1>6, <2>1, <2>2
    <3>2. s[b + j] = got[j] /\ s[b + j] = w[j]
      BY <1>11, <2>4, <3>1 DEF Holds
    <3>3. QED
      BY <2>3, <3>2
  <2>6. SubSeq(got, 1, Len(got) - 2) = text
    <3> DEFINE u == SubSeq(got, 1, Len(text))
    <3>1. Len(got) - 2 = Len(text) /\ Len(text) \in 0 .. Len(got)
      BY <1>6, <2>1
    <3>2. u \in Seq(Int) /\ Len(u) = Len(text) /\ \A j \in 1 .. Len(text) : u[j] = got[j]
      BY <1>11, <3>1, SplitIs
    <3> HIDE DEF u
    <3>3. u = text
      BY <1>6, <2>5, <3>2, SeqEqual
    <3>4. QED
      BY <3>1, <3>3 DEF u
  <2>7. GotText(TextOf(x.v)) /\ block' = <<>> /\ IsBulk(x)
    <3>1. IsBulk(x)
      BY <1>2 DEF IsBulk
    <3>2. TextOf(x.v) = text
      BY <1>2, <1>5, <3>1, TextOfIs DEF text
    <3>3. QED
      BY <1>7, <1>13, <2>6, <3>1, <3>2
  <2>8. Synced(s, Base(r, left) + Len(Plain(x)), inbuf', wire', closed')
    <3>1. b + Len(got) = Base(r, left) + Len(Plain(x))
      BY <1>5, <1>6, <2>1
    <3>2. QED
      BY <1>7, <1>11, <3>1
  <2>9. /\ pc \in {"take", "block"} /\ wire' \in Seq(Int) /\ inbuf' \in Seq(Int) /\ line' = <<>>
        /\ UNCHANGED <<calls, reader, closed>>
    BY <1>1, <1>2, <1>7, <1>11
  <2>10. QED
    BY <1>2, <2>7, <2>8, <2>9, TextDone DEF s, x, r
<1>14. QED
  BY <1>12, <1>13

LEMMA PeekTypeStep ==
  ASSUME ReaderInv, PeekType
  PROVE  ReaderInv'
<1> DEFINE r == Now.reply
           s == Render(r)
<1>1. /\ pc = "type" /\ ShapeInv /\ Len(calls) > 0 /\ Listed(r, reader, left, data)
      /\ left \in Nat /\ need \in Nat /\ wire \in Seq(Int) /\ inbuf \in Seq(Int)
      /\ line \in Seq(Int) /\ block \in Seq(Int) /\ data \in Seq(Seq(Int)) /\ closed \in BOOLEAN
      /\ inbuf # <<>>
  BY DEF PeekType, ReaderInv, CallInv, ShapeInv, TypeOK
<1>2. Now.reader = "generic" /\ left = 0 /\ line = <<>> /\ Synced(s, 0, inbuf, wire, closed)
  BY <1>1 DEF ReaderInv, CallInv, TypeInv
<1>3. IsReply(r, DOMAIN Texts) /\ s \in Seq(Int) /\ Reading(r, 0)
  BY <1>1, NowIs
<1>4. r.t \in Kinds /\ Worth(r) \in Int
  BY <1>3, ReplyIs
<1>5. inbuf[1] = Prefix(r.t)
  <2>1. Len(inbuf) \in Nat /\ Len(inbuf) # 0
    BY <1>1, LenProperties, EmptySeq
  <2>2. 1 \in 1 .. Len(inbuf) /\ 0 + 1 = 1
    BY <2>1
  <2>3. s[1] = inbuf[1]
    BY <1>2, <2>2 DEF Synced, Holds
  <2>4. Holds(s, 0, Line(r.t, Worth(r)))
    BY <1>3, ItemIs DEF Item, Base
  <2>5. Len(Line(r.t, Worth(r))) = 4 /\ Line(r.t, Worth(r))[1] = Prefix(r.t)
    BY <1>4, LineIs
  <2> DEFINE l == Line(r.t, Worth(r))
  <2> HIDE DEF l, s, r
  <2>6. Holds(s, 0, l) /\ 1 \in 1 .. Len(l) /\ l[1] = Prefix(r.t)
    BY <2>4, <2>5 DEF l
  <2>7. s[0 + 1] = l[1]
    BY <2>6 DEF Holds
  <2>8. QED
    BY <2>2, <2>3, <2>6, <2>7
<1>6. /\ wire' = wire /\ inbuf' = inbuf /\ closed' = closed /\ calls' = calls /\ line' = line
      /\ block' = block
  BY DEF PeekType
<1> HIDE DEF r, s
<1>7. /\ pc' = "peek" /\ reader' = Chosen("generic", r)
      /\ left' = left /\ need' = need /\ data' = data /\ outs' = outs
  <2>1. /\ inbuf[1] = Prefix("+") <=> r.t = "+"
        /\ inbuf[1] = Prefix("-") <=> r.t = "-"
        /\ inbuf[1] = Prefix(":") <=> r.t = ":"
        /\ inbuf[1] = Prefix("$") <=> r.t \in {"$", "nil"}
        /\ inbuf[1] = Prefix("*") <=> r.t \in {"*", "nomulti"}
    BY <1>4, <1>5, SamePrefix
  <2>2. \E t \in {"+", "-", ":", "$", "*"} : inbuf[1] = Prefix(t)
    BY <1>4, <2>1 DEF Kinds
  <2>3. /\ pc' = "peek" /\ left' = left /\ need' = need /\ data' = data /\ outs' = outs
        /\ reader' = CASE inbuf[1] = Prefix("+") -> "single" [] inbuf[1] = Prefix("-") -> "error"
                       [] inbuf[1] = Prefix(":") -> "int" [] inbuf[1] = Prefix("$") -> "bulk"
                       [] inbuf[1] = Prefix("*") -> "multi"
    BY <2>2 DEF PeekType
  <2>4. QED
    BY <1>4, <2>1, <2>3 DEF Chosen, Kinds
<1>8. reader' \in Readers \cup {"error"}
  <2>1. "generic" \in Readers
    BY DEF Readers
  <2>2. QED
    BY <1>4, <1>7, <2>1, ChosenIs DEF Readers
<1>9. CallInv'
  <2>1. Now' = Now
    BY <1>6 DEF Now
  <2>2. TypeInv' /\ PeekInv' /\ BlockInv'
    BY <1>7 DEF TypeInv, PeekInv, BlockInv
  <2>3. AtLine(r, 0, <<>>, inbuf, wire, closed)
    <3>1. Len(<<>>) = 0 /\ Len(s) \in Nat
      BY <1>3, LenProperties
    <3>2. Holds(s, 0, <<>>)
      BY <3>1 DEF Holds
    <3>3. QED
      BY <1>2, <3>1, <3>2 DEF AtLine, Base, s
  <2>4. LineInv'
    BY <1>2, <1>6, <1>7, <2>1, <2>3 DEF LineInv, r
  <2>5. Listed(r, reader', left, data)
    BY <1>1, <1>2 DEF Listed
  <2>6. QED
    BY <1>1, <1>2, <1>6, <1>7, <2>1, <2>2, <2>4, <2>5 DEF CallInv, r
<1>10. QED
  BY <1>1, <1>6, <1>7, <1>8, <1>9, Continues

LEMMA PeekStep ==
  ASSUME ReaderInv, Peek
  PROVE  ReaderInv'
<1>1. /\ pc = "peek" /\ ShapeInv /\ Len(calls) > 0 /\ inbuf # <<>>
      /\ left \in Nat /\ need \in Nat /\ wire \in Seq(Int) /\ inbuf \in Seq(Int)
      /\ line \in Seq(Int) /\ block \in Seq(Int) /\ data \in Seq(Seq(Int)) /\ closed \in BOOLEAN
      /\ reader \in Readers \cup {"error"}
  BY DEF Peek, ReaderInv, CallInv, ShapeInv, TypeOK
<1> DEFINE k == IF Len(inbuf) < buffer_size THEN Len(inbuf) ELSE buffer_size
<1>2. /\ peeked' = SubSeq(inbuf, 1, k) /\ pc' = "take"
      /\ UNCHANGED <<wire, inbuf, closed, calls, reader, line, block, need, left, data, outs>>
  BY DEF Peek
<1>3. Len(inbuf) \in Nat /\ Len(inbuf) # 0
  BY <1>1, LenProperties, EmptySeq
<1>4. k \in 0 .. Len(inbuf) /\ k > 0
  BY <1>3, BufferAssumption
<1> HIDE DEF k
<1>5. peeked' \in Seq(Int) /\ Len(peeked') = k /\ \A j \in 1 .. k : peeked'[j] = inbuf[j]
  BY <1>1, <1>2, <1>4, SplitIs
<1>6. PeekInv'
  <2>1. Holds(inbuf, 0, peeked')
    BY <1>3, <1>4, <1>5 DEF Holds
  <2>2. QED
    BY <1>2, <1>4, <1>5, <2>1 DEF PeekInv
<1>7. CallInv'
  <2>1. Now' = Now
    BY <1>2 DEF Now
  <2>2. TypeInv' /\ BlockInv'
    BY <1>2 DEF TypeInv, BlockInv
  <2>3. LineInv'
    BY <1>1, <1>2, <2>1 DEF LineInv, ReaderInv, CallInv
  <2>4. QED
    BY <1>1, <1>2, <1>6, <2>1, <2>2, <2>3 DEF CallInv, ReaderInv
<1>8. QED
  BY <1>1, <1>2, <1>7, Continues


(* recv_or_throw finds the end of the connection.                              *)
LEMMA ClosedStep ==
  ASSUME ReaderInv, Closed
  PROVE  ReaderInv'
<1>1. /\ pc \notin {"idle", "broken"} /\ pc' = "broken"
      /\ wire \in Seq(Int) /\ inbuf \in Seq(Int) /\ line \in Seq(Int) /\ block \in Seq(Int)
      /\ data \in Seq(Seq(Int)) /\ left \in Nat /\ need \in Nat /\ closed \in BOOLEAN
      /\ reader \in Readers \cup {"error"}
      /\ UNCHANGED <<wire, inbuf, closed, calls, reader, peeked, line, block, need, left, data, outs>>
  BY DEF Closed, ReaderInv, ShapeInv, TypeOK
<1>2. CallInv'
  BY <1>1 DEF CallInv
<1>3. QED
  BY <1>1, <1>2, Continues

(* Bytes move between the wire and the socket, or are lost: the call is where  *)
(* it was in its reply.                                                       *)
LEMMA Moves ==
  ASSUME ReaderInv, UNCHANGED <<calls, pc, reader, peeked, line, block, need, left, data, outs>>,
         inbuf' \in Seq(Int), wire' \in Seq(Int), closed' \in BOOLEAN,
         \A s \in Seq(Int) : \A p :
            Synced(s, p, inbuf, wire, closed) => Synced(s, p, inbuf', wire', closed'),
         \A q \in Seq(Int) : Holds(inbuf, 0, q) => Holds(inbuf', 0, q),
         inbuf = <<>> /\ wire = <<>> => inbuf' = <<>> /\ wire' = <<>>,
         ~closed' => ~closed /\ Len(inbuf') + Len(wire') = Len(inbuf) + Len(wire)
  PROVE  ReaderInv'
<1>1. /\ ShapeInv /\ CallInv /\ CutInv /\ OutcomesRight
      /\ calls' = calls /\ pc' = pc /\ reader' = reader /\ peeked' = peeked /\ line' = line
      /\ block' = block /\ need' = need /\ left' = left /\ data' = data /\ outs' = outs
  BY DEF ReaderInv
<1>2. ShapeInv'
  BY <1>1 DEF ShapeInv, TypeOK
<1>3. OutcomesRight'
  BY <1>1 DEF OutcomesRight
<1>4. CutInv'
  <2>1. Cut' <=> Cut
    BY <1>1 DEF Cut
  <2>2. QED
    BY <1>1, <2>1 DEF CutInv
<1>5. CallInv'
  <2> SUFFICES ASSUME pc \notin {"idle", "broken"} PROVE CallInv'
    BY <1>1 DEF CallInv
  <2>1. /\ Len(calls) > 0 /\ TypeInv /\ LineInv /\ PeekInv /\ BlockInv
        /\ pc # "type" => reader = Chosen(Now.reader, Now.reply)
        /\ Listed(Now.reply, reader, left, data)
    BY <1>1 DEF CallInv
  <2>2. Now' = Now
    BY <1>1 DEF Now
  <2> DEFINE r == Now.reply
             s == Render(r)
  <2>3. s \in Seq(Int)
    BY <1>1, <2>1, NowIs
  <2> HIDE DEF s
  <2>4. \A p : Synced(s, p, inbuf, wire, closed) => Synced(s, p, inbuf', wire', closed')
    BY <2>3
  <2>5. TypeInv'
    BY <1>1, <2>1, <2>2, <2>4 DEF TypeInv, s
  <2>6. LineInv'
    <3>1. AtLine(r, left, line, inbuf, wire, closed) => AtLine(r, left, line, inbuf', wire', closed')
      BY <2>4 DEF AtLine, s
    <3>2. QED
      BY <1>1, <2>1, <2>2, <3>1 DEF LineInv
  <2>7. PeekInv'
    BY <1>1, <2>1 DEF PeekInv
  <2>8. BlockInv'
    <3>1. AtBlock(r, left, block, need, inbuf, wire, closed)
            => AtBlock(r, left, block, need, inbuf', wire', closed')
      BY <2>4 DEF AtBlock, s
    <3>2. QED
      BY <1>1, <2>1, <2>2, <3>1 DEF BlockInv
  <2>9. QED
    BY <1>1, <2>1, <2>2, <2>5, <2>6, <2>7, <2>8 DEF CallInv
<1>6. QED
  BY <1>2, <1>3, <1>4, <1>5 DEF ReaderInv

LEMMA DeliverStep ==
  ASSUME ReaderInv, NEW k \in 1 .. Len(wire), Deliver(k)
  PROVE  ReaderInv'
<1>1. /\ wire \in Seq(Int) /\ inbuf \in Seq(Int) /\ closed \in BOOLEAN
      /\ inbuf' = inbuf \o SubSeq(wire, 1, k) /\ wire' = SubSeq(wire, k + 1, Len(wire))
      /\ closed' = closed
      /\ UNCHANGED <<calls, pc, reader, peeked, line, block, need, left, data, outs>>
  BY DEF Deliver, ReaderInv, ShapeInv, TypeOK
<1>2. Len(wire) \in Nat /\ Len(inbuf) \in Nat /\ k \in 0 .. Len(wire) /\ Len(wire) > 0
  BY <1>1, LenProperties
<1> DEFINE a == SubSeq(wire, 1, k)
<1>3. a \in Seq(Int) /\ Len(a) = k /\ wire' \in Seq(Int) /\ Len(wire') = Len(wire) - k
  BY <1>1, <1>2, SplitIs
<1> HIDE DEF a
<1>4. /\ inbuf \o a \in Seq(Int) /\ Len(inbuf \o a) = Len(inbuf) + Len(a)
      /\ \A j \in 1 .. Len(inbuf) : (inbuf \o a)[j] = inbuf[j]
  BY <1>1, <1>3, ConcatIs
<1>5. inbuf' = inbuf \o a
  BY <1>1 DEF a
<1>6. Len(inbuf') + Len(wire') = Len(inbuf) + Len(wire) /\ inbuf' \in Seq(Int)
  <2>1. inbuf' \in Seq(Int) /\ Len(inbuf') = Len(inbuf) + k
    BY <1>3, <1>4, <1>5, Zenon
  <2>2. \A m, n \in Nat : m + k + (n - k) = m + n
    BY <1>2
  <2>3. QED
    BY <1>2, <1>3, <2>1, <2>2, Zenon
<1>7. \A s \in Seq(Int) : \A p :
        Synced(s, p, inbuf, wire, closed) => Synced(s, p, inbuf', wire', closed')
  BY <1>1, Delivered
<1>8. ASSUME NEW q \in Seq(Int), Holds(inbuf, 0, q) PROVE Holds(inbuf', 0, q)
  <2>1. Len(q) \in Nat /\ Len(inbuf') \in Nat /\ 0 \in Nat
    BY <1>6, LenProperties
  <2>2. Holds(inbuf', 0, inbuf)
    BY <1>2, <1>3, <1>4, <1>5 DEF Holds
  <2>3. QED
    <3>1. Holds(inbuf', 0 + 0, q)
      BY <1>1, <1>6, <1>8, <2>2, HoldsIn
    <3>2. QED
      BY <3>1
<1>9. ~(inbuf = <<>> /\ wire = <<>>)
  <2>1. Len(<<>>) = 0
    OBVIOUS
  <2>2. QED
    BY <1>2, <2>1
<1>10. QED
  BY <1>1, <1>3, <1>6, <1>7, <1>8, <1>9, Moves

LEMMA CloseStep ==
  ASSUME ReaderInv, Close
  PROVE  ReaderInv'
<1>1. /\ wire \in Seq(Int) /\ inbuf \in Seq(Int)
      /\ inbuf' = inbuf /\ wire' = <<>> /\ closed' = TRUE
      /\ UNCHANGED <<calls, pc, reader, peeked, line, block, need, left, data, outs>>
  BY DEF Close, ReaderInv, ShapeInv
<1>2. \A s \in Seq(Int) : \A p :
        Synced(s, p, inbuf, wire, closed) => Synced(s, p, inbuf', wire', closed')
  BY <1>1, Lost
<1>3. wire' \in Seq(Int) /\ inbuf' \in Seq(Int) /\ closed' \in BOOLEAN
  BY <1>1
<1>4. QED
  BY <1>1, <1>2, <1>3, Moves

(* A call begins: nothing was left for it, so its reply is all there is.       *)
LEMMA ReceiveStep ==
  ASSUME ReaderInv, NEW p \in Pairs \cup Later, Receive(p)
  PROVE  ReaderInv'
<1>1. /\ pc = "idle" /\ ~Cut /\ Len(calls) < MaxRecv /\ CutInv /\ OutcomesRight
      /\ calls \in Seq(Pairs \cup Later) /\ outs \in Seq(Results) /\ Len(outs) = Len(calls)
      /\ block \in Seq(Int) /\ need \in Nat /\ closed \in BOOLEAN
  BY DEF Receive, ReaderInv, ShapeInv, TypeOK
<1>2. /\ calls' = Append(calls, p) /\ reader' = p.reader
      /\ pc' = IF p.reader = "generic" THEN "type" ELSE "peek"
      /\ wire' = IF closed THEN wire ELSE wire \o Render(p.reply)
      /\ line' = <<>> /\ data' = <<>> /\ left' = 0
      /\ inbuf' = inbuf /\ closed' = closed /\ block' = block /\ need' = need /\ outs' = outs
  BY DEF Receive
<1>3. inbuf = <<>> /\ wire = <<>>
  BY <1>1 DEF CutInv
<1>4. Len(calls) \in Nat /\ DOMAIN calls = 1 .. Len(calls) /\ DOMAIN outs = 1 .. Len(calls)
  BY <1>1, LenProperties
<1>5. /\ calls' \in Seq(Pairs \cup Later) /\ Len(calls') = Len(calls) + 1
      /\ \A k \in 1 .. Len(calls) : calls'[k] = calls[k]
      /\ calls'[Len(calls) + 1] = p
  BY <1>1, <1>2, AppendProperties
<1>6. Now' = p
  BY <1>5 DEF Now
<1>7. p.reader \in Readers /\ IsReply(p.reply, DOMAIN Texts)
  BY ReplyAssumption
<1> DEFINE s == Render(p.reply)
<1>8. s \in Seq(Int) /\ Len(s) \in Nat
  <2>1. Reading(p.reply, 0)
    BY <1>7 DEF Reading
  <2>2. QED
    BY <2>1, ItemIs
<1> HIDE DEF s
<1>9. PICK e : e = <<>>
  OBVIOUS
<1>10. e \in Seq(Int) /\ Len(e) = 0 /\ e \o s = s
  BY <1>8, <1>9, ConcatEmptySeq
<1>11. wire' = IF closed THEN e ELSE s
  BY <1>2, <1>3, <1>9, <1>10 DEF s
<1>12. wire' \in Seq(Int) /\ inbuf' = e
  BY <1>2, <1>3, <1>8, <1>9, <1>10, <1>11
<1>13. Synced(s, 0, e, wire', closed)
  <2>1. Holds(s, 0, e) /\ Holds(s, 0, s)
    BY <1>8, <1>10 DEF Holds
  <2>2. Holds(s, 0 + Len(e), wire')
    BY <1>10, <1>11, <2>1
  <2>3. ~closed => 0 + Len(e) + Len(wire') = Len(s)
    BY <1>8, <1>10, <1>11
  <2>4. QED
    BY <2>1, <2>2, <2>3 DEF Synced
<1>14. pc' \in {"type", "peek"} /\ reader' \in Readers
  BY <1>2, <1>7
<1>15. ShapeInv'
  <2>1. TypeOK'
    <3>1. Len(outs') <= Len(calls') /\ Len(calls') <= MaxRecv
      BY <1>1, <1>2, <1>4, <1>5, BufferAssumption
    <3>2. QED
      BY <1>1, <1>2, <1>14, <3>1 DEF TypeOK
  <2>2. Len(outs') = Len(calls') - 1
    BY <1>1, <1>2, <1>4, <1>5
  <2>3. line' \in Seq(Int) /\ data' \in Seq(Seq(Int))
    BY <1>2
  <2>4. QED
    BY <1>1, <1>2, <1>5, <1>10, <1>12, <1>14, <2>1, <2>2, <2>3 DEF ShapeInv
<1>16. CutInv'
  <2>1. ASSUME NEW k \in 1 .. Len(calls') - 1 PROVE ~Leaves(calls'[k].reader, calls'[k].reply)
    <3>1. k \in 1 .. Len(calls) /\ k \in DOMAIN calls
      BY <1>4, <1>5
    <3>2. QED
      BY <1>1, <1>5, <3>1 DEF Cut
  <2>2. QED
    BY <1>14, <2>1 DEF CutInv
<1>17. OutcomesRight'
  BY <1>1, <1>2, <1>4, <1>5 DEF OutcomesRight
<1>18. CallInv'
  <2>1. Len(calls') > 0
    BY <1>4, <1>5
  <2>2. pc' # "type" => reader' = Chosen(p.reader, p.reply)
    BY <1>2 DEF Chosen
  <2>3. TypeInv'
    BY <1>2, <1>6, <1>12, <1>13 DEF TypeInv, s
  <2>4. LineInv'
    <3>1. AtLine(p.reply, 0, e, e, wire', closed)
      <4>1. Holds(s, 0, e) /\ 0 + Len(e) = 0
        BY <1>10, <1>13 DEF Synced
      <4>2. QED
        BY <1>10, <1>13, <4>1 DEF AtLine, Base, s
    <3>2. QED
      BY <1>2, <1>6, <1>9, <1>12, <3>1 DEF LineInv
  <2>5. PeekInv' /\ BlockInv'
    BY <1>14 DEF PeekInv, BlockInv
  <2>6. Listed(p.reply, reader', left', data')
    BY <1>2 DEF Listed
  <2>7. QED
    BY <1>6, <2>1, <2>2, <2>3, <2>4, <2>5, <2>6 DEF CallInv
<1>19. QED
  BY <1>15, <1>16, <1>17, <1>18 DEF ReaderInv

-----------------------------------------------------------------------------
LEMMA ReaderStart == Init => ReaderInv
<1> SUFFICES ASSUME Init PROVE ReaderInv
  OBVIOUS
<1>1. ShapeInv
  <2>1. "ok" \in Readers
    BY DEF Readers
  <2>2. PICK e : e = <<>>
    OBVIOUS
  <2>3. /\ Len(e) = 0 /\ e \in Seq(Int) /\ e \in Seq(Seq(Int)) /\ e \in Seq(Results)
        /\ e \in Seq(Pairs \cup Later)
    BY <2>2
  <2>4. /\ wire = e /\ inbuf = e /\ line = e /\ block = e /\ data = e /\ calls = e /\ outs = e
        /\ pc = "idle" /\ reader = "ok" /\ closed = FALSE /\ need = 0 /\ left = 0
    BY <2>2, Zenon DEF Init
  <2>5. TypeOK
    <3>1. Len(outs) <= Len(calls) /\ Len(calls) <= MaxRecv
      <4>1. Len(outs) = 0 /\ Len(calls) = 0
        BY <2>3, <2>4, Zenon
      <4>2. QED
        BY <4>1, BufferAssumption
    <3>2. reader \in Readers \cup {"error"}
      BY <2>1, <2>4
    <3>3. QED
      BY <2>4, <3>1, <3>2 DEF TypeOK
  <2>6. QED
    BY <2>3, <2>4, <2>5 DEF ShapeInv
<1>2. CallInv
  BY DEF Init, CallInv
<1>3. CutInv
  <2>1. calls = <<>> /\ inbuf = <<>> /\ wire = <<>>
    BY DEF Init
  <2>2. ~Cut
    BY <2>1 DEF Cut
  <2>3. Len(calls) = 0
    BY <2>1
  <2>4. QED
    BY <2>1, <2>2, <2>3 DEF CutInv
<1>4. OutcomesRight
  BY DEF Init, OutcomesRight
<1>5. QED
  BY <1>1, <1>2, <1>3, <1>4 DEF ReaderInv

LEMMA ReaderStep == ReaderInv /\ [Next]_vars => ReaderInv'
<1> SUFFICES ASSUME ReaderInv, [Next]_vars PROVE ReaderInv'
  OBVIOUS
<1>1. CASE PeekType
  BY <1>1, PeekTypeStep
<1>2. CASE Peek
  BY <1>2, PeekStep
<1>3. CASE Take
  BY <1>3, TakeStep
<1>4. CASE ReadN
  BY <1>4, ReadNStep
<1>5. CASE Closed
  BY <1>5, ClosedStep
<1>6. CASE Arrive
  BY <1>6, DeliverStep DEF Arrive
<1>7. CASE Close
  BY <1>7, CloseStep
<1>8. CASE \E p \in Pairs \cup Later : Receive(p)
  BY <1>8, ReceiveStep
<1>9. CASE UNCHANGED vars
  <2>1. UNCHANGED <<calls, pc, reader, peeked, line, block, need, left, data, outs>>
        /\ inbuf' = inbuf /\ wire' = wire /\ closed' = closed
    BY <1>9 DEF vars
  <2>2. inbuf' \in Seq(Int) /\ wire' \in Seq(Int) /\ closed' \in BOOLEAN
    BY <2>1 DEF ReaderInv, ShapeInv, TypeOK
  <2>3. QED
    BY <2>1, <2>2, Moves
<1>10. QED
  <2>1. Next => \/ PeekType \/ Peek \/ Take \/ ReadN \/ Closed \/ Arrive \/ Close
                \/ \E p \in Pairs \cup Later : Receive(p)
    BY DEF Next, Step
  <2>2. QED
    BY <1>1, <1>2, <1>3, <1>4, <1>5, <1>6, <1>7, <1>8, <1>9, <2>1

(* Where a call is in its reply follows from its state, whatever the pieces in *)
(* which the bytes arrive and whenever the server closes.                      *)
THEOREM ReaderHolds == Spec => []ReaderInv
<1>1. QED
  BY ReaderStart, ReaderStep, PTL DEF Spec

(* One call of a receive function of redisclient.h consumes one reply to its    *)
(* last byte, whether it returns or throws; the calls Leaves() names are       *)
(* exactly those that leave something for the next call to find.               *)
THEOREM OneReplyHolds == Spec => []OneReplyPerCall
<1>1. ReaderInv => OneReplyPerCall
  <2> SUFFICES ASSUME ReaderInv PROVE OneReplyPerCall
    OBVIOUS
  <2>1. TypeOK /\ CutInv /\ inbuf \in Seq(Int) /\ wire \in Seq(Int)
    BY DEF ReaderInv, ShapeInv
  <2>2. /\ inbuf \o wire \in Seq(Int) /\ Len(inbuf) \in Nat /\ Len(wire) \in Nat
        /\ Len(inbuf \o wire) = Len(inbuf) + Len(wire)
    BY <2>1, ConcatIs
  <2>3. inbuf \o wire = <<>> <=> Len(inbuf) + Len(wire) = 0
    BY <2>2, EmptySeq
  <2>4. inbuf = <<>> /\ wire = <<>> => Len(inbuf) + Len(wire) = 0
    OBVIOUS
  <2>5. Len(inbuf) + Len(wire) > 0 => Len(inbuf) + Len(wire) # 0
    BY <2>2
  <2>6. QED
    BY <2>1, <2>3, <2>4, <2>5 DEF OneReplyPerCall, CutInv
<1>2. QED
  BY <1>1, ReaderHolds, PTL

(* What a call returns, or that it throws, is what RedisReply says of the reply *)
(* it met: the texts of a bulk and a multi bulk reply byte by byte.            *)
THEOREM OutcomesHold == Spec => []OutcomesRight
<1>1. ReaderInv => OutcomesRight
  BY DEF ReaderInv
<1>2. QED
  BY <1>1, ReaderHolds, PTL
=============================================================================
