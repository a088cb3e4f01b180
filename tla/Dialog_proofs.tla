---------------------------- MODULE Dialog_proofs ----------------------------
(***************************************************************************)
(* Proofs about the dialog CHQTESTDlg: how OnInitDialog spreads the stocks  *)
(* over the threads, for any number of threads and any sizes of the arrays *)
(* that satisfy PartitionAssumption (the code's 20, 3000 and 400 do); and   *)
(* when OnTimer triggers them, for any times at which the dialog is opened, *)
(* any gaps between timer messages up to 28 seconds and any number of days. *)
(***************************************************************************)
EXTENDS Dialog, TLAPS

LEMMA DivFacts ==
  ASSUME NEW m \in Nat, NEW n \in Nat \ {0}
  PROVE  /\ m \div n \in Nat
         /\ n * (m \div n) <= m
         /\ m < n * (m \div n) + n
  OBVIOUS

LEMMA ProductInNat ==
  ASSUME NEW a \in Nat, NEW b \in Nat
  PROVE  a * b \in Nat
  OBVIOUS

(* Slices of equal length follow each other.                                *)
LEMMA SlicesInOrder ==
  ASSUME NEW per \in Nat, NEW a \in Nat, NEW b \in Nat, a < b
  PROVE  a * per + per <= b * per
<1>1. PICK d \in Nat : b = a + 1 + d
  <2>1. b - a - 1 \in Nat /\ b = a + 1 + (b - a - 1)
    OBVIOUS
  <2>2. QED
    BY <2>1
<1>2. b * per = a * per + per + d * per
  BY <1>1
<1>3. d * per \in Nat /\ a * per \in Nat
  BY ProductInNat
<1>4. QED
  BY <1>2, <1>3

(* The slice a stock falls into.                                            *)
LEMMA SliceOf ==
  ASSUME NEW per \in Nat, NEW t \in Nat, NEW k \in Nat, k < t * per
  PROVE  \E w \in 0 .. t - 1 : w * per <= k /\ k < w * per + per
<1>1. per # 0
  BY ProductInNat
<1>2. DEFINE w == k \div per
<1>3. w \in Nat /\ per * w <= k /\ k < per * w + per
  BY <1>1, DivFacts
<1>4. w < t
  <2>1. SUFFICES ASSUME t <= w PROVE FALSE
    BY <1>3
  <2>2. t * per <= w * per
    <3>1. CASE t = w
      BY <3>1, <1>3
    <3>2. CASE t < w
      BY <3>2, <1>3, SlicesInOrder, ProductInNat
    <3>3. QED
      BY <2>1, <1>3, <3>1, <3>2
  <2>3. w * per = per * w /\ w * per \in Nat /\ t * per \in Nat
    BY <1>3, ProductInNat
  <2>4. QED
    BY <1>3, <2>2, <2>3
<1>5. w * per = per * w
  BY <1>3
<1>6. QED
  BY <1>3, <1>4, <1>5

-----------------------------------------------------------------------------
Per == StockPerTread(m_istock)

(* What the threads created so far were given.                              *)
SlicesInv ==
  /\ i = -1 => ~fault /\ m_istock = 0
  /\ \A w \in Workers :
       w < i /\ w < TREADNUM - 1 => first[w] = w * Per /\ num[w] = Per
  /\ i = TREADNUM =>
       \/ /\ (TREADNUM - 1) * Per < m_istock
          /\ first[TREADNUM - 1] = (TREADNUM - 1) * Per
          /\ num[TREADNUM - 1] = m_istock - (TREADNUM - 1) * Per
       \/ m_istock = 0

(* The inductive invariant.                                                 *)
PartInv ==
  /\ TypeOK
  /\ SlicesInv
  /\ OnlyLoadOverruns
  /\ i >= 0 /\ m_istock > TABLESIZE => fault

LEMMA PerFacts ==
  ASSUME TypeOK
  PROVE  /\ Per \in Nat
         /\ TREADNUM * Per <= m_istock
         /\ m_istock < TREADNUM * Per + TREADNUM
         /\ (TREADNUM - 1) * Per \in Nat
         /\ TREADNUM * Per = (TREADNUM - 1) * Per + Per
<1> USE PartitionAssumption
<1>1. m_istock \in Nat
  BY DEF TypeOK
<1>2. /\ Per \in Nat
      /\ TREADNUM * Per <= m_istock
      /\ m_istock < TREADNUM * Per + TREADNUM
  BY <1>1, DivFacts DEF Per, StockPerTread
<1>3. TREADNUM - 1 \in Nat
  OBVIOUS
<1>4. (TREADNUM - 1) * Per \in Nat
  BY <1>2, <1>3, ProductInNat
<1>5. QED
  BY <1>2, <1>4

(* Division is monotonic, so the largest table gives the largest slices.    *)
LEMMA DivMonotonic ==
  ASSUME NEW m \in Nat, NEW b \in Nat, NEW n \in Nat \ {0}, m <= b
  PROVE  m \div n <= b \div n
<1> DEFINE x == m \div n
           y == b \div n
<1>1. x \in Nat /\ y \in Nat /\ n * x <= m /\ b < n * y + n
  BY DivFacts
<1>2. SUFFICES ASSUME y < x PROVE FALSE
  BY <1>1
<1>3. y * n + n <= x * n
  BY <1>1, <1>2, SlicesInOrder
<1>4. y * n = n * y /\ x * n = n * x /\ n * y \in Nat /\ n * x \in Nat
  BY <1>1, ProductInNat
<1>5. QED
  BY <1>1, <1>3, <1>4

(* Neither kind of slice is longer than m_stockcode[].                      *)
LEMMA SlicesFit ==
  ASSUME TypeOK, m_istock <= TABLESIZE
  PROVE  /\ Per <= SLICESIZE
         /\ m_istock - (TREADNUM - 1) * Per <= SLICESIZE
<1> USE PartitionAssumption
<1>1. Per <= TABLESIZE \div TREADNUM
  BY DivMonotonic DEF TypeOK, Per, StockPerTread
<1>2. TABLESIZE \div TREADNUM \in Nat
  BY DivFacts
<1>3. m_istock \in Nat
  BY DEF TypeOK
<1>4. m_istock - (TREADNUM - 1) * Per <= Per + TREADNUM - 1
  BY <1>3, PerFacts
<1>5. QED
  BY <1>1, <1>2, <1>3, <1>4, PerFacts

LEMMA InitPartInv == Init => PartInv
<1> SUFFICES ASSUME Init PROVE PartInv
  OBVIOUS
<1> USE PartitionAssumption
<1>1. TypeOK
  <2>1. fault \in BOOLEAN
    BY DEF Init
  <2>2. QED
    BY <2>1 DEF Init, TypeOK, Workers
<1>2. SlicesInv
  BY DEF Init, SlicesInv, Workers
<1>3. QED
  BY <1>1, <1>2 DEF Init, PartInv, OnlyLoadOverruns

LEMMA NextPartInv == PartInv /\ [Next]_vars => PartInv'
<1> SUFFICES ASSUME PartInv, [Next]_vars PROVE PartInv'
  OBVIOUS
<1> USE PartitionAssumption
<1>0. TypeOK /\ SlicesInv /\ OnlyLoadOverruns
  BY DEF PartInv
<1>1. ASSUME NEW rows \in RowCounts, LoadStocks(rows) PROVE PartInv'
  <2>1. fault' \in BOOLEAN /\ (fault' <=> rows > TABLESIZE)
    <3>1. fault' \in BOOLEAN
      BY <1>1 DEF LoadStocks
    <3>2. fault' => rows > TABLESIZE
      BY <1>1 DEF LoadStocks
    <3>3. rows > TABLESIZE => fault'
      BY <1>1 DEF LoadStocks
    <3>4. QED
      BY <3>1, <3>2, <3>3
  <2>2. m_istock' = rows /\ rows \in Nat /\ i' = 0 /\ UNCHANGED <<first, num>>
    BY <1>1 DEF LoadStocks
  <2>3. TypeOK'
    BY <1>0, <2>1, <2>2 DEF TypeOK
  <2>4. SlicesInv'
    BY <2>2 DEF SlicesInv, Workers
  <2>5. QED
    BY <2>1, <2>2, <2>3, <2>4 DEF PartInv, OnlyLoadOverruns
<1>2. ASSUME NEW w \in Workers, NEW n \in Nat, NewQuotation(w, n),
             n <= SLICESIZE, UNCHANGED m_istock, i \in Workers, i' = i + 1,
             w = i, ~fault,
             \/ w < TREADNUM - 1 /\ n = Per
             \/ /\ w = TREADNUM - 1 /\ n = m_istock - w * Per
                /\ w * Per < m_istock
      PROVE  PartInv'
  <2>0. w \in Nat /\ Per \in Nat /\ w * Per \in Nat
    BY <1>0, PerFacts, ProductInNat DEF Workers
  <2>1. ~fault' /\ fault' \in BOOLEAN
    <3>1. ~(n > SLICESIZE)
      BY <1>2
    <3>2. fault' \in BOOLEAN
      BY <1>2 DEF NewQuotation
    <3>3. fault' => n > SLICESIZE
      BY <1>2 DEF NewQuotation
    <3>4. QED
      BY <3>1, <3>2, <3>3
  <2>2. /\ first' = [first EXCEPT ![w] = w * Per]
        /\ num' = [num EXCEPT ![w] = n]
    BY <1>2 DEF NewQuotation, Per
  <2>3. TypeOK'
    <3>1. first' \in [Workers -> Nat] /\ num' \in [Workers -> Nat \cup {-1}]
      BY <1>0, <1>2, <2>0, <2>2 DEF TypeOK
    <3>2. i' \in -1 .. TREADNUM /\ m_istock' \in Nat
      BY <1>0, <1>2 DEF TypeOK, Workers
    <3>3. QED
      BY <2>1, <3>1, <3>2 DEF TypeOK
  <2>4. Per' = Per
    BY <1>2 DEF Per, StockPerTread
  <2>5. SlicesInv'
    <3>1. i' # -1
      BY <1>2 DEF Workers
    <3>2. ASSUME NEW v \in Workers, v < i', v < TREADNUM - 1
          PROVE  first'[v] = v * Per /\ num'[v] = Per
      <4>1. CASE v = w
        BY <1>0, <1>2, <2>2, <3>2, <4>1 DEF TypeOK
      <4>2. CASE v # w
        <5>1. v < i
          BY <1>2, <3>2, <4>2 DEF Workers
        <5>2. QED
          BY <1>0, <2>2, <3>2, <4>2, <5>1 DEF TypeOK, SlicesInv
      <4>3. QED
        BY <4>1, <4>2
    <3>3. ASSUME i' = TREADNUM
          PROVE  /\ (TREADNUM - 1) * Per < m_istock
                 /\ first'[TREADNUM - 1] = (TREADNUM - 1) * Per
                 /\ num'[TREADNUM - 1] = m_istock - (TREADNUM - 1) * Per
      <4>1. w = TREADNUM - 1
        BY <1>2, <3>3 DEF Workers
      <4>2. n = m_istock - w * Per /\ w * Per < m_istock
        BY <1>2, <4>1
      <4>3. QED
        BY <1>0, <2>2, <4>1, <4>2 DEF TypeOK
    <3>4. QED
      BY <1>2, <2>4, <3>1, <3>2, <3>3 DEF SlicesInv
  <2>6. m_istock <= TABLESIZE
    <3>1. ~(m_istock > TABLESIZE)
      BY <1>0, <1>2 DEF PartInv, Workers
    <3>2. QED
      BY <1>0, <3>1 DEF TypeOK
  <2>7. QED
    BY <1>0, <1>2, <2>1, <2>3, <2>5, <2>6 DEF PartInv, OnlyLoadOverruns, TypeOK
<1>3. i >= 0 /\ ~fault => m_istock <= TABLESIZE
  <2>1. i >= 0 /\ ~fault => ~(m_istock > TABLESIZE)
    BY DEF PartInv
  <2>2. QED
    BY <1>0, <2>1 DEF TypeOK
<1>4. CASE CreateWorker
  <2>1. i \in Workers /\ i < TREADNUM - 1 /\ ~fault /\ i' = i + 1
    BY <1>4 DEF CreateWorker, Workers
  <2>2. Per \in Nat /\ Per <= SLICESIZE
    BY <1>0, <1>3, <2>1, PerFacts, SlicesFit DEF Workers
  <2>3. NewQuotation(i, Per) /\ UNCHANGED m_istock
    BY <1>4 DEF CreateWorker, Per
  <2>4. QED
    BY <1>2, <2>1, <2>2, <2>3
<1>5. CASE CreateLastWorker
  <2>1. /\ i \in Workers /\ i = TREADNUM - 1 /\ ~fault /\ i' = i + 1
        /\ i * Per < m_istock /\ UNCHANGED m_istock
        /\ NewQuotation(i, m_istock - i * Per)
    BY <1>5 DEF CreateLastWorker, Workers, Per
  <2>2. m_istock - i * Per \in Nat /\ m_istock - i * Per <= SLICESIZE
    <3>1. i * Per = (TREADNUM - 1) * Per /\ m_istock <= TABLESIZE
      BY <1>3, <2>1 DEF Workers
    <3>2. m_istock - i * Per <= SLICESIZE
      BY <1>0, <3>1, SlicesFit
    <3>3. QED
      BY <1>0, <2>1, <3>1, <3>2, PerFacts DEF TypeOK
  <2>3. QED
    BY <1>2, <2>1, <2>2
<1>6. CASE SkipLastWorker
  <2>1. /\ i = TREADNUM - 1 /\ i' = TREADNUM /\ (TREADNUM - 1) * Per >= m_istock
        /\ UNCHANGED <<m_istock, first, num, fault>>
    BY <1>6 DEF SkipLastWorker, Per
  <2>2. m_istock = 0
    BY <1>0, <2>1, PerFacts DEF TypeOK
  <2>3. TypeOK'
    BY <1>0, <2>1 DEF TypeOK
  <2>4. Per' = Per
    BY <2>1 DEF Per
  <2>5. SlicesInv'
    BY <1>0, <2>1, <2>2, <2>4 DEF SlicesInv, Workers
  <2>6. QED
    BY <1>0, <2>1, <2>2, <2>3, <2>5 DEF PartInv, OnlyLoadOverruns
<1>7. CASE UNCHANGED vars
  BY <1>7
  DEF vars, PartInv, TypeOK, SlicesInv, OnlyLoadOverruns, Per
<1>8. QED
  BY <1>1, <1>4, <1>5, <1>6, <1>7 DEF Next

LEMMA PartInvariant == Spec => []PartInv
  BY InitPartInv, NextPartInv, PTL DEF Spec

(* No slice overruns m_stockcode[]: only a "watching" table with more rows  *)
(* than stockcode[] corrupts memory.                                        *)
THEOREM OnlyLoadOverrunsTheorem == Spec => []OnlyLoadOverruns
  BY PartInvariant, PTL DEF PartInv

(* Every stock is quoted by exactly one thread, for every number of stocks  *)
(* and threads.                                                             *)
THEOREM EveryStockOnceTheorem == Spec => []EveryStockOnce
<1>1. PartInv => EveryStockOnce
  <2> SUFFICES ASSUME PartInv, i = TREADNUM, NEW k \in 0 .. m_istock - 1
               PROVE  \E w \in Workers :
                        /\ Quotes(w, k)
                        /\ \A v \in Workers : Quotes(v, k) => v = w
    BY DEF EveryStockOnce
  <2> USE PartitionAssumption
  <2> DEFINE L == TREADNUM - 1
  <2>1. /\ Per \in Nat /\ L \in Nat /\ L * Per \in Nat
        /\ m_istock \in Nat /\ k \in Nat /\ k < m_istock
    BY PerFacts DEF PartInv, TypeOK
  <2>2. \A w \in 0 .. L - 1 : first[w] = w * Per /\ num[w] = Per
    BY <2>1 DEF PartInv, SlicesInv, Workers
  <2>3. first[L] = L * Per /\ num[L] = m_istock - L * Per
    BY <2>1 DEF PartInv, SlicesInv
  <2>4. \A w \in 0 .. L - 1 : w * Per \in Nat /\ w * Per + Per <= L * Per
    BY <2>1, SlicesInOrder, ProductInNat
  <2>5. CASE k < L * Per
    <3>1. PICK w \in 0 .. L - 1 : w * Per <= k /\ k < w * Per + Per
      BY <2>1, <2>5, SliceOf
    <3>2. Quotes(w, k)
      BY <2>2, <3>1 DEF Quotes
    <3>3. ASSUME NEW v \in Workers, Quotes(v, k) PROVE v = w
      <4>1. v # L
        BY <2>1, <2>3, <2>5, <3>3 DEF Quotes
      <4>2. v \in 0 .. L - 1
        BY <2>1, <4>1 DEF Workers
      <4>3. v * Per <= k /\ k < v * Per + Per /\ v * Per \in Nat /\ w * Per \in Nat
        BY <2>2, <2>4, <3>3, <4>2 DEF Quotes
      <4>4. ~(v < w)
        BY <2>1, <3>1, <4>2, <4>3, SlicesInOrder
      <4>5. ~(w < v)
        BY <2>1, <3>1, <4>2, <4>3, SlicesInOrder
      <4>6. QED
        BY <4>2, <4>4, <4>5
    <3>4. QED
      BY <2>1, <3>2, <3>3 DEF Workers
  <2>6. CASE ~(k < L * Per)
    <3>1. Quotes(L, k)
      BY <2>1, <2>3, <2>6 DEF Quotes
    <3>2. ASSUME NEW v \in Workers, Quotes(v, k) PROVE v = L
      <4>1. SUFFICES ASSUME v # L PROVE FALSE
        OBVIOUS
      <4>2. v \in 0 .. L - 1
        BY <2>1, <4>1 DEF Workers
      <4>3. QED
        BY <2>1, <2>2, <2>4, <2>6, <3>2, <4>2 DEF Quotes
    <3>3. QED
      BY <2>1, <3>1, <3>2 DEF Workers
  <2>7. QED
    BY <2>5, <2>6
<1>2. QED
  BY <1>1, PartInvariant, PTL

(* OnTimer finds every pquo[] set unless no stock is watched.               *)
THEOREM AllCreatedTheorem == Spec => []AllCreated
<1>1. PartInv => AllCreated
  <2> SUFFICES ASSUME PartInv, i = TREADNUM, m_istock > 0, NEW w \in Workers
               PROVE  num[w] >= 0
    BY DEF AllCreated
  <2> USE PartitionAssumption
  <2>1. Per \in Nat /\ (TREADNUM - 1) * Per \in Nat /\ m_istock \in Nat
    BY PerFacts DEF PartInv, TypeOK
  <2>2. QED
    BY <2>1 DEF PartInv, SlicesInv, Workers
<1>2. QED
  BY <1>1, PartInvariant, PTL

(* Counters and slices are the numbers the code's types hold, -1 marking a  *)
(* pquo[] that is not set.                                                  *)
THEOREM PartitionTypeCorrect == Spec => []TypeOK
  BY PartInvariant, PTL DEF PartInv

-----------------------------------------------------------------------------
(* The timer.                                                               *)

(* preMin is the minute of the last trigger or of the start.                *)
PreMinInv == preMin = last.min % 60

(* The sessions in seconds of the day, their ends excluded: from 9:25:01 to  *)
(* 11:30:30 and from 13:00:01 to 15:00:01.                                  *)
Morning(s) == 33901 < s /\ s < 41430
Afternoon(s) == 46801 < s /\ s < 54001

(* A message was taken in trading hours; the clock is read once more after  *)
(* that, a second later at most.                                            *)
TradedInv ==
  traded =>
    /\ Weekday
    /\ \/ 33901 < sec /\ sec <= 41430
       \/ 46801 < sec /\ sec <= 54001

(* The last trigger was that of the session before, in one of its last      *)
(* minutes, 11:30, 14:59 or 15:00.                                          *)
LastOfSession ==
  /\ (~Weekday \/ sec <= 33902) => last.min \in {899, 900}
  /\ Weekday =>
       \/ sec <= 33902
       \/ 41430 <= sec /\ sec <= 46802 /\ last = [day |-> day, min |-> 690]
       \/ 54001 <= sec /\ last.day = day /\ last.min \in {899, 900}

(* That is so whenever the last message came outside of trading hours.      *)
BetweenInv == begun /\ ~traded => LastOfSession

ClockInv ==
  /\ EveryMinute
  /\ PreMinInv
  /\ TradedInv
  /\ BetweenInv

-----------------------------------------------------------------------------
(* Minutes and seconds.                                                     *)
LEMMA MinuteOfDay ==
  ASSUME NEW s \in Nat
  PROVE  /\ s \div 60 \in Nat
         /\ 60 * (s \div 60) <= s /\ s < 60 * (s \div 60) + 60
OBVIOUS

LEMMA MinuteOfHour ==
  ASSUME NEW m \in Nat
  PROVE  m % 60 \in 0 .. 59
OBVIOUS

(* Two seconds less than a minute apart that are at the same minute of an   *)
(* hour are in the same minute.                                             *)
LEMMA SameMinute ==
  ASSUME NEW m \in Nat, NEW n \in Nat, n \in {m, m + 1}, m % 60 = n % 60
  PROVE  m = n
OBVIOUS

LEMMA InitClockInv == ClockInit => ClockInv
<1> SUFFICES ASSUME ClockInit PROVE ClockInv
  OBVIOUS
<1>1. sec \in 0 .. At(23, 59, 59) /\ day \in 1 .. MaxDay /\ begun = FALSE /\ traded = FALSE
  BY ClockAssumption DEF ClockInit
<1>2. sec \in Nat /\ sec < 86400
  BY <1>1 DEF At
<1>3. sec \div 60 \in 0 .. 1439
  BY <1>2, MinuteOfDay
<1>4. last = [day |-> day, min |-> sec \div 60] /\ preMin = (sec \div 60) % 60
  BY DEF ClockInit, Minute, wMinute
<1>5. ClockTypeOK
  <2>1. begun \in BOOLEAN /\ traded \in BOOLEAN
    BY <1>1
  <2>2. preMin \in 0 .. 59
    BY <1>3, <1>4, MinuteOfHour
  <2>3. last \in [day : 1 .. MaxDay, min : 0 .. 1439]
    BY <1>1, <1>3, <1>4
  <2> QED BY <1>1, <2>1, <2>2, <2>3 DEF ClockTypeOK
<1> QED BY <1>1, <1>4, <1>5 DEF ClockInv, EveryMinute, PreMinInv, TradedInv, BetweenInv

LEMMA TraderTime ==
  ASSUME NEW s \in Nat
  PROVE  IsTraderTime(s) <=> Weekday /\ (Morning(s) \/ Afternoon(s))
BY DEF IsTraderTime, At, Morning, Afternoon

LEMMA Midnight == At(23, 59, 59) = 86399
BY DEF At

LEMMA ClockTypes ==
  ASSUME ClockInv
  PROVE  /\ ClockTypeOK /\ sec \in Nat /\ day \in 1 .. MaxDay
         /\ last \in [day : 1 .. MaxDay, min : 0 .. 1439]
<1>1. ClockTypeOK
  BY DEF ClockInv, EveryMinute
<1>2. sec \in 0 .. At(23, 59, 59) /\ day \in 1 .. MaxDay
      /\ last \in [day : 1 .. MaxDay, min : 0 .. 1439]
  BY <1>1 DEF ClockTypeOK
<1>3. sec \in Nat
  BY <1>2 DEF At
<1> QED BY <1>1, <1>2, <1>3

(* A message with the clock at a when it is asked for trading hours and at n *)
(* when the minute is taken.                                                *)
LEMMA OnTimerInv ==
  ASSUME ClockInv, NEW a \in Nat, NEW n \in Nat, a \in sec + 1 .. sec + 28, n \in {a, a + 1},
         sec < At(15, 0, 30), OnTimer(a, n), UNCHANGED day
  PROVE  ClockInv'
<1>a. EveryMinute /\ PreMinInv /\ TradedInv /\ BetweenInv
  BY DEF ClockInv
<1>b. sec < 54030
  BY DEF At
<1>c. Weekday' = Weekday
  BY DEF Weekday
<1>0. /\ ClockTypeOK /\ EveryMinute /\ PreMinInv /\ TradedInv /\ BetweenInv
      /\ sec \in Nat /\ sec < 54030 /\ Weekday' = Weekday /\ day \in 1 .. MaxDay
      /\ last \in [day : 1 .. MaxDay, min : 0 .. 1439]
  BY <1>a, <1>b, <1>c, ClockTypes
<1>1. n < 86400 /\ n \div 60 \in 0 .. 1439 /\ n \div 60 \in Nat
  BY <1>0, MinuteOfDay
<1>2. sec' = n /\ day' = day /\ n \in Nat /\ a \in sec + 1 .. sec + 28 /\ n \in {a, a + 1}
  BY DEF OnTimer
<1>t. traded' <=> Weekday /\ (Morning(a) \/ Afternoon(a))
  BY TraderTime DEF OnTimer
<1>3. \/ /\ traded' /\ preMin' = (n \div 60) % 60
         /\ last' = [day |-> day, min |-> n \div 60] /\ begun' = TRUE
      \/ /\ ~traded' \/ preMin = (n \div 60) % 60
         /\ preMin' = preMin /\ last' = last /\ begun' = begun
  BY DEF OnTimer, wMinute, Minute
<1>4. ClockTypeOK'
  <2>0. begun \in BOOLEAN
    BY <1>0 DEF ClockTypeOK
  <2>1. begun' \in BOOLEAN
    BY <1>3, <2>0
  <2>2. traded' \in BOOLEAN
    BY DEF OnTimer, IsTraderTime
  <2>3. preMin' \in 0 .. 59
    <3>1. preMin \in 0 .. 59
      BY ClockTypes, SMT DEF ClockTypeOK
    <3>2. (n \div 60) % 60 \in 0 .. 59
      BY <1>1, MinuteOfHour
    <3>3. preMin' = (n \div 60) % 60 \/ preMin' = preMin
      BY <1>3, Zenon
    <3>4. QED
      BY <3>1, <3>2, <3>3, Zenon
  <2>4. last' \in [day : 1 .. MaxDay, min : 0 .. 1439]
    BY <1>0, <1>1, <1>3
  <2>5. sec' \in 0 .. At(23, 59, 59)
    BY <1>1, <1>2, Midnight
  <2> QED BY <1>0, <1>2, <2>1, <2>2, <2>3, <2>4, <2>5 DEF ClockTypeOK
<1>5. PreMinInv'
  BY <1>0, <1>3 DEF PreMinInv
<1>6. TradedInv'
  <2> SUFFICES ASSUME traded'
               PROVE  Weekday /\ ((33901 < n /\ n <= 41430) \/ (46801 < n /\ n <= 54001))
    BY <1>0, <1>2 DEF TradedInv
  <2> QED BY <1>0, <1>2, <1>t DEF Morning, Afternoon
<1>7. EveryMinute'
  <2> SUFFICES ASSUME traded', begun, preMin = (n \div 60) % 60, UNCHANGED <<last, begun>>
               PROVE  last = [day |-> day, min |-> n \div 60]
    BY <1>0, <1>2, <1>3, <1>4 DEF EveryMinute, Minute, wMinute, PreMinInv
  <2>1. Weekday /\ (Morning(a) \/ Afternoon(a)) /\ last.min % 60 = (n \div 60) % 60
    BY <1>0, <1>t DEF PreMinInv
  <2>2. CASE traded
    <3>1. last = [day |-> day, min |-> sec \div 60]
      BY <1>0, <2>2 DEF EveryMinute, Minute
    <3>2. n \div 60 \in {sec \div 60, sec \div 60 + 1} /\ sec \div 60 \in Nat
      BY <1>0, MinuteOfDay
    <3>3. sec \div 60 = n \div 60
      BY <1>1, <2>1, <3>1, <3>2, SameMinute
    <3> QED BY <3>1, <3>3
  <2>3. CASE ~traded
    <3>1. \/ sec <= 33902 /\ last.min \in {899, 900}
          \/ 41430 <= sec /\ sec <= 46802 /\ last.min = 690
          \/ 54001 <= sec
      BY <1>0, <2>1, <2>3 DEF BetweenInv, LastOfSession
    <3>2. CASE sec <= 33902 /\ last.min \in {899, 900}
      <4>1. 33900 <= n /\ n < 33960
        BY <1>0, <2>1, <3>2 DEF Morning, Afternoon
      <4>2. n \div 60 = 565
        BY <4>1, MinuteOfDay
      <4> QED BY <2>1, <3>2, <4>2
    <3>3. CASE 41430 <= sec /\ sec <= 46802 /\ last.min = 690
      <4>1. 46800 <= n /\ n < 46860
        BY <1>0, <2>1, <3>3 DEF Morning, Afternoon
      <4>2. n \div 60 = 780
        BY <4>1, MinuteOfDay
      <4> QED BY <2>1, <3>3, <4>2
    <3>4. ~(54001 <= sec)
      BY <1>0, <2>1 DEF Morning, Afternoon
    <3> QED BY <3>1, <3>2, <3>3, <3>4
  <2> QED BY <2>2, <2>3
<1>n. ~traded' => last' = last /\ begun' = begun
  BY DEF OnTimer
<1>8. BetweenInv'
  <2> SUFFICES ASSUME ~traded', begun', begun, last' = last
               PROVE  LastOfSession'
    BY <1>n DEF BetweenInv
  <2> SUFFICES /\ ~Weekday \/ n <= 33902 => last.min \in {899, 900}
               /\ Weekday =>
                    \/ n <= 33902
                    \/ 41430 <= n /\ n <= 46802 /\ last = [day |-> day, min |-> 690]
                    \/ 54001 <= n /\ last.day = day /\ last.min \in {899, 900}
    BY <1>0, <1>2 DEF LastOfSession
  <2>1. CASE ~Weekday
    <3>1. ~traded
      BY <1>0, <2>1 DEF TradedInv
    <3> QED BY <1>0, <2>1, <3>1 DEF BetweenInv, LastOfSession
  <2>2. CASE Weekday
    <3>1. ~Morning(a) /\ ~Afternoon(a)
      BY <1>t, <2>2
    <3>2. CASE traded
      <4>1. last = [day |-> day, min |-> sec \div 60]
        BY <1>0, <3>2 DEF EveryMinute, Minute
      <4>2. \/ 33901 < sec /\ sec <= 41430
            \/ 46801 < sec /\ sec <= 54001
        BY <1>0, <3>2 DEF TradedInv
      <4>3. \/ 41400 <= sec /\ sec < 41460 /\ 41430 <= n /\ n <= 46802
            \/ 53940 <= sec /\ sec < 54060 /\ 54001 <= n
        BY <1>0, <3>1, <4>2 DEF Morning, Afternoon
      <4>4. CASE 41400 <= sec /\ sec < 41460 /\ 41430 <= n /\ n <= 46802
        <5>1. sec \div 60 = 690
          BY <1>0, <4>4, MinuteOfDay
        <5> QED BY <2>2, <4>1, <4>4, <5>1
      <4>5. CASE 53940 <= sec /\ sec < 54060 /\ 54001 <= n
        <5>1. sec \div 60 \in {899, 900}
          BY <1>0, <4>5, MinuteOfDay
        <5> QED BY <2>2, <4>1, <4>5, <5>1
      <4> QED BY <4>3, <4>4, <4>5
    <3>3. CASE ~traded
      BY <1>0, <2>2, <3>1, <3>3 DEF BetweenInv, LastOfSession, Morning, Afternoon
    <3> QED BY <3>2, <3>3
  <2> QED BY <2>1, <2>2
<1> QED BY <1>5, <1>6, <1>7, <1>8 DEF ClockInv

LEMMA JumpInv ==
  ASSUME ClockInv, Jump
  PROVE  ClockInv'
<1>a. EveryMinute /\ PreMinInv /\ TradedInv /\ BetweenInv
  BY DEF ClockInv
<1>0. /\ ClockTypeOK /\ EveryMinute /\ PreMinInv /\ TradedInv /\ BetweenInv
      /\ sec \in Nat /\ day \in 1 .. MaxDay
      /\ last \in [day : 1 .. MaxDay, min : 0 .. 1439]
      /\ preMin' = preMin /\ last' = last /\ begun' = begun /\ traded' = FALSE
  BY <1>a, ClockTypes DEF Jump
<1>1. \/ sec < 33890 /\ sec' = 33890 /\ day' = day
      \/ 41430 < sec /\ sec < 46790 /\ sec' = 46790 /\ day' = day
      \/ (sec > 54001 \/ ~Weekday) /\ day < MaxDay /\ day' = day + 1 /\ sec' = 33890
  BY DEF Jump, At
<1>2. ~traded
  BY <1>0, <1>1 DEF TradedInv
<1>3. ClockTypeOK'
  <2>0. begun \in BOOLEAN
    BY <1>0 DEF ClockTypeOK
  <2>1. begun' \in BOOLEAN
    BY <2>0 DEF Jump
  <2>4. traded' \in BOOLEAN
    BY DEF Jump
  <2>2. sec' \in 0 .. At(23, 59, 59)
    BY <1>1, Midnight
  <2>3. day' \in 1 .. MaxDay
    BY <1>0, <1>1, ClockAssumption
  <2> QED BY <1>0, <2>1, <2>2, <2>3, <2>4 DEF ClockTypeOK
<1>4. EveryMinute' /\ PreMinInv' /\ TradedInv'
  BY <1>0, <1>3 DEF EveryMinute, PreMinInv, TradedInv
<1>5. BetweenInv'
  <2> SUFFICES ASSUME begun
               PROVE  /\ ~Weekday' \/ sec' <= 33902 => last.min \in {899, 900}
                      /\ Weekday' =>
                           \/ sec' <= 33902
                           \/ 41430 <= sec' /\ sec' <= 46802 /\ last = [day |-> day', min |-> 690]
                           \/ 54001 <= sec' /\ last.day = day' /\ last.min \in {899, 900}
    BY <1>0 DEF BetweenInv, LastOfSession
  <2>1. /\ (~Weekday \/ sec <= 33902) => last.min \in {899, 900}
        /\ Weekday =>
             \/ sec <= 33902
             \/ 41430 <= sec /\ sec <= 46802 /\ last = [day |-> day, min |-> 690]
             \/ 54001 <= sec /\ last.day = day /\ last.min \in {899, 900}
    BY <1>0, <1>2 DEF BetweenInv, LastOfSession
  <2>2. CASE day' = day
    <3>1. Weekday' = Weekday
      BY <2>2 DEF Weekday
    <3> QED BY <1>0, <1>1, <2>1, <2>2, <3>1
  <2>3. CASE day' # day
    BY <1>0, <1>1, <2>1, <2>3
  <2> QED BY <2>2, <2>3
<1> QED BY <1>4, <1>5 DEF ClockInv

LEMMA ClockInvAlways == ClockSpec => []ClockInv
<1>1. ClockInv /\ [ClockNext]_clock => ClockInv'
  <2> SUFFICES ASSUME ClockInv, [ClockNext]_clock PROVE ClockInv'
    OBVIOUS
  <2>1. CASE Message
    <3>1. PICK g \in Gaps, slip \in {0, 1} : OnTimer(sec + g, sec + g + slip)
      BY <2>1 DEF Message
    <3>2. sec \in Nat /\ g \in 1 .. 28
      BY ClockTypes, ClockAssumption
    <3>3. /\ sec + g \in Nat /\ sec + g + slip \in Nat /\ sec + g \in sec + 1 .. sec + 28
          /\ sec + g + slip \in {sec + g, sec + g + 1}
      BY <3>2
    <3>4. sec < At(15, 0, 30) /\ UNCHANGED day
      BY <2>1 DEF Message
    <3> QED BY <3>1, <3>3, <3>4, OnTimerInv
  <2>2. CASE Jump
    BY <2>2, JumpInv
  <2>3. CASE UNCHANGED clock
    BY <2>3 DEF clock, ClockInv, EveryMinute, ClockTypeOK, PreMinInv, TradedInv, BetweenInv,
       LastOfSession, Weekday, Minute, wMinute
  <2> QED BY <2>1, <2>2, <2>3 DEF ClockNext
<1>2. ClockInit => ClockInv
  BY InitClockInv
<1> QED BY <1>1, <1>2, PTL DEF ClockSpec

(* No minute of trading in which a timer message comes is taken for one that *)
(* was already triggered, but for the first after a start: comparing the     *)
(* minute of the hour is enough, over breaks, nights and weekends.           *)
THEOREM EveryMinuteIsTriggered == ClockSpec => []EveryMinute
<1>1. ClockInv => EveryMinute
  BY DEF ClockInv
<1> QED BY <1>1, ClockInvAlways, PTL

(* No session passes without a trigger in its last minute, once there was    *)
(* one.                                                                     *)
THEOREM SessionsAreClosed == ClockSpec => []SessionsClosed
<1>1. ClockInv => SessionsClosed
  <2> SUFFICES ASSUME ClockInv, Weekday, begun
               PROVE  /\ 41430 < sec /\ sec < 46800 => last = [day |-> day, min |-> 690]
                      /\ 54001 < sec => last.day = day /\ last.min \in {899, 900}
    BY DEF SessionsClosed, At
  <2>1. sec \in Nat /\ TradedInv /\ BetweenInv
    BY DEF ClockInv, EveryMinute, ClockTypeOK, At
  <2>2. traded => sec <= 41430 \/ (46801 < sec /\ sec <= 54001)
    BY <2>1 DEF TradedInv
  <2>3. ~traded => \/ sec <= 33902
                   \/ 41430 <= sec /\ sec <= 46802 /\ last = [day |-> day, min |-> 690]
                   \/ 54001 <= sec /\ last.day = day /\ last.min \in {899, 900}
    BY <2>1 DEF BetweenInv, LastOfSession
  <2> QED BY <2>1, <2>2, <2>3
<1> QED BY <1>1, ClockInvAlways, PTL

-----------------------------------------------------------------------------
(* The dialog's thread is both: each of its steps is one of OnInitDialog or one of   *)
(* OnTimer and leaves the other's variables alone (CHQTESTDlg).                       *)
THEOREM DialogIsBoth == DialogSpec => Spec /\ ClockSpec
<1>1. DialogInit => Init /\ ClockInit
  BY DEF DialogInit
<1>2. [DialogNext]_<<vars, clock>> => [Next]_vars /\ [ClockNext]_clock
  BY DEF DialogNext
<1>3. QED
  BY <1>1, <1>2, PTL DEF DialogSpec, Spec, ClockSpec
=============================================================================
