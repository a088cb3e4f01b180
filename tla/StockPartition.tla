--------------------------- MODULE StockPartition ---------------------------
(***************************************************************************)
(* How CHQTESTDlg::OnInitDialog spreads the stocks of the table "watching" *)
(* over the quotation threads: the rows are loaded into stockcode[], then  *)
(* TREADNUM threads are created, each with a copy of a slice of the array  *)
(* in its own m_stockcode[].                                               *)
(***************************************************************************)
EXTENDS Integers

CONSTANTS
  TREADNUM,    \* number of threads (20 in the code)
  TABLESIZE,   \* entries of CHQTESTDlg::stockcode (3000 in the code)
  SLICESIZE,   \* entries of CQuotation::m_stockcode (400 in the code)
  RowCounts    \* row counts the table "watching" may have

ASSUME PartitionAssumption ==
  /\ TREADNUM \in Nat \ {0}
  /\ TABLESIZE \in Nat
  /\ SLICESIZE \in Nat
  /\ TABLESIZE \div TREADNUM + TREADNUM - 1 <= SLICESIZE
  /\ RowCounts \subseteq Nat

Workers == 0 .. TREADNUM - 1

VARIABLES
  m_istock,  \* number of stocks loaded
  i,         \* the loop counter of OnInitDialog, -1 before the rows are loaded
  first,     \* [Workers -> index in stockcode of the thread's first stock]
  num,       \* [Workers -> CQuotation::m_iStockNum, -1 while pquo[i] is unset]
  fault      \* a write past stockcode or m_stockcode

vars == <<m_istock, i, first, num, fault>>

TypeOK ==
  /\ m_istock \in Nat
  /\ i \in -1 .. TREADNUM
  /\ first \in [Workers -> Nat]
  /\ num \in [Workers -> Nat \cup {-1}]
  /\ fault \in BOOLEAN

Init ==
  /\ m_istock = 0
  /\ i = -1
  /\ first = [w \in Workers |-> 0]
  /\ num = [w \in Workers |-> -1]
  /\ fault = FALSE

(* The fetch loop stores every row; it does not look at the array's size.   *)
LoadStocks(rows) ==
  /\ i = -1
  /\ m_istock' = rows
  /\ fault' = (rows > TABLESIZE)
  /\ i' = 0
  /\ UNCHANGED <<first, num>>

StockPerTread(m) == m \div TREADNUM

(* Mutant: the slice starts one stock late.                                 *)
NewQuotationShifted(w, n) ==
  /\ first' = [first EXCEPT ![w] = w * StockPerTread(m_istock) + 1]
  /\ num' = [num EXCEPT ![w] = n]
  /\ fault' = (n > SLICESIZE)

(* The constructor copies n stocks without looking at SLICESIZE.            *)
NewQuotation(w, n) ==
  /\ first' = [first EXCEPT ![w] = w * StockPerTread(m_istock)]
  /\ num' = [num EXCEPT ![w] = n]
  /\ fault' = (n > SLICESIZE)

(* A round of the loop over the first TREADNUM - 1 threads.                 *)
CreateWorker ==
  /\ i \in 0 .. TREADNUM - 2 /\ ~fault
  /\ NewQuotation(i, StockPerTread(m_istock))
  /\ i' = i + 1
  /\ UNCHANGED m_istock

(* Mutant: the last thread is given all stocks.                             *)
CreateLastWorkerAll ==
  /\ i = TREADNUM - 1 /\ ~fault
  /\ i * StockPerTread(m_istock) < m_istock
  /\ NewQuotation(i, m_istock)
  /\ i' = TREADNUM
  /\ UNCHANGED m_istock

(* The last thread gets the rest, if there is any.                          *)
CreateLastWorker ==
  /\ i = TREADNUM - 1 /\ ~fault
  /\ i * StockPerTread(m_istock) < m_istock
  /\ NewQuotation(i, m_istock - i * StockPerTread(m_istock))
  /\ i' = TREADNUM
  /\ UNCHANGED m_istock

(* Without a rest pquo[TREADNUM - 1] keeps its uninitialised value.         *)
SkipLastWorker ==
  /\ i = TREADNUM - 1 /\ ~fault
  /\ i * StockPerTread(m_istock) >= m_istock
  /\ i' = TREADNUM
  /\ UNCHANGED <<m_istock, first, num, fault>>

Next ==
  \/ \E rows \in RowCounts : LoadStocks(rows)
  \/ CreateWorker \/ CreateLastWorker \/ SkipLastWorker

Spec == Init /\ [][Next]_vars

-----------------------------------------------------------------------------
(* Thread w's slice holds stock k.                                          *)
Quotes(w, k) == first[w] <= k /\ k < first[w] + num[w]

(* When all threads exist every stock is quoted by exactly one of them:     *)
(* none is forgotten by the division and none has two writers.              *)
EveryStockOnce ==
  i = TREADNUM =>
    \A k \in 0 .. m_istock - 1 :
      \E w \in Workers : /\ Quotes(w, k)
                         /\ \A v \in Workers : Quotes(v, k) => v = w

(* A table that fits stockcode[] never overruns a thread's m_stockcode[]:   *)
(* the last thread's larger share included.                                 *)
OnlyLoadOverruns == fault => m_istock > TABLESIZE

(* OnTimer dereferences every pquo[]: all are set unless the table          *)
(* "watching" is empty.                                                     *)
AllCreated ==
  i = TREADNUM /\ m_istock > 0 => \A w \in Workers : num[w] >= 0
=============================================================================
