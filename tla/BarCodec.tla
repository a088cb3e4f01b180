------------------------------ MODULE BarCodec ------------------------------
(***************************************************************************)
(* What TDXHQ_GetSecurityBars asks for and what it makes of the answer: the *)
(* bytes of the request, the unpacked body of the reply, and the loop that *)
(* decodes one bar per pass.  The transport between the two is TdxFetch.    *)
(*                                                                         *)
(* The server is external: it is known by the request it parses and by the *)
(* encoding the decoder undoes.  A body that cannot be unpacked completely  *)
(* is zero behind some byte, because UzipedData is zeroed first and the     *)
(* result of uncompress() is not looked at.  Prices and volumes stay below *)
(* 2^27, so that no group of bits leaves an int.                            *)
(***************************************************************************)
EXTENDS Integers, Sequences, FiniteSetsExt, SequencesExt

CONSTANTS
  Histories,   \* the bars a server may hold, oldest first: a set of sequences
  Categories,  \* the values callers pass for Category ...
  Starts,      \* ... for Start ...
  Counts,      \* ... and for Count
  Zqdm         \* the six bytes of the stock's code

Byte == 0 .. 255
Price == 0 .. 2^27 - 1

\* Four bytes of an IEEE number that is 2^-125 or more, or as good as zero
Amount == {a \in Seq(Byte) : Len(a) = 4 /\ a[4] < 128 /\ (a[4] = 0 => a[3] = 0)}

Bars == [year : 2004 .. 2035, month : 1 .. 12, day : 1 .. 31, hour : 0 .. 23,
         minute : 0 .. 59, open : Price, close : Price, high : Price, low : Price,
         vol : Price, amount : Amount]

ASSUME CallAssumption ==
  Categories \subseteq 0 .. 11 /\ Starts \subseteq 0 .. 2^16 - 1 /\ Counts \subseteq 1 .. 800

ASSUME CodeAssumption == Zqdm \in Seq(Byte) /\ Len(Zqdm) = 6
ASSUME HistoryAssumption == Histories \subseteq Seq(Bars)

VARIABLES
  hist,    \* the server's bars
  arg,     \* [category, start, count] of the call
  sent,    \* the bytes given to send()
  wire,    \* history: the server's answer, one byte sequence per bar
  intact,  \* history: how many bytes of the body were unpacked
  UzipedData,
  Count,   \* the in/out parameter
  pos, i, iPreClose,
  rows,    \* the decoded lines of csResult
  pc,      \* "call", "sent", "rows", "done"
  overrun  \* a read behind UzipedData happened

vars == <<hist, arg, sent, wire, intact, UzipedData, Count, pos, i, iPreClose,
          rows, pc, overrun>>

-----------------------------------------------------------------------------
(* Bytes, little endian as x86 stores them *)

U16(n) == <<n % 256, (n \div 256) % 256>>
U32(n) == U16(n % 65536) \o U16(n \div 65536)

\* pData[p], counted from 0; what lies behind the array is taken as 0
At(d, p) == IF p < Len(d) THEN d[p + 1] ELSE 0
Word(d, p) == At(d, p) + 256 * At(d, p + 1)

IsIntraday(category) == category < 4 \/ category \in {7, 8}

\* Mutant: Count is written before Category
Request_swapped(category, market, start, count) ==
  U16(268) \o U32(16868360) \o U16(18) \o U16(18) \o U16(1321) \o U16(market)
    \o Zqdm \o U16(count) \o U32(1) \o U16(category)

\* The request: ten fields behind each other
Request(category, market, start, count) ==
  U16(268) \o U32(16868360) \o U16(18) \o U16(18) \o U16(1321) \o U16(market)
    \o Zqdm \o U16(category) \o U32(1) \o U16(count)

-----------------------------------------------------------------------------
(* The server: external *)

\* The fields a server takes from a request of the length it announces
ServerReads(d) ==
  [category |-> Word(d, 20), start |-> Word(d, 24), count |-> Word(d, 26)]

\* Seven-bit groups, low group first, each but the last marked by 128
Groups[n \in Nat] ==
  IF n < 128 THEN <<n>> ELSE <<128 + (n % 128)>> \o Groups[n \div 128]

EncodePrice(v) ==
  LET a    == IF v < 0 THEN -v ELSE v
      sign == IF v < 0 THEN 64 ELSE 0
  IN  IF a < 64 THEN <<a + sign>>
                ELSE <<128 + sign + (a % 64)>> \o Groups[a \div 64]

EncodeDate(category, b) ==
  IF IsIntraday(category)
  THEN U16((b.year - 2004) * 2048 + b.month * 100 + b.day)
         \o U16(b.hour * 60 + b.minute)
  ELSE U32(b.year * 10000 + b.month * 100 + b.day)

EncodeBar(category, b, preclose) ==
  EncodeDate(category, b) \o EncodePrice(b.open - preclose)
    \o EncodePrice(b.close - b.open) \o EncodePrice(b.high - b.open)
    \o EncodePrice(b.low - b.open) \o EncodePrice(b.vol) \o b.amount

\* count bars that end start bars before the newest one, as far as they exist
Section(h, start, count) ==
  SubSeq(h, Max({1, Len(h) - start - count + 1}), Len(h) - start)

ServerAnswers(h, q) ==
  LET s == Section(h, q.start, q.count)
  IN  [k \in 1 .. Len(s) |->
         EncodeBar(q.category, s[k], IF k = 1 THEN 0 ELSE s[k-1].close)]

-----------------------------------------------------------------------------
(* The decoder *)

\* The last byte of a price: the first one without the bit 128
LastByte(d, p) ==
  CHOOSE e \in p .. Len(d) + p :
    At(d, e) < 128 /\ \A m \in p .. e - 1 : At(d, m) >= 128

\* data, and 1 << posByte, when the loop has read the byte n of a price at p
PriceLoop(d, p) ==
  LET loop[n \in p .. LastByte(d, p)] ==
        IF n = p THEN [data |-> At(d, p) % 64, unit |-> 64]
        ELSE [data |-> loop[n-1].data + (At(d, n) % 128) * loop[n-1].unit,
              unit |-> 128 * loop[n-1].unit]
  IN  loop

PriceValue(d, p) ==
  LET data == PriceLoop(d, p)[LastByte(d, p)].data
  IN  IF (At(d, p) \div 64) % 2 = 1 THEN -data ELSE data

\* <<value, position behind it>>: six bits and a sign, then groups of seven
getPrice(d, p) == <<PriceValue(d, p), LastByte(d, p) + 1>>

Huge == -1   \* stands for a number of units too large for TLC's integers

\* The four doubles as a number of units of 2^(2*logpoint - 150).  With a
\* negative dwEdx the last branch divides by pow(2, dwEdx): its exponent has
\* the wrong sign, and hleax counts 2^(-2*dwEdx) times too much.
GetVolume(b) ==
  LET logpoint == IF b[4] >= 128 THEN b[4] - 256 ELSE b[4]
      hleax    == b[3]
      dwEdx    == logpoint * 2 - 134
      twice    == IF hleax >= 128 THEN 2 ELSE 1
      rest     == 2^23 + twice * (256 * b[2] + b[1])
  IN  [exp   |-> logpoint * 2 - 150,
       units |->
         CASE hleax > 128 -> rest + 2^23 + (hleax % 128) * 2^17
           [] hleax <= 128 /\ (dwEdx >= 0 \/ hleax = 0) -> rest + hleax * 2^16
           [] OTHER -> IF dwEdx >= -3 THEN rest + hleax * 2^(16 - 2 * dwEdx)
                                      ELSE Huge]

\* dbvol < 0.0000001
Tiny(v) == /\ v.units # Huge
           /\ v.exp < -48 \/ (v.exp = -48 /\ v.units < 28147498)

\* One pass of the loop: the row, and the position behind it
DecodeRow(d, p, category, preclose) ==
  LET zipday == IF IsIntraday(category) THEN Word(d, p)
                ELSE Word(d, p) + 65536 * Word(d, p + 2)
      mins   == Word(d, p + 2)
      o == getPrice(d, p + 4)   c == getPrice(d, o[2])
      h == getPrice(d, c[2])    l == getPrice(d, h[2])
      v == getPrice(d, l[2])    a == v[2]
      open == preclose + o[1]
      vol  == GetVolume(<<At(d, a), At(d, a+1), At(d, a+2), At(d, a+3)>>)
      date == IF IsIntraday(category)
              THEN <<(zipday \div 2048) + 2004, (zipday % 2048) \div 100,
                     (zipday % 2048) % 100, mins \div 60, mins % 60>>
              ELSE <<zipday \div 10000, (zipday % 10000) \div 100,
                     zipday % 100, 15, 0>>
  IN  [row |-> [date |-> date, open |-> open, close |-> open + c[1],
                high |-> open + h[1], low |-> open + l[1],
                vol |-> IF v[1] = 0 THEN 1 ELSE v[1],
                amount |-> IF Tiny(vol) THEN [exp |-> 0, units |-> open + c[1]]
                                        ELSE vol],
       end |-> a + 4]

-----------------------------------------------------------------------------
Init ==
  /\ hist \in Histories
  /\ arg = [category |-> 0, start |-> 0, count |-> 0]
  /\ sent = <<>> /\ wire = <<>> /\ intact = 0 /\ UzipedData = <<>>
  /\ Count = 0 /\ pos = 0 /\ i = 0 /\ iPreClose = 0 /\ rows = <<>>
  /\ pc = "call" /\ overrun = FALSE

\* The call builds the request and sends it
Call ==
  /\ pc = "call"
  /\ \E c \in Categories, s \in Starts, n \in Counts :
       /\ arg' = [category |-> c, start |-> s, count |-> n]
       /\ Count' = n
       /\ sent' = Request(c, 0, s, n)
  /\ pc' = "sent"
  /\ UNCHANGED <<hist, wire, intact, UzipedData, pos, i, iPreClose, rows, overrun>>

\* The reply is there and unpacked, up to byte n when uncompress() failed;
\* then the count is read and the loop is set up
Unpack ==
  /\ pc = "sent"
  /\ LET answer == ServerAnswers(hist, ServerReads(sent))
         body   == U16(Len(answer)) \o FlattenSeq(answer)
     IN  \E n \in 0 .. Len(body) :
           /\ wire' = answer
           /\ intact' = n
           /\ UzipedData' = [k \in 1 .. Len(body) |-> IF k <= n THEN body[k] ELSE 0]
           /\ Count' = Word(UzipedData', 0)
  /\ pos' = 2 /\ i' = 0 /\ iPreClose' = 0 /\ rows' = <<>>
  /\ pc' = "rows"
  /\ UNCHANGED <<hist, arg, sent, overrun>>

\* Mutant: i <= Count
DecodeNext_once_more ==
  /\ pc = "rows" /\ i <= Count
  /\ LET r == DecodeRow(UzipedData, pos, arg.category, iPreClose)
     IN  /\ rows' = Append(rows, r.row)
         /\ pos' = r.end
         /\ iPreClose' = r.row.close
         /\ overrun' = (overrun \/ r.end > Len(UzipedData))
  /\ i' = i + 1
  /\ UNCHANGED <<hist, arg, sent, wire, intact, UzipedData, Count, pc>>

\* Mutant: iPreClose is set from the open price
DecodeNext_preclose ==
  /\ pc = "rows" /\ i < Count
  /\ LET r == DecodeRow(UzipedData, pos, arg.category, iPreClose)
     IN  /\ rows' = Append(rows, r.row)
         /\ pos' = r.end
         /\ iPreClose' = r.row.open
         /\ overrun' = (overrun \/ r.end > Len(UzipedData))
  /\ i' = i + 1
  /\ UNCHANGED <<hist, arg, sent, wire, intact, UzipedData, Count, pc>>

\* i < Count: the next bar
DecodeNext ==
  /\ pc = "rows" /\ i < Count
  /\ LET r == DecodeRow(UzipedData, pos, arg.category, iPreClose)
     IN  /\ rows' = Append(rows, r.row)
         /\ pos' = r.end
         /\ iPreClose' = r.row.close
         /\ overrun' = (overrun \/ r.end > Len(UzipedData))
  /\ i' = i + 1
  /\ UNCHANGED <<hist, arg, sent, wire, intact, UzipedData, Count, pc>>

\* The rows are copied into szResult
Return ==
  /\ pc = "rows" /\ i >= Count
  /\ pc' = "done"
  /\ UNCHANGED <<hist, arg, sent, wire, intact, UzipedData, Count, pos, i,
                 iPreClose, rows, overrun>>

Next == Call \/ Unpack \/ DecodeNext \/ Return

Spec == Init /\ [][Next]_vars

-----------------------------------------------------------------------------
\* The variables hold bytes, counters and rows
TypeOK ==
  /\ hist \in Histories
  /\ \A k \in DOMAIN sent : sent[k] \in 0 .. 255
  /\ \A k \in DOMAIN UzipedData : UzipedData[k] \in 0 .. 255
  /\ Count \in 0 .. 2^16 - 1 /\ pos \in Nat /\ i \in Nat /\ intact \in Nat
  /\ Len(rows) = i
  /\ pc \in {"call", "sent", "rows", "done"} /\ overrun \in BOOLEAN

\* A bar as a row: its IEEE amount in the units GetVolume uses
RowOf(category, b) ==
  LET lp    == b.amount[4]
      units == (2^23 + (b.amount[3] % 128) * 2^16 + 256 * b.amount[2] + b.amount[1])
                 * (IF b.amount[3] >= 128 THEN 2 ELSE 1)
      value == [exp |-> lp * 2 - 150, units |-> units]
  IN  [date |-> IF IsIntraday(category)
                THEN <<b.year, b.month, b.day, b.hour, b.minute>>
                ELSE <<b.year, b.month, b.day, 15, 0>>,
       open |-> b.open, close |-> b.close, high |-> b.high, low |-> b.low,
       vol |-> IF b.vol = 0 THEN 1 ELSE b.vol,
       amount |-> IF Tiny(value) THEN [exp |-> 0, units |-> b.close] ELSE value]

\* The bars the caller asked for: Start is documented as the place of the last one,
\* counted back from the newest bar
Asked == Section(hist, arg.start, arg.count)

\* Amounts from 2^-125 to 128 whose third byte counts in the last branch of GetVolume:
\* dwEdx is negative and hleax is neither 0 nor above 128
Misread(b) == b.amount[4] \in 1 .. 66 /\ b.amount[3] \in 1 .. 128

\* The last byte of the k-th bar of the answer
RowEnd(k) == 2 + Len(FlattenSeq(SubSeq(wire, 1, k)))

\* In a call with Start 0, every row made from bytes that were unpacked is the bar
\* asked for in that place: dates, prices that are chained from bar to bar and volumes
\* survive the encoding, also when later bytes were lost (GetSecurityBars, getPrice).
\* The amount is right exactly when the last branch of GetVolume does not misread it.
RowsAsked ==
  \A k \in DOMAIN rows :
    (arg.start = 0 /\ k <= Len(wire) /\ RowEnd(k) <= intact) =>
      /\ k <= Len(Asked)
      /\ LET r == RowOf(arg.category, Asked[k])
         IN  /\ [rows[k] EXCEPT !.amount = r.amount] = r
             /\ rows[k].amount = r.amount <=> ~Misread(Asked[k])

\* A call with Start 0 whose body was unpacked completely returns all the bars asked
\* for and stops right behind the last one
CompleteAnswer ==
  (arg.start = 0 /\ pc = "done" /\ intact = Len(UzipedData)) =>
    Count = Len(Asked) /\ Len(rows) = Count /\ pos = Len(UzipedData)

\* What TDXHQ.h says of Start: a call whose body was unpacked completely returns the
\* bars whose last one is Start places before the newest.  It does not hold: the
\* request has no field for Start (GetSecurityBars, UINT32(1)).
StartHonoured ==
  (pc = "done" /\ intact = Len(UzipedData)) =>
    /\ Len(rows) = Len(Asked)
    /\ \A k \in DOMAIN rows : rows[k].date = RowOf(arg.category, Asked[k]).date

\* The loop trusts the count in the body.  It never reads behind UzipedData all
\* the same, wherever unpacking stopped: zeros are the shortest encoding of
\* every field.  All numbers stay within their types.
StaysInside == ~overrun /\ TypeOK

=============================================================================
