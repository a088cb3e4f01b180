------------------------------- MODULE Dialog -------------------------------
(***************************************************************************)
(* The thread of the dialog CHQTESTDlg: OnInitDialog spreads the stocks over *)
(* the quotation threads and sets the timer last; from then on OnTimer       *)
(* triggers them.                                                            *)
(***************************************************************************)
EXTENDS StockPartition, TradingClock

DialogInit == Init /\ ClockInit

\* OnInitDialog has come to its end
Initialised == i = TREADNUM /\ ~fault

\* A trigger goes through every pquo[]: with one of them unset what follows is
\* undefined, and the behaviour ends here
CanTrigger == \A w \in Workers : num[w] >= 0

DialogNext ==
  \/ Next /\ UNCHANGED clock
  \/ Initialised /\ ClockNext /\ (last' = last \/ CanTrigger) /\ UNCHANGED vars

DialogSpec == DialogInit /\ [][DialogNext]_<<vars, clock>>
=============================================================================
