---------------------------- MODULE MCQuoteHost ----------------------------
(* Instance of the host program for TLC: two threads, and a watch list that *)
(* gives each a stock, only the last one, neither, or does not fit.         *)
EXTENDS QuoteHost

CONSTANTS c1, c2

TwoThreads == {c1, c2}
=============================================================================
