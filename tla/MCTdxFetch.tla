---------------------------- MODULE MCTdxFetch ----------------------------
(* Instances of the transport for TLC: constants are given in the configs.  *)
EXTENDS TdxFetch
=============================================================================
