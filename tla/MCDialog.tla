------------------------------ MODULE MCDialog ------------------------------
(* Starts before the first session, at its minute of an earlier hour, within   *)
(* both sessions, in the break and at night.                                   *)
EXTENDS Dialog

MCStarts ==
  {At(7, 0, 0), At(8, 25, 10), At(10, 25, 30), At(11, 29, 59), At(12, 0, 0), At(14, 59, 58),
   At(20, 0, 0)}
=============================================================================
