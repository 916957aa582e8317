------------------------------- MODULE MCSpread -------------------------------
(* The primary moves between ports 1 and 2; two worker ports.              *)
EXTENDS Spread

Public == 1..2
Internal == 11..12
Limits == 0..1
=============================================================================
