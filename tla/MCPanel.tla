-------------------------------- MODULE MCPanel --------------------------------
(* Two ports to choose from.                                               *)
EXTENDS Panel

TwoPorts == 1..2
=============================================================================
