-------------------------- MODULE MCTrafficAccounting --------------------------
(* Two rows share one email (one user on two inbounds).                 *)
EXTENDS TrafficAccounting, TLC

CONSTANTS c1, c2, e1

SharedEmail == c1 :> e1 @@ c2 :> e1
=============================================================================
