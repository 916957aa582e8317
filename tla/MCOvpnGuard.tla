------------------------------ MODULE MCOvpnGuard ------------------------------
(* One account allowed one device, two instances, the loop and a second     *)
(* hexplus process.                                                         *)
EXTENDS OvpnGuard, TLC

CONSTANTS u1, Other

OneDevice == u1 :> 1
Few == [e \in EventNames |-> CASE e = "connect" -> 2 [] e = "tick" -> 1 [] OTHER -> 1]
=============================================================================
