------------------------------ MODULE MCFrontend ------------------------------
(* Two clients at a process that may hold three or four descriptors; a      *)
(* protocol with two configs and a default, and one with neither.           *)
EXTENDS Frontend
CONSTANT p1
AllOrNothing == {[f \in Files |-> p1], [f \in Files |-> Missing]}
=============================================================================
