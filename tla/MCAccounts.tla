------------------------------ MODULE MCAccounts ------------------------------
(* Two menus are alike.                                                     *)
EXTENDS Accounts, TLC

Alike == Permutations(Operators)
=============================================================================
