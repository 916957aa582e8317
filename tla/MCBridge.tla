------------------------------- MODULE MCBridge -------------------------------
(* Up to three bytes each way through connections that hold two.              *)
EXTENDS Bridge
=============================================================================
