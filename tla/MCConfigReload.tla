---------------------------- MODULE MCConfigReload ----------------------------
(* Two clients on an inbound each.                                          *)
EXTENDS ConfigReload, TLC

CONSTANTS c1, c2, i1, i2

OwnInbounds == c1 :> i1 @@ c2 :> i2

Limit(write, due, trouble) == "write" :> write @@ "due" :> due @@ "trouble" :> trouble

Calm   == Limit(1, 1, 0)
Shaky  == Limit(1, 2, 1)
=============================================================================
