------------------------------- MODULE MCPorts -------------------------------
(* Port 1 is sshd's, port 2 is 110.  Two interfaces are alike.             *)
EXTENDS Ports

Tcp == 1..3
Udp == {3}
Alike == Permutations(Egresses)
=============================================================================
