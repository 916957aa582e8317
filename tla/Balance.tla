--------------------------------- MODULE Balance ---------------------------------
(***************************************************************************)
(* What CPU spreading promises: a new connection to the primary's port is  *)
(* never handed to a port on which no OpenVPN of hexplus listens           *)
(* (src/internal/ovpnspread: the package comment, Enable, Disable).        *)
(*                                                                         *)
(* The promise has two strengths.  Whatever fails, a connection goes to    *)
(* the primary or to a worker hexplus still knows of.  As long as no       *)
(* process was left behind by a failure, that worker also runs.            *)
(***************************************************************************)
EXTENDS Integers

CONSTANT WorkerPorts

VARIABLES
  members,   \* the ports of the registered workers
  running,   \* the worker ports served, or about to be
  primary,   \* does the primary run, or is it about to
  sharing,   \* the worker ports that get a share of the connections
  sound      \* no failure or crash has left a process behind

bvars == <<members, running, primary, sharing, sound>>

Served(ports, run, prim) == sound /\ prim => ports \subseteq run

Init ==
  /\ members \in SUBSET WorkerPorts
  /\ sharing = members /\ running = members
  /\ primary = TRUE
  /\ sound = TRUE

Join ==
  /\ \E p \in WorkerPorts \ members : members' = members \cup {p}
  /\ UNCHANGED <<running, primary, sharing, sound>>

\* Only a worker that gets no connections is taken off the list; it may have
\* been about to run.
Leave ==
  /\ \E gone \in SUBSET members :
       /\ gone # {} /\ gone \cap sharing = {}
       /\ members' = members \ gone
  /\ running' \in SUBSET running
  /\ Served(sharing, running', primary)
  /\ UNCHANGED <<primary, sharing, sound>>

Share ==
  /\ \E ports \in SUBSET members :
       /\ Served(ports, running, primary)
       /\ sharing' = ports
  /\ UNCHANGED <<members, running, primary, sound>>

Withdraw ==
  /\ sharing' \in SUBSET sharing
  /\ UNCHANGED <<members, running, primary, sound>>

\* Processes start, stop and restart; those that share the port only
\* together with the primary.
Run ==
  /\ running' \in SUBSET WorkerPorts
  /\ primary' \in BOOLEAN
  /\ Served(sharing, running', primary')
  /\ UNCHANGED <<members, sharing, sound>>

Boot ==
  /\ sharing' = {}
  /\ running' \in SUBSET WorkerPorts
  /\ primary' \in BOOLEAN
  /\ sound' \in {s \in BOOLEAN : s => sound}
  /\ UNCHANGED members

Fault ==
  /\ sound' = FALSE
  /\ sharing' \in SUBSET sharing
  /\ running' \in SUBSET running
  /\ primary' \in BOOLEAN
  /\ UNCHANGED members

Next == Join \/ Leave \/ Share \/ Withdraw \/ Run \/ Boot \/ Fault

Spec == Init /\ [][Next]_bvars
=============================================================================
