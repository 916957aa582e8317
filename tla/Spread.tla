---------------------------------- MODULE Spread ----------------------------------
(***************************************************************************)
(* CPU spreading: OpenVPN workers behind the primary's port, the extra     *)
(* ports they share their identifiers with, the speed limits keyed by      *)
(* those identifiers, and the switch of the device-limit guard, which      *)
(* needs a management socket in each of their files.                       *)
(*                                                                         *)
(* The registry names the instances; each has a configuration file, a unit *)
(* and, when it runs, a process that read the file when it started.  Rules *)
(* of the nat table redirect connections for the primary's port to the     *)
(* workers' ports; a drop-in makes the primary's unit want the workers,    *)
(* and a line of rc.local rebuilds the rules at boot.                      *)
(*                                                                         *)
(* As in Ports an operation is the sequence of its steps <<step, process>>,*)
(* each of which may fail; one operator works at a time.  The workers are  *)
(* on the primary's protocol.  The firewall of extra ports is Ports'.      *)
(***************************************************************************)
EXTENDS Integers, Sequences, FiniteSets

CONSTANTS
  MaxId,        \* bound: identifiers of instances, from 2
  PublicPorts,  \* what the operator may choose for the primary
  WorkerPorts,  \* numbers from WorkerPortBase up
  Mbps,         \* speed limits, 0 for none
  MaxSpent      \* bound: operations, failed steps, crashes, reboots

ASSUME ParametersOK ==
  /\ MaxId \in Nat /\ MaxSpent \in Nat
  /\ PublicPorts \subseteq Nat \ {0} /\ WorkerPorts \subseteq Nat \ {0}
  /\ Mbps \subseteq Nat /\ 0 \in Mbps

VARIABLES
  registry,  \* what each instance is
  port,      \* a registered worker's port
  conf,      \* server.conf and server<id>.conf
  unit,      \* the systemd units; a worker's is part of the primary's
  proc,      \* what each process read; Absent, if it does not run
  due,       \* those systemd was told to start and that are not up yet
  cap,       \* the speed limit of each key
  guard,     \* what there is of the device-limit guard
  nat,       \* the ports NATChain redirects to
  input,     \* the ports InputChain admits redirected connections to
  jumps,     \* the ports PREROUTING and OUTPUT send to NATChain
  guarded,   \* does INPUT jump to InputChain
  wants,     \* the drop-in's workers; none, if there is no drop-in
  line,      \* is RCLocalLine in rc.local
  op,        \* what the operator, or rc.local, is doing
  doubt,     \* history: what failed steps and crashes left open
  spent      \* bound's counter

vars == <<registry, port, conf, unit, proc, due, cap, guard, nat, input, jumps, guarded, wants,
          line, op, doubt, spent>>
instances == <<registry, port, unit>>
processes == <<proc, due>>
settings  == <<cap, guard>>
rules     == <<nat, input, jumps, guarded, wants, line>>

Main == 1
Ids == 2..MaxId
Procs == {Main} \cup Ids

Absent == [port |-> 0, dup |-> FALSE, hook |-> FALSE, managed |-> FALSE]

\* The marker the menus go by, the unit, and its process.
GuardParts == {"mark", "watchUnit", "watch"}
GuardOn == "mark" \in guard
Workers == {i \in Ids : registry[i] = "worker"}
Extras == {i \in Ids : registry[i] = "extra"}
PortsOf(ws) == {port[i] : i \in ws}

-----------------------------------------------------------------------------
(* The operations, step by step.                                           *)

On(p, names) == [k \in 1..Len(names) |-> <<names[k], p>>]

Ascending(ids) == CHOOSE f \in [1..Cardinality(ids) -> ids] :
                    \A j, k \in 1..Cardinality(ids) : j < k => f[j] < f[k]
Each(ids, name) == [k \in 1..Cardinality(ids) |-> <<name, Ascending(ids)[k]>>]

\* All the steps for the first, then all for the second, and so on.
ForEach(ids, names) ==
  [k \in 1..(Len(names) * Cardinality(ids)) |->
     <<names[1 + ((k - 1) % Len(names))], Ascending(ids)[1 + ((k - 1) \div Len(names))]>>]

\* MUTANT: rules for an earlier port of the primary stay.
ApplyNoUnjump == On(Main, <<"nat", "input", "jump", "dropIn", "line">>)

Apply == On(Main, <<"nat", "input", "oldJumps", "jump", "dropIn", "line">>)
Teardown == On(Main, <<"unjump", "noNat", "noInput", "noLine", "noDropIn">>)

AddWorker(ids) == ForEach(ids, <<"clear", "conf", "unit", "save">>)

\* MUTANT: the cap stays for the next instance with the identifier.
RemoveInstancesKeepCap(ids) == ForEach(ids, <<"stop", "noUnit", "noConf", "drop">>)

RemoveInstances(ids) == ForEach(ids, <<"stop", "noUnit", "noConf", "forget", "drop">>)
RemoveWorkers(ws) == ForEach(ws, <<"uncap", "stop", "noUnit", "noConf", "forget", "drop">>)

\* SyncSpeedLimit
Sync(ws) == Each(ws, "follow")

Enable(ids) ==
  AddWorker(ids) \o Sync(ids) \o On(Main, <<"want">>) \o Each(ids, "start")
    \o Each(ids, "await") \o Apply

\* MUTANT: the workers are removed whether the rules are gone or not.
DisableUnchecked(ws) == Teardown \o RemoveWorkers(ws)

\* If the rules could not be removed the workers stay.
Disable(ws) == Teardown \o On(Main, <<"check">>) \o RemoveWorkers(ws)

\* ovpnInstanceAdd: Add, then the hook if any cap is set, then enable --now
AddExtra(i) == AddWorker({i}) \o On(i, <<"inject", "start">>)

\* openvpnMenu's [2], and install.Uninstall, which keeps /etc/openvpn
RemoveVpn(ids) ==
  On(Main, <<"noCaps">>) \o Teardown \o On(Main, <<"check">>) \o RemoveInstances(ids)
    \o On(Main, IF GuardOn THEN <<"halt", "noGuard", "wipe">> ELSE <<"halt", "wipe">>)
Uninstall(extras) ==
  On(Main, <<"noCaps">>) \o RemoveInstances(extras) \o On(Main, <<"halt", "noGuard", "disable">>)

\* speedLimitSetKey, and speedLimitMenu's [2]
SetKey(p, ws) ==
  IF p = Main THEN On(p, <<"cap">>) \o Sync(ws) \o On(p, <<"confirm", "restart">>)
  ELSE On(p, <<"cap", "restart">>)
Restore(p, ws) == On(p, <<"restore">>) \o (IF p = Main THEN Sync(ws) ELSE <<>>)

\* MUTANT: the workers' files are written after the restart.
MultiloginLate(ws) == On(Main, <<"dup", "restart">>) \o Each(ws, "dup")

Multilogin(ws) == On(Main, <<"dup">>) \o Each(ws, "dup") \o On(Main, <<"restart">>)

ChangePort(ws) ==
  On(Main, <<"port">>) \o (IF ws = {} THEN <<>> ELSE Apply) \o On(Main, <<"restart">>)

\* restartAllOpenVPN: workers restart with the primary.
RestartAll(extras) == On(Main, <<"restart">>) \o Each(extras, "restart")

\* enableDeviceLimit, and disableDeviceLimit, which also takes back what the
\* former could not finish
EnableGuard(confs, extras) ==
  Each(confs, "manage") \o On(Main, <<"mark", "watchUnit", "watch">>) \o RestartAll(extras)
    \o On(Main, <<"confirm">>)
DisableGuard(confs, extras) ==
  On(Main, <<"noGuard">>) \o Each(confs, "unmanage") \o RestartAll(extras)

-----------------------------------------------------------------------------
(* Steps that fail.                                                        *)

Idle == [name |-> "idle", for |-> Main, ports |-> <<>>, value |-> 0, was |-> 0,
         failed |-> FALSE, todo |-> <<>>]
Names == {"idle", "enable", "disable", "apply", "extra", "remove", "removeVpn", "uninstall",
          "limit", "unlimit", "restore", "multilogin", "port", "control", "guard", "unguard"}

Then(o, rest) == IF rest = <<>> THEN Idle ELSE [o EXCEPT !.todo = rest]
At(step, p) == op.todo # <<>> /\ Head(op.todo) = <<step, p>>
Proceed == op' = Then(op, Tail(op.todo))
Spend == spent < MaxSpent /\ spent' = spent + 1

ServerConfs == {p \in Procs : conf[p] # Absent}

TakeGuardBack(o) ==
  Then([o EXCEPT !.name = "unguard", !.failed = FALSE], DisableGuard(ServerConfs, Extras))

Inherits(o) == Head(o.todo)[1] = "clear"    \* add's Forget is best effort

\* The steps whose failure a later check sees.
Checked == {"unjump", "noNat", "noInput", "noLine", "noDropIn", "follow", "restart"}

\* What an operation does when its next step has failed.
AfterFailure(o) ==
  LET step == Head(o.todo)[1]
      rest == Tail(o.todo)
      on == [o EXCEPT !.failed = @ \/ step \in Checked]
  IN CASE o.name = "enable" /\ ~Inherits(o) ->
            Then([o EXCEPT !.name = "disable", !.failed = FALSE], Disable(Workers))
       [] o.name = "extra" /\ ~Inherits(o) -> Idle
       [] o.name \in {"apply", "control"} -> Idle
       [] o.name = "guard" /\ step # "restart" -> TakeGuardBack(o)
       [] o.name \in {"limit", "unlimit"} /\ step = "cap" -> Idle
       [] o.name = "limit" /\ step = "restart" ->
            Then([o EXCEPT !.name = "restore"], Restore(o.for, Workers))
       [] o.name = "port" /\ step = "port" -> Idle
       [] o.name = "port" /\ step \notin {"port", "restart"} -> Then(on, On(Main, <<"restart">>))
       [] o.name = "removeVpn" /\ step = "halt" -> Idle
       [] OTHER -> Then(on, rest)

\* What a failed step leaves open: the rules, the caps, a process that may
\* not run or not as configured, the parts of an instance not yet in the
\* registry.  Enable takes everything back, but for that last one, and
\* speedLimitSetKey what follows SetLimit, but for a process that started while
\* the hooks were out of the files; enableDeviceLimit everything.
Doubt(o) ==
  LET step == Head(o.todo)[1]
  IN IF o.name \in {"enable", "extra"} /\ step \in {"conf", "unit", "save"} THEN {"left"}
     ELSE IF o.name \in {"enable", "guard"} THEN {}
     ELSE IF o.name = "limit" /\ step \in {"follow", "restart"}
          THEN IF o.value = 0 THEN {"hooks"} ELSE {}
     ELSE
     CASE o.name = "uninstall" /\ step = "halt" -> {"procs", "guard"}
       [] step \in {"noGuard", "unmanage"} -> {"guard"}
       [] step \in {"nat", "input", "oldJumps", "jump", "dropIn", "line", "unjump", "noNat",
                    "noInput", "noLine", "noDropIn"} -> {"rules"}
       [] step \in {"cap", "follow", "restore", "forget", "uncap", "clear", "inject",
                    "noCaps"} -> {"caps"}
       [] step = "drop" -> {"rules", "caps", "procs"}    \* still registered
       [] step = "port" -> {}
       [] OTHER -> {"procs"}
Doubts == {"rules", "caps", "procs", "left", "guard", "hooks"}

Hooked(caps) ==
  [p \in Procs |-> IF conf[p] = Absent THEN Absent
                   ELSE [conf[p] EXCEPT !.hook = \E q \in Procs : caps[q] > 0]]

Capped(p) ==
  CASE At("cap", p) -> op.value
    [] At("restore", p) -> op.was
    [] At("follow", p) -> cap[Main]
    [] OTHER -> 0

CapSteps == {"cap", "restore", "follow", "forget", "uncap", "clear"}

\* Steps of several system calls may fail between them: chains are filled
\* rule by rule, jumps deleted one by one, the caps written before the hooks,
\* the guard torn down as far as it goes.
Partly(step, p) ==
  \/ UNCHANGED <<settings, nat, input, jumps, guarded>>
  \/ /\ step = "nat"
     /\ \E k \in Procs : nat' = PortsOf({w \in Workers : w <= k})
     /\ UNCHANGED <<settings, input, jumps, guarded>>
  \/ /\ step = "input"
     /\ \E k \in Procs : input' = PortsOf({w \in Workers : w <= k})
     /\ UNCHANGED <<settings, nat, jumps, guarded>>
  \/ step = "noNat" /\ nat' = {} /\ UNCHANGED <<settings, input, jumps, guarded>>
  \/ step = "noInput" /\ input' = {} /\ UNCHANGED <<settings, nat, jumps, guarded>>
  \/ /\ step \in {"unjump", "oldJumps"}
     /\ jumps' \in SUBSET jumps /\ guarded' \in {guarded, FALSE}
     /\ UNCHANGED <<settings, nat, input>>
  \/ /\ step = "jump" /\ jumps' = jumps \cup {conf[Main].port}
     /\ UNCHANGED <<settings, nat, input, guarded>>
  \/ /\ step \in CapSteps /\ cap' = [cap EXCEPT ![p] = Capped(p)]
     /\ UNCHANGED <<guard, nat, input, jumps, guarded>>
  \/ /\ step = "noGuard" /\ guard' \in SUBSET guard
     /\ UNCHANGED <<cap, nat, input, jumps, guarded>>

StepFails ==
  /\ op.todo # <<>>
  /\ Head(op.todo)[1] \notin {"check", "confirm", "await", "disable"}
  /\ Spend
  /\ Partly(Head(op.todo)[1], Head(op.todo)[2])
  /\ op' = AfterFailure(op)
  /\ doubt' = doubt \cup Doubt(op)
  /\ UNCHANGED <<instances, conf, processes, wants, line>>

-----------------------------------------------------------------------------
(* The steps.                                                              *)

Same == UNCHANGED <<doubt, spent>>

\* Disable, RemoveVpn: the rules could not be removed, their drop-in may be
\* gone.
Check ==
  /\ At("check", Main)
  /\ op' = IF op.failed THEN Idle ELSE Then(op, Tail(op.todo))
  /\ doubt' = IF op.failed THEN doubt \cup {"rules", "caps", "procs"} ELSE doubt
  /\ UNCHANGED <<instances, conf, processes, settings, rules, spent>>

\* speedLimitSetKey: back to the previous limit; enableDeviceLimit: off again.
Confirm ==
  /\ At("confirm", Main)
  /\ op' = IF ~op.failed THEN Then(op, Tail(op.todo))
           ELSE IF op.name = "guard" THEN TakeGuardBack(op)
           ELSE IF op.name = "limit"
           THEN Then([op EXCEPT !.name = "restore", !.failed = FALSE], Restore(Main, Workers))
           ELSE Idle
  /\ Same
  /\ UNCHANGED <<instances, conf, processes, settings, rules>>

\* install.Uninstall calls Disable, which asks the registry for the workers.
CallDisable ==
  /\ At("disable", Main)
  /\ op' = Then([op EXCEPT !.name = "disable", !.failed = FALSE], Disable(Workers))
  /\ Same
  /\ UNCHANGED <<instances, conf, processes, settings, rules>>

\* speedlimit.SetLimit, Forget and SyncSpeedLimit's loop: nothing is
\* written for a cap that is as wanted, but by SetLimit itself.
SetLimit(p) ==
  /\ \E step \in CapSteps : At(step, p)
  /\ Proceed /\ Same
  /\ IF Capped(p) = cap[p] /\ ~At("cap", p) /\ ~At("restore", p)
     THEN UNCHANGED <<cap, conf>>
     ELSE /\ cap' = [cap EXCEPT ![p] = Capped(p)]
          /\ conf' = Hooked(cap')
  /\ UNCHANGED <<instances, processes, guard, rules>>

\* ovpnInstanceAdd's InjectServerConf, if any cap is set
Inject(p) ==
  /\ At("inject", p) /\ Proceed /\ Same
  /\ conf' = IF \E q \in Procs : cap[q] > 0 THEN Hooked(cap) ELSE conf
  /\ UNCHANGED <<instances, processes, settings, rules>>

\* speedlimit.Teardown
NoCaps ==
  /\ At("noCaps", Main) /\ Proceed /\ Same
  /\ cap' = [p \in Procs |-> 0]
  /\ conf' = Hooked(cap')
  /\ UNCHANGED <<instances, processes, guard, rules>>

\* InjectConf, which refuses a file with a management line of the operator's
\* (a failed step), and StripConf
ManageConf(p) ==
  /\ At("manage", p) \/ At("unmanage", p)
  /\ Proceed /\ Same
  /\ conf' = IF conf[p] = Absent THEN conf ELSE [conf EXCEPT ![p].managed = At("manage", p)]
  /\ UNCHANGED <<instances, processes, settings, rules>>

\* SetEnabled, WriteUnitFor with Enable, Start
SwitchOn ==
  /\ \E part \in GuardParts : At(part, Main) /\ guard' = guard \cup {part}
  /\ Proceed /\ Same
  /\ UNCHANGED <<instances, conf, processes, cap, rules>>

\* ovpnguard.Teardown
SwitchOff ==
  /\ At("noGuard", Main) /\ Proceed /\ Same
  /\ guard' = {}
  /\ UNCHANGED <<instances, conf, processes, cap, rules>>

\* WriteInstanceConf allows several sessions per user; a worker copies the
\* primary's MULTILOGIN; with the guard on either gets its management socket.
NewConf(i, dup, managed) == [port |-> op.ports[i], hook |-> FALSE, dup |-> dup, managed |-> managed]
CopiedDup == op.name = "enable" => conf[Main].dup

\* MUTANT: the guard is not told of a new port.
WriteConfUnmanaged(i) ==
  /\ At("conf", i) /\ Proceed /\ Same
  /\ conf' = [conf EXCEPT ![i] = NewConf(i, CopiedDup, FALSE)]
  /\ UNCHANGED <<instances, processes, settings, rules>>

WriteConf(i) ==
  /\ At("conf", i) /\ Proceed /\ Same
  /\ conf' = [conf EXCEPT ![i] = NewConf(i, CopiedDup, GuardOn)]
  /\ UNCHANGED <<instances, processes, settings, rules>>

\* The file is there, and SetDuplicateCN or InjectConf fails on it.
ConfHalfDone(i) ==
  /\ At("conf", i) /\ (op.name = "enable" \/ GuardOn)
  /\ Spend
  /\ \E dup \in {TRUE, CopiedDup} : conf' = [conf EXCEPT ![i] = NewConf(i, dup, FALSE)]
  /\ op' = AfterFailure(op)
  /\ doubt' = doubt \cup Doubt(op)
  /\ UNCHANGED <<instances, processes, settings, rules>>

RemoveConf(i) ==
  /\ At("noConf", i) /\ Proceed /\ Same
  /\ conf' = [conf EXCEPT ![i] = Absent]
  /\ UNCHANGED <<instances, processes, settings, rules>>

WriteUnit(i) ==
  /\ At("unit", i) \/ At("noUnit", i)
  /\ Proceed /\ Same
  /\ unit' = [unit EXCEPT ![i] = IF At("noUnit", i) THEN "none"
                                 ELSE IF op.name = "enable" THEN "partOf" ELSE "plain"]
  /\ UNCHANGED <<registry, port, conf, processes, settings, rules>>

SaveRegistry(i) ==
  /\ At("save", i) \/ At("drop", i)
  /\ Proceed /\ Same
  /\ IF At("drop", i)
     THEN registry' = [registry EXCEPT ![i] = "none"] /\ port' = [port EXCEPT ![i] = 0]
     ELSE /\ registry' = [registry EXCEPT ![i] = IF op.name = "enable" THEN "worker" ELSE "extra"]
          /\ port' = [port EXCEPT ![i] = op.ports[i]]
  /\ UNCHANGED <<unit, conf, processes, settings, rules>>

\* toggleMultilogin and setSpreadMultilogin
SetDuplicateCN(p) ==
  /\ At("dup", p) /\ Proceed /\ Same
  /\ conf' = IF conf[p] = Absent THEN conf ELSE [conf EXCEPT ![p].dup = (op.value = 1)]
  /\ UNCHANGED <<instances, processes, settings, rules>>

RewritePort ==
  /\ At("port", Main) /\ Proceed /\ Same
  /\ conf' = [conf EXCEPT ![Main].port = op.value]
  /\ UNCHANGED <<instances, processes, settings, rules>>

\* The speed hook reads the caps for each session; its key is the number of
\* the instance's tun device.
InForce(p) == IF proc[p].hook THEN cap[p] ELSE 0

Running(p) == proc[p] # Absent \/ p \in due
PartOf == {i \in Ids : unit[i] = "partOf" /\ Running(i)}
Wanted == {i \in wants : unit[i] # "none"}

Down(ps) == [p \in Procs |-> IF p \in ps THEN Absent ELSE proc[p]]

Start(p) ==
  /\ At("start", p) /\ Proceed /\ Same
  /\ due' = due \cup {q \in {p} \cup (IF p = Main THEN Wanted ELSE {}) : proc[q] = Absent}
  /\ UNCHANGED <<instances, conf, proc, settings, rules>>

\* Workers stop and restart with the primary (PartOf) and start with it
\* (the drop-in).
Restart(p) ==
  /\ At("restart", p) /\ Proceed /\ Same
  /\ LET group == {p} \cup (IF p = Main THEN PartOf \cup Wanted ELSE {})
     IN proc' = Down(group) /\ due' = due \cup group
  /\ UNCHANGED <<instances, conf, settings, rules>>

Stop(p) ==
  /\ At("stop", p) \/ At("halt", p)
  /\ Proceed /\ Same
  /\ LET group == {p} \cup (IF p = Main THEN PartOf ELSE {})
     IN proc' = Down(group) /\ due' = due \ group
  /\ unit' = IF At("halt", p) THEN [unit EXCEPT ![p] = "none"] ELSE unit    \* UninstallService
  /\ UNCHANGED <<registry, port, conf, settings, rules>>

\* cleanupOpenVPN: rm -r /etc/openvpn, which holds the registry and the caps
Wipe ==
  /\ At("wipe", Main) /\ Proceed /\ Same
  /\ conf' = [p \in Procs |-> Absent]
  /\ registry' = [i \in Ids |-> "none"]
  /\ port' = [i \in Ids |-> 0]
  /\ cap' = [p \in Procs |-> 0]
  /\ UNCHANGED <<unit, processes, guard, rules>>

\* Enable waits for every worker to listen before it redirects anything.
Await(i) ==
  /\ At("await", i) /\ Proceed /\ Same
  /\ proc[i] # Absent
  /\ UNCHANGED <<instances, conf, processes, settings, rules>>

AwaitTimeout(i) ==
  /\ At("await", i)
  /\ proc[i] = Absent
  /\ IF i \in due THEN Spend ELSE UNCHANGED spent
  /\ op' = AfterFailure(op)
  /\ UNCHANGED <<instances, conf, processes, settings, rules, doubt>>

Chains ==
  /\ \/ At("nat", Main) /\ nat' = PortsOf(Workers) /\ UNCHANGED input
     \/ At("input", Main) /\ input' = PortsOf(Workers) /\ UNCHANGED nat
     \/ At("noNat", Main) /\ nat' = {} /\ UNCHANGED input
     \/ At("noInput", Main) /\ input' = {} /\ UNCHANGED nat
  /\ Proceed /\ Same
  /\ UNCHANGED <<instances, conf, processes, settings, jumps, guarded, wants, line>>

Jumps ==
  /\ \/ (At("unjump", Main) \/ At("oldJumps", Main)) /\ jumps' = {} /\ guarded' = FALSE
     \/ At("jump", Main) /\ jumps' = jumps \cup {conf[Main].port} /\ guarded' = TRUE
  /\ Proceed /\ Same
  /\ UNCHANGED <<instances, conf, processes, settings, nat, input, wants, line>>

DropIn ==
  /\ \/ (At("want", Main) \/ At("dropIn", Main)) /\ wants' = Workers
     \/ At("noDropIn", Main) /\ wants' = {}
  /\ Proceed /\ Same
  /\ UNCHANGED <<instances, conf, processes, settings, nat, input, jumps, guarded, line>>

\* The last step of Apply: the rules are right again, whatever went before.
BootLine ==
  /\ \/ At("line", Main) /\ line' = TRUE /\ doubt' = doubt \ {"rules"}
     \/ At("noLine", Main) /\ line' = FALSE /\ UNCHANGED doubt
  /\ Proceed /\ UNCHANGED spent
  /\ UNCHANGED <<instances, conf, processes, settings, nat, input, jumps, guarded, wants>>

-----------------------------------------------------------------------------
(* The operator picks an operation.                                        *)

Lowest(n, set) == {x \in set : Cardinality({y \in set : y < x}) < n}

Begin(name, for, value, ports, todo) ==
  /\ op = Idle
  /\ op' = [name |-> name, for |-> for, ports |-> ports, value |-> value, was |-> cap[for],
            failed |-> FALSE, todo |-> todo]
  /\ Spend
  /\ UNCHANGED <<instances, conf, processes, settings, rules, doubt>>

Rising(ids, from) ==
  {f \in [ids -> from] :
     /\ \A i, j \in ids : i < j => f[i] < f[j]
     /\ \A i \in ids, q \in from : q < f[i] => \E j \in ids : f[j] = q}

\* nextID and pickPorts: a port neither registered nor bound.
NextIds(n) == Lowest(n, {i \in Ids : registry[i] = "none"})
FreePorts == WorkerPorts \ (PortsOf(Ids) \cup {proc[p].port : p \in Procs})

\* MUTANT: a port that was picked is picked again.
PickPortsAgain(ids) == {f \in [ids -> FreePorts] : \A i \in ids, q \in FreePorts : f[i] <= q}

\* From the lowest up, no port twice.
PickPorts(ids) == Rising(ids, FreePorts)

\* toggleSpread: OpenVPN is there and spreading off, or on.
ToggleSpread ==
  \/ /\ Workers = {} /\ conf[Main] # Absent
     /\ \E n \in 1..Cardinality(FreePorts) :
          LET ids == NextIds(n)
          IN /\ Cardinality(ids) = n
             /\ \E ports \in PickPorts(ids) : Begin("enable", Main, 0, ports, Enable(ids))
  \/ Workers # {} /\ Begin("disable", Main, 0, <<>>, Disable(Workers))

\* ovpnInstanceAdd and ovpnInstanceMenu's removal
ExtraPorts ==
  \/ /\ unit[Main] # "none"
     /\ \E i \in NextIds(1) : Begin("extra", i, 0, [j \in {i} |-> 0], AddExtra(i))
  \/ \E i \in Extras : Begin("remove", i, 0, <<>>, RemoveInstances({i}))

\* [1] sets any limit, 0 as well; [2] clears one that is set.
SpeedLimit ==
  /\ unit[Main] # "none"
  /\ \E p \in {Main} \cup Extras :
       \/ \E v \in Mbps : Begin("limit", p, v, <<>>, SetKey(p, Workers))
       \/ cap[p] > 0 /\ Begin("unlimit", p, 0, <<>>, SetKey(p, Workers))

ToggleMultilogin ==
  /\ unit[Main] # "none"
  /\ Begin("multilogin", Main, IF conf[Main].dup THEN 0 ELSE 1, <<>>, Multilogin(Workers))

\* toggleDeviceLimit
ToggleDeviceLimit ==
  /\ unit[Main] # "none"
  /\ IF GuardOn THEN Begin("unguard", Main, 0, <<>>, DisableGuard(ServerConfs, Extras))
     ELSE Begin("guard", Main, 0, <<>>, EnableGuard(ServerConfs, Extras))

ChangeServicePort ==
  /\ unit[Main] # "none"
  /\ \E q \in PublicPorts : Begin("port", Main, q, <<>>, ChangePort(Workers))

Removal ==
  /\ unit[Main] # "none"
  /\ \/ Begin("removeVpn", Main, 0, <<>>, RemoveVpn(Extras \cup Workers))
     \/ Begin("uninstall", Main, 0, <<>>, Uninstall(Extras))

\* `hexplus service` and the restart items; rc.local; the menu's Run, which
\* applies the rules if there are workers.
Control ==
  /\ unit[Main] # "none"
  /\ \E verb \in {"start", "stop", "restart"} : Begin("control", Main, 0, <<>>, On(Main, <<verb>>))

OpenMenu == Workers # {} /\ conf[Main] # Absent /\ Begin("apply", Main, 0, <<>>, Apply)

-----------------------------------------------------------------------------
(* Meanwhile.                                                              *)

CanRun(p) == unit[p] # "none" /\ conf[p] # Absent

Comes(p) ==
  /\ p \in due /\ CanRun(p)
  /\ proc' = [proc EXCEPT ![p] = conf[p]]
  /\ due' = due \ {p}
  /\ UNCHANGED <<instances, conf, settings, rules, op, doubt, spent>>

\* A process does not start, as often as systemd retries.
GivesUp(p) ==
  /\ p \in due
  /\ IF CanRun(p) THEN Spend ELSE UNCHANGED spent
  /\ due' = due \ {p}
  /\ doubt' = IF op.name = "enable" /\ p \in Workers THEN doubt ELSE doubt \cup {"procs"}
  /\ UNCHANGED <<instances, conf, proc, settings, rules, op>>

\* The menu dies with its terminal.
Crash ==
  /\ op # Idle
  /\ Spend
  /\ op' = Idle
  /\ doubt' = Doubts
  /\ UNCHANGED <<instances, conf, processes, settings, rules>>

\* The rules are gone; rc.local runs `hexplus ovpnspread apply` while systemd
\* starts what is enabled or wanted.
Reboot ==
  /\ Spend
  /\ nat' = {} /\ input' = {} /\ jumps' = {} /\ guarded' = FALSE
  /\ proc' = [p \in Procs |-> Absent]
  /\ LET roots == {p \in {Main} \cup Extras : unit[p] = "plain"}    \* enabled
     IN due' = roots \cup {i \in Wanted : Main \in roots}
  /\ op' = IF ~line THEN Idle
           ELSE IF Workers = {} THEN [Idle EXCEPT !.name = "disable", !.todo = Teardown]
           ELSE [Idle EXCEPT !.name = "apply", !.todo = Apply]
  /\ guard' = IF "watchUnit" \in guard THEN guard \cup {"watch"} ELSE guard \ {"watch"}
  /\ doubt' = IF op = Idle THEN doubt ELSE Doubts
  /\ UNCHANGED <<instances, conf, cap, wants, line>>

-----------------------------------------------------------------------------
(* The specification.  At the start OpenVPN runs with some workers, extra   *)
(* ports and limits, set up by operations none of which failed, and with    *)
(* MULTILOGIN as it was installed.                                          *)

Init ==
  /\ registry \in [Ids -> {"none", "worker", "extra"}]
  /\ \E ports \in Rising(Workers, WorkerPorts) :
       port = [i \in Ids |-> IF i \in Workers THEN ports[i] ELSE 0]
  /\ cap \in [Procs -> Mbps]
  /\ \A i \in Ids \ Extras : cap[i] = IF i \in Workers THEN cap[Main] ELSE 0
  /\ guard \in {{}, GuardParts}
  /\ \E q \in PublicPorts :
       LET hook == \E p \in Procs : cap[p] > 0
           main == [port |-> q, dup |-> TRUE, hook |-> hook, managed |-> GuardOn]
       IN conf = [p \in Procs |->
            IF p = Main THEN main
            ELSE IF p \in Workers THEN [main EXCEPT !.port = port[p]]
            ELSE IF p \in Extras THEN [main EXCEPT !.port = 0] ELSE Absent]
  /\ unit = [p \in Procs |-> IF p \in Workers THEN "partOf"
                            ELSE IF p = Main \/ p \in Extras THEN "plain" ELSE "none"]
  /\ proc = conf
  /\ due = {}
  /\ nat = PortsOf(Workers) /\ input = nat
  /\ jumps = {conf[p].port : p \in {q \in {Main} : Workers # {}}}
  /\ wants = Workers /\ guarded = (Workers # {}) /\ line = guarded
  /\ op = Idle
  /\ doubt = {}
  /\ spent = 0

Operation ==
  \/ ToggleSpread \/ ExtraPorts \/ SpeedLimit \/ ToggleMultilogin \/ ToggleDeviceLimit
  \/ ChangeServicePort \/ Removal \/ Control \/ OpenMenu

Step ==
  \/ \E p \in Procs :
       \/ SetLimit(p) \/ Inject(p) \/ SetDuplicateCN(p) \/ ManageConf(p)
       \/ Start(p) \/ Restart(p) \/ Stop(p)
  \/ \E i \in Ids :
       \/ WriteConf(i) \/ ConfHalfDone(i) \/ RemoveConf(i) \/ WriteUnit(i) \/ SaveRegistry(i)
       \/ Await(i) \/ AwaitTimeout(i)
  \/ Check \/ Confirm \/ CallDisable \/ SwitchOn \/ SwitchOff \/ NoCaps \/ RewritePort \/ Wipe
  \/ Chains \/ Jumps \/ DropIn \/ BootLine \/ StepFails

World == (\E p \in Procs : Comes(p) \/ GivesUp(p)) \/ Crash \/ Reboot

Next == Operation \/ Step \/ World

Spec == Init /\ [][Next]_vars

-----------------------------------------------------------------------------
(* Properties.                                                             *)

Confs == [port : {0} \cup PublicPorts \cup WorkerPorts, dup : BOOLEAN, hook : BOOLEAN,
          managed : BOOLEAN]

\* The variables hold what the code can put there, and no two workers were
\* given the same port.
TypeOK ==
  /\ registry \in [Ids -> {"none", "worker", "extra"}]
  /\ port \in [Ids -> WorkerPorts \cup {0}]
  /\ \A i, j \in Workers : port[i] = port[j] => i = j
  /\ conf \in [Procs -> Confs] /\ proc \in [Procs -> Confs]
  /\ unit \in [Procs -> {"none", "plain", "partOf"}] /\ due \subseteq Procs
  /\ cap \in [Procs -> Mbps] /\ guard \subseteq GuardParts
  /\ nat \subseteq WorkerPorts /\ input \subseteq WorkerPorts /\ jumps \subseteq PublicPorts
  /\ guarded \in BOOLEAN /\ wants \subseteq Ids /\ line \in BOOLEAN
  /\ op.name \in Names /\ op.for \in Procs /\ op.value \in Mbps \cup PublicPorts \cup {0, 1}
  /\ op.failed \in BOOLEAN
  /\ doubt \subseteq Doubts /\ spent \in 0..MaxSpent

Serving == {(IF proc[i] # Absent THEN proc[i] ELSE conf[i]).port : i \in {j \in Ids : Running(j)}}

Promise == INSTANCE Balance WITH
  members <- PortsOf(Workers),
  running <- Serving \ {0},    \* extra ports are no concern of spreading
  primary <- Running(Main),
  sharing <- IF jumps = {} THEN {} ELSE nat,
  sound <- "procs" \notin doubt

\* Connections are only ever shared with workers that are registered, and as
\* long as no failure left a process behind, with workers that run
\* (Disable: "removing them would leave connections redirected to ports
\* nobody listens on"; Enable waits "before redirecting anything").
Implements == Promise!Spec

\* Between operations the rules, the drop-in and the boot line are those of
\* the registered workers and of the primary's port, or there are none: after
\* Enable and Disable, a rollback, a change of the port, a reboot, and once
\* the menu was opened after an interruption (menu.Run).
RulesMatchWorkers ==
  op = Idle /\ "rules" \notin doubt =>
    /\ nat = PortsOf(Workers) /\ input = nat
    /\ jumps = (IF Workers = {} THEN {} ELSE {conf[Main].port})
    /\ wants = Workers
    /\ guarded = (Workers # {}) /\ line = (Workers # {})

\* An identifier that is not in use has no file, unit, process or speed cap
\* left: nothing the next instance with that identifier would inherit.
NoLeftovers ==
  op = Idle /\ doubt \cap {"left", "procs", "caps"} = {} =>
    \A i \in Ids : registry[i] = "none" =>
      conf[i] = Absent /\ unit[i] = "none" /\ ~Running(i) /\ cap[i] = 0

\* What is set for all instances reached each of them: the workers have the
\* primary's speed limit and MULTILOGIN, and the guard is on, with its socket
\* in every file, or it is off in all its parts - however it was set, cleared
\* or taken back after a failure (toggleDeviceLimit: "so the menu never shows
\* on for a guard that is half set up").
SettingsReachAll ==
  op = Idle /\ unit[Main] # "none" =>
    /\ "caps" \notin doubt => \A w \in Workers : cap[w] = cap[Main]
    /\ "procs" \notin doubt => \A w \in Workers : conf[w].dup = conf[Main].dup
    /\ doubt \cap {"guard", "left"} = {} =>
         /\ guard = (IF GuardOn THEN GuardParts ELSE {})
         /\ \A p \in ServerConfs : conf[p].managed = GuardOn

\* What runs, runs as configured: a process has read its port, MULTILOGIN
\* and management socket, and its sessions get the speed its key is capped at.
\* Left out are the speeds after a last cap that could not be cleared was put
\* back: a process that started meanwhile has read a file without the hook.
ProcessesUpToDate ==
  op = Idle /\ due = {} /\ doubt \cap {"procs", "caps"} = {} =>
    \A p \in Procs : proc[p] # Absent =>
      /\ proc[p].port = conf[p].port /\ proc[p].dup = conf[p].dup
      /\ proc[p].managed = conf[p].managed
      /\ "hooks" \notin doubt => InForce(p) = cap[p]

=============================================================================
