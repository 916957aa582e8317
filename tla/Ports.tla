---------------------------------- MODULE Ports ----------------------------------
(***************************************************************************)
(* The sockets hexplus services listen on, the firewall rules that open    *)
(* them, and the menu and command line that install, move and remove the   *)
(* services.                                                               *)
(*                                                                         *)
(* Each service has a configuration file, a systemd unit and, when it runs,*)
(* a process that read the file when it started.  Those that open their    *)
(* port (the claimants of src/internal/portclaim) keep one INPUT rule live *)
(* and one line of /etc/rc.local that opens it again at boot; OpenVPN also *)
(* keeps masquerading, FORWARD and SMTP rules.                             *)
(*                                                                         *)
(* An operation is the sequence of its steps <<step, service>>.  Each step *)
(* is one action and may fail instead; AfterFailure says how the operation *)
(* goes on.  One operator works at a time (Accounts has several); services *)
(* come up, the machine reboots, the menu dies meanwhile.                  *)
(***************************************************************************)
EXTENDS Integers, Sequences, FiniteSets, SequencesExt

CONSTANTS
  TcpPorts,      \* port numbers in use, those of the next two included
  UdpPorts,
  SshPort,       \* 22: sshd's port while sshd_config has no Port line
  PopPort,       \* 110: dropbear's second port
  Egresses,      \* network interfaces that lead out
  Elsewhere,     \* a tunnel's target that is no local port
  MaxInstalled,  \* bound: services besides sshd there at the start
  MaxSpent       \* bound: operations, failed steps, crashes, reboots, moves of the egress

\* An interface's name is none of the words for the other rules.
ASSUME ParametersOK ==
  /\ SshPort \in TcpPorts /\ PopPort \in TcpPorts /\ Elsewhere \notin TcpPorts
  /\ Egresses \cap {"drop", "reply"} = {}
  /\ MaxSpent \in Nat

VARIABLES
  file,      \* the sockets of each service's configuration
  to,        \* the tunnels' targets: a local TCP port or Elsewhere
  unit,      \* the services with a systemd unit
  boot,      \* the enabled ones
  due,       \* those systemd has been told to start and that are not up yet
  proc,      \* the sockets each process holds; none, if it does not run
  procTo,    \* the target a running tunnel forwards to
  live,      \* INPUT, masquerading and SMTP rules in the kernel
  lines,     \* those rc.local makes at boot
  fwd,       \* the FORWARD chain, first match first
  fwdLines,  \* rc.local's FORWARD lines; each inserts at the chain's head
  egress,    \* the interface that leads out
  op,        \* what the operator is doing
  meant,     \* history: the tunnels the operator pointed at OpenVPN
  trouble,   \* history: the services a failed step or a crash concerned, and
             \* "egress" when that has moved
  doubt,     \* history: the sockets a failed step or a crash concerned
  spent      \* bound's counter

vars == <<file, to, unit, boot, due, proc, procTo, live, lines, fwd, fwdLines, egress,
          op, meant, trouble, doubt, spent>>
services == <<unit, boot, due, proc, procTo>>
rules    == <<live, lines, fwd, fwdLines>>

Vpns == {"openvpn", "extra"}      \* an extra port is an OpenVPN of its own
Tunnels == {"ssltunnel", "proxy"}    \* proxy: an entry of the SOCKS OPENVPN slot
Claimants == Vpns \cup Tunnels \cup {"sslhmux"}
Managed == {"openvpn", "squid", "dropbear"}
Services == Claimants \cup Managed \cup {"ssh"}

Sockets == ({"tcp"} \X TcpPorts) \cup ({"udp"} \X UdpPorts)
Usable(s) == {k \in Sockets : k[1] = "tcp" \/ s \in Vpns}
Targets == TcpPorts \cup {Elsewhere}

Masq(v) == <<"nat", v>>
Mail == <<"mail", "smtp">>       \* the six appended SMTP and POP3 rules
Rules == Sockets \cup {Masq(v) : v \in Vpns} \cup {Mail}

\* ForwardSpecs: the SMTP and POP3 DROPs, the ACCEPT that names the egress,
\* the ACCEPT of replies.
Forward(e) == <<"drop", e, "reply">>
Specs == {"drop", "reply"} \cup Egresses

-----------------------------------------------------------------------------
(* Who needs which port.                                                   *)

\* MUTANT: the tunnels are left out of the claims.
HeldByOtherNoTunnels(self) == UNION {file[c] : c \in Claimants \ ({self} \cup Tunnels)}

\* The sockets in other claimants' configurations, running or not.
HeldByOther(self) == UNION {file[c] : c \in Claimants \ {self}}
Claimed == UNION {file[c] : c \in Claimants}

\* checkPortFree: nothing is bound to it.
Free(k) == \A s \in Services : k \notin proc[s]

Listen(s) == IF s = "ssh" /\ file[s] = {} THEN {<<"tcp", SshPort>>} ELSE file[s]

\* The target that means OpenVPN, if it serves TCP.
VpnTarget == {k[2] : k \in {x \in file["openvpn"] : x[1] = "tcp"}}

-----------------------------------------------------------------------------
(* The operations, step by step.                                           *)

Of(todo) == {todo[i][2] : i \in 1..Len(todo)}
On(s, names) == [i \in 1..Len(names) |-> <<names[i], s>>]

\* MUTANT: first to last, each at the chain's head.
InsertForwardFirst == <<"drop", "accept", "reply">>

InsertForward == <<"reply", "accept", "drop">>    \* last to first

SslhInstall == On("sslhmux", <<"save", "unit", "openLive", "openLine", "enable", "start">>)
TunnelInstall == On("ssltunnel", <<"save", "unit", "openLive", "openLine", "enable", "start">>)
ProxyInstall == On("proxy", <<"save", "openLive", "openLine", "unit", "enable", "start">>)
ProxyAdd == On("proxy", <<"save", "openLive", "openLine", "unit">>)
ExtraAdd == On("extra", <<"unit", "masq", "masqLine">> \o InsertForward
                    \o <<"forwardLines", "openLive", "openLine", "save", "enable", "start">>)
VpnInstall == On("openvpn", <<"unit", "save", "masq", "openLive", "mail">> \o InsertForward
                    \o <<"netLines", "enable", "start">>)
SquidInstall == On("squid", <<"unit", "save", "enable", "start">>)
DropbearInstall == On("dropbear", <<"unit", "save", "enable", "start">>)

FrontRemove(s) == On(s, <<"disable", "stop", "dropUnit", "forget", "closeLive", "closeLine">>)
ProxyRemove == On("proxy", <<"forget", "closeLive", "closeLine", "dropUnit">>)
ExtraRemove == On("extra", <<"disable", "stop", "dropUnit", "unmasq", "unmasqLine",
                                "closeLive", "closeLine", "forget">>)
ServiceRemove(s) == On(s, <<"stop", "disable", "dropUnit", "binary">>)
VpnCleanup == On("openvpn", <<"unmasq", "unforward", "closeConf", "sweepLive", "sweepLines",
                                  "unmail", "dropLines", "wipe">>)
VpnRemove(extras) == (IF extras THEN ExtraRemove ELSE <<>>) \o ServiceRemove("openvpn") \o VpnCleanup
SquidRemove == ServiceRemove("squid") \o On("squid", <<"forget">>)

\* removeFrontends reads every port first, and closes them at the end.
FrontSteps == <<"disable", "stop", "dropUnit", "forget">>
Uninstall(extras) ==
  (IF extras THEN ExtraRemove ELSE <<>>)
    \o ServiceRemove("openvpn") \o ServiceRemove("squid") \o ServiceRemove("dropbear")
    \o On("ssltunnel", FrontSteps) \o On("sslhmux", FrontSteps) \o On("proxy", FrontSteps)
    \o On("ssltunnel", <<"closeLive", "closeLine">>) \o On("sslhmux", <<"closeLive", "closeLine">>)
    \o On("proxy", <<"closeLive", "closeLine">>)

\* MUTANT: the rc.local line of the old port stays.
MoveInputLiveOnly == <<"closeLive", "openLive", "openLine">>

MoveInput == <<"closeLive", "closeLine", "openLive", "openLine">>

\* MUTANT: the proxies are not pointed at OpenVPN's new port.
FollowVpnTunnelOnly == On("ssltunnel", <<"follow", "tryRestart">>)

FollowVpn == On("ssltunnel", <<"follow", "tryRestart">>) \o On("proxy", <<"follow", "tryRestart">>)

VpnPort == On("openvpn", <<"save">> \o MoveInput \o <<"restart">>)
VpnFollowed == On("openvpn", <<"await">>) \o FollowVpn
ConfChange(s) == On(s, <<"save", "restart">>)
TunnelMove == On("ssltunnel", <<"save", "unit">> \o MoveInput \o <<"restart">>)

TunnelTarget == On("ssltunnel", <<"save", "unit", "restart">>)

-----------------------------------------------------------------------------
(* A step fails.                                                           *)

Resting == [flow |-> "idle", new |-> {}, to |-> Elsewhere, was |-> <<>>, todo |-> <<>>]
Flows == {"idle", "install", "installBest", "remove", "uninstall", "move", "change"}

Then(rest) == IF rest = <<>> THEN Resting ELSE [op EXCEPT !.todo = rest]
At(step, s) == op.todo # <<>> /\ Head(op.todo) = <<step, s>>
Proceed == op' = Then(Tail(op.todo))
Spend == spent < MaxSpent /\ spent' = spent + 1

\* The steps whose failure ends the operation.  Removals go on whatever
\* fails, but for the binary (service.UninstallService returns; `hexplus
\* uninstall` ignores that) and the proxies' database.
Ends(o) ==
  CASE o.flow = "install" -> TRUE
    [] o.flow = "installBest" -> Head(o.todo)[1] \in {"unit", "save", "start"}
                                   \/ Head(o.todo) = <<"enable", "extra">>
    [] o.flow = "remove" -> Head(o.todo)[1] = "binary" \/ Head(o.todo) = <<"forget", "proxy">>
    [] o.flow = "move" -> Head(o.todo)[1] \in {"save", "unit"}
    [] o.flow = "change" -> TRUE
    [] OTHER -> FALSE

\* The steps of the same service a failure skips.
Skipped(step) ==
  CASE step = "closeLine" -> {"openLive", "openLine"}    \* MoveInput returns
    [] step = "openLive" -> {"openLine"}
    [] step \in {"reply", "accept", "drop"} -> {"reply", "accept", "drop", "forwardLines"}
    [] step = "follow" -> {"tryRestart"}
    [] OTHER -> {}

\* The operation goes on behind the steps that the failed one takes with it.
AfterFailure(o) ==
  LET Gone(x) == Ends(o) \/ (x[2] = Head(o.todo)[2] /\ x[1] \in Skipped(Head(o.todo)[1]))
      Onward(n) == /\ \A i \in 2..(n - 1) : Gone(o.todo[i])
                   /\ n <= Len(o.todo) => ~Gone(o.todo[n])
  IN {SubSeq(o.todo, n, Len(o.todo)) : n \in {m \in 2..(Len(o.todo) + 1) : Onward(m)}}

\* What is left of the operation is in doubt.
Touch ==
  /\ trouble' = trouble \cup Of(op.todo)
  /\ doubt' = doubt \cup op.new \cup UNION {op.was[s] : s \in Of(op.todo)}

StepFails ==
  /\ op.todo # <<>>
  /\ Spend
  /\ \E rest \in AfterFailure(op) : op' = Then(rest)
  /\ Touch
  /\ UNCHANGED <<file, to, services, rules, egress, meant>>

-----------------------------------------------------------------------------
(* The steps.                                                              *)

Files == UNCHANGED <<services, rules, egress, trouble, doubt, spent>>
Units == UNCHANGED <<file, to, meant, rules, egress, trouble, doubt, spent>>
Nets == UNCHANGED <<file, to, meant, services, egress, trouble, doubt, spent>>

Save(s) ==
  /\ At("save", s) /\ Proceed /\ Files
  /\ file' = [file EXCEPT ![s] = op.new]
  /\ IF s \in Tunnels
     THEN /\ to' = [to EXCEPT ![s] = op.to]
          /\ meant' = IF op.to \in VpnTarget THEN meant \cup {s} ELSE meant \ {s}
     ELSE /\ UNCHANGED to
          \* a new installation of OpenVPN: the tunnels are the operator's to set
          /\ meant' = IF s = "openvpn" /\ op.flow = "installBest" THEN {} ELSE meant

Forget(s) ==
  /\ At("forget", s) /\ Proceed /\ Files
  /\ file' = [file EXCEPT ![s] = {}]
  /\ to' = IF s \in Tunnels THEN [to EXCEPT ![s] = Elsewhere] ELSE to
  /\ meant' = meant \ {s}

\* rm -r /etc/openvpn, which holds the registry of extra ports as well
Wipe ==
  /\ At("wipe", "openvpn") /\ Proceed /\ Files
  /\ file' = [file EXCEPT !["openvpn"] = {}, !["extra"] = {}]
  /\ meant' = {}
  /\ UNCHANGED to

\* followOpenVPNPort: only a target on the old port is moved.
Follow(t) ==
  /\ At("follow", t) /\ Files
  /\ UNCHANGED <<file, meant>>
  /\ IF <<"tcp", to[t]>> \in op.was["openvpn"]
     THEN /\ \E k \in op.new : to' = [to EXCEPT ![t] = k[2]]
          /\ Proceed
     ELSE /\ UNCHANGED to
          /\ op' = Then(Tail(Tail(op.todo)))

WriteUnit(s) ==
  /\ At("unit", s) /\ Proceed /\ Units
  /\ unit' = unit \cup {s}
  /\ UNCHANGED <<boot, due, proc, procTo>>

RemoveUnit(s) ==
  /\ At("dropUnit", s) /\ Proceed /\ Units
  /\ unit' = unit \ {s}
  /\ UNCHANGED <<boot, due, proc, procTo>>

Enable(s) ==
  /\ At("enable", s) /\ Proceed /\ Units
  /\ boot' = boot \cup {s}
  /\ UNCHANGED <<unit, due, proc, procTo>>

Disable(s) ==
  /\ At("disable", s) /\ Proceed /\ Units
  /\ boot' = boot \ {s}
  /\ UNCHANGED <<unit, due, proc, procTo>>

Start(s) ==
  /\ At("start", s) /\ Proceed /\ Units
  /\ due' = IF proc[s] = {} THEN due \cup {s} ELSE due
  /\ UNCHANGED <<unit, boot, proc, procTo>>

Stop(s) ==
  /\ At("stop", s) /\ Proceed /\ Units
  /\ due' = due \ {s}
  /\ proc' = [proc EXCEPT ![s] = {}]
  /\ UNCHANGED <<unit, boot, procTo>>

\* try-restart leaves a service alone that does not run.
Restart(s) ==
  /\ At("restart", s) \/ At("tryRestart", s)
  /\ Proceed /\ Units
  /\ due' = IF At("restart", s) \/ proc[s] # {} THEN due \cup {s} ELSE due
  /\ proc' = [proc EXCEPT ![s] = {}]
  /\ UNCHANGED <<unit, boot, procTo>>

\* UninstallService deletes the binaries last.
RemoveBinary(s) == At("binary", s) /\ Proceed /\ Units /\ UNCHANGED services

OpenLive(s) ==
  /\ At("openLive", s) /\ Proceed /\ Nets
  /\ live' = live \cup op.new
  /\ UNCHANGED <<lines, fwd, fwdLines>>

OpenLine(s) ==
  /\ At("openLine", s) /\ Proceed /\ Nets
  /\ lines' = lines \cup op.new
  /\ UNCHANGED <<live, fwd, fwdLines>>

\* MUTANT: what other services hold is not looked at.
LetGoAll(s) == op.was[s] \ op.new

\* What closing s's port closes: not a port another claimant has in its
\* configuration, nor the one s moves to.
LetGo(s) == op.was[s] \ (HeldByOther(s) \cup op.new)

CloseLive(s) ==
  /\ At("closeLive", s) /\ Proceed /\ Nets
  /\ live' = live \ LetGo(s)
  /\ UNCHANGED <<lines, fwd, fwdLines>>

CloseLine(s) ==
  /\ At("closeLine", s) /\ Proceed /\ Nets
  /\ lines' = lines \ LetGo(s)
  /\ UNCHANGED <<live, fwd, fwdLines>>

\* EnsureMasquerade and DeleteMasquerade, live and in rc.local
Masquerade(v) ==
  \/ /\ At("masq", v) /\ Proceed /\ Nets
     /\ live' = live \cup {Masq(v)}
     /\ UNCHANGED <<lines, fwd, fwdLines>>
  \/ /\ At("masqLine", v) /\ Proceed /\ Nets
     /\ lines' = lines \cup {Masq(v)}
     /\ UNCHANGED <<live, fwd, fwdLines>>

Unmasquerade(v) ==
  \/ /\ At("unmasq", v) /\ Proceed /\ Nets
     /\ live' = live \ {Masq(v)}
     /\ UNCHANGED <<lines, fwd, fwdLines>>
  \/ /\ At("unmasqLine", v) /\ Proceed /\ Nets
     /\ lines' = lines \ {Masq(v)}
     /\ UNCHANGED <<live, fwd, fwdLines>>

MailRules ==
  \/ /\ At("mail", "openvpn") /\ Proceed /\ Nets
     /\ live' = live \cup {Mail}
     /\ UNCHANGED <<lines, fwd, fwdLines>>
  \/ /\ At("unmail", "openvpn") /\ Proceed /\ Nets
     /\ live' = live \ {Mail}
     /\ UNCHANGED <<lines, fwd, fwdLines>>

\* ApplyForward: a rule that is there is left where it is.
ApplyForward(v) ==
  \E step \in {"reply", "accept", "drop"} :
    LET spec == IF step = "accept" THEN egress ELSE step
    IN /\ At(step, v) /\ Proceed /\ Nets
       /\ fwd' = IF Contains(fwd, spec) THEN fwd ELSE <<spec>> \o fwd
       /\ UNCHANGED <<live, lines, fwdLines>>

Unforward ==
  /\ At("unforward", "openvpn") /\ Proceed /\ Nets
  /\ fwd' = <<>>
  /\ UNCHANGED <<live, lines, fwdLines>>

\* MUTANT: lines that are there are written again.
PersistedAgain(old) == old \o Reverse(Forward(egress))

IfMissing(line, old) == IF Contains(old, line) THEN <<>> ELSE <<line>>

\* The missing lines are added behind those that are there.
Persisted(old) ==
  old \o IfMissing("reply", old) \o IfMissing(egress, old) \o IfMissing("drop", old)

\* setupInstanceNAT
ForwardLines ==
  /\ At("forwardLines", "extra") /\ Proceed /\ Nets
  /\ fwdLines' = Persisted(fwdLines)
  /\ UNCHANGED <<live, lines, fwd>>

\* What is left of `old` if only the lines of Forward(egress) stay.
Thinned(old) ==
  {new \in UNION {[1..n -> ToSet(Forward(egress))] : n \in 0..3} :
     /\ ToSet(new) = ToSet(old) \cap ToSet(Forward(egress))
     /\ \A i, j \in 1..Len(new) : i < j =>
          \E k, l \in 1..Len(old) : k < l /\ old[k] = new[i] /\ old[l] = new[j]}

\* setupNetworking writes rc.local once, with what it could apply; lines
\* for another egress are dropped.
NetLines ==
  /\ At("netLines", "openvpn") /\ Proceed /\ Nets
  /\ lines' = lines \cup {Masq("openvpn"), Mail} \cup (op.new \cap live)
  /\ IF \A i \in 1..3 : Contains(fwd, Forward(egress)[i])
     THEN \E kept \in Thinned(fwdLines) : fwdLines' = Persisted(kept)
     ELSE UNCHANGED fwdLines
  /\ UNCHANGED <<live, fwd>>

\* cleanupOpenVPN: the port in server.conf, then (RemovePersistedInput)
\* every port rc.local opens, unless another service holds it; then
\* OpenVPN's own lines.
CloseConf ==
  /\ At("closeConf", "openvpn") /\ Proceed /\ Nets
  /\ live' = live \ (file["openvpn"] \ HeldByOther("openvpn"))
  /\ UNCHANGED <<lines, fwd, fwdLines>>

Swept == (lines \cap Sockets) \ HeldByOther("openvpn")

SweepLive ==
  /\ At("sweepLive", "openvpn") /\ Proceed /\ Nets
  /\ live' = live \ Swept
  /\ UNCHANGED <<lines, fwd, fwdLines>>

SweepLines ==
  /\ At("sweepLines", "openvpn") /\ Proceed /\ Nets
  /\ lines' = lines \ Swept
  /\ UNCHANGED <<live, fwd, fwdLines>>

DropLines ==
  /\ At("dropLines", "openvpn") /\ Proceed /\ Nets
  /\ lines' = lines \ {Masq("openvpn"), Mail}
  /\ fwdLines' = <<>>
  /\ UNCHANGED <<live, fwd>>

\* changeServicePort goes on only if something listens on the new port.
Await ==
  /\ At("await", "openvpn") /\ Proceed
  /\ \A k \in op.new : ~Free(k)
  /\ Units /\ UNCHANGED services

\* Nothing came up within 4 seconds.
AwaitTimeout ==
  /\ At("await", "openvpn")
  /\ \A k \in op.new : Free(k)
  /\ IF "openvpn" \in due THEN Spend ELSE UNCHANGED spent
  /\ op' = Resting
  /\ Touch
  /\ UNCHANGED <<file, to, services, rules, egress, meant>>

-----------------------------------------------------------------------------
(* The operator picks an operation.                                        *)

Begin(flow, new, target, todo) ==
  /\ op = Resting
  /\ Spend
  /\ op' = [flow |-> flow, new |-> new, to |-> target, was |-> [s \in Of(todo) |-> file[s]],
             todo |-> todo]
  /\ UNCHANGED <<file, to, services, rules, egress, meant>>

Pick(flow, new, target, todo) == Begin(flow, new, target, todo) /\ UNCHANGED <<trouble, doubt>>

\* The menus offer the installation of what is not there and refuse a port
\* something is bound to.
InstallFront(k) ==
  /\ Free(k) /\ k[1] = "tcp"
  /\ \/ file["sslhmux"] = {} /\ Pick("install", {k}, Elsewhere, SslhInstall)
     \/ /\ file["ssltunnel"] = {}
        /\ \E t \in VpnTarget \cup {Elsewhere} : Pick("install", {k}, t, TunnelInstall)
     \/ /\ file["proxy"] = {}
        /\ \E t \in VpnTarget \cup {Elsewhere} : Pick("install", {k}, t, ProxyInstall)

InstallService(k) ==
  /\ Free(k)
  /\ \/ /\ "openvpn" \notin unit
        /\ Begin("installBest", {k}, Elsewhere, VpnInstall)
        /\ doubt' = doubt \cup (file["openvpn"] \ {k})    \* left by `hexplus uninstall`
        /\ UNCHANGED trouble
     \/ "squid" \notin unit /\ k[1] = "tcp" /\ Pick("installBest", {k}, Elsewhere, SquidInstall)
     \/ /\ "dropbear" \notin unit /\ k[1] = "tcp"
        /\ Pick("installBest", {k, <<"tcp", PopPort>>}, Elsewhere, DropbearInstall)

\* Only a bound port is refused: a stopped OpenVPN's is not.
AddExtra(k) ==
  /\ "openvpn" \in unit /\ file["extra"] = {} /\ Free(k)
  /\ Pick("installBest", {k}, Elsewhere, ExtraAdd)

\* `hexplus proxy add` asks nothing; over a proxy of the same name it leaves
\* the old port open and the old process running, as `hexplus proxy remove`
\* leaves the process.
AddProxy(k) ==
  /\ k[1] = "tcp"
  /\ Begin("installBest", {k}, Elsewhere, ProxyAdd)
  /\ trouble' = IF file["proxy"] = {} THEN trouble ELSE trouble \cup {"proxy"}
  /\ doubt' = doubt \cup file["proxy"]

RemoveProxy ==
  /\ file["proxy"] # {}
  /\ Begin("remove", {}, Elsewhere, ProxyRemove)
  /\ trouble' = IF proc["proxy"] = {} /\ "proxy" \notin due THEN trouble ELSE trouble \cup {"proxy"}
  /\ UNCHANGED doubt

RemoveFront ==
  \E s \in Tunnels \cup {"sslhmux"} :
    file[s] # {} /\ Pick("remove", {}, Elsewhere, FrontRemove(s))

RemoveService ==
  \/ file["extra"] # {} /\ Pick("remove", {}, Elsewhere, ExtraRemove)
  \/ "openvpn" \in unit /\ Pick("remove", {}, Elsewhere, VpnRemove(file["extra"] # {}))
  \/ "squid" \in unit /\ Pick("remove", {}, Elsewhere, SquidRemove)
  \/ "dropbear" \in unit /\ Pick("remove", {}, Elsewhere, ServiceRemove("dropbear"))

\* install.Uninstall: configurations under /etc are kept on purpose.
UninstallAll == Pick("uninstall", {}, Elsewhere, Uninstall(file["extra"] # {}))

\* changeServicePort and portChangeConflict.
ChangeVpnPort(k) ==
  /\ "openvpn" \in unit
  /\ \E old \in file["openvpn"] :
       /\ k[1] = old[1]
       /\ k = old \/ (Free(k) /\ k \notin file["extra"])    \* instanceOnPort
       /\ Pick("move", {k}, Elsewhere,
               VpnPort \o (IF k[1] = "tcp" /\ k # old THEN VpnFollowed ELSE <<>>))

\* Of several http_port lines the first is squid's port; all are rewritten.
ChangeConfPort(k) ==
  /\ k[1] = "tcp"
  /\ \/ /\ "squid" \in unit
        /\ Free(k) \/ k \in file["squid"]
        /\ Pick("change", {k}, Elsewhere, ConfChange("squid"))
     \/ /\ "dropbear" \in unit
        /\ Free(k) \/ k \in file["dropbear"]
        /\ Pick("change", {k, <<"tcp", PopPort>>}, Elsewhere, ConfChange("dropbear"))

MoveTunnel(k) ==
  /\ file["ssltunnel"] # {} /\ k[1] = "tcp" /\ Free(k)
  /\ k \notin file["ssltunnel"]
  /\ Pick("move", {k}, to["ssltunnel"], TunnelMove)

RetargetTunnel ==
  /\ file["ssltunnel"] # {}
  /\ \E t \in (VpnTarget \cup {Elsewhere}) \ {to["ssltunnel"]} :
       Pick("change", file["ssltunnel"], t, TunnelTarget)

\* squidAddPort and squidRemovePort, sshAddPort and sshDeletePort.
ChangePorts(k) ==
  /\ k[1] = "tcp"
  /\ \/ /\ "squid" \in unit /\ Free(k) /\ k \notin file["squid"]
        /\ Pick("change", file["squid"] \cup {k}, Elsewhere, ConfChange("squid"))
     \/ /\ "squid" \in unit /\ k \in file["squid"] /\ file["squid"] # {k}
        /\ Pick("change", file["squid"] \ {k}, Elsewhere, ConfChange("squid"))
     \/ /\ Free(k) /\ k \notin Listen("ssh")
        /\ Pick("change", Listen("ssh") \cup {k}, Elsewhere, ConfChange("ssh"))
     \/ /\ k \in file["ssh"]
        /\ Pick("change", file["ssh"] \ {k}, Elsewhere, ConfChange("ssh"))

\* The restart items, and `hexplus service` with its verbs.
Control ==
  \/ \E s \in unit : Pick("change", {}, Elsewhere, On(s, <<"restart">>))
  \/ \E s \in Managed \cap unit, verb \in {"start", "stop", "enable", "disable"} :
       Pick("change", {}, Elsewhere, On(s, <<verb>>))

-----------------------------------------------------------------------------
(* Meanwhile.                                                              *)

\* What s finds free of its ports; sshd, squid and dropbear make do with some.
Unbound(s) == {k \in Listen(s) : \A r \in Services \ {s} : k \notin proc[r]}

Comes(s) ==
  /\ s \in due
  /\ Unbound(s) # {}
  /\ proc' = [proc EXCEPT ![s] = Unbound(s)]
  /\ procTo' = IF s \in Tunnels THEN [procTo EXCEPT ![s] = to[s]] ELSE procTo
  /\ due' = due \ {s}
  /\ UNCHANGED <<file, to, unit, boot, rules, egress, op, meant, trouble, doubt, spent>>

\* systemd stops retrying (unitpolicy: 20 starts in 300 seconds).
GivesUp(s) ==
  /\ s \in due
  /\ Unbound(s) = {}
  /\ due' = due \ {s}
  /\ UNCHANGED <<file, to, unit, boot, proc, procTo, rules, egress, op, meant, trouble, doubt, spent>>

\* The menu dies with its terminal.
Crash ==
  /\ op # Resting
  /\ Spend
  /\ op' = Resting
  /\ Touch
  /\ UNCHANGED <<file, to, services, rules, egress, meant>>

\* rc.local's lines insert at the head of the chain, one after the other.
Reboot ==
  /\ Spend
  /\ op' = Resting
  /\ Touch
  /\ live' = lines
  /\ fwd' = Reverse(fwdLines)
  /\ proc' = [s \in Services |-> {}]
  /\ due' = boot \cap unit
  /\ UNCHANGED <<file, to, unit, boot, procTo, lines, fwdLines, egress, meant>>

MoveEgress ==
  /\ op = Resting
  /\ Spend
  /\ egress' \in Egresses \ {egress}
  /\ trouble' = trouble \cup {"egress"}
  /\ UNCHANGED <<file, to, services, rules, op, meant, doubt>>

-----------------------------------------------------------------------------
(* The specification.  At the start some services are there, run or not,   *)
(* and no operation has failed yet.                                        *)

Init ==
  \E inst \in SUBSET (Services \ {"ssh"}) :
    /\ Cardinality(inst) <= MaxInstalled
    /\ "extra" \in inst => "openvpn" \in inst
    /\ \E at \in [inst -> Sockets] :
         /\ \A s \in inst : at[s] \in Usable(s)
         /\ file = [s \in Services |-> IF s \notin inst THEN {}
                      ELSE IF s = "dropbear" THEN {at[s], <<"tcp", PopPort>>} ELSE {at[s]}]
    /\ to \in [Tunnels -> VpnTarget \cup {Elsewhere}]
    /\ \A t \in Tunnels \ inst : to[t] = Elsewhere
    /\ meant = {t \in Tunnels : to[t] # Elsewhere}
    /\ procTo = to
    /\ unit = inst \cup {"ssh"}
    /\ boot = unit
    /\ due = {}
    /\ \E up \in SUBSET unit :
         /\ "ssh" \in up /\ Cardinality(unit \ up) <= 1
         /\ \A r, s \in up : r # s => Listen(r) \cap Listen(s) = {}
         /\ proc = [s \in Services |-> IF s \in up THEN Listen(s) ELSE {}]
    /\ egress \in Egresses
    /\ live = Claimed \cup {Masq(v) : v \in Vpns \cap inst} \cup {m \in {Mail} : "openvpn" \in inst}
    /\ lines = live
    /\ fwd = IF "openvpn" \in inst THEN Forward(egress) ELSE <<>>
    /\ fwdLines = Reverse(fwd)
    /\ op = Resting
    /\ trouble = {}
    /\ doubt = {}
    /\ spent = 0

Operation ==
  \/ \E k \in Sockets :
       \/ InstallFront(k) \/ InstallService(k) \/ AddExtra(k) \/ AddProxy(k)
       \/ ChangeVpnPort(k) \/ ChangeConfPort(k) \/ MoveTunnel(k) \/ ChangePorts(k)
  \/ RemoveFront \/ RemoveProxy \/ RemoveService \/ UninstallAll \/ RetargetTunnel \/ Control

Step ==
  \/ \E s \in Services :
       \/ Save(s) \/ Forget(s) \/ WriteUnit(s) \/ RemoveUnit(s) \/ Enable(s) \/ Disable(s)
       \/ Start(s) \/ Stop(s) \/ Restart(s) \/ RemoveBinary(s)
       \/ OpenLive(s) \/ OpenLine(s) \/ CloseLive(s) \/ CloseLine(s)
  \/ \E t \in Tunnels : Follow(t)
  \/ \E v \in Vpns : Masquerade(v) \/ Unmasquerade(v) \/ ApplyForward(v)
  \/ Wipe \/ MailRules \/ Unforward \/ ForwardLines \/ NetLines
  \/ CloseConf \/ SweepLive \/ SweepLines \/ DropLines \/ Await \/ AwaitTimeout \/ StepFails

World == (\E s \in Services : Comes(s) \/ GivesUp(s)) \/ Crash \/ Reboot \/ MoveEgress

Next == Operation \/ Step \/ World

Spec == Init /\ [][Next]_vars

-----------------------------------------------------------------------------
(* Properties.                                                             *)

NoTwice(seq) == \A i, j \in 1..Len(seq) : seq[i] = seq[j] => i = j

\* The variables hold what the code can put there; no FORWARD rule or line
\* is there twice, however often ports are added.
TypeOK ==
  /\ file \in [Services -> SUBSET Sockets] /\ proc \in [Services -> SUBSET Sockets]
  /\ to \in [Tunnels -> Targets] /\ procTo \in [Tunnels -> Targets]
  /\ unit \subseteq Services /\ boot \subseteq Services /\ due \subseteq Services
  /\ live \subseteq Rules /\ lines \subseteq Rules
  /\ fwd \in Seq(Specs) /\ NoTwice(fwd) /\ fwdLines \in Seq(Specs) /\ NoTwice(fwdLines)
  /\ egress \in Egresses
  /\ op.flow \in Flows /\ op.new \subseteq Sockets /\ op.to \in Targets
  /\ Of(op.todo) \subseteq DOMAIN op.was /\ op.was \in [DOMAIN op.was -> SUBSET Sockets]
  /\ meant \subseteq Tunnels
  /\ trouble \subseteq Services \cup {"egress"} /\ doubt \subseteq Sockets
  /\ spent \in 0..MaxSpent

\* The ports open now and after the next boot are those the services have in
\* their configurations, whatever was installed, moved, removed or rebooted
\* around them, and the masquerading rules are those of the OpenVPNs there
\* are (firewall.OpenPort, MoveInput and ClosePort with portclaim.HeldByOther).
OpenAsClaimed ==
  op = Resting =>
    /\ \A s \in Claimants \ trouble : file[s] \ doubt \subseteq live \cap lines
    /\ ((live \cup lines) \cap Sockets) \subseteq Claimed \cup doubt
    /\ \A v \in Vpns \ trouble :
         IF file[v] # {} THEN Masq(v) \in live \cap lines ELSE Masq(v) \notin live \cup lines

\* No operation, failed step or crash closes a port that another service has
\* in its configuration (portclaim's reason to be).
NeverClosesAnothers ==
  [][\A c \in Claimants : \A k \in file[c] \cap live \cap lines :
       k \in live' \cap lines' \/ (op.todo # <<>> /\ Head(op.todo)[2] = c)]_vars

\* What runs, runs as configured: on the ports, and to the target, that its
\* configuration gives; and a tunnel that was pointed at OpenVPN still is after
\* OpenVPN's port moved (followOpenVPNPort).
RunsAsConfigured ==
  op = Resting =>
    /\ \A s \in unit \ (trouble \cup due) :
         /\ proc[s] \subseteq Listen(s)
         /\ s \in Tunnels /\ proc[s] # {} => procTo[s] = to[s]
    /\ "openvpn" \notin trouble /\ VpnTarget # {} =>
         \A t \in meant \ trouble : to[t] \in VpnTarget

Blocks(chain) == \A i \in 1..Len(chain) : chain[i] = egress => \E j \in 1..i : chain[j] = "drop"

\* VPN clients cannot send mail: the DROP of ForwardSpecs comes before the
\* ACCEPT, in the kernel and in what rc.local makes (ApplyForward and
\* RCLocalLines), as long as the egress has not moved.
MailBlocked ==
  op = Resting /\ trouble \cap (Vpns \cup {"egress"}) = {} =>
    Blocks(fwd) /\ Blocks(Reverse(fwdLines))

\* The same wherever the egress moves: "in the order they must end up in the
\* chain, first match first" (forward.go:64-67).
MailStaysBlocked ==
  op = Resting /\ trouble \cap Vpns = {} => Blocks(fwd) /\ Blocks(Reverse(fwdLines))

=============================================================================
