----------------------------- MODULE ConfigReload -----------------------------
(***************************************************************************)
(* From the panel's database to what the xray daemon serves.               *)
(*                                                                         *)
(* HTTP handlers and the enforcer loop change rows of `clients`,           *)
(* `inbounds`, `outbounds` and `routing_rules` and then call xray.Reload:  *)
(* read the rows, write config.json.tmp, rename it over config.json, ask   *)
(* systemd to restart the daemon (src/internal/xray/generate.go,           *)
(* daemon.go, panel/enforcer.go).                                          *)
(* Nothing serialises two reloads: they read at different moments and      *)
(* share the temporary name.                                               *)
(*                                                                         *)
(* A row of `clients` is a model value; its ban conditions are what the    *)
(* enforcer's two UPDATEs test.  A configuration is the inbounds, the      *)
(* clients and the outbounds and rules it has.                             *)
(***************************************************************************)
EXTENDS FiniteSets, Integers

CONSTANTS
  Clients, Inbounds,
  InboundOf,      \* the inbound_id of each client
  Outbounds, Rules,  \* rows of outbounds and of routing_rules
  Refused,        \* rows that make xray refuse the whole config: unusable
                  \* settings, an outbound named like a built-in one
  Handlers,       \* HTTP requests that may run at once
  Enforcer,       \* the enforcer loop
  Inodes,         \* files config.json and config.json.tmp can name
  Gone,           \* no file
  Empty, Torn,    \* file contents that are not a configuration
  Limits          \* bound: how often each event may happen

Procs  == Handlers \cup {Enforcer}
Causes == {"expired", "quota"}
Bad    == {Empty, Torn}

EventNames == {"write", "due", "trouble"}

Routes  == Outbounds \cup Rules
Nothing == [inbounds |-> {}, clients |-> {}, routes |-> {}]
Configs == [inbounds : SUBSET Inbounds, clients : SUBSET Clients, routes : SUBSET Routes]

ASSUME ParametersOK ==
  /\ InboundOf \in [Clients -> Inbounds] /\ Refused \subseteq Inbounds \cup Routes
  /\ IsFiniteSet(Procs) /\ IsFiniteSet(Inodes)
  /\ Cardinality(Inodes) >= Cardinality(Procs) + 2
  /\ Enforcer \notin Handlers /\ Gone \notin Inodes
  /\ Empty # Torn /\ Bad \cap Configs = {}
  /\ Limits \in [EventNames -> Nat]

VARIABLES
  rows, enabled,  \* clients in the table; those with enabled = 1
  cond,           \* the ban conditions that hold of each client
  open,           \* enabled inbounds, those left aside whose settings build
                  \* nothing (unknown protocol, missing key)
  routes,         \* enabled outbounds and rules
  pc, todo, conf, \* per process: where it is, inbounds to read, config built
  fd,             \* per process: the temporary file it has open
  data,           \* contents of each inode
  tmp, final,     \* what config.json.tmp and config.json name
  unit, running,  \* systemd's view of the daemon, the config it serves
  events,         \* history: how often each event has happened
  dirty           \* history: since the last reload that began alone, has one
                  \* run beside another, failed, left an inbound out or died

table  == <<rows, enabled, cond, open, routes>>
files  == <<data, tmp, final>>
procs  == <<pc, todo, conf, fd>>
daemon == <<unit, running>>
vars   == <<table, procs, files, daemon, events, dirty>>

\* What Generate builds from the tables as they are now.
Image == [inbounds |-> open, clients |-> {c \in enabled : InboundOf[c] \in open},
          routes |-> routes]

Starts(d) == d \notin Bad /\ (d.inbounds \cup d.routes) \cap Refused = {}

Goto(p, l)  == pc' = [pc EXCEPT ![p] = l]
Happens(e)  == events[e] < Limits[e] /\ events' = [events EXCEPT ![e] = @ + 1]

Init ==
  /\ rows \in SUBSET Clients /\ enabled = rows /\ cond = [c \in Clients |-> {}]
  /\ open = Inbounds \ Refused /\ routes = Rules \ Refused
  /\ pc = [p \in Procs |-> "idle"] /\ todo = [p \in Procs |-> {}]
  /\ conf = [p \in Procs |-> Nothing] /\ fd = [p \in Procs |-> Gone]
  /\ final = (CHOOSE i \in Inodes : TRUE) /\ tmp = Gone
  /\ data = [i \in Inodes |-> IF i = final THEN Image ELSE Empty]
  /\ unit = "active" /\ running = Image
  /\ events = [e \in EventNames |-> 0] /\ dirty = FALSE

-----------------------------------------------------------------------------
(* Requests.  A handler writes one row, or several (bulk, import), and     *)
(* then reloads once.                                                      *)

\* One statement of handler p.
Statement(p) ==
  /\ pc[p] \in {"idle", "written"}
  /\ Happens("write")
  /\ Goto(p, "written")
  /\ UNCHANGED <<todo, conf, fd, files, daemon, dirty>>

Flip(S, x) == IF x \in S THEN S \ {x} ELSE S \cup {x}

ToggleClient(p, c) ==
  /\ c \in rows
  /\ enabled' = Flip(enabled, c)
  /\ Statement(p) /\ UNCHANGED <<rows, cond, open, routes>>

\* A new row has used_bytes = 0, but may be born expired.
CreateClient(p, c) ==
  /\ c \notin rows
  /\ rows' = rows \cup {c}
  /\ enabled' \in {enabled, enabled \cup {c}}
  /\ \E k \in SUBSET {"expired"} : cond' = [cond EXCEPT ![c] = k]
  /\ Statement(p) /\ UNCHANGED <<open, routes>>

\* Every column but the identity is overwritten from the request.
UpdateClient(p, c) ==
  /\ c \in rows
  /\ enabled' \in {enabled \ {c}, enabled \cup {c}}
  /\ \E k \in SUBSET Causes : cond' = [cond EXCEPT ![c] = k]
  /\ Statement(p) /\ UNCHANGED <<rows, open, routes>>

DeleteClient(p, c) ==
  /\ rows' = rows \ {c} /\ enabled' = enabled \ {c}
  /\ cond' = [cond EXCEPT ![c] = {}]
  /\ Statement(p) /\ UNCHANGED <<open, routes>>

\* `days` may be negative.
ExtendClient(p, c) ==
  /\ c \in rows
  /\ \E k \in {cond[c] \ {"expired"}, cond[c] \cup {"expired"}} :
       cond' = [cond EXCEPT ![c] = k]
  /\ Statement(p) /\ UNCHANGED <<rows, enabled, open, routes>>

\* The single reset answers without a reload.
ResetClient(p, c) ==
  /\ pc[p] = "idle" /\ c \in rows /\ "quota" \in cond[c]
  /\ Happens("write")
  /\ cond' = [cond EXCEPT ![c] = @ \ {"quota"}]
  /\ UNCHANGED <<rows, enabled, open, routes, procs, files, daemon, dirty>>

BulkReset(p, c) ==
  /\ c \in rows
  /\ cond' = [cond EXCEPT ![c] = @ \ {"quota"}]
  /\ Statement(p) /\ UNCHANGED <<rows, enabled, open, routes>>

\* Created, enabled or disabled; its clients stay.
SwitchInbound(p, i) ==
  /\ open' = Flip(open, i)
  /\ Statement(p) /\ UNCHANGED <<rows, enabled, cond, routes>>

\* The foreign key deletes the inbound's clients with it.
DeleteInbound(p, i) ==
  LET S == {c \in Clients : InboundOf[c] = i}
  IN /\ open' = open \ {i} /\ rows' = rows \ S /\ enabled' = enabled \ S
     /\ cond' = [c \in Clients |-> IF c \in S THEN {} ELSE cond[c]]
     /\ Statement(p) /\ UNCHANGED routes

\* An outbound or a rule is created, overwritten or deleted: it is enabled
\* afterwards, or not.
WriteRoute(p, r) ==
  /\ routes' \in {routes \cup {r}, routes \ {r}}
  /\ Statement(p) /\ UNCHANGED <<rows, enabled, cond, open>>

\* Inserted and enabled, or a row with its tag gets new settings and stays as
\* it is.
ProvisionWARP(p, o) ==
  /\ routes' \in {routes, routes \cup {o}}
  /\ Statement(p) /\ UNCHANGED <<rows, enabled, cond, open>>

OutboundRequest(p) == \E o \in Outbounds : WriteRoute(p, o) \/ ProvisionWARP(p, o)
RuleRequest(p)     == \E r \in Rules : WriteRoute(p, r)

-----------------------------------------------------------------------------
(* The enforcer.                                                           *)

Banned == {c \in enabled : cond[c] # {}}

\* MUTANT: the sweep counts only the rows of its second UPDATE.
SweepForgetsExpired ==
  /\ pc[Enforcer] = "idle" /\ Banned # {}
  /\ enabled' = enabled \ Banned
  /\ Goto(Enforcer, IF \E c \in Banned : "quota" \in cond[c] THEN "written" ELSE "idle")
  /\ UNCHANGED <<rows, cond, open, routes, todo, conf, fd, files, daemon, events, dirty>>

\* Two UPDATEs in one transaction; no row is enabled again.  A sweep that
\* flips nothing does not reload.
Sweep ==
  /\ pc[Enforcer] = "idle" /\ Banned # {}
  /\ enabled' = enabled \ Banned
  /\ Goto(Enforcer, "written")
  /\ UNCHANGED <<rows, cond, open, routes, todo, conf, fd, files, daemon, events, dirty>>

\* Time passes, or the stats loop charges traffic.
BecomeDue(c, k) ==
  /\ c \in rows /\ k \notin cond[c]
  /\ Happens("due")
  /\ cond' = [cond EXCEPT ![c] = @ \cup {k}]
  /\ UNCHANGED <<rows, enabled, open, routes, procs, files, daemon, dirty>>

-----------------------------------------------------------------------------
(* xray.Reload by process p.                                               *)

Reloading == {p \in Procs : pc[p] \notin {"idle", "written"}}

\* MUTANT: no reload when no inbound is enabled.
BeginReloadSkipEmpty(p) ==
  /\ pc[p] = "written"
  /\ todo' = [todo EXCEPT ![p] = open]
  /\ conf' = [conf EXCEPT ![p] = [Nothing EXCEPT !.inbounds = open]]
  /\ Goto(p, IF open = {} THEN "idle" ELSE "reading")
  /\ dirty' = (Reloading # {})
  /\ UNCHANGED <<table, fd, files, daemon, events>>

\* The list of enabled inbounds, read first.
BeginReload(p) ==
  /\ pc[p] = "written"
  /\ todo' = [todo EXCEPT ![p] = open]
  /\ conf' = [conf EXCEPT ![p] = [Nothing EXCEPT !.inbounds = open]]
  /\ Goto(p, IF open = {} THEN "outbounds" ELSE "reading")
  /\ dirty' = (Reloading # {})
  /\ UNCHANGED <<table, fd, files, daemon, events>>

\* loadClients of the next inbound: a query of its own.
ReadInbound(p) ==
  LET i == CHOOSE j \in todo[p] : TRUE
  IN /\ pc[p] = "reading"
     /\ conf' = [conf EXCEPT ![p].clients = @ \cup {c \in enabled : InboundOf[c] = i}]
     /\ todo' = [todo EXCEPT ![p] = @ \ {i}]
     /\ Goto(p, IF todo[p] = {i} THEN "outbounds" ELSE "reading")
     /\ UNCHANGED <<table, fd, files, daemon, events, dirty>>

\* Its query fails: the inbound is left out and the reload goes on.
SkipInbound(p) ==
  LET i == CHOOSE j \in todo[p] : TRUE
  IN /\ pc[p] = "reading"
     /\ Happens("trouble")
     /\ conf' = [conf EXCEPT ![p].inbounds = @ \ {i}]
     /\ todo' = [todo EXCEPT ![p] = @ \ {i}]
     /\ Goto(p, IF todo[p] = {i} THEN "outbounds" ELSE "reading")
     /\ dirty' = TRUE
     /\ UNCHANGED <<table, fd, files, daemon>>

\* appendUserOutbounds, then appendUserRoutingRules: a query each.
ReadOutbounds(p) ==
  /\ pc[p] = "outbounds"
  /\ conf' = [conf EXCEPT ![p].routes = routes \cap Outbounds]
  /\ Goto(p, "rules")
  /\ UNCHANGED <<table, todo, fd, files, daemon, events, dirty>>

ReadRules(p) ==
  /\ pc[p] = "rules"
  /\ conf' = [conf EXCEPT ![p].routes = @ \cup (routes \cap Rules)]
  /\ Goto(p, "opening")
  /\ UNCHANGED <<table, todo, fd, files, daemon, events, dirty>>

FreeInode == CHOOSE i \in Inodes : i # final /\ i # tmp /\ \A p \in Procs : fd[p] # i

\* os.WriteFile: create or truncate ...
OpenTmp(p) ==
  LET i == IF tmp = Gone THEN FreeInode ELSE tmp
  IN /\ pc[p] = "opening"
     /\ tmp' = i
     /\ data' = [data EXCEPT ![i] = Empty]
     /\ fd' = [fd EXCEPT ![p] = i]
     /\ Goto(p, "filling")
     /\ UNCHANGED <<table, todo, conf, final, daemon, events, dirty>>

\* A file with neither a name nor a process that has it open is gone.
Surviving(d, t, f, o) ==
  [i \in Inodes |-> IF i \in {t, f} \cup {o[p] : p \in Procs} THEN d[i] ELSE Empty]

\* ... then write from offset 0: over another writer's bytes the result is
\* this configuration, or its text with the tail of the other.
FillTmp(p) ==
  /\ pc[p] = "filling"
  /\ fd' = [fd EXCEPT ![p] = Gone]
  /\ \E d \in {conf[p]} \cup (IF data[fd[p]] \in {Empty, conf[p]} THEN {} ELSE {Torn}) :
       data' = Surviving([data EXCEPT ![fd[p]] = d], tmp, final, fd')
  /\ conf' = [conf EXCEPT ![p] = Nothing]
  /\ Goto(p, "renaming")
  /\ UNCHANGED <<table, todo, tmp, final, daemon, events, dirty>>

\* MUTANT: the temporary file is linked into place and not removed.
RenameTmpByLink(p) ==
  /\ pc[p] = "renaming"
  /\ IF tmp = Gone
     THEN Goto(p, "removing") /\ UNCHANGED files
     ELSE /\ final' = tmp /\ Goto(p, "restarting") /\ UNCHANGED tmp
          /\ data' = Surviving(data, tmp, tmp, fd)
  /\ UNCHANGED <<table, todo, conf, fd, daemon, events, dirty>>

RenameTmp(p) ==
  /\ pc[p] = "renaming"
  /\ IF tmp = Gone
     THEN Goto(p, "removing") /\ UNCHANGED files
     ELSE /\ final' = tmp /\ tmp' = Gone /\ Goto(p, "restarting")
          /\ data' = Surviving(data, Gone, tmp, fd)
  /\ UNCHANGED <<table, todo, conf, fd, daemon, events, dirty>>

\* os.Remove after the failed rename; it may meet another's new file.
RemoveTmp(p) ==
  /\ pc[p] = "removing"
  /\ tmp' = Gone
  /\ data' = Surviving(data, Gone, final, fd)
  /\ Goto(p, "idle")
  /\ UNCHANGED <<table, todo, conf, fd, final, daemon, events, dirty>>

StartDaemon ==
  IF Starts(data[final])
  THEN unit' = "active" /\ running' = data[final]
  ELSE unit' = "failing" /\ running' = Nothing

\* try-reload-or-restart leaves a unit that is not up alone, and succeeds.
Systemctl(p) ==
  /\ pc[p] = "restarting"
  /\ IF unit = "down" THEN UNCHANGED daemon ELSE StartDaemon
  /\ Goto(p, "idle")
  /\ UNCHANGED <<table, todo, conf, fd, files, events, dirty>>

\* A query, a write or systemctl returns an error: Reload returns it, and no
\* caller tries again.
ReloadFails(p) ==
  /\ pc[p] \in {"reading", "outbounds", "rules", "opening", "filling", "restarting"}
  /\ Happens("trouble")
  /\ Goto(p, "idle")
  /\ todo' = [todo EXCEPT ![p] = {}] /\ conf' = [conf EXCEPT ![p] = Nothing]
  /\ fd' = [fd EXCEPT ![p] = Gone]
  /\ data' = Surviving(data, tmp, final, fd')
  /\ dirty' = TRUE
  /\ UNCHANGED <<table, tmp, final, daemon>>

\* The panel process dies and comes back; serving starts without a reload.
PanelCrash ==
  /\ Happens("trouble")
  /\ pc' = [p \in Procs |-> "idle"] /\ todo' = [p \in Procs |-> {}]
  /\ conf' = [p \in Procs |-> Nothing] /\ fd' = [p \in Procs |-> Gone]
  /\ data' = Surviving(data, tmp, final, fd')
  /\ dirty' = TRUE
  /\ UNCHANGED <<table, tmp, final, daemon>>

-----------------------------------------------------------------------------
(* The unit: Restart=on-failure under a start limit, and the admin's two   *)
(* buttons.                                                                *)

DaemonCrash ==
  /\ unit = "active" /\ Happens("trouble")
  /\ unit' = "failing" /\ running' = Nothing
  /\ UNCHANGED <<table, procs, files, dirty>>

AutoRestart ==
  /\ unit = "failing" /\ Starts(data[final])
  /\ StartDaemon
  /\ UNCHANGED <<table, procs, files, events, dirty>>

StartLimitHit ==
  /\ unit = "failing" /\ ~Starts(data[final])
  /\ unit' = "down"
  /\ UNCHANGED <<table, procs, files, running, events, dirty>>

StopButton ==
  /\ Happens("trouble")
  /\ unit' = "down" /\ running' = Nothing
  /\ UNCHANGED <<table, procs, files, dirty>>

\* reset-failed, then restart.
RestartButton ==
  /\ Happens("trouble")
  /\ StartDaemon
  /\ UNCHANGED <<table, procs, files, dirty>>

-----------------------------------------------------------------------------
Request(p) ==
  \/ \E c \in Clients :
       \/ ToggleClient(p, c) \/ CreateClient(p, c) \/ UpdateClient(p, c)
       \/ DeleteClient(p, c) \/ ExtendClient(p, c) \/ ResetClient(p, c)
       \/ BulkReset(p, c)
  \/ \E i \in Inbounds : SwitchInbound(p, i) \/ DeleteInbound(p, i)
  \/ OutboundRequest(p) \/ RuleRequest(p)

ReloadStep(p) ==
  \/ BeginReload(p) \/ ReadInbound(p) \/ ReadOutbounds(p) \/ ReadRules(p)
  \/ OpenTmp(p) \/ FillTmp(p) \/ RenameTmp(p) \/ RemoveTmp(p) \/ Systemctl(p)

Next ==
  \/ \E p \in Handlers : Request(p)
  \/ Sweep
  \/ \E p \in Procs : ReloadStep(p) \/ SkipInbound(p) \/ ReloadFails(p)
  \/ \E c \in Clients, k \in Causes : BecomeDue(c, k)
  \/ PanelCrash \/ DaemonCrash \/ AutoRestart \/ StartLimitHit
  \/ StopButton \/ RestartButton

Spec == Init /\ [][Next]_vars

\* The ticker fires, a Reload that began returns, systemd restarts the unit.
Fairness ==
  /\ WF_vars(Sweep) /\ WF_vars(AutoRestart)
  /\ \A p \in Procs : WF_vars(ReloadStep(p))

FairSpec == Spec /\ Fairness

-----------------------------------------------------------------------------
(* Properties.                                                             *)

\* Above all, a create always finds a free inode, and config.json and the
\* temporary file are never the same file.
TypeOK ==
  /\ rows \subseteq Clients /\ enabled \subseteq rows
  /\ cond \in [Clients -> SUBSET Causes] /\ open \subseteq Inbounds
  /\ routes \subseteq Routes
  /\ pc \in [Procs -> {"idle", "written", "reading", "outbounds", "rules", "opening",
                       "filling", "renaming", "removing", "restarting"}]
  /\ todo \in [Procs -> SUBSET Inbounds] /\ conf \in [Procs -> Configs]
  /\ fd \in [Procs -> Inodes \cup {Gone}]
  /\ data \in [Inodes -> Configs \cup Bad]
  /\ tmp \in Inodes \cup {Gone} /\ final \in Inodes /\ tmp # final
  /\ unit \in {"active", "failing", "down"} /\ running \in Configs
  /\ events \in [EventNames -> Nat] /\ dirty \in BOOLEAN

Quiet  == \A p \in Procs : pc[p] = "idle"
Served == data[final] = Image /\ (unit = "active" => running = Image)

\* Since the last reload that began while no other ran, none has overlapped
\* another, failed, left an inbound out or died: then whenever nobody is at work
\* the daemon serves exactly the enabled rows.  One reload alone repairs
\* whatever torn, stale or missing file earlier ones left, and no write that
\* falls between its reads is lost (GenerateAndWrite, Reload, their callers).
NothingStranded == ~dirty /\ Quiet => Served

\* A client past its quota or expiry stops being served, if reloads do not
\* run at once and do not fail (enforcer.go).
KickedUnlessRace ==
  \A c \in Clients :
    (c \in Banned) ~> (c \notin running.clients \/ cond[c] = {} \/ dirty)

\* enforcer.go:20-21: "a quota-blown user gets kicked within one billing tick".
Kicked ==
  \A c \in Clients :
    (c \in Banned) ~> (c \notin running.clients \/ cond[c] = {})

-----------------------------------------------------------------------------
(* The inductive invariant behind NothingStranded: as long as nothing      *)
(* disturbs it, the one process that reloads carries the tables' image     *)
(* towards the daemon, or somebody is still to reload.                     *)

Pending == \E p \in Procs : pc[p] = "written"

ReadSoFar(p) ==
  /\ todo[p] # {} /\ todo[p] \subseteq open
  /\ conf[p].inbounds = open /\ conf[p].routes = {}
  /\ conf[p].clients = {c \in enabled : InboundOf[c] \in open \ todo[p]}

Faithful(p) ==
  /\ pc[p] = "reading" => ReadSoFar(p)
  /\ pc[p] = "outbounds" => conf[p] = [Image EXCEPT !.routes = {}]
  /\ pc[p] = "rules" => conf[p] = [Image EXCEPT !.routes = routes \cap Outbounds]
  /\ pc[p] \in {"opening", "filling"} => conf[p] = Image
  /\ pc[p] = "filling" => tmp # Gone /\ fd[p] = tmp /\ data[tmp] = Empty
  /\ pc[p] = "renaming" => tmp # Gone /\ data[tmp] = Image
  /\ pc[p] # "removing"
  /\ pc[p] = "restarting" => data[final] = Image

\* While ~dirty one process at most reloads, and unless somebody is still to
\* reload, what it has built so far is the tables' (GenerateAndWrite, Reload).
IInv ==
  ~dirty => /\ \A p, q \in Reloading : p = q
            /\ ~Pending => (\A p \in Procs : Faithful(p)) /\ (Quiet => Served)

=============================================================================
