# Verification of hexplus

hexplus runs VPN and proxy services on one Linux server: OpenVPN with several
instances, an Xray daemon with a web panel, an SSL tunnel, a port multiplexer
(SSLH), an HTTP proxy, and a terminal menu that installs and administers them.
This directory holds TLA+ models of the parts whose correctness depends on
timing, failure or order, the TLC configurations that check them on small
instances, and proofs checked by TLAPS.

| Module | Part of the program | Checked by |
|---|---|---|
| `TrafficAccounting` | `internal/xray/stats.go`, the traffic resets of `internal/panel` | runs `Traffic`, `Traffic_panel_restart`, theorems |
| `ConfigReload` | `internal/xray/generate.go`, `daemon.go`, `internal/panel/enforcer.go`, the client, inbound and routing handlers | runs `Reload`, `Reload_kick_race`, theorems |
| `Panel` | installing, removing, changing, backing up and restoring the web panel; its database | run `Panel`, theorems |
| `OvpnGuard` | `internal/ovpnguard` | run `Guard`, theorems |
| `Spread`, `Balance` | `internal/ovpnspread`, `ovpninstance`, `speedlimit`, the switch of the guard; `Balance` is what spreading promises | run `Spread`, theorems |
| `Ports` | `internal/firewall`, `portclaim`, `service`, `install` and the service menus | runs `Ports`, `Ports_forward`, theorems |
| `Frontend` | `internal/acceptloop`, `sslhmux/detect.go`, the daemons' processes | run `Frontend`, theorems |
| `Bridge` | `internal/netbridge`, the connection handlers of `ssltunnel`, `sslhmux` and `proxy` | run `Bridge`, theorem |
| `Accounts` | `internal/user`, the account items of `internal/menu/users.go`, `hexplus user` | run `Accounts`, theorems |
| `MC...` | the constants of one of them for TLC | |
| `...Proofs` | theorems about the module they are named for; those about `Bridge` are in `FrontendProofs`, the one about `Balance` is in `SpreadProofs` | `tlapm` |

To check: `tlc -config Guard.cfg MCOvpnGuard`, `tlapm TrafficAccountingProofs.tla`.
`PROJECT.json` lists the runs, which lines each definition stands for, the
hazards, and for every property a mutation of the model (marked `MUTANT` in the
modules) that breaks it.

## Inventory

**Processes.** The *panel* (`hexplus panel serve`) is an HTTP server with
background loops: stats (10 s), enforcer (30 s), reality scan. *xray* is a
systemd unit, `hexplus-xray`, that outlives the panel. *sslhmux*, *ssltunnel*
and *proxy* are daemons of the same binary. The *guard* (`hexplus ovpnguard run`)
polls the OpenVPN instances. The *menu* is started by hand, possibly twice at
once. They share SQLite (`panel.db`), files under `/etc`, the firewall's tables
and systemd; only the guard takes a lock between processes.

| Component | State | Operations | What is hard | What makes it correct |
|---|---|---|---|---|
| Traffic accounting (`xray/stats.go`) | the daemon's counters, the map `prev`, `clients.used_bytes` | Poll, Persist, ResetUserCounter, the reset handlers | counters read outside the lock; restarts of either process; a reset beside a poll | every byte charged once, a reset sticks, everything is charged in the end |
| Config and reload (`xray/generate.go`, `daemon.go`, `panel/enforcer.go`, handlers) | tables, `config.json(.tmp)`, the unit | the client, inbound and routing handlers, enforcer sweep, Reload | reloads overlap, share a temporary file, fail; crash between commit and reload | the daemon serves the tables; a banned client stops being served |
| Panel's installation, database, backup (`panel/install.go`, `backup.go`, `db`) | `panel.yaml`, `panel.db` with its log, units, the archive | install, uninstall, password, port, control, backup, restore, Serve | a log that a killed process leaves; files replaced under a process; migrations cut short; a step of several fails | what was committed is there; the panel is where, and lets in whom, the operator was told |
| Device-limit guard (`ovpnguard`) | sessions, the loop's activity memory, lock, management connections | a pass, `once`, kick | sessions come and go while a pass runs, ids are reused, instances restart or hang | only the surplus and the refused are cut, and they are |
| CPU spreading, instances, speed limit, the guard's switch (`ovpnspread`, `ovpninstance`, `speedlimit`, `menu/devicelimit.go`) | registry, configurations, units, drop-in, nat and INPUT rules, boot line, caps | Enable, Disable, Apply, Teardown, AddExtra, Remove, SetLimit, MULTILOGIN, port change, guard on and off | a step of several fails, rollback, ids reused, reboot, the menu dies | no connection goes to a port nobody serves; rules, registry, files and processes agree |
| Ports and firewall (`firewall`, `portclaim`, `service`, `install`, menus) | INPUT, FORWARD and nat rules, the lines of `rc.local`, configurations, units, processes | install, remove, move, retarget each service, uninstall all | two services claim a port; rule order; live rules and boot lines are two copies; any step fails | exactly the claimed ports are open, now and after a boot; mail stays blocked; tunnels follow OpenVPN |
| Accept loop and detection (`acceptloop`, `sslhmux/detect.go`) | listener, backoff, descriptors, `lastConf` | Serve, backendFor | descriptor exhaustion, configuration rewritten while read, self-connection | a daemon survives temporary errors; never routes to itself |
| Connection handlers (`netbridge`, `ssltunnel`, `sslhmux`, `proxy`) | two sockets, two goroutines | handshake, peek or request, dial, copying | half-close, resets, either goroutine ending first | no byte lost before an orderly end, nothing left open |
| Account store (`user`, `menu/users.go`) | `/etc/shadow`, `users.json`, v1's `usuarios.db`, certificates, `at` jobs | create, trial, add, remove, remove all, clean expired, changes of expiry, limit, password | every operation is a sequence of steps without a lock, any of which may fail | no account is half-made; the limit shown, told and enforced is one; a removed account is cut off |
| Panel login (`auth.go`, `security.go`) | sessions, failures per address | login, logout, sliding expiry | window edges | an expired session is never accepted |
| Builders, subscriptions, certificates, PKI, screens, support | none of their own, or written once | formatting, prompts, sequences of the calls above | — | see "Not modelled" |

Interactions: handlers and enforcer write rows and call Reload, which restarts
the daemon, which zeroes the counters the stats loop reads; the stats loop moves
`used_bytes`, which the enforcer tests. The menu's account operations end with a
guard kick. CPU spreading adds the instances the guard asks, and they use the
firewall's helpers. A change of OpenVPN's port rewrites the tunnels that point at
it and, with spreading on, the redirections. The multiplexer routes to the
services whose configurations it reads, and it and the tunnel use Pipe.

Where one operation is a sequence of steps of which any may fail (`Accounts`,
`Ports`, `Spread`, `Panel`), it is written as that sequence, `op.todo`; each step is
an action of its own, `StepFails` is its failure, `AfterFailure` says how the
code goes on (rolls back, ignores it, gives up), and `Crash` and `Reboot` come
between any two. `doubt` and `trouble` are history variables: what a failure the
code does not undo has left open. A property names the doubts it leaves out,
and its comment says which failures they are.

## TrafficAccounting

The daemon's `counter` per user and direction is absolute; `prev` is the map of
the same name in stats.go; `poll` is the stats loop between the subprocess
(`Query`), the pass over its answer under `prevMu` (`ParseStats`) and the
transaction (`Persist`). `reset` is the admin's request between the UPDATE
(`ResetRows`), the two subprocesses per email (`ResetCounter`) and
`forgetCounter` (`ForgetBaseline`). The single and the inbound reset are the
same action over different sets of rows. `XrayRestart` and `PanelRestart` may
happen anywhere. Samples of inbounds and outbounds go the same way as those of
users and are left out, as are rows of `traffic_samples`; one reset request runs
at a time. Two rows may share an email: both are then charged.

* `Traffic` (two rows with one email, a byte a direction, and one each of a daemon
  restart, a panel restart, a reset, an unanswered reset, a failed poll, a failed
  transaction): `ChargedAtMostOnce`, no row is ever charged more than was carried
  for it; `TrafficReachesRow`, under fairness every byte reaches `used_bytes`;
  the type invariant and the inductive invariant `IInv` of the proof. Fairness:
  the ticker of runStatsLoop fires for ever and a poll runs to its end
  (subprocess and database have timeouts). A byte a direction is enough for a
  restarted counter to be below and at its old baseline; the proof covers all
  numbers.
* `Traffic_panel_restart` (**violated**): `prev` dies with the panel while the
  daemon runs on, so the first poll charges the whole counter again; stats.go:73-74
  says Poll returns the deltas since the last successful poll.

**Proved** (`TrafficAccountingProofs`, for any rows, emails and bounds):
`TypeCorrect`; `ControlInductive`, the control facts of poll and reset;
`Billing`, that `IInv` is inductive; `NoDoubleCharge`, that `ChargedAtMostOnce`
follows. Assumed: there is a row, every row has an email (`RowsHaveEmails`), and
the bounds are numbers (`BoundsAreNat`).

The argument: `ChargedAtMostOnce` speaks of totals and is not inductive, because
what a poll will charge depends on how `prev` relates to a counter that may have
restarted since. Take `since - counter`, the bytes carried for a row less those
the counter holds: a lower bound on what earlier lives of the counter carried.
Then for each row and direction either nothing of the present life has been
accepted (`NoneAccepted`: `billed <= since - counter`), or the baseline is of
the present life (`BaselineLive`: `prev <= counter` and
`billed <= since - counter + prev`). `SnapshotInv` says the same of the snapshot
in flight with the delta it will give; `ZeroedInv` says that a counter the
running reset is done with has nothing accepted, which is what makes dropping
its baseline right; `ClearedInv` keeps the rows of a running reset at zero, and
`RowInv` bounds `used` with the parsed deltas by `billed`. One lemma per action
shows these preserved. The hypothesis `Undisturbed` (no panel restart, no
reset beside a poll, no unanswered reset) is needed. The violated run shows the
first. The second fails likewise (the same configuration with one reset and no
panel restart): a poll has its delta, the UPDATE zeroes the row, the poll's
transaction adds the old bytes, although api_client_ops.go:59-61 says the counters
are reset so that ongoing polls don't. The third is the "worst case" of
api_client_ops.go:77-79.

Two things the code loses, which no property claims. A daemon that restarts and
counts past the old baseline before the next poll looks as if it had not
restarted, and the bytes up to the old baseline are not charged: stats.go:76-78
expects a negative delta there. When a transaction fails, `prev` has already
moved (stats.go:134, 265) and its samples are gone.

## ConfigReload

`rows`, `enabled`, `cond`, `open`, `routes` are the tables: clients, those with
`enabled = 1`, which of the enforcer's two conditions hold of each, the
inbounds that are enabled, and the outbounds and routing rules. `pc`, `todo`, `conf`, `fd` are each process's Reload:
the list of inbounds (`BeginReload`), one query per inbound (`ReadInbound`,
or `SkipInbound` where it fails), the outbounds and the rules (`ReadOutbounds`,
`ReadRules`), create-or-truncate of the temporary file
(`OpenTmp`), writing (`FillTmp`), `RenameTmp`, `RemoveTmp` after a failed
rename, `Systemctl`. Files are inodes with names, so that a process can go on
writing an inode another has renamed. `unit` is what systemd thinks: `active`,
`failing` (being restarted), `down` (stopped, or past its start limit).
Handlers are one action per statement they execute. A configuration is reduced
to the inbounds, clients and routes served; builders are not modelled. http and socks
inbounds list their accounts by name and are treated like the others.

* `Reload` (a handler and the enforcer, up to two clients on an inbound each, an inbound
  and an outbound that xray refuses, a rule, one fault of any kind):
  `NothingStranded`, after a reload that ran alone from beginning to end the file
  and the daemon are what the tables say, whatever torn, stale or missing files
  went before and whatever writes fall between its reads; the history variable
  `dirty` says whether anything has disturbed that reload or a later one.
  `KickedUnlessRace`, a client past quota or expiry stops being served, if
  reloads do not overlap. Fairness: the enforcer's ticker, the steps of a Reload
  that began (each bounded by a timeout), and systemd's restart.
* `Reload_kick_race` (**violated**): a handler that read the tables before the
  enforcer's sweep renames after it; later sweeps change no row and so do not
  reload. enforcer.go:20-21 promises the kick within a tick; generate.go:4-5 that
  the file reflects the latest state.

Two clients, two inbounds and two processes are the least at which reads of
different moments differ, an empty list and a mixed one both occur, and two
reloads meet; four inodes are enough for two names and two open files.

**Proved** (`ConfigReloadProofs`, for any clients, inbounds, handlers, files and
bounds): `TypeCorrect`, of which the part that is not bookkeeping is that a create
always finds a free inode (`FreeInodeExists`) and that the two names never
name one file; `ReloadInvariant`, that `IInv` is inductive; `ReloadServes`,
that `NothingStranded` follows. Assumed (`ParametersOK`): processes and inodes
are finite and there are two more inodes than processes, marks are distinct.

The argument: `NothingStranded` says nothing of a reload under way, so it is not
inductive. `IInv` adds that while `~dirty` at most one process reloads, and that
unless some process has written and is still to reload (`Pending`), what it
holds is a stage of the tables' image (`Faithful`): while reading, the clients
of the inbounds read so far (`ReadSoFar`); then the image; then the image
and an empty temporary file of its own; then a temporary file that is the image;
then config.json is. A write makes `Pending` true, and `Pending` ends only with
a reload that begins, which, if it is alone, starts from the tables as they are
and needs nothing of what the files hold. One lemma per step of a reload; three
more cover statements, steps of the daemon, and what all steps of a reload
have in common (`ReloadStepKeeps`).

Other things the model states as the code has them: overlapping reloads share
`config.json.tmp`, and one may rename it while the other is between truncating
and writing, so that config.json ends empty or mixed although generate.go:3-4
says it is written atomically; provisioning WARP again leaves the `enabled` flag
of its outbound as it was; an outbound that takes a built-in tag makes xray
refuse the whole configuration; of two extensions of one expiry one is lost
(api_client_ops.go:120); `try-reload-or-restart` does
nothing to a unit that is down and reports success (daemon.go:23-24 speaks of
reloading); a query that fails leaves its inbound out of the file, and Reload
succeeds (generate.go:142-150); the enforcer enables nobody again, as
enforcer.go:85-98 explains, although its header (enforcer.go:12-13, 48) says it
does; the single traffic reset does not reload.

## OvpnGuard

`sess` are OpenVPN's sessions, known to the guard by instance and client id;
`life` counts each instance's restarts and holds its next client id, which
starts at 0 again. `pass[g]` is the pass of guard process `g`: policy
(`BeginPass`, or `BeginKick` for the menu), lock (`Lock`, or `LockFails`, after
which it goes on), one connection and status per instance (`OpenInst`,
`SkipInst`), decision with staleness (`Judge`), kills over the same connections
(`Kill`, `KillFails`), `EndPass`. Only the loop remembers activity, `act`. The
management interface serves one client at a time; that and client ids are
external and taken from how the code relies on them.

`Guard` (one account allowed one device, two instances, the loop and a second
process, two connections, one tick, one pass of the other process and one
trouble: an instance restart, an account change, a lock that fails, an instance
that does not answer or a kill that fails) checks that

* `KillHitsTarget`: a kill ends only the session the pass read, although ids are
  reused: the connection breaks with the instance.
* `KeepsLimit`: however many passes run, with or without the lock and with
  different ideas of who is stale, the sessions left to an account are as many as
  its limit allows.
* `StaleIsDead`: a device that is there is not taken for stale, while instances
  do not restart.
* `LimitsHold`: in the end no account holds more sessions than it may, and a
  refused one none.

Fairness: the loop's ticker, and the steps of a pass, all bounded by deadlines;
kills are among them, since each pass tries again. Assumed of time: a pass of the
loop reads and decides within one interval (`Tick`), since an exchange has five
seconds; a live device's byte count moves in each interval (keepalive 10 s).
Two sessions and one limit are enough for a surplus, and two instances for a
pass that sees only part of an account.

**Proved** (`OvpnGuardProofs`, for any instances, users, limits, guard processes
and bounds on events): `TypeCorrect`, `LimitKept` (`KeepsLimit`), `StaleAreDead`
(`StaleIsDead`), `KillsHitTargets` (`KillHitsTarget`), from the inductive invariant
`IInv`. Assumed (`ParametersOK`): instances are numbers, which is how the menu
names them, limits are natural numbers, and the loop is one of the processes.

The argument: an instance serves one management client at a time and a pass keeps
its connections until it has killed. Hence what a pass has read of an instance
whose connection stands is of the process that runs (`Reads`), two passes never
hold the same session (`Apart`), and whatever is cut of a pass's sessions it has cut
itself (`Cuts`): the lock is not needed for `KeepsLimit`. `Spared` strengthens that
property to the sessions still to be killed, and its base is that a decision takes
all but the first `Allowed` of each account, or only stale ones (`FirstSuffice`,
by well-founded descent on how many come before). For `StaleIsDead`,
`Current` ties a session's byte count to the clock, `UpToDate` says the clock stands
still while the loop reads, and `Remembered` that a record is never older than the
count it holds.

Left to the reader: policy is read before the lock (run.go:168-169), so an
account renewed while a pass waits may be cut once more; after an instance
restart an exactly equal byte count under an equal id would inherit the old
session's record.

## Bridge

One connection from accept to return, of the SSL tunnel, the multiplexer or an
HTTP proxy. `client` and `backend` are the peers, `csock` and `bsock` the
handler's two sockets, `up` and `down` the two copying goroutines (Pipe's or the
proxy's own) with how many bytes each has read, taken and written. `Handshake`,
`PeekByte` and `EndPeek`, or `ReadRequest` and `ReadSplit` come before the dial, `Reply`
after it; a short peek is routed and replayed, a proxy's request is not. Closing
a socket with unread bytes resets the connection and the peer's unread bytes
with it: the kernel's rule that makes the order of closes matter. `closeBoth` is
two steps and may run in both goroutines at once.

`Bridge` (three bytes each way, sockets that hold two, a peek of two) checks
`AnswerArrives` (a client that half-closes gets the whole answer of a backend
that read to the end), `RequestArrives` (every byte sent arrives, the peeked ones
too, unless someone stops first or the proxy takes it for the request), and
`EndsWithPeers` (once either side has ended the handler returns with both sockets
closed; a proxy's only once the client ends). Fairness: goroutines run,
dial, peek, handshake and the first read have deadlines, peers read what they are
sent, and a backend told of the end of the request ends. The last two are not in
this code: a client that neither reads nor goes away holds its goroutines, as
Pipe sets no deadline. Bytes are counted: `read`, `taken` and `put` give their
order. Three bytes let a goroutine hold one while two wait in the socket.

**Proved** (at the end of `FrontendProofs`, through an instance of `Bridge`; for any numbers of bytes, window and peek): the type
invariant, whose content is the counters: neither goroutine writes what it has not
read or reads what was not sent, each holds a byte at most, and the peers get
no more than was written for them.

What the proxy does beside its comments (the README's word; no run): bytes that
arrive with the request (handler.go:151-152: "we'll bridge it") or with the second
part of X-Split are never written upstream; a request that comes in two
segments loses its headers; X-Split's second read has no deadline; and "bridge …
until either side closes" (handler.go:12-13) waits for both.

## Frontend

The daemon at the door: its unit and process, the accept loop with its errors
and backoff (`AcceptFails`, `Retry`, `AcceptBreaks`), the descriptors the process
holds (`Used`, `Full`), stop and restart, and for the multiplexer the reading of
the backends' configurations: which files a protocol looks at (`ConfigsOf`), each
opened outside the mutex and noted under it (`Read`, `Note`), what is read when
one cannot be opened (`cache`), and the refusal to route to itself. `past` is the
history of the files, `conn[c].since` the moment a connection came.

`Frontend` (two clients, three or four descriptors, two protocols, one of them with
two configurations and a default, one edit, one accept error, one stop):
`RoutedAsConfigured`, a client goes where its protocol's file says at some moment
since it was accepted, or if files could not be opened, since the process
started, never to a default the service was moved away from and never back to
the multiplexer; `AcceptsOrStops`, running out of descriptors ends neither the
daemon nor a waiting client's chance, and a stop is not held up. Fairness: the
process's steps; sessions end. Three descriptors are the listener, a client
and one for either its file or its backend.

**Proved** (`FrontendProofs`, for any clients, ports, limits of descriptors and
numbers of edits, faults and stops): `TypeCorrect`, which includes that the
descriptors never exceed the limit, and `ConfiguredRoutes` (`RoutedAsConfigured`).
Assumed (`ParametersOK`): what is read from a file is told from "not read" and from
"missing", and the configurations the daemon may find at first are configurations.
The argument: `RoutedAsConfigured` speaks of the end of a lookup of several steps,
while files change and other connections write the cache. `ReadingOK` says of each
step that what it has seen was in its file at a moment the connection may be
judged by, a first file found missing included; `CacheOK` that the cache holds
nothing that no file said since the process started; `RouteOK` picks from those
moments one content for each file. History only grows, so an edit keeps all three.

An open fails only for want of a descriptor; lengths of backoffs and what is
logged are left out; systemd's start limit is in `Ports`.

## Ports

`file` is what the configuration of each service says it listens on, `to` the
targets of tunnels; `unit`, `boot`, `due`, `proc`, `procTo` are what systemd and
the processes have; `live` and `lines` the INPUT, nat and mail rules in the
kernel and in `rc.local`; `fwd` and `fwdLines` the FORWARD chain in order.
`HeldByOther` is portclaim's question. `VpnInstall`, `MoveInput`, `FollowVpn`,
`ServiceRemove` and their like are the sequences of the menus and of `hexplus`.

`Ports` (any two services besides sshd on two TCP ports, a third and one UDP port, two
interfaces, at most one service stopped, and two events out of operations,
failed steps, menu crashes, reboots and moves of the egress) checks

* `OpenAsClaimed`: the ports open now and after a boot are exactly those in
  configurations, apart from those a failed step concerned;
* `NeverClosesAnothers`: no step, failed or not, closes another's port;
* `RunsAsConfigured`: processes listen and forward as their files say, and a
  tunnel pointed at OpenVPN follows its port;
* `MailBlocked`: SMTP and POP3 of VPN clients are dropped before they are
  accepted, live and after a boot, as long as the egress has not moved.
* `Ports_forward` (**violated**): without that condition. ApplyForward inserts
  missing rules at position 1; when the interface has changed and a port is
  added, the new ACCEPT lands above the DROPs that are already there, and
  `rc.local` repeats it. forward.go:74-77 gives the opposite order.

Two events are an operation with a failure, a crash or a reboot in it, or two
operations in a row; a shared port needs two services. Init has every
combination of two installed services, so longer histories of successful
operations start there. sshd always exists.

**Proved** (`PortsProofs`, for any ports, interfaces, numbers of services installed
at first and numbers of events): all five properties of the run, `TypeCorrect`,
`ClaimsKept`, `Configured`, `MailCut`, `NeverClosed`. Assumed (`ParametersOK`):
sshd's port and 110 are TCP ports, an interface is not named like the model's other
FORWARD rules, and there is a bound on the events. The argument:

* An operation is a list of steps. `Goes` and `Belongs` say what any such list looks
  like: the order of its steps (`Rank`), what follows what (`Adjacent`), which services
  it concerns. Every operation's list is so, and so is what a step that went well,
  failed, or took others with it leaves (`Suffix`, `StepsOver`).
* The properties speak of the time between operations. Each is strengthened by what
  the remaining steps will do: a claimed port is open or about to be opened
  (`OpenOK`), one that nobody claims is about to be closed (`Accounted`, `ShutOK`,
  `Wiping`), a process that is behind its file is about to be restarted (`UnitOK`), a
  tunnel on the old port is about to follow (`FollowParts`), a chain with its ACCEPT
  and no DROP is about to get the DROP (`ChainOK`).
* A step keeps its part by doing its share. A step that is skipped puts its service
  and its sockets in doubt (`Shrinks`), and the parts claim nothing of those.
* `NeverClosed` needs of this only the types: each step that closes, `LetGo`,
  `CloseConf`, `SweepLive` and `SweepLines`, asks `HeldByOther` when it is taken.

With nothing left to do the conjunction, `IInv`, is what the properties say. It was
checked by TLC on the run's instance first.

What the model leaves open (`doubt`, `trouble`), because the code does:
`hexplus proxy add` over an existing name leaves the old port open and the old
process running, `hexplus proxy remove` leaves the process; `hexplus uninstall`
keeps server.conf with its open port, and a reinstall overwrites the file, so
the old port stays open until the next removal from the menu. rewriteConfPort
replaces every line where its comment says the first. Simplified: one operator,
one extra port, one proxy entry; the egress moves at rest; certificates, the old
SNAT rules and `pki init --force` are left out.

## Spread and Balance

`registry`, `port`, `conf`, `unit` are the instances with their files, `proc` what
each process read when it started, `cap` the speed limits by key (an instance's
number), `guard` the parts of the device-limit guard, `nat`, `input`, `jumps`,
`guarded`, `wants`, `line` the redirections, the drop-in and the boot line. The
steps of Enable, its rollback, Disable, Apply, Teardown, the extra ports, the
speed limit, MULTILOGIN, a change of port and the guard's switch are sequences
as above. Starting the primary starts the workers it wants, and stopping it
stops them (`Wanted`, `PartOf`).

`Balance` is the abstract specification: members, which of them run, and which
share the connections. Its actions say that only members share, that only those
that run begin to, that processes which share go down only with the primary, and
that no member leaves that shares. `Implements` is `Promise!Spec`, with
`members <- PortsOf(Workers)`, `sharing <- IF jumps = {} THEN {} ELSE nat` and so on:
every step of Enable, of a rollback or of a removal must be one of these or change
nothing there.

`Spread` (two identifiers, two ports the primary may have, two worker ports, a
limit or none, any instances and caps to begin with and MULTILOGIN as installed,
three events out of operations, failed steps, crashes, reboots):
`Implements`; `RulesMatchWorkers`, between operations the rules, the drop-in and the
boot line are those of the registered workers and of the primary's port;
`NoLeftovers`, an unused identifier has no file, unit, process or cap left for the
next to inherit; `SettingsReachAll`, limit, MULTILOGIN and the guard reached all
instances or none; `ProcessesUpToDate`, what runs has read what the files say, and
sessions have the limit that is set.
Two identifiers are what it takes for a worker beside an extra port, for an
identifier that is used again and for a step of the second worker to fail after
the first is up; three events for enable, a failure in the next operation, and
a reboot.

What these properties leave out is two things in which the code and its comments
differ; TLC shows each when its doubt is taken out of the property.

* `left`: AddWorker may fail when the file is written and the registry is not
  (`ConfHalfDone`: SetDuplicateCN or InjectConf on the new file; or the unit), and
  the rollback removes registered workers only. ovpnspread.go:302 says everything is
  rolled back; the file, and with it the unit, stays (`NoLeftovers`).
* `hooks`: setting the last limit to 0 (menu item [1], which unlike [2] puts the old
  one back on failure) takes the hooks out of the files; a process that starts
  before they are back, at boot say, runs without, and nothing restarts it.
  service_menus.go:1232-1233 says the menu can't drift from reality; it then shows a
  limit that the sessions do not have (`ProcessesUpToDate`).

The list an operation begins with is written with functions from numbers to steps
(`On`, `Each`, `ForEach`) so that it can be reasoned about.

**Proved** (`SpreadProofs`, for any number of instances, ports, limits and events):
the type invariant, `RulesMatchWorkers`, and `Implements`: `Spread` implements
`Balance`. The invariant (`IInv`, checked by TLC on the run's instance first) relates
the steps left of an operation to the state. None of the three is inductive: after
the first step of a Disable the rules do not match the workers, and what keeps this
from mattering is that the other steps are still to come. Its parts:

* `PlanOK`: the steps left are in the order of `Phase` (and of `Turn`, for one
  instance), each belongs to the operation, and an operation without steps is none.
* `Together`: which steps are left together. While `save` is left for an identifier
  nothing is registered for it, and an Enable still has to write the drop-in and wait
  for that worker; while a worker is to be written, every step on the rules is still to
  come.
* `RulesOK`: each of the chains, jumps, drop-in and boot line is that of the workers
  that stay, or the step that makes it so is left; a failed step puts them in doubt
  until an Apply has gone through.
* `SharesOK`: connections are shared with registered workers, and with none from the
  moment the first worker goes. This is the order of Disable, and what the
  `check` after Teardown is for.
* `WorkersOK`: unless a failure left a process behind, a registered worker has its file
  and unit and is wanted by the primary; when the primary runs it runs, or is still
  waited for.

`StepFailsOK` takes the failures apart: what may be done halfway (`Partly`), what is in
doubt afterwards (`Doubt`) and the list that takes over (`AfterFailure`). For the
refinement every step is one of five cases: what runs changes, the share
changes, a worker joins, workers that get no share leave, or something fails.
Members leave only when the share is empty, so `Leave` may take away with them what
was about to run and loses its file (removing OpenVPN deletes all files while systemd
is still starting a worker). `NobodyIsSentAway` says what the promise amounts to:
`Balance!Spec` implies `SharesAreServed`, connections are shared only among
members, and while nothing was left behind by a failure and the primary runs, only
among those that run.

What the code leaves open: after a menu that died inside Enable the next start of
the menu rebuilds the rules for workers that were never started, as a reboot does
after a Disable whose Teardown failed (`sound` excludes these); an extra port may be
given a stopped worker's port; `hexplus uninstall` removes the guard but leaves its
lines in the kept server.conf. Simplified: workers on the primary's protocol, one
operator, `rc.local` finishes before an operator works, the write and enabling of
the guard's unit are one step; the tc classes of sessions are left out.

## Panel

`yaml` is panel.yaml (which installation wrote it, and the port), `cfg` what the
running panel read of it. The database is a set of numbered transactions: `main`
in panel.db, `wal` those only in panel.db-wal. `Close` of the last connection
moves them over, `Checkpoint` does so at any time, a killed process leaves them,
and opening recovers them. A backup copies panel.db and what is checkpointed
meanwhile (`CopyFile`), a restore writes in place (`PutDb`, `CutShort`), a removal
takes panel.db but not its log (`RemoveDb`), and opening an empty file drops the
log beside it (`OpenFile`). Each migration is a transaction (`Migrate`).

`Panel` (a fresh machine or a running panel, two ports, two migrations, six
transactions, three events): `DataSurvives`, the panel that serves has every
transaction committed since installation or restore and no other, whatever was
killed, cut short, removed with its data kept, or wiped; `ServesAsTold`, it serves
by panel.yaml and lets in whoever has the password last printed. Three events are
a backup, a kill and a restore, or an installation that fails, another, and a
reboot; two migrations can be cut in the middle. SQLite, systemd and the
machine are external and stated as the code relies on them.

What is left open, with the doubt that stands for it: a backup taken while a log
exists lacks what is in the log (`live`), and a restore beside a leftover log
mixes the two (`log`), also because a failed `Stop` is ignored (`file`); a
reinstallation over a running panel does not restart it, so it keeps port,
prefix and secret (`stale`), although config.go:41-43 says a re-install logs everyone
out; an installation that fails after SetAdminPassword loses the generated
password (`password`). Further: after an uninstallation that keeps the data, the
menu's reinstallation wipes it without asking, because IsInstalled looks at
panel.yaml only. On a fresh machine xray is started before any config.json
exists (install.go:126-128 says the opposite), runs into its start limit, and stays
failed after the first Reload, which uses `try-reload-or-restart`, until it is
restarted by hand or at boot. Simplified: two processes migrating at once take
turns, certificates are part of config.json, restoring on another machine is
not modelled.

**Proved** (`PanelProofs`, for any ports, number of migrations and bounds): all three
properties of the run, as `TypeCorrect`, `DataKept` and `ToldRight`. Assumed
(`ParametersOK`): the bounds are numbers and leave room for every migration and
the first password.

The argument: an operation is a list of steps that is worked off from the front
and may end behind any of them, so the inductive invariant `IInv` describes the
lists without naming them. `Belongs` says which steps an operation may have and
`Links` which may follow which: a database that is opened is migrated, one that
is open is closed, a password that is set is told, a port that is changed is
followed by a restart. Every operation's list is of this kind when it begins
(`Begins`), and what is left of it after a step that went well or failed still is
(`TailChain`, `GoesOn`). `Whole` is `DataSurvives` without its condition that the panel
serves, since the damage is done before it starts: what panel.db and its log hold
is what ought to be found, or there is no panel.db and nobody is connected to
one. It needs `WalOK`, which counts the migrations in a log that stays when its
database is removed; `Archives`, by which a backup that is sure holds a whole
database also while it is being copied and after a restore; and `StopsFirst`, by
which nothing is put back under a running panel unless it would not stop.
`Passwords` and `ReadOK` give `ServesAsTold`: told and set, and read and written, agree
but in the steps between setting and telling, changing and restarting.

## Accounts

`passwd` is `/etc/passwd` with `/etc/shadow` (who made the account, its
password, its expiry day); `rows` and `tmp` are `users.json` and its temporary
file; `v1` is `usuarios.db`; `jobs` are the scheduled `at` jobs; `sess` the
OpenVPN sessions. An operation of the menu or of `hexplus user` is the sequence of
its steps (`AddSteps`, `CreateSteps`, ...), kept in `op[m].todo`; each step is
an action, and `AfterFailure` says how the operation goes on when it fails: `Add`
rolls back, the create menu ignores a Save that fails, "remove all" goes on with
the kick. `told`, `made` and `events` are history: what the operator was told,
which accounts operators made, and what has gone wrong meanwhile.

`Accounts` (two names, one of which operators make accounts under, two
operators, v1 accounts at the start, one midnight, and three events out of
operations, failed steps, crashes and damage to `users.json`; a v1 account under
the other name costs one) checks that

* `ShownIsEnforced`: the limit on the screens is the one the guard enforces,
  although two files are merged in two places and either may hold rows without a
  limit.
* `LimitAsTold`: an account's enforced limit is the last one the operator was told
  of, through failed steps and Saves that are ignored; unless operations
  overlapped or crashed or a file was lost.
* `AddIsAllOrNothing`: after `hexplus user add` an account has a password
  and a row or is not there, whichever step failed.
* `RollbackSparesOthers`: of two operators creating the same name, the one whose
  `useradd` fails does not delete the other's account.
* `RemovedIsCutOff`: after a removal from the menu no session of the account is
  left, although customers log in between its steps.
* `CleanupAgreesWithGuard`: after "remove expired" no account is left that the guard
  refused as expired when it began (`due`: its name with its expiry day), unless
  renewed meanwhile or impossible to remove.

Three events cover an operation that fails at any step, two that overlap with a
fault in one, and three in a row; two names are what a loop needs to go on
after a failure. Operators are alike (symmetry); no liveness is claimed here, and
the run may stop when its events are spent, so deadlock is not checked.

**Proved** (`AccountsProofs`, for any operators, any finite set of names, and any
bounds on limits, days and events): all seven properties of the run, as
`TypeCorrect`, `ScreensAgree`, `ToldTheTruth`, `AllOrNothing`, `BackedOut`, `Cut` and
`Cleaned`. Assumed (`ParametersOK`): the bounds are numbers, an account can be
given a day at least, and the marks for "nothing" and "cannot be parsed" are no
limits, rows or tables.

The argument: operators interleave at every step, and each property is about
the whole of an operation, so the inductive invariant `IInv` says of an operation at
each of its steps what it has done and what it has still to do.
`Planned`, in `Typed`, pins the list of steps left: a suffix of its flow, the next
name of a loop, or a rollback; with it every action is described once as one of
two moves (`Advances`, `Stops`) and an effect. `NumbersOK` (a creation's number is
fresh until its `useradd` and nobody else's afterwards) gives
`RollbackSparesOthers`. `SessionsOK` gives `RemovedIsCutOff`: behind `userdel` the
account under the name is gone or another, and behind the kick so are its
sessions, as a login needs the account. `CleanOK` gives `CleanupAgreesWithGuard`:
what is due is still to be visited or being deleted, since whoever renews an account
gives it a day that has not come. These hold whatever fails, crashes or overlaps. The
last two properties allow for faults, and so do the parts they need: `Alone` (no two
operators busy), `Sync` (what was read is still so, and the temporary file is
the table with one row changed), `AddOK` and `LimitOK`. An earlier form of `due`, a
set of names, was refuted on the way: an account renewed during the cleanup can
expire again at midnight, and is left rightly.

Left out: the plaintext password files and the repair of hashes; negative limits
given on the command line; the bytes of a temporary file two Saves write at once
(`Damage` stands for the result). The guard is
assumed to be on when the menu kicks and to enforce limits; a job's commands
are assumed to succeed.

The model also shows what no property claims, because the code does not
promise it:

* Two overlapping Load–Save pairs lose the earlier change (user.go:130), and share
  one temporary name.
* With an unreadable `users.json` the create menu dies after `chpasswd`, as does a
  closed terminal there: the account exists without a limit. The list of accounts
  dies too.
* "Remove all" drops the `usuarios.db` line of an account that `Remove` could not
  delete and reports it deleted: it lives on without a v1 limit.
* A trial's `at` job is not cancelled when the menu removes the trial, and deletes
  a later account of that name. The job itself leaves the certificate and any
  `users.json` row behind.
* `hexplus user remove` leaves the `usuarios.db` line. An account added later under
  the name with limit 0 gets the old one, although db.go:43 reads a limit of zero
  as no cap.
* Changing the limit of a v1 account writes a row without an expiry, and
  `hexplus user list` then shows none; the account still expires.
* With multi-login limits off the guard allows one device, and the screens go on
  showing the stored limit.

## Hazards

`PROJECT.json` lists them with their lines and the properties that would catch
each: reads outside a lock (stats.go:83, generate.go:144, detect.go:52), orders of
overlapping work (generate.go:55, api_client_ops.go:73, netbridge.go:52, 60),
identifiers reused (run.go:91, 120, ovpninstance.go:184), steps that fail midway
(user.go:130, portclaim.go:93, ovpnspread.go:324, 384, devicelimit.go:70,
install.go:89), crashes and reboots (stats.go:39, forward.go:102, menu/main.go:60,
migrations.go:192), limits (acceptloop.go:54), and what must happen in the end
(enforcer.go:39, run.go:168). Those that no property covers, or
only in part, say why.

## What is proved and what is only model-checked

Proved for all values of the constants, by an inductive invariant each:

| Module | Properties | Theorems |
| --- | --- | --- |
| `TrafficAccounting` | type correctness, `ChargedAtMostOnce` | `TrafficAccountingProofs` |
| `ConfigReload` | type correctness and the main safety property | `ConfigReloadProofs` |
| `OvpnGuard` | all but `LimitsHold` | `OvpnGuardProofs` |
| `Bridge` | type correctness with the counters' order | `FrontendProofs` |
| `Frontend` | all but `AcceptsOrStops` | `FrontendProofs` |
| `Accounts` | all | `AccountsProofs` |
| `Panel` | all | `PanelProofs` |
| `Ports` | all | `PortsProofs` |
| `Spread` | type correctness, `RulesMatchWorkers`, `Implements` | `SpreadProofs` |
| `Balance` | `SharesAreServed` | `SpreadProofs` |

Model-checked only, and why: everything under fairness (leads-to needs
ENABLED, which the provers do not handle), `LimitsHold` and `AcceptsOrStops` among
it; and `NoLeftovers`, `SettingsReachAll` and `ProcessesUpToDate` of `Spread`, which
say of caps, files and processes what `IInv` does not follow. No deadlock is checked where a run may stop because its
bounds are spent; every property is stated so that stopping cannot hide a failure
of it.

## Not modelled

Builders of inbounds, subscription formats and share links are text produced
from settings. Panel login is single statements on one row and a map under one
mutex. Certificates are calls of acme.sh. Status screens, time zone, swap and
update items, the web file server, the log throttle, embedded binaries and
archive extraction hold no state the properties could speak of. acme.sh,
iptables, tc, systemd and SQLite are outside the repository and appear as what
the code relies on. `PROJECT.json` gives a reason for each component.

What would come next: `Spread`'s last three properties as theorems; expiry dates
instead of conditions, for extensions that race; the accounting composed with
the reload, whose restarts zero the counters that the quota is read from.
