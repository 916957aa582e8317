---------------------------------- MODULE Panel ----------------------------------
(***************************************************************************)
(* The web panel from the outside: what installs, removes, reconfigures,   *)
(* backs up and restores it, over a SQLite database in WAL mode.           *)
(*                                                                         *)
(* panel.yaml is read once, when the panel starts.  The database is a set  *)
(* of transactions, numbered in the order they were committed: those that  *)
(* panel.db holds and those still in panel.db-wal; whoever closes the last *)
(* connection moves these over, a killed process leaves them.  config.json *)
(* is all that is left of xray's directory here, ConfigReload has the rest.*)
(*                                                                         *)
(* As in Ports and Spread an operation is the sequence of its steps, here  *)
(* <<verb, object>>, each of which may fail, and one operator works.       *)
(***************************************************************************)
EXTENDS Integers, Sequences, FiniteSets, SequencesExt

CONSTANTS
  PanelPorts,  \* ports the operator may choose
  Target,      \* len(migrations)
  MaxTx,       \* bound: transactions
  MaxSpent     \* bound: operations, failures, crashes, reboots

\* Room for every migration and the first password.
ASSUME ParametersOK ==
  Target \in Nat /\ MaxTx \in Nat /\ Target < MaxTx /\ MaxSpent \in Nat

VARIABLES
  yaml,     \* panel.yaml: what NewDefault generated, and the port
  db,       \* is there a panel.db
  main,     \* the transactions in it
  wal,      \* those in panel.db-wal only
  log,      \* history: the kind of every transaction
  config,   \* is there a config.json xray can run
  units,    \* the unit files
  enabled,
  panel,    \* the panel's unit and process
  cfg,      \* the panel.yaml the process read
  xray,
  archive,  \* the last backup
  op,       \* what the operator is doing
  want,     \* history: the transactions that ought to be found
  told,     \* history: the transaction that set the password last printed
  doubt,    \* history: what failures left open
  spent     \* bound's counter

vars == <<yaml, db, main, wal, log, config, units, enabled, panel, cfg, xray, archive, op, want,
          told, doubt, spent>>
database == <<db, main, wal, log, want>>
systemd  == <<units, enabled, panel, cfg, xray>>
record   == <<told, doubt, spent>>

Svcs == {"panel", "xray"}
DataDoubts == {"log", "partly", "live", "file"}
Missing == [gen |-> 0, port |-> 0]    \* or a file that does not parse
NoBackup ==
  [yaml |-> Missing, db |-> FALSE, main |-> {}, config |-> FALSE, had |-> {}, sure |-> TRUE]
Idle == [name |-> "idle", todo |-> <<>>, port |-> 0, pw |-> 0, open |-> FALSE, box |-> NoBackup]

View == main \cup wal
Of(kind, txs) == {t \in txs : log[t] = kind}
Version == Cardinality(Of("schema", View))      \* PRAGMA user_version
Password(txs) == Max({0} \cup Of("password", txs))

Up == panel \in {"opening", "on"}
Connected == Up \/ op.open

-----------------------------------------------------------------------------
(* The operations, step by step.                                           *)

On(object, verbs) == [k \in 1..Len(verbs) |-> <<verbs[k], object>>]
Only(object, verbs, there) == IF there THEN On(object, verbs) ELSE <<>>

Install(keep) ==
  Only("db", <<"remove">>, ~keep) \o On("yaml", <<"generate">>)
    \o On("db", <<"open", "migrate", "password", "close">>)
    \o On("xray", <<"unit">>) \o On("panel", <<"unit">>)
    \o On("xray", <<"enable">>) \o On("panel", <<"enable">>)
    \o On("xray", <<"start">>) \o On("panel", <<"start">>) \o On("password", <<"tell">>)

Uninstall(wipe) ==
  On("panel", <<"stop", "disable", "noUnit">>) \o On("xray", <<"stop", "disable", "noUnit">>)
    \o On("yaml", <<"remove">>) \o Only("db", <<"remove">>, wipe) \o On("config", <<"remove">>)

ResetAdminPassword == On("db", <<"open", "migrate", "password", "close">>) \o On("password", <<"tell">>)
ShowInfo == On("db", <<"open", "migrate", "close">>)

\* MUTANT: the process is not told of the new port.
ChangePortSaved == On("yaml", <<"setPort">>)

ChangePort == On("yaml", <<"setPort">>) \o On("panel", <<"restart">>)
RestartBoth == On("xray", <<"restart">>) \o On("panel", <<"restart">>)
EnableBoth == On("xray", <<"enable", "start">>) \o On("panel", <<"enable", "start">>)
DisableBoth == On("panel", <<"stop", "disable">>) \o On("xray", <<"stop", "disable">>)

MakeBackup ==
  On("yaml", <<"copy">>) \o On("db", <<"copy">>) \o On("config", <<"copy">>)
    \o On("archive", <<"rename">>)

\* MUTANT: the files are replaced under a running panel.
RestoreHot(a) ==
  Only("yaml", <<"put">>, a.yaml # Missing) \o Only("db", <<"put">>, a.db)
    \o Only("config", <<"put">>, a.config)

\* What the archive does not have stays as it is.
Restore(a) ==
  On("panel", <<"stop">>) \o On("xray", <<"stop">>)
    \o Only("yaml", <<"put">>, a.yaml # Missing) \o Only("db", <<"put">>, a.db)
    \o Only("config", <<"put">>, a.config)

Names == {"idle", "install", "uninstall", "password", "show", "port", "restart", "enable", "disable",
          "backup", "restore"}

Then(o, rest) == IF rest = <<>> THEN Idle ELSE [o EXCEPT !.todo = rest]
At(verb, object) == op.todo # <<>> /\ Head(op.todo) = <<verb, object>>
Proceed == op' = Then(op, Tail(op.todo))
Spend == spent < MaxSpent /\ spent' = spent + 1
Room == Len(log) < MaxTx

-----------------------------------------------------------------------------
(* SQLite, as far as the code relies on it.                                *)

\* A transaction goes to the log.
Commit(kind) ==
  /\ Room
  /\ log' = Append(log, kind)
  /\ wal' = wal \cup {Len(log')}
  /\ want' = want \cup {Len(log')}
  /\ UNCHANGED <<db, main>>

\* Opening recovers what a killed process left in the log, but a log next to
\* an empty file is deleted.
OpenFile ==
  /\ db' = TRUE
  /\ wal' = IF db THEN wal ELSE {}
  /\ UNCHANGED <<main, log, want>>

\* The last connection moves the log over.
Close(last) ==
  /\ main' = IF last THEN View ELSE main
  /\ wal' = IF last THEN {} ELSE wal
  /\ UNCHANGED <<db, log, want>>

Checkpoint ==
  /\ Connected /\ wal # {}
  /\ Close(TRUE)
  /\ UNCHANGED <<yaml, config, systemd, archive, op, record>>

-----------------------------------------------------------------------------
(* Steps.                                                                  *)

\* Files changed under a running panel: panel.yaml was read, and SQLite says
\* nothing of a database removed or replaced under its connections.
Stale == IF Up THEN {"stale"} ELSE {}
UnderPanel == IF Up THEN {"file"} ELSE {}

\* Install's Save of NewDefault, and ChangePort's, which Load precedes
WriteYaml ==
  /\ \/ /\ At("generate", "yaml")
        /\ yaml' = [gen |-> spent, port |-> op.port]
        /\ doubt' = doubt \cup Stale
     \/ /\ At("setPort", "yaml") /\ yaml # Missing
        /\ yaml' = [yaml EXCEPT !.port = op.port]
        /\ UNCHANGED doubt
  /\ Proceed
  /\ UNCHANGED <<database, config, systemd, archive, told, spent>>

RemoveYaml ==
  /\ At("remove", "yaml") /\ Proceed
  /\ yaml' = Missing
  /\ doubt' = doubt \cup Stale
  /\ UNCHANGED <<database, config, systemd, archive, told, spent>>

\* panel.db only: a log somebody left stays.
RemoveDb ==
  /\ At("remove", "db") /\ Proceed
  /\ db' = FALSE /\ main' = {} /\ want' = {} /\ told' = 0
  /\ doubt' = (doubt \ {"log", "partly", "live", "password"}) \cup UnderPanel
  /\ UNCHANGED <<yaml, wal, log, config, systemd, archive, spent>>

RemoveXrayState ==
  /\ At("remove", "config") /\ Proceed
  /\ config' = FALSE
  /\ UNCHANGED <<yaml, database, systemd, archive, record>>

OpenDb ==
  /\ At("open", "db")
  /\ op' = [op EXCEPT !.todo = Tail(@), !.open = TRUE]
  /\ OpenFile
  /\ UNCHANGED <<yaml, config, systemd, archive, record>>

\* MUTANT: one step too many.
MigratePast ==
  \/ Version <= Target /\ Commit("schema") /\ UNCHANGED op
  \/ Version > Target /\ Proceed /\ UNCHANGED database

\* Each pending step in a transaction of its own
Migrate ==
  \/ Version < Target /\ Commit("schema") /\ UNCHANGED op
  \/ Version >= Target /\ Proceed /\ UNCHANGED database

MigrateDb ==
  /\ At("migrate", "db")
  /\ Migrate
  /\ UNCHANGED <<yaml, config, systemd, archive, record>>

SetAdminPassword ==
  /\ At("password", "db")
  /\ Commit("password")
  /\ op' = [op EXCEPT !.todo = Tail(@), !.pw = Len(log')]
  /\ UNCHANGED <<yaml, config, systemd, archive, record>>

CloseDb ==
  /\ At("close", "db")
  /\ op' = Then([op EXCEPT !.open = FALSE], Tail(op.todo))
  /\ Close(~Up)
  /\ UNCHANGED <<yaml, config, systemd, archive, record>>

\* The password is printed last.
Tell ==
  /\ At("tell", "password") /\ Proceed
  /\ told' = op.pw
  /\ doubt' = doubt \ {"password"}
  /\ UNCHANGED <<yaml, database, config, systemd, archive, spent>>

UnitFile(s) ==
  /\ \/ At("unit", s) /\ units' = units \cup {s}
     \/ At("noUnit", s) /\ units' = units \ {s}
  /\ Proceed
  /\ UNCHANGED <<yaml, database, config, enabled, panel, cfg, xray, archive, record>>

Enablement(s) ==
  /\ \/ At("enable", s) /\ s \in units /\ enabled' = enabled \cup {s}
     \/ At("disable", s) /\ s \in units /\ enabled' = enabled \ {s}
  /\ Proceed
  /\ UNCHANGED <<yaml, database, config, units, panel, cfg, xray, archive, record>>

\* What runs is not started again.
Start(s) ==
  /\ At("start", s) /\ s \in units /\ Proceed
  /\ panel' = IF s = "panel" /\ ~Up THEN "due" ELSE panel
  /\ xray' = IF s = "xray" /\ xray # "on" THEN "due" ELSE xray
  /\ UNCHANGED <<yaml, database, config, units, enabled, cfg, archive, record>>

\* SIGTERM: Serve returns and closes the database.
StopPanel ==
  /\ At("stop", "panel") \/ (At("restart", "panel") /\ "panel" \in units)
  /\ Proceed
  /\ panel' = IF At("stop", "panel") THEN "off" ELSE "due"
  /\ cfg' = Missing
  /\ IF Up THEN Close(~op.open) ELSE UNCHANGED database
  /\ UNCHANGED <<yaml, config, units, enabled, xray, archive, record>>

StopXray ==
  /\ At("stop", "xray") \/ (At("restart", "xray") /\ "xray" \in units)
  /\ Proceed
  /\ xray' = IF At("stop", "xray") THEN "off" ELSE "due"
  /\ UNCHANGED <<yaml, database, config, units, enabled, panel, cfg, archive, record>>

\* addFileToTar: missing files are skipped.  What is in the log is not
\* copied, but for what a running panel moves over meanwhile.
CopyFile ==
  /\ \/ /\ At("copy", "yaml")
        /\ op' = Then([op EXCEPT !.box.yaml = yaml], Tail(op.todo))
     \/ /\ At("copy", "db")
        /\ \E moved \in (IF Up THEN SUBSET wal ELSE {{}}) :
             op' = Then([op EXCEPT !.box.db = db, !.box.main = main \cup moved, !.box.had = want,
                                   !.box.sure = (wal = {} /\ doubt \cap DataDoubts = {})],
                        Tail(op.todo))
     \/ /\ At("copy", "config")
        /\ op' = Then([op EXCEPT !.box.config = config], Tail(op.todo))
  /\ UNCHANGED <<yaml, database, config, systemd, archive, record>>

RenameArchive ==
  /\ At("rename", "archive") /\ Proceed
  /\ archive' = op.box
  /\ UNCHANGED <<yaml, database, config, systemd, record>>

PutYaml ==
  /\ At("put", "yaml") /\ Proceed
  /\ yaml' = archive.yaml
  /\ doubt' = doubt \cup Stale
  /\ UNCHANGED <<database, config, systemd, archive, told, spent>>

\* A log that a killed process left will be applied to the restored file.
PutDb ==
  /\ At("put", "db") /\ Proceed
  /\ db' = TRUE /\ main' = archive.main
  /\ want' = archive.had /\ told' = Password(archive.had)
  /\ doubt' = (doubt \ {"log", "partly", "live", "password"})
                \cup (IF wal # {} /\ ~Up THEN {"log"} ELSE {})
                \cup (IF archive.sure THEN {} ELSE {"live"})
  /\ UNCHANGED <<yaml, wal, log, config, systemd, archive, spent>>

PutConfig ==
  /\ At("put", "config") /\ Proceed
  /\ config' = TRUE
  /\ UNCHANGED <<yaml, database, systemd, archive, record>>

-----------------------------------------------------------------------------
(* Steps that fail, and a menu that dies.                                  *)

\* Restore writes in place: what it was writing is cut short.
CutShort ==
  \/ UNCHANGED <<yaml, main, config>>
  \/ At("put", "yaml") /\ yaml' = Missing /\ UNCHANGED <<main, config>>
  \/ At("put", "db") /\ main' \in SUBSET archive.main /\ UNCHANGED <<yaml, config>>
  \/ At("put", "config") /\ config' = FALSE /\ UNCHANGED <<yaml, main>>

\* What the operator is left with.
Doubts(o) ==
  LET verb == Head(o.todo)[1]  object == Head(o.todo)[2]
  IN (IF o.pw # 0 THEN {"password"} ELSE {})    \* it is set and was not printed
       \cup (IF verb = "restart" \/ (verb \in {"put", "remove"} /\ object = "yaml") THEN Stale ELSE {})
       \cup (IF verb = "put" /\ object = "db" THEN {"partly"} ELSE {})

AfterFailure(o) ==
  LET verb == Head(o.todo)[1]
  IN IF o.open THEN Then(o, On("db", <<"close">>))
     ELSE IF \/ verb \in {"stop", "start", "enable"} /\ o.name \in {"install", "uninstall", "restore"}
             \/ verb = "stop"
             \/ o.name = "uninstall" /\ Head(o.todo)[2] \notin {"yaml", "db"}
          THEN Then(o, Tail(o.todo))
     ELSE Idle

StepFails ==
  /\ op.todo # <<>> /\ Head(op.todo)[1] \notin {"tell", "close"}
  /\ Spend
  /\ CutShort
  /\ op' = AfterFailure(op)
  /\ doubt' = doubt \cup (IF op'.name = op.name /\ ~op.open THEN {} ELSE Doubts(op))
                    \cup (IF At("stop", "panel") /\ op.name = "restore" THEN {"file"} ELSE {})
  /\ UNCHANGED <<db, wal, log, want, systemd, archive, told>>

\* A step that cannot succeed: no unit to start, no panel.yaml to change.
Refused ==
  /\ \/ \E s \in Svcs, verb \in {"enable", "disable", "start", "restart"} : At(verb, s) /\ s \notin units
     \/ At("setPort", "yaml") /\ yaml = Missing
  /\ op' = AfterFailure(op)
  /\ doubt' = doubt \cup (IF op' = Idle THEN Doubts(op) ELSE {})
  /\ UNCHANGED <<yaml, database, config, systemd, archive, told, spent>>

Crash ==
  /\ op # Idle
  /\ Spend
  /\ CutShort
  /\ op' = Idle
  /\ doubt' = doubt \cup Doubts(op)
  /\ UNCHANGED <<db, wal, log, want, systemd, archive, told>>

-----------------------------------------------------------------------------
(* The operator picks an operation.                                        *)

Begin(name, port, todo) ==
  /\ op = Idle
  /\ Spend
  /\ op' = [Idle EXCEPT !.name = name, !.port = port, !.todo = todo]
  /\ UNCHANGED <<yaml, database, config, systemd, archive, told, doubt>>

IsInstalled == yaml # Missing

\* Whether to keep the data: asked for an installed panel (the menu), or --keep-db
InstallPanel == \E port \in PanelPorts, keep \in BOOLEAN : Begin("install", port, Install(keep))
UninstallPanel == IsInstalled /\ \E wipe \in BOOLEAN : Begin("uninstall", 0, Uninstall(wipe))
Reconfigure ==
  /\ IsInstalled
  /\ \/ Begin("password", 0, ResetAdminPassword)
     \/ Begin("show", 0, ShowInfo)
     \/ \E port \in PanelPorts : Begin("port", port, ChangePort)
Control ==
  \/ IsInstalled /\ (Begin("restart", 0, RestartBoth) \/ Begin("enable", 0, EnableBoth))
  \/ Begin("disable", 0, DisableBoth)
BackUp == Begin("backup", 0, MakeBackup)
RestoreBackup == archive # NoBackup /\ Begin("restore", 0, Restore(archive))

-----------------------------------------------------------------------------
(* The panel, xray and the machine.                                        *)

\* Serve: Load, then Open.
Boot ==
  /\ panel = "due" /\ yaml # Missing
  /\ panel' = "opening" /\ cfg' = yaml
  /\ OpenFile
  /\ doubt' = doubt \ {"stale"}
  /\ UNCHANGED <<yaml, config, units, enabled, xray, archive, op, told, spent>>

BootFails ==
  /\ panel = "due" /\ yaml = Missing
  /\ panel' = "failed"    \* the start limit
  /\ UNCHANGED <<yaml, database, config, units, enabled, cfg, xray, archive, op, record>>

Serve ==
  /\ panel = "opening"
  /\ IF Version < Target THEN Commit("schema") /\ UNCHANGED panel
     ELSE panel' = "on" /\ UNCHANGED database
  /\ UNCHANGED <<yaml, config, units, enabled, cfg, xray, archive, op, record>>

\* Sessions, polls: no reload.
Request ==
  /\ panel = "on" /\ Commit("row")
  /\ UNCHANGED <<yaml, config, systemd, archive, op, record>>

\* xray.Reload after a change: try-reload-or-restart
Reload ==
  /\ panel = "on" /\ Commit("row")
  /\ config' = TRUE
  /\ xray' = IF xray \in {"on", "due"} THEN "due" ELSE xray
  /\ UNCHANGED <<yaml, units, enabled, panel, cfg, archive, op, record>>

\* Restart=on-failure; the log stays, unless somebody else has it open.
PanelDies ==
  /\ Up /\ Spend
  /\ panel' = "due" /\ cfg' = Missing
  /\ UNCHANGED <<yaml, database, config, units, enabled, xray, archive, op, told, doubt>>

XrayComes ==
  /\ xray = "due"
  /\ xray' = IF config THEN "on" ELSE "failed"    \* after the start limit
  /\ UNCHANGED <<yaml, database, config, units, enabled, panel, cfg, archive, op, record>>

Reboot ==
  /\ Spend
  /\ CutShort
  /\ panel' = IF "panel" \in units \cap enabled THEN "due" ELSE "off"
  /\ xray' = IF "xray" \in units \cap enabled THEN "due" ELSE "off"
  /\ cfg' = Missing
  /\ op' = Idle
  /\ doubt' = doubt \cup (IF op = Idle THEN {} ELSE Doubts(op))
  /\ UNCHANGED <<db, wal, log, want, units, enabled, archive, told>>

-----------------------------------------------------------------------------
(* The specification.  Nothing is installed yet but the units (main         *)
(* install), or a panel runs.                                              *)

Fresh ==
  /\ yaml = Missing /\ db = FALSE /\ main = {} /\ log = <<>> /\ config = FALSE
  /\ units = Svcs /\ enabled = {} /\ panel = "off" /\ cfg = Missing /\ xray = "off"

Running ==
  /\ \E port \in PanelPorts : yaml = [gen |-> -1, port |-> port]
  /\ db = TRUE
  /\ log = [k \in 1..Target + 1 |-> IF k <= Target THEN "schema" ELSE "password"]
  /\ main = DOMAIN log /\ config = TRUE
  /\ units = Svcs /\ enabled = Svcs /\ panel = "on" /\ cfg = yaml /\ xray = "on"

Init ==
  /\ Fresh \/ Running
  /\ wal = {} /\ want = main /\ told = Password(main)
  /\ archive = NoBackup /\ op = Idle /\ doubt = {} /\ spent = 0

Operation ==
  \/ InstallPanel \/ UninstallPanel \/ Reconfigure \/ Control \/ BackUp \/ RestoreBackup

Step ==
  \/ WriteYaml \/ RemoveYaml \/ RemoveDb \/ RemoveXrayState
  \/ OpenDb \/ MigrateDb \/ SetAdminPassword \/ CloseDb \/ Tell
  \/ \E s \in Svcs : UnitFile(s) \/ Enablement(s) \/ Start(s)
  \/ StopPanel \/ StopXray \/ CopyFile \/ RenameArchive \/ PutYaml \/ PutDb \/ PutConfig
  \/ StepFails \/ Refused

World ==
  \/ Boot \/ BootFails \/ Serve \/ Request \/ Reload \/ Checkpoint \/ PanelDies \/ XrayComes
  \/ Crash \/ Reboot

Next == Operation \/ Step \/ World

Spec == Init /\ [][Next]_vars

-----------------------------------------------------------------------------
(* Properties.                                                             *)

Yamls == [gen : -1..MaxSpent, port : PanelPorts \cup {0}]

\* The variables hold what the code can put there; the schema never gets
\* past the last migration, and who serves has all of them.
TypeOK ==
  /\ yaml \in Yamls /\ cfg \in Yamls
  /\ db \in BOOLEAN /\ config \in BOOLEAN
  /\ log \in Seq({"schema", "password", "row"}) /\ Len(log) <= MaxTx
  /\ main \subseteq DOMAIN log /\ wal \subseteq DOMAIN log /\ want \subseteq DOMAIN log
  /\ doubt \cap DataDoubts = {} =>
       Version <= Target /\ (panel = "on" => Version = Target)
  /\ units \subseteq Svcs /\ enabled \subseteq Svcs
  /\ panel \in {"off", "due", "opening", "on", "failed"} /\ xray \in {"off", "due", "on", "failed"}
  /\ op.name \in Names /\ told \in 0..MaxTx
  /\ doubt \subseteq DataDoubts \cup {"stale", "password"}
  /\ spent \in 0..MaxSpent

\* A panel that serves has every transaction that was committed since it was
\* installed or restored, and nothing else: over migrations cut short, kills,
\* reboots, removals that keep the data, a reinstallation that wipes it, and
\* a restored backup, which brings back what it was made of.  Open are a
\* backup of a database with a log next to it, a restore next to one, or
\* files removed or replaced under a panel that would not stop.
DataSurvives ==
  panel = "on" /\ doubt \cap DataDoubts = {} => View = want

\* A panel that serves does so where panel.yaml says, and lets in whoever has
\* the password last printed - however installations, changes and restores
\* ended.  Open are a panel that was reinstalled while it ran and a password
\* that was set but never printed.
ServesAsTold ==
  panel = "on" /\ op = Idle =>
    /\ "stale" \notin doubt => cfg = yaml
    /\ doubt \cap (DataDoubts \cup {"password"}) = {} => told = Password(View)

=============================================================================
