-------------------------------- MODULE Accounts --------------------------------
(***************************************************************************)
(* The accounts of the server and the operators who keep them.             *)
(*                                                                         *)
(* An account is a line of /etc/passwd and /etc/shadow; users.json         *)
(* (src/internal/user/db.go) and v1's /root/usuarios.db hold its limit.    *)
(* The menu (src/internal/menu/users.go) and `hexplus user` change all of  *)
(* them in turn, without a lock; each may run more than once.  `at` deletes*)
(* trial accounts; the guard (src/internal/ovpnguard/run.go) reads limits  *)
(* and expiry and customers log in meanwhile.                              *)
(*                                                                         *)
(* An operation is the sequence of its steps.  Every step is one action,   *)
(* which may fail; AfterFailure says how the operation goes on.  The two   *)
(* writes of a Save (temporary file, rename) are two steps; the bytes of a *)
(* file that two processes write at once are ConfigReload's subject.       *)
(***************************************************************************)
EXTENDS Integers, Sequences, FiniteSets

CONSTANTS
  Names,       \* login names
  NewNames,    \* those that operators make accounts under
  Operators,   \* menus or shells with a `hexplus user` command
  None,        \* no account, row, line, file or answer
  Broken,      \* a users.json that does not parse
  MaxLimit,    \* bound: limits given
  MaxDays,     \* bound: days of validity given
  MaxToday,    \* bound: days that pass
  MaxSpent     \* bound: operations, failed steps, crashes, damaged files
               \* and v1 accounts under other names

ASSUME ParametersOK ==
  /\ NewNames \subseteq Names /\ IsFiniteSet(Names)
  /\ MaxLimit \in Nat /\ MaxDays \in Nat \ {0} /\ MaxToday \in Nat /\ MaxSpent \in Nat
  /\ None \notin Nat \cup [limit : Nat, exp : Nat] /\ Broken \notin [Names -> [limit : Nat, exp : Nat] \cup {None}]

VARIABLES
  passwd,   \* /etc/passwd and /etc/shadow
  certs,    \* names with a client certificate and key
  rows,     \* users.json
  tmp,      \* users.json.tmp
  v1,       \* usuarios.db: the limit on each name's line
  jobs,     \* scheduled `at` jobs; their text was copied when they were made
  sess,     \* OpenVPN sessions, by name and account
  today,    \* days since the start
  op,       \* what each operator is doing
  told,     \* history: the limit the operator was last told is in force
  made,     \* history: the accounts made so far
  events,   \* history: what has happened that a property must allow for
  spent     \* bound's counter, which also numbers the operations

vars == <<passwd, certs, rows, tmp, v1, jobs, sess, today, op, told, made, events, spent>>

Never  == 0                          \* no expiry day; days count from 1
Limits == 0..(MaxLimit + 1)               \* 0 is no limit
Days   == 0..(1 + MaxToday + MaxDays)
Gens   == 0..MaxSpent                  \* accounts are told apart by their number
EventNames == {"overlap", "crash", "broken", "rollbackFault", "v1Fault"}

-----------------------------------------------------------------------------
(* The operations.                                                         *)

AddSteps == <<"useradd", "chpasswd", "cert", "load", "write", "rename">>
CreateSteps == <<"useradd", "chpasswd", "load", "write", "rename", "readV1", "writeV1", "cert">>
TrialSteps  == <<"useradd", "chpasswd", "readV1", "writeV1", "at">>
RemoveSteps == <<"userdel", "uncert", "load", "write", "rename">>
V1Steps     == <<"readV1", "writeV1">>
ExpirySteps == <<"chage", "load", "write", "rename">>
LimitSteps  == <<"load", "write", "rename", "readV1", "writeV1">>

\* MUTANT: the sessions are ended before the account is deleted.
RemoveUserStepsKickFirst == <<"kick">> \o RemoveSteps \o V1Steps

RemoveUserSteps == RemoveSteps \o <<"kick">> \o V1Steps
CleanSteps      == <<"kick">> \o RemoveSteps \o V1Steps

Steps(flow) ==
  CASE flow = "add" -> AddSteps            \* hexplus user add
    [] flow = "drop" -> RemoveSteps        \* hexplus user remove
    [] flow = "create" -> CreateSteps      \* the rest: the menu's items
    [] flow = "trial" -> TrialSteps
    [] flow = "expiry" -> ExpirySteps
    [] flow = "limit" -> LimitSteps
    [] flow = "password" -> <<"chpasswd">>
    [] flow \in {"remove", "removeAll"} -> RemoveUserSteps
    [] flow = "clean" -> CleanSteps

Creating == {"add", "create", "trial"}
Picking  == {"remove", "expiry", "limit", "password"}
Deleting == {"drop", "remove", "removeAll", "clean"}
Flows    == Creating \cup Picking \cup Deleting \cup {"idle"}

Resting == [flow |-> "idle", todo |-> <<>>, name |-> None, gen |-> 0, limit |-> 0, days |-> 0,
            exp |-> Never, db |-> None, lines |-> None, left |-> {}, due |-> {}, failed |-> FALSE]

\* MUTANT: useradd's failure is undone as well.
RolledBackEarly == ({"add"} \X {"useradd", "chpasswd", "cert", "load", "write", "rename"})
                     \cup ({"create", "trial"} \X {"useradd", "chpasswd"})

\* MUTANT: the account counts as committed before its row is written.
RolledBackLate == ({"add"} \X {"chpasswd", "cert"}) \cup ({"create", "trial"} \X {"chpasswd"})

\* What a step that fails leaves to do.  The deferred userdel of Add is set up
\* after useradd; the create menus undo only a failed chpasswd.  The menu
\* ignores a Save that fails (a Load that fails is a nil dereference: the
\* menu dies), and "remove all" an account that Remove refuses.
RolledBack ==
  ({"add"} \X {"chpasswd", "cert", "load", "write", "rename"})
    \cup ({"create", "trial"} \X {"chpasswd"})

AfterFailure(o) ==
  CASE <<o.flow, Head(o.todo)>> \in RolledBack -> <<"rollback">>
    [] o.flow = "create" /\ Head(o.todo) \in {"write", "rename"} -> V1Steps \o <<"cert">>
    [] o.flow = "removeAll" -> <<"kick">> \o V1Steps
    [] OTHER -> <<>>

\* o goes on with rest, then with the next name of a loop.
Then(o, rest) ==
  IF rest # <<>> THEN [o EXCEPT !.todo = rest]
  ELSE IF o.left # {} THEN [o EXCEPT !.todo = <<"next">>]
  ELSE [Resting EXCEPT !.failed = o.failed]

Busy(m) == op[m].flow # "idle"
At(m, s) == Busy(m) /\ Head(op[m].todo) = s
Set(m, o) == op' = [op EXCEPT ![m] = o]
Proceed(m, o) == Set(m, Then(o, Tail(o.todo)))
Refuse(m) == Set(m, Then([op[m] EXCEPT !.failed = TRUE], AfterFailure(op[m])))

Spend == spent < MaxSpent /\ spent' = spent + 1
\* The step fails, for certain or by bad luck.
Fails(m, certain) == Refuse(m) /\ IF certain THEN UNCHANGED spent ELSE Spend
Succeeds(m, o) == Proceed(m, o) /\ UNCHANGED spent
Note(e) == events' = events \cup {e}

-----------------------------------------------------------------------------
(* Limits and expiry, as the guard and the screens read them.              *)

RowLimit(n) == IF rows = Broken \/ rows[n] = None THEN 0 ELSE rows[n].limit
LineLimit(n) == IF v1[n] = None THEN 0 ELSE v1[n]

\* MUTANT: a row hides v1's limit, even one that gives none.
EnforcedRowFirst(n) ==
  IF rows # Broken /\ rows[n] # None THEN rows[n].limit ELSE LineLimit(n)

\* limitFor, with MULTILOGIN on.
Enforced(n) == IF RowLimit(n) > 0 THEN RowLimit(n) ELSE LineLimit(n)

\* systemUsers.
Shown(n) ==
  IF rows[n] = None THEN LineLimit(n)
  ELSE IF rows[n].limit <= 0 /\ LineLimit(n) > 0 THEN v1[n] ELSE rows[n].limit

\* refusal: today has reached the expiry day.
Expired(a) == a.exp # Never /\ today >= a.exp

\* MUTANT: hours left, rounded toward zero.
DaysLeftRounded(exp) == exp - today

DaysLeft(exp) == exp - today - 1

-----------------------------------------------------------------------------
(* Starting an operation.                                                  *)

Overlaps(m) == (\E o \in Operators \ {m} : Busy(o)) \/ (\E j \in jobs : j.running)

Begin(m, o) ==
  /\ ~Busy(m)
  /\ Spend
  /\ Set(m, o)
  /\ events' = IF Overlaps(m) THEN events \cup {"overlap"} ELSE events
  /\ UNCHANGED <<passwd, certs, rows, tmp, v1, jobs, sess, today, told, made>>

Order(f, n, l, d) ==
  [Resting EXCEPT !.flow = f, !.todo = Steps(f), !.name = n, !.limit = l, !.days = d,
                  !.gen = IF passwd[n] = None THEN spent + 1 ELSE passwd[n].gen]

\* The exists check comes before the prompts.  `hexplus user add` takes a limit
\* and a validity of 0, the menu does not; a trial has no expiry day.
StartCreate(m, f, n, l, d) ==
  /\ n \in NewNames /\ passwd[n] = None
  /\ f \in {"create", "trial"} => l > 0
  /\ f = "create" => d > 0
  /\ f = "trial" => d = 0
  /\ Begin(m, Order(f, n, l, d))

\* listAndPick shows the accounts; systemUsers dies of a users.json it cannot read.
StartPick(m, f, n, l, d) ==
  /\ passwd[n] # None /\ rows # Broken
  /\ IF f = "limit" THEN l > 0 ELSE l = 0
  /\ f # "expiry" => d = 0
  /\ Begin(m, Order(f, n, l, d))

StartDrop(m, n) == n \in NewNames /\ Begin(m, Order("drop", n, 0, 0))

Present == {n \in Names : passwd[n] # None}

ExpiryOf(n) == [name |-> n, exp |-> passwd[n].exp]

\* "remove all" and "remove expired" walk the accounts there are now.
StartLoop(m, f) ==
  /\ Present # {} /\ rows # Broken
  /\ Begin(m, [Resting EXCEPT !.flow = f, !.todo = <<"next">>, !.left = Present,
                 !.due = {ExpiryOf(n) : n \in {a \in Present : Expired(passwd[a])}}])

\* runCleanExpired asks chage about each; "remove all" does not.
NextName(m) ==
  /\ At(m, "next")
  /\ \E n \in op[m].left :
       LET o == [op[m] EXCEPT !.left = @ \ {n}, !.name = n]
           goes == \/ o.flow = "removeAll"
                   \/ passwd[n] # None /\ passwd[n].exp # Never /\ DaysLeft(passwd[n].exp) < 0
       IN Set(m, Then(o, IF goes THEN Steps(o.flow) ELSE <<>>))
  /\ UNCHANGED <<passwd, certs, rows, tmp, v1, jobs, sess, today, told, events, spent, made>>

-----------------------------------------------------------------------------
(* The steps.                                                              *)

\* Today plus the days asked for, counted when the step runs.
ExpiryDay(o) == IF o.days = 0 THEN Never ELSE today + o.days

NewAccount(o) ==
  [gen |-> o.gen, by |-> o.flow, pw |-> FALSE, exp |-> ExpiryDay(o),
   fresh |-> rows # Broken /\ rows[o.name] = None /\ v1[o.name] = None]

\* useradd, with the expiry day.
CreateSystemUser(m) ==
  LET o == op[m] IN
  /\ At(m, "useradd")
  /\ \/ /\ passwd[o.name] = None
        /\ passwd' = [passwd EXCEPT ![o.name] = NewAccount(o)]
        /\ told' = [told EXCEPT ![o.name] = None]
        /\ made' = made \cup {o.gen}
        /\ Succeeds(m, [o EXCEPT !.exp = ExpiryDay(o)])
     \/ /\ Fails(m, passwd[o.name] # None)
        /\ UNCHANGED <<passwd, told, made>>
  /\ UNCHANGED <<certs, rows, tmp, v1, jobs, sess, today, events>>

\* chpasswd: a password, for whatever account has the name now.
SetPassword(m) ==
  LET n == op[m].name IN
  /\ At(m, "chpasswd")
  /\ \/ /\ passwd[n] # None
        /\ passwd' = [passwd EXCEPT ![n].pw = TRUE]
        /\ Succeeds(m, op[m])
     \/ /\ Fails(m, passwd[n] = None)
        /\ UNCHANGED passwd
  /\ UNCHANGED <<certs, rows, tmp, v1, jobs, sess, today, told, events, made>>

ChageExpiry(m) ==
  LET o == op[m] IN
  /\ At(m, "chage")
  /\ \/ /\ passwd[o.name] # None
        /\ passwd' = [passwd EXCEPT ![o.name].exp = ExpiryDay(o)]
        /\ Succeeds(m, [o EXCEPT !.exp = ExpiryDay(o)])
     \/ /\ Fails(m, passwd[o.name] = None)
        /\ UNCHANGED passwd
  /\ UNCHANGED <<certs, rows, tmp, v1, jobs, sess, today, told, events, made>>

\* userdel --force; an account that is not there is as good as deleted.
DeleteSystemUser(m) ==
  /\ At(m, "userdel")
  /\ \/ /\ passwd' = [passwd EXCEPT ![op[m].name] = None]
        /\ Succeeds(m, op[m])
     \/ /\ Fails(m, FALSE)
        /\ UNCHANGED passwd
  /\ UNCHANGED <<certs, rows, tmp, v1, jobs, sess, today, told, events, made>>

\* The deferred userdel: what it returns is dropped.
Rollback(m) ==
  /\ At(m, "rollback")
  /\ \/ /\ passwd' = [passwd EXCEPT ![op[m].name] = None]
        /\ UNCHANGED <<events, spent>>
     \/ Spend /\ Note("rollbackFault") /\ UNCHANGED passwd
  /\ Proceed(m, op[m])
  /\ UNCHANGED <<certs, rows, tmp, v1, jobs, sess, today, told, made>>

\* Sign and write certificate and key, and export.  The create menu goes on
\* to its success screen without them.
Certify(m) ==
  LET o == op[m] IN
  /\ At(m, "cert")
  /\ \/ certs' = certs \cup {o.name} /\ Succeeds(m, o)
     \/ certs' = certs /\ o.flow = "add" /\ Fails(m, FALSE)
     \/ certs' = certs /\ o.flow = "create" /\ Spend /\ Proceed(m, o)
  /\ told' = IF o.flow = "create" THEN [told EXCEPT ![o.name] = o.limit] ELSE told
  /\ UNCHANGED <<passwd, rows, tmp, v1, jobs, sess, today, events, made>>

\* Remove the certificate and the key; missing ones are passed over.
RemoveCert(m) ==
  /\ At(m, "uncert")
  /\ \/ certs' = certs \ {op[m].name} /\ Succeeds(m, op[m])
     \/ certs' = certs /\ Fails(m, FALSE)
  /\ UNCHANGED <<passwd, rows, tmp, v1, jobs, sess, today, told, events, made>>

-----------------------------------------------------------------------------
(* users.json: Load, change, Save.                                         *)

Load(m) ==
  /\ At(m, "load")
  /\ \/ rows # Broken /\ Succeeds(m, [op[m] EXCEPT !.db = rows])
     \/ rows = Broken /\ Fails(m, TRUE)
  /\ UNCHANGED <<passwd, certs, rows, tmp, v1, jobs, sess, today, told, events, made>>

Row(limit, exp) == [limit |-> limit, exp |-> exp]

\* MUTANT: a change of the expiry writes a row of its own.
NewRowForgets(o) ==
  LET old == IF o.db[o.name] = None THEN Row(0, Never) ELSE o.db[o.name] IN
  CASE o.flow \in Deleting -> None
    [] o.flow = "limit" -> Row(o.limit, old.exp)
    [] OTHER -> Row(o.limit, o.exp)

\* MUTANT: a new limit is added to the old one.
NewRowAdds(o) ==
  LET old == IF o.db[o.name] = None THEN Row(0, Never) ELSE o.db[o.name] IN
  CASE o.flow \in Deleting -> None
    [] o.flow = "limit" -> Row(old.limit + o.limit, old.exp)
    [] OTHER -> Row(o.limit, o.exp)

\* The row an operation leaves; a change makes one where there is none.
NewRow(o) ==
  LET old == IF o.db[o.name] = None THEN Row(0, Never) ELSE o.db[o.name] IN
  CASE o.flow \in Creating -> Row(o.limit, o.exp)
    [] o.flow \in Deleting -> None
    [] o.flow = "expiry" -> Row(old.limit, o.exp)
    [] o.flow = "limit" -> Row(o.limit, old.exp)

\* A write that fails may leave half a file; the rename is not reached then.
WriteTmp(m) ==
  LET o == op[m] IN
  /\ At(m, "write")
  /\ \/ tmp' = [o.db EXCEPT ![o.name] = NewRow(o)] /\ Succeeds(m, [o EXCEPT !.db = None])
     \/ tmp' \in {tmp, Broken} /\ Fails(m, FALSE)
  /\ UNCHANGED <<passwd, certs, rows, v1, jobs, sess, today, told, events, made>>

\* What is published is what the temporary file holds now.
RenameTmp(m) ==
  LET o == op[m] IN
  /\ At(m, "rename")
  /\ \/ /\ tmp # None
        /\ rows' = tmp
        /\ told' = IF o.flow = "add" THEN [told EXCEPT ![o.name] = o.limit] ELSE told
        /\ Succeeds(m, o)
     \/ /\ Fails(m, tmp = None)
        /\ UNCHANGED <<rows, told>>
  /\ tmp' = None
  /\ UNCHANGED <<passwd, certs, v1, jobs, sess, today, events, made>>

-----------------------------------------------------------------------------
(* usuarios.db, jobs, sessions.                                            *)

ReadV1(m) ==
  /\ At(m, "readV1")
  /\ Succeeds(m, [op[m] EXCEPT !.lines = v1])
  /\ UNCHANGED <<passwd, certs, rows, tmp, v1, jobs, sess, today, told, events, made>>

NewLine(o) == IF o.flow \in Deleting THEN None ELSE o.limit

\* updateV1DB and deleteV1Compat: written in place, errors dropped.  "Remove
\* all" then reports the account gone, though Remove may have failed.
WriteV1(m) ==
  LET o == op[m] IN
  /\ At(m, "writeV1")
  /\ \/ /\ v1' = [o.lines EXCEPT ![o.name] = NewLine(o)]
        /\ UNCHANGED <<events, spent>>
     \/ /\ v1' = [n \in Names |-> None]
        /\ Spend /\ Note("v1Fault")
  /\ told' = CASE o.flow = "limit" -> [told EXCEPT ![o.name] = o.limit]
               [] o.flow = "removeAll" -> [told EXCEPT ![o.name] = None]
               [] OTHER -> told
  /\ Proceed(m, [o EXCEPT !.lines = None])
  /\ UNCHANGED <<passwd, certs, rows, tmp, jobs, sess, today, made>>

\* `at` copies the script; it may refuse, with a warning.
ScheduleTrialEnd(m) ==
  LET o == op[m] IN
  /\ At(m, "at")
  /\ \/ jobs' = jobs \cup {[name |-> o.name, gen |-> o.gen, running |-> FALSE]} /\ UNCHANGED spent
     \/ jobs' = jobs /\ Spend
  /\ told' = [told EXCEPT ![o.name] = o.limit]
  /\ Proceed(m, o)
  /\ UNCHANGED <<passwd, certs, rows, tmp, v1, sess, today, events, made>>

\* The job deletes whatever account has the name now, then its line.  Removing
\* the account from the menu does not take the job out of at's queue.
TrialEnds(j) ==
  /\ ~j.running
  /\ passwd' = [passwd EXCEPT ![j.name] = None]
  /\ jobs' = (jobs \ {j}) \cup {[j EXCEPT !.running = TRUE]}
  /\ events' = IF \E m \in Operators : Busy(m) THEN events \cup {"overlap"} ELSE events
  /\ UNCHANGED <<certs, rows, tmp, v1, sess, today, op, told, spent, made>>

TrialLineDropped(j) ==
  /\ j.running
  /\ v1' = [v1 EXCEPT ![j.name] = None]
  /\ jobs' = jobs \ {j}
  /\ UNCHANGED <<passwd, certs, rows, tmp, sess, today, op, told, events, spent, made>>

\* hexplus-auth.sh lets the customer in.
Login(n) ==
  /\ passwd[n] # None /\ passwd[n].pw /\ ~Expired(passwd[n])
  /\ sess' = sess \cup {[name |-> n, gen |-> passwd[n].gen]}
  /\ UNCHANGED <<passwd, certs, rows, tmp, v1, jobs, today, op, told, events, spent, made>>

\* With the guard on, every session of the name is ended (OvpnGuard).
Kick(m) ==
  /\ At(m, "kick")
  /\ sess' = {s \in sess : s.name # op[m].name}
  /\ Succeeds(m, op[m])
  /\ UNCHANGED <<passwd, certs, rows, tmp, v1, jobs, today, told, events, made>>

-----------------------------------------------------------------------------
(* The environment.                                                        *)

Midnight ==
  /\ today <= MaxToday
  /\ today' = today + 1
  /\ UNCHANGED <<passwd, certs, rows, tmp, v1, jobs, sess, op, told, events, spent, made>>

\* The terminal is closed, or the process killed.
Crash(m) ==
  /\ Busy(m) /\ Spend /\ Note("crash")
  /\ Set(m, [Resting EXCEPT !.failed = TRUE])
  /\ UNCHANGED <<passwd, certs, rows, tmp, v1, jobs, sess, today, told, made>>

\* users.json is damaged: by hand, by the disk, by two Saves at once.
Damage ==
  /\ rows # Broken /\ Spend /\ Note("broken")
  /\ rows' = Broken
  /\ UNCHANGED <<passwd, certs, tmp, v1, jobs, sess, today, op, told, made>>

NoneOf == [n \in Names |-> None]

\* Some accounts were made by v1, with an expiry day and a line.
Init ==
  /\ \E old \in SUBSET Names :
       /\ passwd = [n \in Names |-> IF n \in old
                      THEN [gen |-> 0, by |-> "v1", pw |-> TRUE, exp |-> 2, fresh |-> TRUE] ELSE None]
       /\ v1 = [n \in Names |-> IF n \in old THEN MaxLimit + 1 ELSE None]
       /\ told = v1
       /\ spent = Cardinality(old \ NewNames)
  /\ certs = {} /\ rows = NoneOf /\ tmp = None
  /\ jobs = {} /\ sess = {} /\ today = 1
  /\ op = [m \in Operators |-> Resting]
  /\ made = {} /\ events = {}

Operate(m) ==
  \/ \E n \in Names, l \in 0..MaxLimit, d \in 0..MaxDays :
       \/ \E f \in Creating : StartCreate(m, f, n, l, d)
       \/ \E f \in Picking : StartPick(m, f, n, l, d)
  \/ \E n \in Names : StartDrop(m, n)
  \/ \E f \in {"removeAll", "clean"} : StartLoop(m, f)
  \/ NextName(m) \/ CreateSystemUser(m) \/ SetPassword(m) \/ ChageExpiry(m)
  \/ DeleteSystemUser(m) \/ Rollback(m) \/ Certify(m) \/ RemoveCert(m)
  \/ Load(m) \/ WriteTmp(m) \/ RenameTmp(m) \/ ReadV1(m) \/ WriteV1(m)
  \/ ScheduleTrialEnd(m) \/ Kick(m) \/ Crash(m)

Next ==
  \/ \E m \in Operators : Operate(m)
  \/ \E j \in jobs : TrialEnds(j) \/ TrialLineDropped(j)
  \/ \E n \in Names : Login(n)
  \/ Midnight \/ Damage

Spec == Init /\ [][Next]_vars

-----------------------------------------------------------------------------
(* Properties.                                                             *)

StepNames ==
  {"useradd", "chpasswd", "cert", "load", "write", "rename", "readV1", "writeV1", "at", "userdel",
   "uncert", "kick", "chage", "rollback", "next"}

Accts  == [gen : Gens, by : Creating \cup {"v1"}, pw : BOOLEAN, exp : Days, fresh : BOOLEAN]
Tables == [Names -> [limit : Limits, exp : Days] \cup {None}]
Lines  == [Names -> Limits \cup {None}]

Ops ==
  [flow : Flows, todo : Seq(StepNames), name : Names \cup {None}, gen : Gens, limit : 0..MaxLimit,
   days : 0..MaxDays, exp : Days, db : Tables \cup {None}, lines : Lines \cup {None},
   left : SUBSET Names, due : SUBSET [name : Names, exp : Days], failed : BOOLEAN]

\* The variables hold what the code can put there: limits that were given, days
\* that were counted, and tables that are whole or broken.
TypeOK ==
  /\ passwd \in [Names -> Accts \cup {None}] /\ certs \subseteq Names
  /\ rows \in Tables \cup {Broken} /\ tmp \in Tables \cup {None, Broken}
  /\ v1 \in Lines /\ told \in Lines
  /\ jobs \subseteq [name : Names, gen : Gens, running : BOOLEAN]
  /\ sess \subseteq [name : Names, gen : Gens]
  /\ today \in 1..(MaxToday + 1) /\ spent \in Nat
  /\ op \in [Operators -> Ops]
  /\ made \subseteq Gens /\ events \subseteq EventNames

\* users.go:115-116: "so the screens show the limit that is actually enforced".
ShownIsEnforced ==
  rows # Broken => \A n \in Present : Shown(n) = Enforced(n)

\* Nobody is at work on the name.
Quiet(n) == \A m \in Operators : Busy(m) => op[m].name # n /\ n \notin op[m].left

\* What the operator was last told an account's limit is, the guard enforces:
\* through failed steps, a Save the create menu ignores and rows that changes
\* of the expiry make.  Operations do not overlap, usuarios.db is not lost, and
\* no earlier account left a row or a line under the name.
LimitAsTold ==
  events \cap {"overlap", "crash", "v1Fault", "broken"} = {} =>
    \A n \in Present :
      Quiet(n) /\ passwd[n].fresh /\ told[n] # None => Enforced(n) = told[n]

\* user.go:5-8: Add backs out of a half-finished add.  When its operation is
\* over, an account that `hexplus user add` made has its password and its row.
AddIsAllOrNothing ==
  events \cap {"overlap", "crash", "rollbackFault", "broken"} = {} =>
    \A n \in Present :
      Quiet(n) /\ passwd[n].by = "add" => passwd[n].pw /\ rows[n] # None

\* user.go:85-98: the deferred userdel deletes the account Add made.  Two
\* operators may be creating the same name: the one whose useradd fails leaves
\* the other's account alone.  (An account made after someone deleted one's own
\* is not told apart.)
RollbackSparesOthers ==
  [][\A m \in Operators :
       Rollback(m) /\ passwd[op[m].name] # None /\ passwd'[op[m].name] = None
         => passwd[op[m].name].gen = op[m].gen \/ op[m].gen \in made]_vars

\* The operation ends, and every step of it has succeeded.
Ends(m, f) == op[m].flow = f /\ op'[m] = Resting

\* devicelimit.go:130-132: deleting an account from the menu ends its OpenVPN
\* sessions: when the menu is done, every session left is of an account that is.
RemovedIsCutOff ==
  [][\A m \in Operators :
       Ends(m, "remove")
         => \A s \in sess : s.name = op[m].name /\ s.gen = op[m].gen
              => passwd[s.name] # None /\ passwd[s.name].gen = s.gen]_vars

\* users.go:1239-1242: the cleanup leaves no account that the guard refused as
\* expired when it began, unless one was renewed or could not be removed.
CleanupAgreesWithGuard ==
  [][\A m \in Operators :
       Ends(m, "clean") => \A n \in Present : ExpiryOf(n) \in op[m].due => passwd'[n] = None]_vars

=============================================================================
