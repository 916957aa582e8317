----------------------------- MODULE PanelProofs -----------------------------
(* The panel keeps its data and serves what the operator was told, for      *)
(* every set of ports, number of migrations, and bound: proofs of all       *)
(* three properties that the run `Panel` checks.                            *)
(*                                                                          *)
(* An operation is a list of steps that is worked off from the front, and   *)
(* may end after any of them.  The argument:                                *)
(*   1. PlanOK says what the lists look like without naming them: which     *)
(*      steps belong to an operation (Belongs) and which may follow each    *)
(*      other (Links).  Every operation's list is so at its beginning, and  *)
(*      what is left of it after a step that went well or failed still is.  *)
(*   2. Whole is DataSurvives without its condition that the panel serves:  *)
(*      panel.db and its log hold what ought to be found, or there is no    *)
(*      panel.db and nobody is connected to one.  The log alone never holds *)
(*      more than Target migrations (WalOK), which counts when it is left   *)
(*      next to a database that was removed.  A backup that is sure holds a *)
(*      whole database (Archives), and nothing is put back unless the panel *)
(*      is off or would not stop (StopsFirst).                              *)
(*   3. The password that was told is the database's, but between setting   *)
(*      and telling it, when the operation knows it (Passwords); and the    *)
(*      panel has read panel.yaml as it is, but between a change of the     *)
(*      port and the restart that follows it (ReadOK).                      *)
(* Their conjunction, IInv, is inductive.                                   *)
EXTENDS Panel, FiniteSetTheorems, SequenceTheorems, TLAPS

-----------------------------------------------------------------------------
(* The inductive invariant.                                                 *)

\* A backup.
Boxes ==
  [yaml : Yamls, db : BOOLEAN, main : SUBSET Nat, config : BOOLEAN, had : SUBSET Nat,
   sure : BOOLEAN]

\* The steps that operations are made of.
Verbs ==
  {"remove", "generate", "open", "migrate", "password", "close", "unit", "enable", "start", "tell",
   "stop", "disable", "noUnit", "setPort", "restart", "copy", "rename", "put"}

Objects == {"db", "yaml", "xray", "panel", "password", "config", "archive"}
Steps == Verbs \X Objects

\* What the operator may be doing.
Ops ==
  [name : Names, todo : Seq(Steps), port : PanelPorts \cup {0}, pw : 0..MaxTx,
   open : BOOLEAN, box : Boxes]

\* The types: those of TypeOK, and of the operation and its backup.
Typed ==
  /\ yaml \in Yamls /\ cfg \in Yamls
  /\ db \in BOOLEAN /\ config \in BOOLEAN
  /\ log \in Seq({"schema", "password", "row"}) /\ Len(log) <= MaxTx
  /\ main \subseteq DOMAIN log /\ wal \subseteq DOMAIN log /\ want \subseteq DOMAIN log
  /\ units \subseteq Svcs /\ enabled \subseteq Svcs
  /\ panel \in {"off", "due", "opening", "on", "failed"} /\ xray \in {"off", "due", "on", "failed"}
  /\ op \in Ops /\ archive \in Boxes /\ told \in 0..MaxTx
  /\ doubt \subseteq DataDoubts \cup {"stale", "password"}
  /\ spent \in 0..MaxSpent

\* The steps that the argument tells apart.
Opening == <<"open", "db">>
Migrating == <<"migrate", "db">>
Setting == <<"password", "db">>
Closing == <<"close", "db">>
Telling == <<"tell", "password">>
Porting == <<"setPort", "yaml">>
Restarting == <<"restart", "panel">>
Stopping == <<"stop", "panel">>

\* The steps of an operation that has the database open.
Inside == {Migrating, Setting, Closing}

\* The steps of an installation that come before the password is set.
Early == {<<"remove", "db">>, <<"generate", "yaml">>, Opening, Migrating, Setting}

\* What a restore writes.
Puts == {<<"put", "yaml">>, <<"put", "db">>, <<"put", "config">>}

\* The operations that set a password.
Secret == {"install", "password"}

\* Step s may be one of operation n.
Belongs(n, s) ==
  /\ n = "restore" => s \in Puts \cup {Stopping, <<"stop", "xray">>}
  /\ s \in Puts => n = "restore"
  /\ s \in {Telling, Setting} => n \in Secret
  /\ s = Porting => n = "port"
  /\ n = "port" => s \in {Porting, Restarting}
  /\ s[1] = "stop" => n \notin Secret

\* In operation n, b may come directly after a.
Links(n, a, b) ==
  /\ b # Stopping
  /\ a = Porting => b = Restarting
  /\ a = Opening => b = Migrating
  /\ a = Migrating => b \in {Setting, Closing} /\ (n \in Secret => b = Setting)
  /\ a = Setting => b = Closing
  /\ b \in Inside => a \in {Opening, Migrating, Setting}
  /\ n \in Secret /\ b \in Early => a \in Early
  /\ n \in Secret /\ a \in Early \ {Setting} => b \in Early

LastOf(s) == s[Len(s)]

\* The steps that something must follow.
NeverLast == {Opening, Migrating, Setting, Porting}

\* A list that may be (the rest of) operation n's.
Chain(n, s) ==
  /\ \A i \in 1..Len(s) : Belongs(n, s[i])
  /\ \A i \in 1..(Len(s) - 1) : Links(n, s[i], s[i + 1])

\* An operation under way: it has the database open at these steps, and knows a
\* password from setting it on; its last step is to tell it, unless it only closes
\* the database after a failure.
Planned(o) ==
  /\ o.todo # <<>> /\ Chain(o.name, o.todo) /\ LastOf(o.todo) \notin NeverLast
  /\ o.open <=> Head(o.todo) \in Inside
  /\ o.name \notin Secret => o.pw = 0
  /\ o.name \in Secret =>
       \/ Head(o.todo) \in Early /\ o.pw = 0 /\ LastOf(o.todo) = Telling
       \/ Head(o.todo) \notin Early /\ o.pw # 0 /\ LastOf(o.todo) = Telling
       \/ o.pw = 0 /\ o.todo = <<Closing>>

\* The operator is idle, or does something that fits.
PlanOK == IF op.name = "idle" THEN op = Idle ELSE Planned(op)

\* No failure has put the data in doubt.
Sound == doubt \cap DataDoubts = {}

\* The migrations among the transactions txs of the log l.
CountIn(l, txs) == Cardinality({t \in txs : l[t] = "schema"})

\* The one that set the password last.
PasswordIn(l, txs) == Max({0} \cup {t \in txs : l[t] = "password"})

\* What is in the log alone.
WalOK == CountIn(log, wal) <= Target

\* The database is what it ought to be.
Whole ==
  Sound =>
    /\ CountIn(log, View) <= Target
    /\ db => View = want
    /\ ~db => main = {} /\ want = {} /\ ~Up /\ ~op.open
    /\ panel = "on" => CountIn(log, View) = Target

\* A backup of a database that was whole is one.
ArchiveOK(a) ==
  /\ a.main \subseteq DOMAIN log /\ a.had \subseteq DOMAIN log
  /\ a.sure => a.main = a.had /\ CountIn(log, a.main) <= Target
  /\ PasswordIn(log, a.had) \in 0..MaxTx

\* The last backup, and the one that is being made.
Archives == ArchiveOK(archive) /\ ArchiveOK(op.box)

\* The password that was told, or that the operation knows.
Passwords ==
  /\ PasswordIn(log, want) \in 0..MaxTx
  /\ op.pw # 0 => op.pw = PasswordIn(log, want)
  /\ op.pw = 0 /\ "password" \notin doubt => told = PasswordIn(log, want)

\* What the panel read is panel.yaml, or it is about to be restarted.
ReadOK ==
  Up /\ "stale" \notin doubt => cfg = yaml \/ (op.name = "port" /\ Head(op.todo) = Restarting)

\* Behind the first step of a restore the panel is off, or would not stop.
StopsFirst ==
  op.name = "restore" /\ Head(op.todo) # Stopping => panel = "off" \/ "file" \in doubt

\* The inductive invariant.
IInv == Typed /\ PlanOK /\ WalOK /\ Whole /\ Archives /\ Passwords /\ ReadOK /\ StopsFirst

-----------------------------------------------------------------------------
(* Lists of steps.                                                          *)

\* A list of operation n's from step a to one of B.
Run(n, s, a, B) ==
  /\ s \in Seq(Steps) /\ s # <<>> /\ Chain(n, s)
  /\ s[1] = a /\ LastOf(s) \in B

\* Lists of one, two, three and four steps on an object.
LEMMA On1 ==
  ASSUME NEW x, NEW a
  PROVE  On(x, <<a>>) = << <<a, x>> >>
  BY DEF On

\* Two steps.
LEMMA On2 ==
  ASSUME NEW x, NEW a, NEW b
  PROVE  On(x, <<a, b>>) = << <<a, x>>, <<b, x>> >>
  BY DEF On

\* Three steps.
LEMMA On3 ==
  ASSUME NEW x, NEW a, NEW b, NEW c
  PROVE  On(x, <<a, b, c>>) = << <<a, x>>, <<b, x>>, <<c, x>> >>
  BY DEF On

\* Four steps.
LEMMA On4 ==
  ASSUME NEW x, NEW a, NEW b, NEW c, NEW d
  PROVE  On(x, <<a, b, c, d>>) = << <<a, x>>, <<b, x>>, <<c, x>>, <<d, x>> >>
  BY DEF On

\* One step.
LEMMA Run1 ==
  ASSUME NEW n, NEW a \in Steps, Belongs(n, a)
  PROVE  Run(n, <<a>>, a, {a})
  BY DEF Run, Chain, LastOf

\* Two lists, one after the other.
LEMMA Join ==
  ASSUME NEW n, NEW s, NEW a, NEW B, Run(n, s, a, B),
         NEW t, NEW c, NEW D, Run(n, t, c, D), \A b \in B : Links(n, b, c)
  PROVE  Run(n, s \o t, a, D)
<1> DEFINE u == s \o t
<1>1. /\ s \in Seq(Steps) /\ t \in Seq(Steps) /\ s # <<>> /\ t # <<>>
      /\ Len(s) \in Nat /\ Len(s) > 0 /\ Len(t) \in Nat /\ Len(t) > 0
  BY EmptySeq DEF Run
<1>2. /\ u \in Seq(Steps) /\ Len(u) = Len(s) + Len(t) /\ u # <<>>
      /\ \A i \in 1..Len(u) : u[i] = IF i <= Len(s) THEN s[i] ELSE t[i - Len(s)]
  BY <1>1
<1> HIDE DEF u
<1>3. ASSUME NEW i \in 1..Len(u) PROVE Belongs(n, u[i])
  <2>1. CASE i <= Len(s)
    <3>1. u[i] = s[i] /\ i \in 1..Len(s)  BY <1>1, <1>2, <2>1
    <3> QED  BY <3>1 DEF Run, Chain
  <2>2. CASE ~(i <= Len(s))
    <3>1. u[i] = t[i - Len(s)] /\ i - Len(s) \in 1..Len(t)  BY <1>1, <1>2, <2>2
    <3> QED  BY <3>1 DEF Run, Chain
  <2> QED  BY <2>1, <2>2
<1>4. ASSUME NEW i \in 1..(Len(u) - 1) PROVE Links(n, u[i], u[i + 1])
  <2>1. CASE i < Len(s)
    <3>1. u[i] = s[i] /\ u[i + 1] = s[i + 1] /\ i \in 1..(Len(s) - 1)
      BY <1>1, <1>2, <2>1
    <3> QED  BY <3>1 DEF Run, Chain
  <2>2. CASE i = Len(s)
    <3>1. u[i] = s[Len(s)] /\ i + 1 \in 1..Len(u) /\ ~(i + 1 <= Len(s)) /\ (i + 1) - Len(s) = 1
      BY <1>1, <1>2, <2>2
    <3>2. u[i + 1] = t[1]
      BY <1>2, <3>1
    <3> QED  BY <3>1, <3>2 DEF Run, LastOf
  <2>3. CASE i > Len(s)
    <3>1. u[i] = t[i - Len(s)] /\ u[i + 1] = t[(i - Len(s)) + 1] /\ i - Len(s) \in 1..(Len(t) - 1)
      BY <1>1, <1>2, <2>3
    <3> QED  BY <3>1 DEF Run, Chain
  <2> QED  BY <2>1, <2>2, <2>3, <1>1
<1>5. u[1] = s[1] /\ u[Len(u)] = t[Len(t)]
  BY <1>1, <1>2
<1> QED  BY <1>2, <1>3, <1>4, <1>5 DEF Run, Chain, LastOf, u

\* The same for lists with one end.
LEMMA Chained ==
  ASSUME NEW n, NEW s, NEW a, NEW b, Run(n, s, a, {b}),
         NEW t, NEW c, NEW d, Run(n, t, c, {d}), Links(n, b, c)
  PROVE  Run(n, s \o t, a, {d})
  BY Join

\* A list of one to four steps on an object.
LEMMA RunOn1 ==
  ASSUME NEW n, NEW x \in Objects, NEW a \in Verbs, Belongs(n, <<a, x>>)
  PROVE  Run(n, On(x, <<a>>), <<a, x>>, {<<a, x>>})
  BY On1, Run1 DEF Steps

\* Two steps.
LEMMA RunOn2 ==
  ASSUME NEW n, NEW x \in Objects, NEW a \in Verbs, NEW b \in Verbs,
         Belongs(n, <<a, x>>), Belongs(n, <<b, x>>), Links(n, <<a, x>>, <<b, x>>)
  PROVE  Run(n, On(x, <<a, b>>), <<a, x>>, {<<b, x>>})
<1> DEFINE s == << <<a, x>>, <<b, x>> >>
<1>1. s \in Seq(Steps) /\ Len(s) = 2 /\ s[1] = <<a, x>> /\ s[2] = <<b, x>> /\ s # <<>>
  BY DEF Steps
<1> HIDE DEF s
<1>2. \A i \in 1..2 : i = 1 \/ i = 2  OBVIOUS
<1>3. \A i \in 1..1 : i = 1 OBVIOUS
<1>4. Chain(n, s)
  BY <1>1, <1>2, <1>3 DEF Chain
<1> QED  BY <1>1, <1>4, On2 DEF Run, LastOf, s

\* Three steps.
LEMMA RunOn3 ==
  ASSUME NEW n, NEW x \in Objects, NEW a \in Verbs, NEW b \in Verbs, NEW c \in Verbs,
         Belongs(n, <<a, x>>), Belongs(n, <<b, x>>), Belongs(n, <<c, x>>),
         Links(n, <<a, x>>, <<b, x>>), Links(n, <<b, x>>, <<c, x>>)
  PROVE  Run(n, On(x, <<a, b, c>>), <<a, x>>, {<<c, x>>})
<1> DEFINE s == << <<a, x>>, <<b, x>>, <<c, x>> >>
<1>1. s \in Seq(Steps) /\ Len(s) = 3 /\ s[1] = <<a, x>> /\ s[2] = <<b, x>> /\ s[3] = <<c, x>>
        /\ s # <<>>
  BY DEF Steps
<1> HIDE DEF s
<1>2. \A i \in 1..3 : i = 1 \/ i = 2 \/ i = 3  OBVIOUS
<1>3. \A i \in 1..2 : i = 1 \/ i = 2 OBVIOUS
<1>4. Chain(n, s)
  BY <1>1, <1>2, <1>3 DEF Chain
<1> QED  BY <1>1, <1>4, On3 DEF Run, LastOf, s

\* Four steps.
LEMMA RunOn4 ==
  ASSUME NEW n, NEW x \in Objects, NEW a \in Verbs, NEW b \in Verbs, NEW c \in Verbs,
         NEW d \in Verbs,
         Belongs(n, <<a, x>>), Belongs(n, <<b, x>>), Belongs(n, <<c, x>>), Belongs(n, <<d, x>>),
         Links(n, <<a, x>>, <<b, x>>), Links(n, <<b, x>>, <<c, x>>), Links(n, <<c, x>>, <<d, x>>)
  PROVE  Run(n, On(x, <<a, b, c, d>>), <<a, x>>, {<<d, x>>})
<1> DEFINE s == << <<a, x>>, <<b, x>>, <<c, x>>, <<d, x>> >>
<1>1. s \in Seq(Steps) /\ Len(s) = 4 /\ s # <<>>
      /\ s[1] = <<a, x>> /\ s[2] = <<b, x>> /\ s[3] = <<c, x>> /\ s[4] = <<d, x>>
  BY DEF Steps
<1> HIDE DEF s
<1>2. \A i \in 1..4 : i = 1 \/ i = 2 \/ i = 3 \/ i = 4  OBVIOUS
<1>3. \A i \in 1..3 : i = 1 \/ i = 2 \/ i = 3 OBVIOUS
<1>4. Chain(n, s)
  <2>1. \A i \in 1..4 : Belongs(n, s[i])  BY <1>1, <1>2
  <2>2. \A i \in 1..3 : Links(n, s[i], s[i + 1])
    <3>1. s[1 + 1] = s[2] /\ s[2 + 1] = s[3] /\ s[3 + 1] = s[4]  BY <1>1
    <3> QED  BY <1>1, <1>3, <3>1
  <2> QED  BY <1>1, <2>1, <2>2 DEF Chain
<1> QED  BY <1>1, <1>4, On4 DEF Run, LastOf, s

-----------------------------------------------------------------------------
(* How the operations begin.                                                *)

\* The installation's list begins before the password and ends with telling it.
LEMMA InstallRuns ==
  ASSUME NEW keep \in BOOLEAN
  PROVE  \E a \in Early \ Inside : Run("install", Install(keep), a, {Telling})
<1> USE DEF Belongs, Links, Verbs, Objects, Puts, Inside, Early, Secret, Stopping, Porting,
            Restarting, Opening, Migrating, Setting, Closing, Telling
<1> DEFINE n == "install"
<1>1. /\ Run(n, On("yaml", <<"generate">>), <<"generate", "yaml">>, {<<"generate", "yaml">>})
      /\ Run(n, On("db", <<"remove">>), <<"remove", "db">>, {<<"remove", "db">>})
  BY RunOn1
<1>0. Run(n, On("db", <<"open", "migrate", "password", "close">>), Opening, {Closing})
  <2>1. Belongs(n, Opening) /\ Belongs(n, Migrating) /\ Belongs(n, Setting) /\ Belongs(n, Closing)
    OBVIOUS
  <2>2. Links(n, Opening, Migrating) /\ Links(n, Migrating, Setting) /\ Links(n, Setting, Closing)
    OBVIOUS
  <2>3. "db" \in Objects /\ {"open", "migrate", "password", "close"} \subseteq Verbs
    OBVIOUS
  <2> HIDE DEF Belongs, Links, Verbs, Objects
  <2> QED  BY <2>1, <2>2, <2>3, RunOn4
<1>2. /\ Run(n, On("xray", <<"unit">>), <<"unit", "xray">>, {<<"unit", "xray">>})
      /\ Run(n, On("panel", <<"unit">>), <<"unit", "panel">>, {<<"unit", "panel">>})
      /\ Run(n, On("xray", <<"enable">>), <<"enable", "xray">>, {<<"enable", "xray">>})
      /\ Run(n, On("panel", <<"enable">>), <<"enable", "panel">>, {<<"enable", "panel">>})
  BY RunOn1
<1>3. /\ Run(n, On("xray", <<"start">>), <<"start", "xray">>, {<<"start", "xray">>})
      /\ Run(n, On("panel", <<"start">>), <<"start", "panel">>, {<<"start", "panel">>})
      /\ Run(n, On("password", <<"tell">>), Telling, {Telling})
  BY RunOn1
<1> DEFINE s1 == Only("db", <<"remove">>, ~keep) \o On("yaml", <<"generate">>)
           s2 == s1 \o On("db", <<"open", "migrate", "password", "close">>)
           s3 == s2 \o On("xray", <<"unit">>)
           s4 == s3 \o On("panel", <<"unit">>)
           s5 == s4 \o On("xray", <<"enable">>)
           s6 == s5 \o On("panel", <<"enable">>)
           s7 == s6 \o On("xray", <<"start">>)
           s8 == s7 \o On("panel", <<"start">>)
           s9 == s8 \o On("password", <<"tell">>)
<1>4. \E a \in Early \ Inside : Run(n, s1, a, {<<"generate", "yaml">>})
  <2>1. CASE keep
    <3>1. Only("db", <<"remove">>, ~keep) = <<>>  BY <2>1 DEF Only
    <3>2. s1 = On("yaml", <<"generate">>)  BY <3>1, <1>1 DEF Run
    <3> QED  BY <1>1, <3>2
  <2>2. CASE ~keep
    <3>1. s1 = On("db", <<"remove">>) \o On("yaml", <<"generate">>)  BY <2>2 DEF Only
    <3>2. Run(n, On("db", <<"remove">>) \o On("yaml", <<"generate">>), <<"remove", "db">>,
            {<<"generate", "yaml">>})
      <4>1. \A b \in {<<"remove", "db">>} : Links(n, b, <<"generate", "yaml">>)  OBVIOUS
      <4> HIDE DEF Links
      <4> QED  BY <1>1, <4>1, Join
    <3> QED  BY <3>1, <3>2
  <2> QED  BY <2>1, <2>2
<1>5. PICK a \in Early \ Inside : Run(n, s1, a, {<<"generate", "yaml">>})  BY <1>4
<1>6. /\ Links(n, <<"generate", "yaml">>, Opening)
      /\ Links(n, Closing, <<"unit", "xray">>)
      /\ Links(n, <<"unit", "xray">>, <<"unit", "panel">>)
      /\ Links(n, <<"unit", "panel">>, <<"enable", "xray">>)
      /\ Links(n, <<"enable", "xray">>, <<"enable", "panel">>)
      /\ Links(n, <<"enable", "panel">>, <<"start", "xray">>)
      /\ Links(n, <<"start", "xray">>, <<"start", "panel">>)
      /\ Links(n, <<"start", "panel">>, Telling)
  OBVIOUS
<1> HIDE DEF Belongs, Links, Verbs, Objects, Puts, Inside, Early, Secret, Stopping, Porting,
            Restarting, Opening, Migrating, Setting, Closing, Telling, s1, n
<1>7. Run(n, s2, a, {Closing})
  <2>1. Links(n, <<"generate", "yaml">>, Opening)  BY <1>6
  <2> QED  BY <1>0, <1>5, <2>1, Chained
<1> HIDE DEF s2
<1>8. Run(n, s3, a, {<<"unit", "xray">>})
  <2>1. Links(n, Closing, <<"unit", "xray">>)  BY <1>6
  <2> QED  BY <1>2, <1>7, <2>1, Chained
<1> HIDE DEF s3
<1>9. Run(n, s4, a, {<<"unit", "panel">>})
  <2>1. Links(n, <<"unit", "xray">>, <<"unit", "panel">>)  BY <1>6
  <2> QED  BY <1>2, <1>8, <2>1, Chained
<1> HIDE DEF s4
<1>10. Run(n, s5, a, {<<"enable", "xray">>})
  <2>1. Links(n, <<"unit", "panel">>, <<"enable", "xray">>)  BY <1>6
  <2> QED  BY <1>2, <1>9, <2>1, Chained
<1> HIDE DEF s5
<1>11. Run(n, s6, a, {<<"enable", "panel">>})
  <2>1. Links(n, <<"enable", "xray">>, <<"enable", "panel">>)  BY <1>6
  <2> QED  BY <1>2, <1>10, <2>1, Chained
<1> HIDE DEF s6
<1>12. Run(n, s7, a, {<<"start", "xray">>})
  <2>1. Links(n, <<"enable", "panel">>, <<"start", "xray">>)  BY <1>6
  <2> QED  BY <1>3, <1>11, <2>1, Chained
<1> HIDE DEF s7
<1>13. Run(n, s8, a, {<<"start", "panel">>})
  <2>1. Links(n, <<"start", "xray">>, <<"start", "panel">>)  BY <1>6
  <2> QED  BY <1>3, <1>12, <2>1, Chained
<1> HIDE DEF s8
<1>14. Run(n, s9, a, {Telling})
  <2>1. Links(n, <<"start", "panel">>, Telling)  BY <1>6
  <2> QED  BY <1>3, <1>13, <2>1, Chained
<1>15. Install(keep) = s9
  BY DEF Install, s1, s2, s3, s4, s5, s6, s7, s8
<1> QED  BY <1>14, <1>15 DEF n

\* A list that operation n may begin with.
Begins(n, s) ==
  /\ s \in Seq(Steps) /\ s # <<>> /\ Chain(n, s) /\ LastOf(s) \notin NeverLast
  /\ s[1] \notin Inside
  /\ n \in Secret => s[1] \in Early /\ LastOf(s) = Telling
  /\ n = "restore" => s[1] = Stopping

\* The installation, with and without the old data.
LEMMA InstallBegins ==
  ASSUME NEW keep \in BOOLEAN
  PROVE  Begins("install", Install(keep))
<1>1. PICK a \in Early \ Inside : Run("install", Install(keep), a, {Telling})
  BY InstallRuns
<1>2. Telling \notin NeverLast
  BY DEF Telling, NeverLast, Opening, Migrating, Setting, Porting
<1> QED  BY <1>1, <1>2 DEF Begins, Run

\* A new password.
LEMMA PasswordBegins == Begins("password", ResetAdminPassword)
<1> DEFINE n == "password"
<1>1. /\ Belongs(n, Opening) /\ Belongs(n, Migrating) /\ Belongs(n, Setting) /\ Belongs(n, Closing)
      /\ Belongs(n, Telling)
  BY DEF Belongs, Opening, Migrating, Setting, Closing, Telling, Porting, Puts, Secret, Stopping
<1>2. /\ Links(n, Opening, Migrating) /\ Links(n, Migrating, Setting) /\ Links(n, Setting, Closing)
      /\ Links(n, Closing, Telling)
  BY DEF Links, Opening, Migrating, Setting, Closing, Telling, Porting, Restarting, Stopping,
       Inside,
         Early, Secret
<1>3. {"db", "password"} \subseteq Objects
        /\ {"open", "migrate", "password", "close", "tell"} \subseteq Verbs
  BY DEF Objects, Verbs
<1>4. Run(n, On("db", <<"open", "migrate", "password", "close">>), Opening, {Closing})
  <2>1. /\ Opening = <<"open", "db">> /\ Migrating = <<"migrate", "db">>
        /\ Setting = <<"password", "db">> /\ Closing = <<"close", "db">>
    BY DEF Opening, Migrating, Setting, Closing
  <2> QED  BY <1>1, <1>2, <1>3, <2>1, RunOn4
<1>5. Run(n, On("password", <<"tell">>), Telling, {Telling})
  BY <1>1, <1>3, RunOn1 DEF Telling
<1>6. Run(n, ResetAdminPassword, Opening, {Telling})
  BY <1>4, <1>5, <1>2, Chained DEF ResetAdminPassword
<1>7. Opening \in Early /\ Opening \notin Inside /\ Telling \notin NeverLast
  BY DEF Opening, Migrating, Setting, Closing, Telling, Porting, Early, Inside, NeverLast
<1> QED  BY <1>6, <1>7 DEF Begins, Run

\* Showing the panel's address.
LEMMA ShowBegins == Begins("show", ShowInfo)
<1> DEFINE n == "show"
<1>1. /\ Belongs(n, Opening) /\ Belongs(n, Migrating) /\ Belongs(n, Closing)
  BY DEF Belongs, Opening, Migrating, Setting, Closing, Telling, Porting, Puts, Secret, Stopping
<1>2. /\ Links(n, Opening, Migrating) /\ Links(n, Migrating, Closing)
  BY DEF Links, Opening, Migrating, Setting, Closing, Telling, Porting, Restarting, Stopping,
       Inside,
         Early, Secret
<1>3. "db" \in Objects /\ {"open", "migrate", "close"} \subseteq Verbs
  BY DEF Objects, Verbs
<1>4. Run(n, ShowInfo, Opening, {Closing})
  BY <1>1, <1>2, <1>3, RunOn3 DEF Opening, Migrating, Closing, ShowInfo
<1>7. Opening \notin Inside /\ Closing \notin NeverLast
  BY DEF Opening, Migrating, Setting, Closing, Telling, Porting, Inside, NeverLast
<1> QED  BY <1>4, <1>7 DEF Begins, Run, Secret

\* Another port.
LEMMA PortBegins == Begins("port", ChangePort)
<1> DEFINE n == "port"
<1>1. Belongs(n, Porting) /\ Belongs(n, Restarting) /\ Links(n, Porting, Restarting)
  BY DEF Belongs, Links, Opening, Migrating, Setting, Closing, Telling, Porting, Restarting, Puts,
         Secret, Stopping, Inside, Early
<1>3. {"yaml", "panel"} \subseteq Objects /\ {"setPort", "restart"} \subseteq Verbs
  BY DEF Objects, Verbs
<1>4. Run(n, On("yaml", <<"setPort">>), Porting, {Porting})
  BY <1>1, <1>3, RunOn1 DEF Porting
<1>5. Run(n, On("panel", <<"restart">>), Restarting, {Restarting})
  BY <1>1, <1>3, RunOn1 DEF Restarting
<1>6. Run(n, ChangePort, Porting, {Restarting})
  BY <1>4, <1>5, <1>1, Chained DEF ChangePort
<1>7. Porting \notin Inside /\ Restarting \notin NeverLast
  BY DEF Opening, Migrating, Setting, Closing, Telling, Porting, Restarting, Inside, NeverLast
<1> QED  BY <1>6, <1>7 DEF Begins, Run, Secret

\* The steps that may come in any order.
Plain(n) ==
  {s \in Steps : Belongs(n, s) /\ s \notin {Stopping, Porting, Opening, Migrating, Setting,
       Closing}}

\* A list of such steps, but for a first one that may stop the panel.
Plainly(n, s) ==
  /\ s \in Seq(Steps) /\ s # <<>>
  /\ s[1] \in Plain(n) \/ (s[1] = Stopping /\ Belongs(n, Stopping))
  /\ \A i \in 2..Len(s) : s[i] \in Plain(n)

\* Such a list may begin an operation that sets no password.
LEMMA PlainBegins ==
  ASSUME NEW n, n \notin Secret, NEW s, Plainly(n, s), n = "restore" => s[1] = Stopping
  PROVE  Begins(n, s)
<1>1. Len(s) \in Nat /\ Len(s) >= 1
  BY EmptySeq DEF Plainly
<1>2. ASSUME NEW i \in 1..Len(s)
      PROVE Belongs(n, s[i]) /\ s[i] \notin Inside /\ s[i] \notin NeverLast
  <2>1. i = 1 \/ i \in 2..Len(s)  BY <1>1
  <2>2. s[i] \in Plain(n) \/ (s[i] = Stopping /\ Belongs(n, Stopping))
    BY <2>1 DEF Plainly
  <2>3. Stopping \notin Inside /\ Stopping \notin NeverLast
    BY DEF Stopping, Inside, NeverLast, Opening, Migrating, Setting, Closing, Porting
  <2>4. s[i] \in Plain(n) => Belongs(n, s[i]) /\ s[i] \notin Inside /\ s[i] \notin NeverLast
    BY DEF Plain, Inside, NeverLast
  <2> QED  BY <2>2, <2>3, <2>4
<1>3. ASSUME NEW i \in 1..(Len(s) - 1) PROVE Links(n, s[i], s[i + 1])
  <2>1. i \in 1..Len(s) /\ i + 1 \in 2..Len(s)  BY <1>1
  <2>2. s[i] \notin NeverLast /\ s[i + 1] \in Plain(n)  BY <1>2, <2>1 DEF Plainly
  <2>3. s[i] \notin {Opening, Migrating, Setting, Porting} /\ s[i + 1] # Stopping
    BY <2>2 DEF NeverLast, Plain
  <2>4. s[i + 1] \notin {Migrating, Setting, Closing}
    BY <2>2 DEF Plain
  <2> QED  BY <2>3, <2>4 DEF Links, Inside
<1>4. s \in Seq(Steps) /\ s # <<>>  BY DEF Plainly
<1>5. 1 \in 1..Len(s) /\ Len(s) \in 1..Len(s)  BY <1>1
<1>6. LastOf(s) \notin NeverLast /\ s[1] \notin Inside  BY <1>2, <1>5 DEF LastOf
<1>7. Chain(n, s)  BY <1>2, <1>3 DEF Chain
<1> QED  BY <1>4, <1>6, <1>7 DEF Begins

\* More such steps at its end.
LEMMA PlainJoin ==
  ASSUME NEW n, NEW s, Plainly(n, s), NEW t \in Seq(Plain(n))
  PROVE  Plainly(n, s \o t)
<1>1. Len(s) \in Nat /\ Len(s) >= 1 /\ s \in Seq(Steps) /\ t \in Seq(Steps) /\ Len(t) \in Nat
  <2>1. Plain(n) \subseteq Steps  BY DEF Plain
  <2> QED  BY EmptySeq, <2>1 DEF Plainly
<1>2. /\ s \o t \in Seq(Steps) /\ Len(s \o t) = Len(s) + Len(t) /\ s \o t # <<>>
      /\ \A i \in 1..Len(s \o t) : (s \o t)[i] = IF i <= Len(s) THEN s[i] ELSE t[i - Len(s)]
  BY <1>1
<1>3. (s \o t)[1] = s[1]  BY <1>1, <1>2
<1>4. ASSUME NEW i \in 2..Len(s \o t) PROVE (s \o t)[i] \in Plain(n)
  <2>1. CASE i <= Len(s)
    <3>1. (s \o t)[i] = s[i] /\ i \in 2..Len(s)  BY <1>1, <1>2, <2>1
    <3> QED  BY <3>1 DEF Plainly
  <2>2. CASE ~(i <= Len(s))
    <3>1. (s \o t)[i] = t[i - Len(s)] /\ i - Len(s) \in 1..Len(t)  BY <1>1, <1>2, <2>2
    <3> QED  BY <3>1
  <2> QED  BY <2>1, <2>2
<1> QED  BY <1>2, <1>3, <1>4 DEF Plainly

\* Steps on an object.
LEMMA PlainOn ==
  ASSUME NEW n, NEW x, NEW verbs \in Seq(Verbs),
         \A i \in 1..Len(verbs) : <<verbs[i], x>> \in Plain(n), NEW there \in BOOLEAN
  PROVE  On(x, verbs) \in Seq(Plain(n)) /\ Only(x, verbs, there) \in Seq(Plain(n))
<1>1. On(x, verbs) \in Seq(Plain(n))
  BY DEF On
<1> QED  BY <1>1 DEF Only

\* One step.
LEMMA PlainOne ==
  ASSUME NEW n, NEW x, NEW a, <<a, x>> \in Plain(n), NEW there \in BOOLEAN
  PROVE  On(x, <<a>>) \in Seq(Plain(n)) /\ Only(x, <<a>>, there) \in Seq(Plain(n))
<1>1. On(x, <<a>>) \in Seq(Plain(n))
  BY On1
<1> QED  BY <1>1 DEF Only

\* Steps on an object, as the first ones.
LEMMA PlainlyFirst ==
  ASSUME NEW n, NEW x \in Objects, NEW verbs \in Seq(Verbs), verbs # <<>>,
         <<verbs[1], x>> \in Plain(n) \/ (<<verbs[1], x>> = Stopping /\ Belongs(n, Stopping)),
         \A i \in 2..Len(verbs) : <<verbs[i], x>> \in Plain(n)
  PROVE  Plainly(n, On(x, verbs))
<1>1. Len(verbs) \in Nat /\ Len(verbs) >= 1
  BY EmptySeq
<1> DEFINE s == On(x, verbs)
<1>2. /\ s \in Seq(Steps) /\ Len(s) = Len(verbs)
      /\ \A i \in 1..Len(s) : s[i] = <<verbs[i], x>>
  BY DEF On, Steps
<1> HIDE DEF s
<1>3. s # <<>> /\ s[1] = <<verbs[1], x>>
  BY <1>1, <1>2
<1>4. \A i \in 2..Len(s) : s[i] = <<verbs[i], x>>
  BY <1>1, <1>2
<1>5. Plainly(n, s)
  BY <1>1, <1>2, <1>3, <1>4 DEF Plainly
<1> QED  BY <1>5 DEF s

\* The first step.
First(s) == s[1]

\* The first step stays the first.
LEMMA PlainHead ==
  ASSUME NEW n, NEW s, Plainly(n, s), NEW t \in Seq(Plain(n))
  PROVE  First(s \o t) = First(s)
<1>1. Len(s) \in Nat /\ Len(s) >= 1 /\ s \in Seq(Steps) /\ t \in Seq(Steps) /\ Len(t) \in Nat
  <2>1. Plain(n) \subseteq Steps  BY DEF Plain
  <2> QED  BY EmptySeq, <2>1 DEF Plainly
<1> QED  BY <1>1 DEF First

\* Restart, enable and disable.
LEMMA ControlBegins ==
  /\ Begins("restart", RestartBoth) /\ Begins("enable", EnableBoth)
       /\ Begins("disable", DisableBoth)
<1> USE DEF Plain, Steps, Belongs, Verbs, Objects, Puts, Secret, Stopping, Porting, Restarting,
            Opening, Migrating, Setting, Closing, Telling
<1>1. /\ <<"restart", "xray">> \in Plain("restart") /\ <<"restart", "panel">> \in Plain("restart")
      /\ <<"enable", "xray">> \in Plain("enable") /\ <<"start", "xray">> \in Plain("enable")
      /\ <<"enable", "panel">> \in Plain("enable") /\ <<"start", "panel">> \in Plain("enable")
  OBVIOUS
<1>2. /\ <<"disable", "panel">> \in Plain("disable") /\ Belongs("disable", Stopping)
      /\ <<"stop", "xray">> \in Plain("disable") /\ <<"disable", "xray">> \in Plain("disable")
      /\ <<"stop", "panel">> = Stopping
  OBVIOUS
<1>3. {"restart", "enable", "start", "stop", "disable"} \subseteq Verbs
        /\ {"xray", "panel"} \subseteq Objects
  OBVIOUS
<1>4. "restart" \notin Secret /\ "enable" \notin Secret /\ "disable" \notin Secret
  OBVIOUS
<1> HIDE DEF Plain, Steps, Belongs, Verbs, Objects, Puts, Secret, Stopping, Porting, Restarting,
            Opening, Migrating, Setting, Closing, Telling
<1>5. Begins("restart", RestartBoth)
  <2>1. Plainly("restart", On("xray", <<"restart">>))
    <3> DEFINE v == <<"restart">>
    <3>1. v \in Seq(Verbs) /\ v # <<>> /\ v[1] = "restart" /\ Len(v) = 1  BY <1>3
    <3> HIDE DEF v
    <3>2. \A i \in 2..Len(v) : <<v[i], "xray">> \in Plain("restart")  BY <3>1
    <3>3. Plainly("restart", On("xray", v))  BY <1>1, <1>3, <3>1, <3>2, PlainlyFirst
    <3> QED  BY <3>3 DEF v
  <2>2. On("panel", <<"restart">>) \in Seq(Plain("restart"))
    <3>1. <<"restart", "panel">> \in Plain("restart")  BY <1>1
    <3> QED  BY <3>1, PlainOne
  <2>3. Plainly("restart", RestartBoth)
    BY <2>1, <2>2, PlainJoin DEF RestartBoth
  <2> QED  BY <1>4, <2>3, PlainBegins
<1>6. Begins("enable", EnableBoth)
  <2> DEFINE v == <<"enable", "start">>
  <2>0. v \in Seq(Verbs) /\ Len(v) = 2 /\ v[1] = "enable" /\ v[2] = "start" /\ v # <<>>
    BY <1>3
  <2>4. \A i \in 1..2 : i = 1 \/ i = 2  OBVIOUS
  <2>5. \A i \in 2..2 : i = 2  OBVIOUS
  <2> HIDE DEF v
  <2>1. Plainly("enable", On("xray", v))
    <3>1. \A i \in 2..Len(v) : <<v[i], "xray">> \in Plain("enable")  BY <1>1, <2>0, <2>5
    <3> QED  BY <1>1, <1>3, <2>0, <3>1, PlainlyFirst
  <2>2. On("panel", v) \in Seq(Plain("enable"))
    <3>1. \A i \in 1..Len(v) : <<v[i], "panel">> \in Plain("enable")  BY <1>1, <2>0, <2>4
    <3> QED  BY <2>0, <3>1, PlainOn
  <2>3. Plainly("enable", EnableBoth)
    BY <2>1, <2>2, PlainJoin DEF EnableBoth, v
  <2> QED  BY <1>4, <2>3, PlainBegins
<1>7. Begins("disable", DisableBoth)
  <2> DEFINE v == <<"stop", "disable">>
  <2>0. v \in Seq(Verbs) /\ Len(v) = 2 /\ v[1] = "stop" /\ v[2] = "disable" /\ v # <<>>
    BY <1>3
  <2>4. \A i \in 1..2 : i = 1 \/ i = 2  OBVIOUS
  <2>5. \A i \in 2..2 : i = 2  OBVIOUS
  <2> HIDE DEF v
  <2>1. Plainly("disable", On("panel", v))
    <3>1. \A i \in 2..Len(v) : <<v[i], "panel">> \in Plain("disable")  BY <1>2, <2>0, <2>5
    <3> QED  BY <1>2, <1>3, <2>0, <3>1, PlainlyFirst
  <2>2. On("xray", v) \in Seq(Plain("disable"))
    <3>1. \A i \in 1..Len(v) : <<v[i], "xray">> \in Plain("disable")  BY <1>2, <2>0, <2>4
    <3> QED  BY <2>0, <3>1, PlainOn
  <2>3. Plainly("disable", DisableBoth)
    BY <2>1, <2>2, PlainJoin DEF DisableBoth, v
  <2> QED  BY <1>4, <2>3, PlainBegins
<1> QED  BY <1>5, <1>6, <1>7

\* A backup.
LEMMA BackupBegins == Begins("backup", MakeBackup)
<1> USE DEF Plain, Steps, Belongs, Verbs, Objects, Puts, Secret, Stopping, Porting, Restarting,
            Opening, Migrating, Setting, Closing, Telling
<1> DEFINE n == "backup"
<1>1. /\ <<"copy", "yaml">> \in Plain(n) /\ <<"copy", "db">> \in Plain(n)
      /\ <<"copy", "config">> \in Plain(n) /\ <<"rename", "archive">> \in Plain(n)
  OBVIOUS
<1>2. {"copy", "rename"} \subseteq Verbs /\ "yaml" \in Objects /\ n \notin Secret
  OBVIOUS
<1> HIDE DEF Plain, Steps, Belongs, Verbs, Objects, Puts, Secret, Stopping, Porting, Restarting,
            Opening, Migrating, Setting, Closing, Telling
<1>3. Plainly(n, On("yaml", <<"copy">>))
  BY <1>1, <1>2, PlainlyFirst
<1>4. /\ On("db", <<"copy">>) \in Seq(Plain(n)) /\ On("config", <<"copy">>) \in Seq(Plain(n))
      /\ On("archive", <<"rename">>) \in Seq(Plain(n))
  <2> HIDE DEF n
  <2>1. On("db", <<"copy">>) \in Seq(Plain(n))  BY <1>1, PlainOne
  <2>2. On("config", <<"copy">>) \in Seq(Plain(n))  BY <1>1, PlainOne
  <2>3. On("archive", <<"rename">>) \in Seq(Plain(n))  BY <1>1, PlainOne
  <2> QED  BY <2>1, <2>2, <2>3
<1>5. Plainly(n, On("yaml", <<"copy">>) \o On("db", <<"copy">>))
  BY <1>3, <1>4, PlainJoin
<1>6. Plainly(n, On("yaml", <<"copy">>) \o On("db", <<"copy">>) \o On("config", <<"copy">>))
  BY <1>4, <1>5, PlainJoin
<1>7. Plainly(n, MakeBackup)
  BY <1>4, <1>6, PlainJoin DEF MakeBackup
<1> QED  BY <1>2, <1>7, PlainBegins

\* A restore, of whatever the archive has.
LEMMA RestoreBegins ==
  ASSUME NEW a \in Boxes
  PROVE  Begins("restore", Restore(a))
<1> USE DEF Plain, Steps, Belongs, Verbs, Objects, Puts, Secret, Stopping, Porting, Restarting,
            Opening, Migrating, Setting, Closing, Telling
<1> DEFINE n == "restore"
<1>1. /\ <<"stop", "panel">> = Stopping /\ Belongs(n, Stopping)
      /\ <<"stop", "xray">> \in Plain(n) /\ <<"put", "yaml">> \in Plain(n)
      /\ <<"put", "db">> \in Plain(n) /\ <<"put", "config">> \in Plain(n)
  OBVIOUS
<1>2. {"stop", "put"} \subseteq Verbs /\ "panel" \in Objects /\ n \notin Secret
  OBVIOUS
<1>0. a.db \in BOOLEAN /\ a.config \in BOOLEAN /\ (a.yaml # Missing) \in BOOLEAN
  BY DEF Boxes
<1> HIDE DEF Plain, Steps, Belongs, Verbs, Objects, Puts, Secret, Stopping, Porting, Restarting,
            Opening, Migrating, Setting, Closing, Telling
<1> DEFINE p1 == On("panel", <<"stop">>)
           p2 == On("xray", <<"stop">>)
           p3 == Only("yaml", <<"put">>, a.yaml # Missing)
           p4 == Only("db", <<"put">>, a.db)
           p5 == Only("config", <<"put">>, a.config)
<1>3. Plainly(n, p1)
  BY <1>1, <1>2, PlainlyFirst
<1>4. p2 \in Seq(Plain(n)) /\ p3 \in Seq(Plain(n)) /\ p4 \in Seq(Plain(n)) /\ p5 \in Seq(Plain(n))
  <2> HIDE DEF n
  <2>1. p2 \in Seq(Plain(n))  BY <1>1, PlainOne
  <2>2. p3 \in Seq(Plain(n))  BY <1>0, <1>1, PlainOne
  <2>3. p4 \in Seq(Plain(n))  BY <1>0, <1>1, PlainOne
  <2>4. p5 \in Seq(Plain(n))  BY <1>0, <1>1, PlainOne
  <2> QED  BY <2>1, <2>2, <2>3, <2>4
<1>10. Restore(a) = p1 \o p2 \o p3 \o p4 \o p5
  BY DEF Restore
<1>11. p1[1] = Stopping /\ Len(p1) = 1
  BY <1>1 DEF On
<1> HIDE DEF p1, p2, p3, p4, p5, n
<1>5. Plainly(n, p1 \o p2)
  BY <1>3, <1>4, PlainJoin
<1>6. Plainly(n, p1 \o p2 \o p3)
  BY <1>4, <1>5, PlainJoin
<1>7. Plainly(n, p1 \o p2 \o p3 \o p4)
  BY <1>4, <1>6, PlainJoin
<1>8. Plainly(n, p1 \o p2 \o p3 \o p4 \o p5)
  BY <1>4, <1>7, PlainJoin
<1>9. (p1 \o p2 \o p3 \o p4 \o p5)[1] = Stopping
  <2>0. First(p1) = Stopping  BY <1>11 DEF First
  <2>1. First(p1 \o p2) = Stopping  BY <1>3, <1>4, <2>0, PlainHead
  <2>2. First(p1 \o p2 \o p3) = Stopping  BY <1>4, <1>5, <2>1, PlainHead
  <2>3. First(p1 \o p2 \o p3 \o p4) = Stopping  BY <1>4, <1>6, <2>2, PlainHead
  <2>4. First(p1 \o p2 \o p3 \o p4 \o p5) = Stopping  BY <1>4, <1>7, <2>3, PlainHead
  <2> QED  BY <2>4 DEF First
<1> QED  BY <1>2, <1>8, <1>9, <1>10, PlainBegins DEF n

\* The removal, with and without the data.
LEMMA UninstallBegins ==
  ASSUME NEW wipe \in BOOLEAN
  PROVE  Begins("uninstall", Uninstall(wipe))
<1> USE DEF Plain, Steps, Belongs, Verbs, Objects, Puts, Secret, Stopping, Porting, Restarting,
            Opening, Migrating, Setting, Closing, Telling
<1> DEFINE n == "uninstall"
<1>1. /\ <<"stop", "panel">> = Stopping /\ Belongs(n, Stopping)
      /\ <<"disable", "panel">> \in Plain(n) /\ <<"noUnit", "panel">> \in Plain(n)
      /\ <<"stop", "xray">> \in Plain(n)
      /\ <<"disable", "xray">> \in Plain(n) /\ <<"noUnit", "xray">> \in Plain(n)
      /\ <<"remove", "yaml">> \in Plain(n)
      /\ <<"remove", "db">> \in Plain(n) /\ <<"remove", "config">> \in Plain(n)
  OBVIOUS
<1>2. {"stop", "disable", "noUnit", "remove"} \subseteq Verbs /\ "panel" \in Objects
        /\ n \notin Secret
      /\ n # "restore"
  OBVIOUS
<1> HIDE DEF Plain, Steps, Belongs, Verbs, Objects, Puts, Secret, Stopping, Porting, Restarting,
            Opening, Migrating, Setting, Closing, Telling
<1> DEFINE v == <<"stop", "disable", "noUnit">>
           p1 == On("panel", v)
           p2 == On("xray", v)
           p3 == On("yaml", <<"remove">>)
           p4 == Only("db", <<"remove">>, wipe)
           p5 == On("config", <<"remove">>)
<1>10. Uninstall(wipe) = p1 \o p2 \o p3 \o p4 \o p5
  BY DEF Uninstall
<1>4. p3 \in Seq(Plain(n)) /\ p4 \in Seq(Plain(n)) /\ p5 \in Seq(Plain(n))
  <2> HIDE DEF n
  <2>1. p3 \in Seq(Plain(n))  BY <1>1, PlainOne
  <2>2. p4 \in Seq(Plain(n))  BY <1>1, PlainOne
  <2>3. p5 \in Seq(Plain(n))  BY <1>1, PlainOne
  <2> QED  BY <2>1, <2>2, <2>3
<1>12. v \in Seq(Verbs) /\ Len(v) = 3 /\ v[1] = "stop" /\ v[2] = "disable" /\ v[3] = "noUnit"
         /\ v # <<>>
  BY <1>2
<1> HIDE DEF v
<1>13. \A i \in 1..3 : i = 1 \/ i = 2 \/ i = 3  OBVIOUS
<1>14. \A i \in 2..3 : i = 2 \/ i = 3  OBVIOUS
<1>3. Plainly(n, p1)
  <2>1. \A i \in 2..Len(v) : <<v[i], "panel">> \in Plain(n)  BY <1>1, <1>12, <1>14
  <2> QED  BY <1>1, <1>2, <1>12, <2>1, PlainlyFirst
<1>11. p2 \in Seq(Plain(n))
  <2>1. \A i \in 1..Len(v) : <<v[i], "xray">> \in Plain(n)  BY <1>1, <1>12, <1>13
  <2> QED  BY <1>12, <2>1, PlainOn
<1> HIDE DEF p1, p2, p3, p4, p5, n
<1>5. Plainly(n, p1 \o p2)
  BY <1>3, <1>11, PlainJoin
<1>6. Plainly(n, p1 \o p2 \o p3)
  BY <1>4, <1>5, PlainJoin
<1>7. Plainly(n, p1 \o p2 \o p3 \o p4)
  BY <1>4, <1>6, PlainJoin
<1>8. Plainly(n, p1 \o p2 \o p3 \o p4 \o p5)
  BY <1>4, <1>7, PlainJoin
<1> QED  BY <1>2, <1>8, <1>10, PlainBegins DEF n

-----------------------------------------------------------------------------
(* What is left of an operation after a step.                               *)

\* What is left of a list when its first step is done.
LEMMA TailChain ==
  ASSUME NEW n, NEW s \in Seq(Steps), s # <<>>, Chain(n, s)
  PROVE  /\ Head(s) \in Steps /\ Belongs(n, Head(s)) /\ Tail(s) \in Seq(Steps)
         /\ Tail(s) = <<>> => LastOf(s) = Head(s)
         /\ Tail(s) # <<>> =>
              /\ Chain(n, Tail(s)) /\ LastOf(Tail(s)) = LastOf(s)
              /\ Links(n, Head(s), Head(Tail(s))) /\ Belongs(n, Head(Tail(s)))
<1>1. /\ Len(s) \in Nat /\ Len(s) >= 1 /\ Head(s) = s[1] /\ Tail(s) \in Seq(Steps)
      /\ Len(Tail(s)) = Len(s) - 1
      /\ \A i \in 1..Len(Tail(s)) : Tail(s)[i] = s[i + 1]
  BY EmptySeq
<1>2. Head(s) \in Steps /\ Belongs(n, Head(s))
  BY <1>1 DEF Chain
<1>3. Tail(s) = <<>> => LastOf(s) = Head(s)
  <2>1. ASSUME Tail(s) = <<>> PROVE Len(s) = 1
    <3> DEFINE t == Tail(s)
    <3>2. t = <<>> /\ Len(t) = Len(s) - 1 /\ Len(s) \in Nat  BY <1>1, <2>1
    <3> HIDE DEF t
    <3>1. Len(t) = 0  BY <3>2
    <3> QED  BY <3>1, <3>2
  <2> QED  BY <1>1, <2>1 DEF LastOf
<1>4. ASSUME Tail(s) # <<>>
      PROVE  /\ Chain(n, Tail(s)) /\ LastOf(Tail(s)) = LastOf(s)
             /\ Links(n, Head(s), Head(Tail(s))) /\ Belongs(n, Head(Tail(s)))
  <2> DEFINE t == Tail(s)
  <2>1. Len(t) >= 1 /\ Head(t) = t[1] /\ t[1] = s[2] /\ Len(s) >= 2
    BY <1>1, <1>4, EmptySeq
  <2>2. t \in Seq(Steps) /\ Len(t) = Len(s) - 1 /\ \A i \in 1..Len(t) : t[i] = s[i + 1]
    BY <1>1
  <2> HIDE DEF t
  <2>3. ASSUME NEW i \in 1..Len(t) PROVE Belongs(n, t[i])
    <3>1. t[i] = s[i + 1] /\ i + 1 \in 1..Len(s)  BY <1>1, <2>2
    <3> QED  BY <3>1 DEF Chain
  <2>4. ASSUME NEW i \in 1..(Len(t) - 1) PROVE Links(n, t[i], t[i + 1])
    <3>1. /\ i \in 1..Len(t) /\ i + 1 \in 1..Len(t) /\ i + 1 \in 1..(Len(s) - 1)
      BY <1>1, <2>2
    <3>2. t[i] = s[i + 1] /\ t[i + 1] = s[(i + 1) + 1]
      BY <2>2, <3>1
    <3> QED  BY <3>1, <3>2 DEF Chain
  <2>5. LastOf(t) = LastOf(s)
    BY <1>1, <2>1, <2>2 DEF LastOf
  <2>6. 1 \in 1..(Len(s) - 1) /\ 2 \in 1..Len(s) /\ 1 + 1 = 2
    BY <1>1, <2>1
  <2>7. Links(n, s[1], s[2]) /\ Belongs(n, s[2])
    BY <2>6 DEF Chain
  <2>8. Chain(n, t)
    BY <2>3, <2>4 DEF Chain
  <2> QED  BY <1>1, <2>1, <2>5, <2>7, <2>8 DEF t
<1> QED  BY <1>1, <1>2, <1>3, <1>4

\* An operation under way.
Doing(o) == o \in Ops /\ o.name # "idle" /\ Planned(o)

\* The named steps differ.
LEMMA StepNames ==
  /\ \A s \in {Opening, Migrating, Setting, Closing, Telling, Porting, Restarting, Stopping} :
       s \in Steps
  /\ Opening # Migrating /\ Opening # Setting /\ Opening # Closing /\ Opening # Telling
  /\ Migrating # Setting /\ Migrating # Closing /\ Migrating # Telling
  /\ Setting # Closing /\ Setting # Telling /\ Closing # Telling
  /\ Porting \notin {Opening, Migrating, Setting, Closing, Telling, Restarting, Stopping}
  /\ Restarting \notin {Opening, Migrating, Setting, Closing, Telling, Porting, Stopping}
  /\ Stopping \notin {Opening, Migrating, Setting, Closing, Telling, Porting, Restarting}
  BY DEF Opening, Migrating, Setting, Closing, Telling, Porting, Restarting, Stopping, Steps, Verbs,
         Objects

\* Which of them are early.
LEMMA EarlyNames ==
  /\ Telling \notin Early /\ Closing \notin Early /\ Stopping \notin Early
       /\ Restarting \notin Early
  /\ Porting \notin Early
  /\ Setting \in Early /\ Migrating \in Early /\ Opening \in Early
  BY DEF Opening, Migrating, Setting, Closing, Telling, Porting, Restarting, Stopping, Early

\* A step that neither opens nor closes the database nor sets the password: the
\* operation is over, or what is left of it fits.
LEMMA ThenPlan ==
  ASSUME NEW o, Doing(o), Head(o.todo) \notin {Opening, Setting, Closing},
         NEW q, q = Then(o, Tail(o.todo))
  PROVE  \/ q = Idle /\ Tail(o.todo) = <<>> /\ LastOf(o.todo) = Head(o.todo)
         \/ Doing(q) /\ q = [o EXCEPT !.todo = Tail(o.todo)] /\ Tail(o.todo) # <<>>
<1> DEFINE h == Head(o.todo)
           t == Tail(o.todo)
           g == Head(t)
           n == o.name
<1>1. /\ o.todo \in Seq(Steps) /\ o.todo # <<>> /\ Chain(n, o.todo)
  BY DEF Doing, Planned, Ops
<1>2. /\ h \in Steps /\ Belongs(n, h) /\ t \in Seq(Steps)
      /\ t = <<>> => LastOf(o.todo) = h
      /\ t # <<>> =>
              /\ Chain(n, t) /\ LastOf(t) = LastOf(o.todo)
              /\ Links(n, h, g) /\ Belongs(n, g)
  BY <1>1, TailChain
<1>3. CASE t = <<>>
  BY <1>2, <1>3 DEF Then
<1>4. CASE t # <<>>
  <2>1. q = [o EXCEPT !.todo = t]
    BY <1>4 DEF Then
  <2>2. q \in Ops /\ q.todo = t /\ q.name = n /\ q.open = o.open /\ q.pw = o.pw
    BY <2>1, <1>2 DEF Doing, Ops
  <2> HIDE DEF t
  <2>3. t # <<>> /\ Chain(n, t) /\ LastOf(t) \notin NeverLast /\ LastOf(t) = LastOf(o.todo)
    BY <1>2, <1>4 DEF Doing, Planned
  <2>10. Links(n, h, g) /\ Belongs(n, g)  BY <1>2, <1>4
  <2> DEFINE e == h
  <2>12. o.open <=> h \in Inside  BY DEF Doing, Planned
  <2> HIDE DEF h, g
  <2>4. h \in Inside => h = Migrating
    BY DEF Inside, h
  <2>5. h \in Inside <=> g \in Inside
    <3>1. h = Migrating => g \in Inside
      BY <2>10 DEF Links, Inside
    <3>2. g \in Inside => h = Migrating
      <4>1. h \notin {Opening, Setting}  BY DEF h
      <4> QED  BY <2>10, <4>1 DEF Links
    <3>3. Migrating \in Inside  BY DEF Inside
    <3> QED  BY <3>1, <3>2, <3>3, <2>4
  <2>6. q.open <=> g \in Inside
    BY <2>2, <2>5, <2>12
  <2>7. n \notin Secret => o.pw = 0
    BY DEF Doing, Planned
  <2>8. ASSUME n \in Secret
        PROVE  \/ g \in Early /\ o.pw = 0 /\ LastOf(t) = Telling
               \/ g \notin Early /\ o.pw # 0 /\ LastOf(t) = Telling
    <3>1. \/ h \in Early /\ o.pw = 0 /\ LastOf(o.todo) = Telling
          \/ h \notin Early /\ o.pw # 0 /\ LastOf(o.todo) = Telling
          \/ o.pw = 0 /\ o.todo = <<Closing>>
      BY <2>8 DEF Doing, Planned, h
    <3>2. o.todo # <<Closing>>
      BY DEF h
    <3>3. h # Setting  BY DEF h
    <3>4. h \in Early <=> g \in Early
      BY <2>8, <2>10, <3>3 DEF Links
    <3> QED  BY <3>1, <3>2, <3>4, <2>3
  <2>9. Planned(q)
    <3>1. g = Head(q.todo)  BY <2>2 DEF g
    <3> QED  BY <2>2, <2>3, <2>6, <2>7, <2>8, <3>1 DEF Planned
  <2> QED  BY <2>1, <2>2, <2>9, <1>4 DEF Doing, t
<1> QED  BY <1>3, <1>4

\* The operation after these three steps.
Opened(o) == [o EXCEPT !.todo = Tail(o.todo), !.open = TRUE]
PasswordSet(o, m) == [o EXCEPT !.todo = Tail(o.todo), !.pw = m]
Closed(o) == [o EXCEPT !.open = FALSE]

\* Opening the database: the migrations come next.
LEMMA OpenPlan ==
  ASSUME NEW o, Doing(o), Head(o.todo) = Opening, NEW q, q = Opened(o)
  PROVE  Doing(q) /\ q.name = o.name /\ q.pw = 0 /\ o.pw = 0 /\ q.box = o.box
       /\ Head(q.todo) = Migrating
<1> DEFINE t == Tail(o.todo)
           g == Head(t)
           n == o.name
<1>1. /\ o.todo \in Seq(Steps) /\ o.todo # <<>> /\ Chain(n, o.todo)
  BY DEF Doing, Planned, Ops
<1>2. /\ t \in Seq(Steps)
      /\ t = <<>> => LastOf(o.todo) = Opening
      /\ t # <<>> =>
              /\ Chain(n, t) /\ LastOf(t) = LastOf(o.todo)
              /\ Links(n, Opening, g)
  BY <1>1, TailChain
<1>3. t # <<>>
  BY <1>2 DEF Doing, Planned, NeverLast
<1>4. g = Migrating
  BY <1>2, <1>3 DEF Links
<1>5. q \in Ops /\ q.todo = t /\ q.name = n /\ q.open = TRUE /\ q.pw = o.pw /\ q.box = o.box
  BY <1>2 DEF Doing, Ops, Opened
<1>6. o.pw = 0 /\ (n \in Secret => LastOf(o.todo) = Telling)
  <2>1. o.todo # <<Closing>>  BY StepNames
  <2> QED  BY <2>1, EarlyNames DEF Doing, Planned
<1>7. LastOf(t) \notin NeverLast /\ Migrating \in Inside
  BY <1>2, <1>3 DEF Doing, Planned, Inside
<1>8. Planned(q)
  BY <1>2, <1>3, <1>4, <1>5, <1>6, <1>7, EarlyNames DEF Planned
<1> QED  BY <1>4, <1>5, <1>6, <1>8 DEF Doing

\* Setting the password: closing comes next.
LEMMA SetPlan ==
  ASSUME NEW o, Doing(o), Head(o.todo) = Setting, NEW m \in 1..MaxTx, NEW q,
         q = PasswordSet(o, m)
  PROVE  Doing(q) /\ q.name = o.name /\ q.pw = m /\ q.open /\ o.open /\ q.box = o.box
       /\ Head(q.todo) = Closing
         /\ o.name \in Secret
<1> DEFINE t == Tail(o.todo)
           g == Head(t)
           n == o.name
<1>1. /\ o.todo \in Seq(Steps) /\ o.todo # <<>> /\ Chain(n, o.todo)
  BY DEF Doing, Planned, Ops
<1>2. /\ t \in Seq(Steps) /\ Belongs(n, Setting)
      /\ t = <<>> => LastOf(o.todo) = Setting
      /\ t # <<>> =>
              /\ Chain(n, t) /\ LastOf(t) = LastOf(o.todo)
              /\ Links(n, Setting, g)
  BY <1>1, TailChain
<1>3. t # <<>>
  BY <1>2 DEF Doing, Planned, NeverLast
<1>4. g = Closing
  BY <1>2, <1>3, StepNames DEF Links
<1>9. m \in 0..MaxTx /\ m # 0
  BY ParametersOK
<1>5. q \in Ops /\ q.todo = t /\ q.name = n /\ q.open = o.open /\ q.pw = m /\ q.box = o.box
  BY <1>2, <1>9 DEF Doing, Ops, PasswordSet
<1>6. n \in Secret /\ LastOf(o.todo) = Telling
  <2>1. o.todo # <<Closing>>  BY StepNames
  <2>2. n \in Secret  BY <1>2 DEF Belongs
  <2> QED  BY <2>1, <2>2 DEF Doing, Planned
<1>7. LastOf(t) \notin NeverLast /\ Closing \in Inside /\ o.open = TRUE
  BY <1>2, <1>3 DEF Doing, Planned, Inside, Ops
<1>8. Planned(q)
  BY <1>2, <1>3, <1>4, <1>5, <1>6, <1>7, <1>9, EarlyNames DEF Planned
<1> QED  BY <1>4, <1>5, <1>6, <1>7, <1>8 DEF Doing

\* Closing the database: the operation is over and knows no password, or goes on.
LEMMA ClosePlan ==
  ASSUME NEW o, Doing(o), Head(o.todo) = Closing, NEW q,
         q = Then(Closed(o), Tail(o.todo))
  PROVE  /\ o.open
         /\ \/ q = Idle /\ o.pw = 0
            \/ /\ Doing(q) /\ q.name = o.name /\ q.pw = o.pw /\ ~q.open /\ q.box = o.box
               /\ Head(q.todo) # Stopping
<1> DEFINE t == Tail(o.todo)
           g == Head(t)
           n == o.name
<1>1. /\ o.todo \in Seq(Steps) /\ o.todo # <<>> /\ Chain(n, o.todo)
  BY DEF Doing, Planned, Ops
<1>2. /\ t \in Seq(Steps) /\ Belongs(n, Closing)
      /\ t = <<>> => LastOf(o.todo) = Closing
      /\ t # <<>> =>
              /\ Chain(n, t) /\ LastOf(t) = LastOf(o.todo)
              /\ Links(n, Closing, g)
  BY <1>1, TailChain
<1>0. o.open = TRUE
  BY DEF Doing, Planned, Inside, Ops
<1>3. CASE t = <<>>
  <2>1. q = Idle  BY <1>3 DEF Then
  <2>2. o.pw = 0
    BY <1>2, <1>3, StepNames, EarlyNames DEF Doing, Planned
  <2> QED  BY <1>0, <2>1, <2>2
<1>4. CASE t # <<>>
  <2>1. q = [[o EXCEPT !.open = FALSE] EXCEPT !.todo = t]  BY <1>4 DEF Then, Closed
  <2>2. q \in Ops /\ q.todo = t /\ q.name = n /\ q.open = FALSE /\ q.pw = o.pw /\ q.box = o.box
    BY <1>2, <2>1 DEF Doing, Ops
  <2>3. LastOf(t) \notin NeverLast /\ Chain(n, t)
    BY <1>2, <1>4 DEF Doing, Planned
  <2>4. g \notin Inside /\ g # Stopping /\ (n \in Secret => g \notin Early)
    BY <1>2, <1>4, StepNames, EarlyNames DEF Links
  <2>5. n \notin Secret => o.pw = 0
    BY DEF Doing, Planned
  <2>6. n \in Secret => o.pw # 0 /\ LastOf(t) = Telling
    <3>1. ASSUME o.todo = <<Closing>> PROVE FALSE
      <4>1. Tail(<<Closing>>) = <<>>  OBVIOUS
      <4> QED  BY <1>4, <3>1, <4>1
    <3> QED  BY <1>2, <1>4, <3>1, EarlyNames DEF Doing, Planned
  <2>7. Planned(q)
    BY <1>4, <2>2, <2>3, <2>4, <2>5, <2>6 DEF Planned
  <2> QED  BY <1>0, <2>2, <2>4, <2>7 DEF Doing
<1> QED  BY <1>3, <1>4

\* What follows a step.
LEMMA NextStep ==
  ASSUME NEW o, Doing(o), Tail(o.todo) # <<>>
  PROVE  /\ Links(o.name, Head(o.todo), Head(Tail(o.todo))) /\ Belongs(o.name, Head(Tail(o.todo)))
         /\ Belongs(o.name, Head(o.todo)) /\ Head(Tail(o.todo)) # Stopping
<1>1. /\ o.todo \in Seq(Steps) /\ o.todo # <<>> /\ Chain(o.name, o.todo)
  BY DEF Doing, Planned, Ops
<1>2. /\ Links(o.name, Head(o.todo), Head(Tail(o.todo))) /\ Belongs(o.name, Head(Tail(o.todo)))
      /\ Belongs(o.name, Head(o.todo))
  BY <1>1, TailChain
<1> QED  BY <1>2 DEF Links

\* The step that is next belongs to its operation.
LEMMA ThisStep ==
  ASSUME NEW o, Doing(o)
  PROVE  Belongs(o.name, Head(o.todo)) /\ Head(o.todo) \in Steps
<1>1. /\ o.todo \in Seq(Steps) /\ o.todo # <<>> /\ Chain(o.name, o.todo)
  BY DEF Doing, Planned, Ops
<1> QED  BY <1>1, TailChain

-----------------------------------------------------------------------------
(* What a transaction adds.                                                 *)

\* The kinds of transactions.
Kinds == {"schema", "password", "row"}

\* A transaction more.
LEMMA LogGrows ==
  ASSUME NEW l \in Seq(Kinds), NEW k \in Kinds, NEW m, m = Append(l, k), NEW n, n = Len(m)
  PROVE  /\ m \in Seq(Kinds) /\ n \in Nat /\ n = Len(l) + 1 /\ n > 0 /\ Len(l) \in Nat
         /\ DOMAIN l = 1..Len(l) /\ DOMAIN m = 1..n
         /\ DOMAIN l \subseteq DOMAIN m /\ n \in DOMAIN m /\ n \notin DOMAIN l
         /\ m[n] = k /\ \A t \in DOMAIN l : m[t] = l[t]
  OBVIOUS

\* The same transactions in another log.
LEMMA CountSame ==
  ASSUME NEW l, NEW m, NEW txs, \A t \in txs : m[t] = l[t]
  PROVE  CountIn(m, txs) = CountIn(l, txs) /\ PasswordIn(m, txs) = PasswordIn(l, txs)
<1>1. /\ {t \in txs : m[t] = "schema"} = {t \in txs : l[t] = "schema"}
      /\ {t \in txs : m[t] = "password"} = {t \in txs : l[t] = "password"}
  OBVIOUS
<1> QED  BY <1>1 DEF CountIn, PasswordIn

\* There are finitely many migrations.
LEMMA CountFinite ==
  ASSUME NEW l, NEW n \in Nat, NEW txs, txs \subseteq 1..n
  PROVE  IsFiniteSet({t \in txs : l[t] = "schema"}) /\ CountIn(l, txs) \in Nat
<1>1. IsFiniteSet(1..n)
  BY FS_Interval
<1>2. IsFiniteSet({t \in txs : l[t] = "schema"})
  BY <1>1, FS_Subset
<1> QED  BY <1>2, FS_CardinalityType DEF CountIn

\* Fewer transactions, fewer migrations.
LEMMA CountMore ==
  ASSUME NEW l, NEW n \in Nat, NEW a, NEW b, a \subseteq b, b \subseteq 1..n
  PROVE  CountIn(l, a) <= CountIn(l, b)
<1>1. IsFiniteSet({t \in b : l[t] = "schema"})
  BY CountFinite
<1>2. {t \in a : l[t] = "schema"} \subseteq {t \in b : l[t] = "schema"}
  OBVIOUS
<1> QED  BY <1>1, <1>2, FS_Subset DEF CountIn

\* One transaction more is a migration more, or not.
LEMMA CountAdd ==
  ASSUME NEW l, NEW n \in Nat, NEW txs, txs \subseteq 1..n, NEW k, k \notin txs
  PROVE  CountIn(l, txs \cup {k}) = CountIn(l, txs) + IF l[k] = "schema" THEN 1 ELSE 0
<1>1. IsFiniteSet({t \in txs : l[t] = "schema"}) /\ CountIn(l, txs) \in Nat
  BY CountFinite
<1>2. CASE l[k] = "schema"
  <2>1. {t \in txs \cup {k} : l[t] = "schema"} = {t \in txs : l[t] = "schema"} \cup {k}
    BY <1>2
  <2>2. k \notin {t \in txs : l[t] = "schema"}
    OBVIOUS
  <2>3. Cardinality({t \in txs : l[t] = "schema"} \cup {k})
          = Cardinality({t \in txs : l[t] = "schema"}) + 1
    BY <1>1, <2>2, FS_AddElement
  <2> QED  BY <1>2, <2>1, <2>3 DEF CountIn
<1>3. CASE l[k] # "schema"
  <2>1. {t \in txs \cup {k} : l[t] = "schema"} = {t \in txs : l[t] = "schema"}
    BY <1>3
  <2>2. CountIn(l, txs \cup {k}) = CountIn(l, txs)
    BY <2>1 DEF CountIn
  <2> QED  BY <1>1, <1>3, <2>2
<1> QED  BY <1>2, <1>3

\* A later transaction that sets the password is the last to do so.
LEMMA PasswordNext ==
  ASSUME NEW l, NEW n \in Nat, NEW txs, txs \subseteq 1..n, NEW k \in Nat, k > n,
         l[k] = "password"
  PROVE  PasswordIn(l, txs \cup {k}) = k
<1> DEFINE s == {0} \cup {t \in txs \cup {k} : l[t] = "password"}
<1>1. k \in s
  OBVIOUS
<1>2. ASSUME NEW t \in s PROVE t \in Int /\ k >= t
  <2>1. t = 0 \/ t = k \/ t \in 1..n
    BY <1>2
  <2> QED  BY <2>1
<1>3. Max(s) = k
  <2> HIDE DEF s
  <2>1. \A x \in s : (\A t \in s : x >= t) <=> x = k
    BY <1>1, <1>2
  <2> QED  BY <1>1, <2>1 DEF Max
<1> QED  BY <1>3 DEF PasswordIn

\* A later transaction, whatever it does.
LEMMA PasswordAdd ==
  ASSUME NEW l, NEW n \in Nat, NEW txs, txs \subseteq 1..n, NEW k \in Nat, k > n
  PROVE  PasswordIn(l, txs \cup {k}) = IF l[k] = "password" THEN k ELSE PasswordIn(l, txs)
<1>1. CASE l[k] = "password"
  BY <1>1, PasswordNext
<1>2. CASE l[k] # "password"
  <2>1. {t \in txs \cup {k} : l[t] = "password"} = {t \in txs : l[t] = "password"}
    BY <1>2
  <2> QED  BY <1>2, <2>1 DEF PasswordIn
<1> QED  BY <1>1, <1>2

\* No transactions at all.
LEMMA NoneYet ==
  ASSUME NEW l
  PROVE  CountIn(l, {}) = 0 /\ PasswordIn(l, {}) = 0
<1>1. {t \in {} : l[t] = "schema"} = {} /\ {t \in {} : l[t] = "password"} = {}
  OBVIOUS
<1>2. Max({0}) = 0
  BY DEF Max
<1>3. {0} \cup {t \in {} : l[t] = "password"} = {0}
  BY <1>1
<1>4. Cardinality({}) = 0
  BY FS_EmptySet
<1> QED  BY <1>1, <1>2, <1>3, <1>4 DEF CountIn, PasswordIn

\* What Commit does to the log, the database, and what is found in them.
LEMMA CommitDoes ==
  ASSUME Typed, NEW kind \in Kinds, Commit(kind)
  PROVE  /\ log' \in Seq(Kinds) /\ Len(log') <= MaxTx /\ Len(log') \in 1..MaxTx
         /\ DOMAIN log \subseteq DOMAIN log' /\ Len(log') \in DOMAIN log'
              /\ Len(log') \notin DOMAIN log
         /\ wal' = wal \cup {Len(log')} /\ want' = want \cup {Len(log')} /\ main' = main /\ db' = db
         /\ View' = View \cup {Len(log')}
         /\ \A txs \in SUBSET DOMAIN log :
              /\ CountIn(log', txs) = CountIn(log, txs)
              /\ PasswordIn(log', txs) = PasswordIn(log, txs)
              /\ CountIn(log, txs) \in Nat
              /\ CountIn(log', txs \cup {Len(log')})
                   = CountIn(log, txs) + IF kind = "schema" THEN 1 ELSE 0
              /\ PasswordIn(log', txs \cup {Len(log')})
                   = IF kind = "password" THEN Len(log') ELSE PasswordIn(log, txs)
<1> DEFINE m == log'
           n == Len(m)
<1>1. log \in Seq(Kinds) /\ m = Append(log, kind) /\ Len(log) < MaxTx
  BY DEF Typed, Kinds, Commit, Room
<1>2. wal' = wal \cup {n} /\ want' = want \cup {n} /\ main' = main /\ db' = db
  BY DEF Commit
<1> HIDE DEF m
<1>3. /\ m \in Seq(Kinds) /\ n \in Nat /\ n = Len(log) + 1 /\ n > 0 /\ Len(log) \in Nat
      /\ DOMAIN log = 1..Len(log) /\ DOMAIN m = 1..n
      /\ DOMAIN log \subseteq DOMAIN m /\ n \in DOMAIN m /\ n \notin DOMAIN log
      /\ m[n] = kind /\ \A t \in DOMAIN log : m[t] = log[t]
  BY <1>1, LogGrows
<1>4. n <= MaxTx /\ n \in 1..MaxTx
  BY <1>1, <1>3, ParametersOK
<1> HIDE DEF n
<1>5. ASSUME NEW txs \in SUBSET DOMAIN log
      PROVE  /\ CountIn(m, txs) = CountIn(log, txs)
             /\ PasswordIn(m, txs) = PasswordIn(log, txs)
             /\ CountIn(log, txs) \in Nat
             /\ CountIn(m, txs \cup {n})
                  = CountIn(log, txs) + IF kind = "schema" THEN 1 ELSE 0
             /\ PasswordIn(m, txs \cup {n})
                  = IF kind = "password" THEN n ELSE PasswordIn(log, txs)
  <2>1. txs \subseteq 1..Len(log) /\ n \notin txs /\ n > Len(log)
    BY <1>3
  <2>2. \A t \in txs : m[t] = log[t]
    BY <1>3
  <2>3. CountIn(m, txs) = CountIn(log, txs) /\ PasswordIn(m, txs) = PasswordIn(log, txs)
    BY <2>2, CountSame
  <2>4. CountIn(log, txs) \in Nat
    BY <1>3, <2>1, CountFinite
  <2>5. CountIn(m, txs \cup {n}) = CountIn(m, txs) + IF m[n] = "schema" THEN 1 ELSE 0
    BY <1>3, <2>1, CountAdd
  <2>6. PasswordIn(m, txs \cup {n}) = IF m[n] = "password" THEN n ELSE PasswordIn(m, txs)
    BY <1>3, <2>1, PasswordAdd
  <2> QED  BY <1>3, <2>3, <2>4, <2>5, <2>6
<1>6. View' = View \cup {n}
  BY <1>2 DEF View
<1>7. \A txs \in SUBSET DOMAIN log :
        /\ CountIn(m, txs) = CountIn(log, txs)
        /\ PasswordIn(m, txs) = PasswordIn(log, txs)
        /\ CountIn(log, txs) \in Nat
        /\ CountIn(m, txs \cup {n})
             = CountIn(log, txs) + IF kind = "schema" THEN 1 ELSE 0
        /\ PasswordIn(m, txs \cup {n})
             = IF kind = "password" THEN n ELSE PasswordIn(log, txs)
  BY <1>5
<1> QED  BY <1>2, <1>3, <1>4, <1>6, <1>7 DEF m, n

-----------------------------------------------------------------------------
(* How an operation goes on.                                                *)

\* PlanOK of an operation.
PlanIs(q) == IF q.name = "idle" THEN q = Idle ELSE Planned(q)

\* Nothing to do is well typed.
LEMMA IdleFits ==
  Idle \in Ops /\ NoBackup \in Boxes /\ Missing \in Yamls /\ PlanIs(Idle)
<1>1. Missing \in Yamls
  BY ParametersOK DEF Missing, Yamls
<1>2. NoBackup \in Boxes
  BY <1>1 DEF NoBackup, Boxes
<1>3. <<>> \in Seq(Steps) /\ 0 \in 0..MaxTx /\ "idle" \in Names
  BY ParametersOK DEF Names
<1>4. Idle \in Ops
  BY <1>2, <1>3 DEF Idle, Ops
<1> QED  BY <1>1, <1>2, <1>4 DEF PlanIs, Idle

\* There is something to do in an operation only.
LEMMA Busy ==
  ASSUME Typed, PlanOK, op.todo # <<>>
  PROVE  Doing(op)
  BY DEF Typed, PlanOK, Idle, Doing

\* How operation o goes on as q.
GoesOn(o, q) ==
  /\ q \in Ops /\ PlanIs(q)
  /\ q.open => o.open
  /\ q.box \in {o.box, NoBackup}
  /\ q.name \in {o.name, "idle"}

\* It may end.
LEMMA IdleGoesOn ==
  ASSUME NEW o, Doing(o)
  PROVE  GoesOn(o, Idle)
<1>1. Idle.open = FALSE /\ Idle.box = NoBackup /\ Idle.name = "idle"
  BY DEF Idle
<1> QED  BY <1>1, IdleFits DEF GoesOn

\* A step that went well.
LEMMA ThenGoesOn ==
  ASSUME NEW o, Doing(o), Head(o.todo) \notin {Opening, Setting, Closing},
         NEW q, q = Then(o, Tail(o.todo))
  PROVE  /\ GoesOn(o, q)
         /\ Head(o.todo) # Telling => q.pw = o.pw
         /\ q = Idle \/ (Doing(q) /\ q.name = o.name /\ q.pw = o.pw /\ q.todo = Tail(o.todo)
                          /\ Tail(o.todo) # <<>>)
<1>1. CASE q = Idle /\ Tail(o.todo) = <<>> /\ LastOf(o.todo) = Head(o.todo)
  <2>1. GoesOn(o, q)
    BY <1>1, IdleGoesOn
  <2>2. ASSUME Head(o.todo) # Telling PROVE q.pw = o.pw
    <3>1. o.todo # <<Closing>>  OBVIOUS
    <3>2. o.pw = 0
      BY <1>1, <2>2, <3>1 DEF Doing, Planned
    <3> QED  BY <1>1, <3>2 DEF Idle
  <2> QED  BY <1>1, <2>1, <2>2
<1>2. CASE Doing(q) /\ q = [o EXCEPT !.todo = Tail(o.todo)] /\ Tail(o.todo) # <<>>
  <2>1. q.name = o.name /\ q.pw = o.pw /\ q.open = o.open /\ q.box = o.box /\ q.todo = Tail(o.todo)
    BY <1>2 DEF Doing, Ops
  <2> QED  BY <1>2, <2>1 DEF GoesOn, Doing, PlanIs
<1> QED  BY <1>1, <1>2, ThenPlan

\* A step that failed: a change of the port ends, and a restore goes on only when
\* it could not stop something.
LEMMA FailureGoesOn ==
  ASSUME NEW o, Doing(o), Head(o.todo)[1] \notin {"tell", "close"}, NEW q, q = AfterFailure(o)
  PROVE  /\ GoesOn(o, q)
         /\ q = Idle \/ (q.name = o.name /\ q.name # "idle" /\ q.pw = o.pw)
         /\ o.name = "port" => q = Idle
         /\ q.name = "restore" => Head(o.todo)[1] = "stop"
         /\ o.name = "restore" => Head(o.todo)[1] \in {"stop", "put"}
<1> DEFINE h == Head(o.todo)
           n == o.name
<1>1. Belongs(n, h) /\ h \in Steps
  BY ThisStep
<1>2. o.open <=> h \in Inside
  BY DEF Doing, Planned
<1>3. h # Closing /\ h # Telling
  BY DEF Closing, Telling
<1>8. o.name = "restore" => h[1] \in {"stop", "put"}
  BY <1>1 DEF Belongs, Puts, Stopping
<1>4. CASE o.open
  <2>1. q = [o EXCEPT !.todo = <<Closing>>]
    BY <1>4, On1 DEF AfterFailure, Then, Closing
  <2>2. h \in {Migrating, Setting}
    BY <1>2, <1>3, <1>4 DEF Inside
  <2>3. n # "restore" /\ n # "port"
    BY <1>1, <2>2 DEF Belongs, Puts, Migrating, Setting, Stopping, Porting, Restarting
  <2>4. Belongs(n, Closing)
    BY <2>3 DEF Belongs, Puts, Closing, Stopping, Porting, Restarting, Telling, Setting
  <2>5. <<Closing>> \in Seq(Steps) /\ <<Closing>> # <<>> /\ Chain(n, <<Closing>>)
        /\ LastOf(<<Closing>>) = Closing /\ Head(<<Closing>>) = Closing
    BY <2>4, Run1, StepNames DEF Run, LastOf
  <2>6. q \in Ops /\ q.todo = <<Closing>> /\ q.name = n /\ q.open = o.open /\ q.pw = o.pw
          /\ q.box = o.box
    BY <2>1, <2>5 DEF Doing, Ops
  <2>7. o.pw = 0
    <3>1. h \in Early  BY <2>2, EarlyNames
    <3> QED  BY <3>1 DEF Doing, Planned
  <2>8. Closing \notin NeverLast /\ Closing \in Inside
    BY StepNames DEF NeverLast, Inside
  <2>9. q.open = TRUE
    BY <1>4, <2>6 DEF Ops
  <2>10. Planned(q)
    BY <2>5, <2>6, <2>7, <2>8, <2>9 DEF Planned
  <2>11. GoesOn(o, q)
    BY <2>6, <2>10, <1>4 DEF GoesOn, PlanIs, Doing
  <2> QED  BY <2>3, <2>6, <2>11, <1>8 DEF Doing
<1>5. CASE ~o.open
  <2>1. \/ q = Idle
        \/ /\ q = Then(o, Tail(o.todo))
           /\ \/ h[1] \in {"stop", "start", "enable"} /\ n \in {"install", "uninstall", "restore"}
              \/ h[1] = "stop"
              \/ n = "uninstall" /\ h[2] \notin {"yaml", "db"}
    BY <1>5 DEF AfterFailure
  <2>2. CASE q = Idle
    <3>1. Idle.name = "idle"  BY DEF Idle
    <3>2. GoesOn(o, q)  BY <2>2, IdleGoesOn
    <3>3. q.name # "restore"  BY <2>2, <3>1
    <3> QED  BY <1>8, <2>2, <3>2, <3>3
  <2>3. CASE /\ q = Then(o, Tail(o.todo))
             /\ \/ h[1] \in {"stop", "start", "enable"} /\ n \in {"install", "uninstall", "restore"}
                \/ h[1] = "stop"
                \/ n = "uninstall" /\ h[2] \notin {"yaml", "db"}
    <3>1. h \notin {Opening, Setting, Closing}
      <4>1. h # Opening  BY <2>3 DEF Opening
      <4>2. h \notin {Setting, Closing}  BY <1>2, <1>5 DEF Inside
      <4> QED  BY <4>1, <4>2
    <3>2. GoesOn(o, q) /\ (q = Idle \/ (Doing(q) /\ q.name = n /\ q.pw = o.pw))
      BY <2>3, <3>1, ThenGoesOn
    <3>3. n # "port"
      <4>1. n = "port" => h \in {Porting, Restarting}  BY <1>1 DEF Belongs
      <4> QED  BY <4>1, <2>3 DEF Porting, Restarting
    <3>4. n = "restore" => h[1] = "stop"
      BY <2>3, <1>8
    <3>5. q.name = "restore" => n = "restore"
      BY <3>2 DEF GoesOn
    <3> QED  BY <1>8, <3>2, <3>3, <3>4, <3>5 DEF Doing
  <2> QED  BY <2>1, <2>2, <2>3
<1> QED  BY <1>4, <1>5

-----------------------------------------------------------------------------
(* What keeps the parts of the invariant.                                   *)

\* A step that leaves the database alone and removes no doubt about it.
LEMMA WholeSame ==
  ASSUME Whole, UNCHANGED database, doubt \cap DataDoubts \subseteq doubt', op'.open => op.open,
         panel' = panel \/ ~Up'
  PROVE  Whole' /\ (WalOK => WalOK')
<1>1. log' = log /\ wal' = wal /\ main' = main /\ db' = db /\ want' = want
  BY DEF database
<1>2. View' = View /\ CountIn(log', View') = CountIn(log, View)
        /\ CountIn(log', wal') = CountIn(log, wal)
  BY <1>1 DEF View
<1>3. Sound' => Sound
  BY DEF Sound
<1>4. (Up' => Up) /\ (panel' = "on" => panel = "on")
  BY DEF Up
<1> QED  BY <1>1, <1>2, <1>3, <1>4 DEF Whole, WalOK

\* No backup is a good one.
LEMMA NoBackupOK == ArchiveOK(NoBackup) /\ ArchiveOK(NoBackup)'
<1>1. NoBackup.main = {} /\ NoBackup.had = {} /\ NoBackup.sure = TRUE
  BY DEF NoBackup
<1>2. /\ CountIn(log, {}) = 0 /\ PasswordIn(log, {}) = 0
      /\ CountIn(log', {}) = 0 /\ PasswordIn(log', {}) = 0
  BY NoneYet
<1>3. 0 <= Target /\ 0 \in 0..MaxTx
  BY ParametersOK
<1>4. ArchiveOK(NoBackup)
  BY <1>1, <1>2, <1>3 DEF ArchiveOK
<1>5. ArchiveOK(NoBackup)'
  BY <1>1, <1>2, <1>3 DEF ArchiveOK
<1> QED  BY <1>4, <1>5

\* A step that makes no backup.
LEMMA ArchivesSame ==
  ASSUME Archives, UNCHANGED <<log, archive>>, op'.box \in {op.box, NoBackup}
  PROVE  Archives'
<1>1. ArchiveOK(archive)'
  BY DEF Archives, ArchiveOK
<1>2. CASE op'.box = op.box
  BY <1>1, <1>2 DEF Archives, ArchiveOK
<1>3. CASE op'.box = NoBackup
  <2>1. ArchiveOK(NoBackup)'  BY NoBackupOK
  <2> QED  BY <1>1, <1>3, <2>1 DEF Archives, ArchiveOK
<1> QED  BY <1>2, <1>3

\* A step that leaves the password alone: an operation that ends knowing one that
\* was not told marks the doubt.
LEMMA PasswordsSame ==
  ASSUME Passwords, UNCHANGED <<log, want, told>>,
         op'.pw = op.pw \/ (op' = Idle /\ (op.pw = 0 \/ "password" \in doubt')),
         "password" \in doubt => "password" \in doubt'
  PROVE  Passwords'
<1>1. PasswordIn(log', want') = PasswordIn(log, want)
  OBVIOUS
<1>2. Idle.pw = 0
  BY DEF Idle
<1> QED  BY <1>1, <1>2 DEF Passwords

\* A step that leaves panel.yaml alone.
LEMMA ReadSame ==
  ASSUME ReadOK, UNCHANGED <<yaml, cfg>>, Up' => Up, "stale" \in doubt => "stale" \in doubt',
         op' = op \/ op.name # "port" \/ Head(op.todo) # Restarting
  PROVE  ReadOK'
<1>1. ASSUME Up', "stale" \notin doubt'
      PROVE cfg' = yaml' \/ (op'.name = "port" /\ Head(op'.todo) = Restarting)
  BY <1>1 DEF ReadOK
<1> QED  BY <1>1 DEF ReadOK

\* A step after which no panel runs, or one that is marked stale.
LEMMA ReadAnew ==
  ASSUME ~Up' \/ "stale" \in doubt'
  PROVE  ReadOK'
  BY DEF ReadOK

\* A step that starts no panel.
LEMMA StopsSame ==
  ASSUME StopsFirst, panel = "off" => panel' = "off", "file" \in doubt => "file" \in doubt',
         op' = op \/ (op'.name = "restore" => op.name = "restore" /\ Head(op.todo) # Stopping)
  PROVE  StopsFirst'
  BY DEF StopsFirst

\* A step that leaves the database and the passwords alone.
LEMMA Quiet ==
  ASSUME IInv, Typed', UNCHANGED <<database, archive, told>>,
         op' = op \/ (Doing(op) /\ GoesOn(op, op')),
         op'.pw = op.pw \/ (op' = Idle /\ (op.pw = 0 \/ "password" \in doubt')),
         doubt \cap (DataDoubts \cup {"password"}) \subseteq doubt',
         panel' = panel \/ ~Up',
         ReadOK', StopsFirst'
  PROVE  IInv'
<1> USE DEF IInv
<1>1. log' = log /\ want' = want
  BY DEF database
<1>2. PlanOK' /\ (op'.open => op.open) /\ op'.box \in {op.box, NoBackup}
  <2>1. CASE op' = op
    BY <2>1 DEF PlanOK, Planned
  <2>2. CASE GoesOn(op, op')
    BY <2>2 DEF GoesOn, PlanIs, PlanOK, Planned
  <2> QED  BY <2>1, <2>2
<1>3. Whole' /\ WalOK'
  <2>1. doubt \cap DataDoubts \subseteq doubt'  OBVIOUS
  <2>2. Whole /\ WalOK  OBVIOUS
  <2> HIDE DEF IInv
  <2> QED  BY <1>2, <2>1, <2>2, WholeSame
<1>4. Archives'
  BY <1>1, <1>2, ArchivesSame
<1>5. Passwords'
  <2>1. "password" \in doubt => "password" \in doubt'  OBVIOUS
  <2>2. Passwords  OBVIOUS
  <2> HIDE DEF IInv
  <2> QED  BY <1>1, <2>1, <2>2, PasswordsSame
<1> QED  BY <1>2, <1>3, <1>4, <1>5

-----------------------------------------------------------------------------
(* The steps that leave the database alone.                                 *)

\* The step that an action takes is the operation's next.
LEMMA AtStep ==
  ASSUME IInv, NEW v, NEW x, At(v, x)
  PROVE  Doing(op) /\ Head(op.todo) = <<v, x>> /\ Belongs(op.name, <<v, x>>)
<1>1. Doing(op) /\ Head(op.todo) = <<v, x>>
  BY Busy DEF At, IInv
<1> QED  BY <1>1, ThisStep

\* The steps that are not just done.
Special == {Opening, Setting, Closing, Telling, Restarting, Stopping}

\* The others.
LEMMA ProceedGoesOn ==
  ASSUME IInv, NEW v, NEW x, At(v, x), <<v, x>> \notin Special, Proceed
  PROVE  /\ Doing(op) /\ GoesOn(op, op') /\ op'.pw = op.pw /\ op' \in Ops
         /\ op'.name = "restore" => op.name = "restore" /\ Head(op.todo) # Stopping
         /\ Head(op.todo) # Restarting
<1>1. Doing(op) /\ Head(op.todo) = <<v, x>>
  BY AtStep
<1>2. GoesOn(op, op') /\ op'.pw = op.pw
  BY <1>1, ThenGoesOn DEF Proceed, Special
<1>3. op'.name \in {op.name, "idle"} /\ op' \in Ops
  BY <1>2 DEF GoesOn
<1> QED  BY <1>1, <1>2, <1>3 DEF Special

\* A step that touches neither panel.yaml nor the database.
LEMMA Light ==
  ASSUME IInv, NEW v, NEW x, At(v, x), <<v, x>> \notin Special, Proceed,
         UNCHANGED <<yaml, database, cfg, archive, record>>,
         config' \in BOOLEAN, units' \subseteq Svcs, enabled' \subseteq Svcs,
         xray' \in {"off", "due", "on", "failed"},
         panel' = panel \/ (op.name # "restore" /\ panel' = "due" /\ ~Up)
  PROVE  IInv'
<1>1. /\ Doing(op) /\ GoesOn(op, op') /\ op'.pw = op.pw /\ op' \in Ops
      /\ op'.name = "restore" => op.name = "restore" /\ Head(op.todo) # Stopping
      /\ Head(op.todo) # Restarting
  BY ProceedGoesOn
<1>2. Typed'
  BY <1>1 DEF IInv, Typed, database, record
<1>3. Up' => Up
  BY DEF Up
<1>4. doubt' = doubt /\ told' = told
  BY DEF record
<1>5. ReadOK'
  <2>1. ReadOK  BY DEF IInv
  <2> QED  BY <1>1, <1>3, <1>4, <2>1, ReadSame
<1>6. StopsFirst'
  <2>1. StopsFirst  BY DEF IInv
  <2>2. CASE panel' = panel
    BY <1>1, <1>4, <2>1, <2>2, StopsSame
  <2>3. CASE op.name # "restore"
    BY <1>1, <2>3 DEF StopsFirst
  <2> QED  BY <2>2, <2>3
<1>7. panel' = panel \/ ~Up'
  BY DEF Up
<1>8. doubt \cap (DataDoubts \cup {"password"}) \subseteq doubt'
  BY <1>4
<1> QED  BY <1>1, <1>2, <1>4, <1>5, <1>6, <1>7, <1>8, Quiet

\* Which steps those are.
LEMMA SpecialNames ==
  /\ <<"remove", "config">> \notin Special /\ <<"put", "config">> \notin Special
  /\ <<"stop", "xray">> \notin Special /\ <<"restart", "xray">> \notin Special
  /\ <<"generate", "yaml">> \notin Special /\ <<"remove", "yaml">> \notin Special
  /\ <<"put", "yaml">> \notin Special /\ <<"setPort", "yaml">> \notin Special
  /\ <<"remove", "db">> \notin Special /\ <<"put", "db">> \notin Special
  /\ <<"migrate", "db">> \notin Special
  /\ <<"copy", "yaml">> \notin Special /\ <<"copy", "db">> \notin Special
  /\ <<"copy", "config">> \notin Special /\ <<"rename", "archive">> \notin Special
  /\ \A s \in Svcs, v \in {"unit", "noUnit", "enable", "disable", "start"} : <<v, s>> \notin Special
  BY DEF Special, Opening, Setting, Closing, Telling, Restarting, Stopping, Svcs

\* Unit files, enablement, starting, xray, config.json.
LEMMA LightSteps ==
  ASSUME IInv,
         \/ RemoveXrayState \/ PutConfig \/ StopXray
         \/ \E s \in Svcs : UnitFile(s) \/ Enablement(s) \/ Start(s)
  PROVE  IInv'
<1>0. Typed  BY DEF IInv
<1>1. CASE RemoveXrayState
  <2>1. At("remove", "config") /\ Proceed /\ config' = FALSE
        /\ UNCHANGED <<yaml, database, cfg, archive, record>>
        /\ units' = units /\ enabled' = enabled /\ xray' = xray /\ panel' = panel
    BY <1>1 DEF RemoveXrayState, systemd
  <2>2. units' \subseteq Svcs /\ enabled' \subseteq Svcs /\ xray' \in {"off", "due", "on", "failed"}
    BY <1>0, <2>1 DEF Typed
  <2> QED  BY <2>1, <2>2, SpecialNames, Light
<1>2. CASE PutConfig
  <2>1. At("put", "config") /\ Proceed /\ config' = TRUE
        /\ UNCHANGED <<yaml, database, cfg, archive, record>>
        /\ units' = units /\ enabled' = enabled /\ xray' = xray /\ panel' = panel
    BY <1>2 DEF PutConfig, systemd
  <2>2. units' \subseteq Svcs /\ enabled' \subseteq Svcs /\ xray' \in {"off", "due", "on", "failed"}
    BY <1>0, <2>1 DEF Typed
  <2> QED  BY <2>1, <2>2, SpecialNames, Light
<1>3. CASE StopXray
  <2>1. (At("stop", "xray") \/ At("restart", "xray")) /\ Proceed /\ config' = config
        /\ UNCHANGED <<yaml, database, cfg, archive, record>>
        /\ units' = units /\ enabled' = enabled /\ panel' = panel
    BY <1>3 DEF StopXray
  <2>2. /\ units' \subseteq Svcs /\ enabled' \subseteq Svcs /\ config' \in BOOLEAN
        /\ xray' \in {"off", "due", "on", "failed"}
    BY <1>0, <1>3, <2>1 DEF Typed, StopXray
  <2>3. CASE At("stop", "xray")
    BY <2>1, <2>2, <2>3, SpecialNames, Light
  <2>4. CASE At("restart", "xray")
    BY <2>1, <2>2, <2>4, SpecialNames, Light
  <2> QED  BY <2>1, <2>3, <2>4
<1>4. ASSUME NEW s \in Svcs, UnitFile(s) PROVE IInv'
  <2>1. /\ At("unit", s) \/ At("noUnit", s)
        /\ Proceed /\ config' = config
        /\ UNCHANGED <<yaml, database, cfg, archive, record>>
        /\ enabled' = enabled /\ panel' = panel /\ xray' = xray
    BY <1>4 DEF UnitFile
  <2>2. /\ units' \subseteq Svcs /\ enabled' \subseteq Svcs /\ config' \in BOOLEAN
        /\ xray' \in {"off", "due", "on", "failed"}
    BY <1>0, <1>4, <2>1 DEF Typed, UnitFile
  <2>3. <<"unit", s>> \notin Special /\ <<"noUnit", s>> \notin Special
    BY SpecialNames
  <2>4. CASE At("unit", s)
    BY <2>1, <2>2, <2>3, <2>4, Light
  <2>5. CASE At("noUnit", s)
    BY <2>1, <2>2, <2>3, <2>5, Light
  <2> QED  BY <2>1, <2>4, <2>5
<1>5. ASSUME NEW s \in Svcs, Enablement(s) PROVE IInv'
  <2>1. /\ At("enable", s) \/ At("disable", s)
        /\ Proceed /\ config' = config
        /\ UNCHANGED <<yaml, database, cfg, archive, record>>
        /\ units' = units /\ panel' = panel /\ xray' = xray
    BY <1>5 DEF Enablement
  <2>2. /\ units' \subseteq Svcs /\ enabled' \subseteq Svcs /\ config' \in BOOLEAN
        /\ xray' \in {"off", "due", "on", "failed"}
    BY <1>0, <1>5, <2>1 DEF Typed, Enablement
  <2>3. <<"enable", s>> \notin Special /\ <<"disable", s>> \notin Special
    BY SpecialNames
  <2>4. CASE At("enable", s)
    BY <2>1, <2>2, <2>3, <2>4, Light
  <2>5. CASE At("disable", s)
    BY <2>1, <2>2, <2>3, <2>5, Light
  <2> QED  BY <2>1, <2>4, <2>5
<1>6. ASSUME NEW s \in Svcs, Start(s) PROVE IInv'
  <2>1. /\ At("start", s)
        /\ Proceed /\ config' = config
        /\ UNCHANGED <<yaml, database, cfg, archive, record>>
        /\ units' = units /\ enabled' = enabled
    BY <1>6 DEF Start
  <2>2. /\ units' \subseteq Svcs /\ enabled' \subseteq Svcs /\ config' \in BOOLEAN
        /\ xray' \in {"off", "due", "on", "failed"}
    BY <1>0, <1>6, <2>1 DEF Typed, Start
  <2>3. <<"start", s>> \notin Special
    BY SpecialNames
  <2>4. op.name # "restore"
    <3>1. Belongs(op.name, <<"start", s>>)  BY <2>1, AtStep
    <3> QED  BY <3>1 DEF Belongs, Puts, Stopping
  <2>5. panel' = panel \/ (panel' = "due" /\ ~Up)
    BY <1>6 DEF Start
  <2> QED  BY <2>1, <2>2, <2>3, <2>4, <2>5, Light
<1> QED  BY <1>1, <1>2, <1>3, <1>4, <1>5, <1>6

\* A step that writes panel.yaml.
LEMMA YamlChanges ==
  ASSUME IInv, NEW v, NEW x, At(v, x), <<v, x>> \notin Special, Proceed,
         UNCHANGED <<database, config, systemd, archive, told, spent>>,
         yaml' \in Yamls, doubt' = doubt \cup Stale
  PROVE  IInv'
<1>1. /\ Doing(op) /\ GoesOn(op, op') /\ op'.pw = op.pw /\ op' \in Ops
      /\ op'.name = "restore" => op.name = "restore" /\ Head(op.todo) # Stopping
  BY ProceedGoesOn
<1>2. Typed'
  BY <1>1 DEF IInv, Typed, database, systemd, Stale
<1>3. panel' = panel
  BY DEF systemd
<1>5. ReadOK'
  <2>1. Up' => "stale" \in doubt'
    BY <1>3 DEF Up, Stale
  <2> QED  BY <2>1, ReadAnew
<1>6. StopsFirst'
  <2>1. StopsFirst  BY DEF IInv
  <2> QED  BY <1>1, <1>3, <2>1, StopsSame
<1> QED  BY <1>1, <1>2, <1>3, <1>5, <1>6, Quiet

\* NewDefault's file, its removal and its restoration mark a running panel stale; a
\* change of the port is followed by the restart.
LEMMA YamlSteps ==
  ASSUME IInv, WriteYaml \/ RemoveYaml \/ PutYaml
  PROVE  IInv'
<1>0. Typed  BY DEF IInv
<1>1. CASE WriteYaml /\ At("generate", "yaml")
  <2>1. ~At("setPort", "yaml")
    BY <1>1 DEF At
  <2>2. yaml' = [gen |-> spent, port |-> op.port] /\ doubt' = doubt \cup Stale /\ Proceed
        /\ UNCHANGED <<database, config, systemd, archive, told, spent>>
    BY <1>1, <2>1 DEF WriteYaml
  <2>3. spent \in -1..MaxSpent /\ op.port \in PanelPorts \cup {0}
    BY <1>0, ParametersOK DEF Typed, Ops
  <2>4. yaml' \in Yamls
    BY <2>2, <2>3 DEF Yamls
  <2> QED  BY <1>1, <2>2, <2>4, SpecialNames, YamlChanges
<1>2. CASE RemoveYaml
  <2>1. yaml' \in Yamls
    BY <1>2, IdleFits DEF RemoveYaml
  <2> QED  BY <1>2, <2>1, SpecialNames, YamlChanges DEF RemoveYaml
<1>3. CASE PutYaml
  <2>1. yaml' \in Yamls
    BY <1>0, <1>3 DEF PutYaml, Typed, Boxes
  <2> QED  BY <1>3, <2>1, SpecialNames, YamlChanges DEF PutYaml
<1>4. CASE WriteYaml /\ At("setPort", "yaml")
  <2>1. ~At("generate", "yaml")
    BY <1>4 DEF At
  <2>2. yaml' = [yaml EXCEPT !.port = op.port] /\ doubt' = doubt /\ Proceed /\ At("setPort", "yaml")
        /\ UNCHANGED <<database, config, systemd, archive, told, spent>>
    BY <1>4, <2>1 DEF WriteYaml
  <2>3. /\ Doing(op) /\ GoesOn(op, op') /\ op'.pw = op.pw /\ op' \in Ops
        /\ op'.name = "restore" => op.name = "restore" /\ Head(op.todo) # Stopping
    BY <2>2, ProceedGoesOn, SpecialNames
  <2>4. op.port \in PanelPorts \cup {0} /\ yaml \in Yamls
    BY <1>0 DEF Typed, Ops
  <2>5. yaml' \in Yamls
    BY <2>2, <2>4 DEF Yamls
  <2>6. Typed'
    BY <1>0, <2>2, <2>3, <2>5 DEF Typed, database, systemd
  <2>7. panel' = panel
    BY <2>2 DEF systemd
  <2>8. op'.name = "port" /\ Head(op'.todo) = Restarting
    <3>1. Head(op.todo) = Porting /\ Belongs(op.name, Porting)
      BY <2>2, AtStep DEF Porting
    <3>2. op.name = "port"
      BY <3>1 DEF Belongs
    <3>3. op' = Then(op, Tail(op.todo))
      BY <2>2 DEF Proceed
    <3>4. LastOf(op.todo) # Porting
      BY <2>3 DEF Doing, Planned, NeverLast
    <3>5. Porting \notin {Opening, Setting, Closing}
      BY StepNames
    <3>6. Tail(op.todo) # <<>> /\ op' = [op EXCEPT !.todo = Tail(op.todo)] /\ Doing(op')
      <4>1. \/ op' = Idle /\ Tail(op.todo) = <<>> /\ LastOf(op.todo) = Head(op.todo)
            \/ Doing(op') /\ op' = [op EXCEPT !.todo = Tail(op.todo)] /\ Tail(op.todo) # <<>>
        BY <2>3, <3>1, <3>3, <3>5, ThenPlan
      <4> QED  BY <3>1, <3>4, <4>1
    <3>7. Links("port", Porting, Head(Tail(op.todo)))
      BY <2>3, <3>1, <3>2, <3>6, NextStep
    <3>8. op'.name = "port" /\ op'.todo = Tail(op.todo)
      BY <2>3, <3>2, <3>6 DEF Doing, Ops
    <3> QED  BY <3>7, <3>8 DEF Links
  <2>9. ReadOK'
    BY <2>8 DEF ReadOK
  <2>10. StopsFirst'
    <3>1. StopsFirst  BY DEF IInv
    <3> QED  BY <2>2, <2>3, <2>7, <3>1, StopsSame
  <2> QED  BY <2>2, <2>3, <2>6, <2>7, <2>9, <2>10, Quiet
<1> QED  BY <1>1, <1>2, <1>3, <1>4 DEF WriteYaml

-----------------------------------------------------------------------------
(* Steps that fail, and operations that end before their time.              *)

\* A step that may leave a restored database in pieces, and says so.
LEMMA Broken ==
  ASSUME IInv, Typed', UNCHANGED <<db, wal, log, want, archive, told>>,
         main' = main \/ ~Sound',
         op' = op \/ (Doing(op) /\ GoesOn(op, op')),
         op'.pw = op.pw \/ (op' = Idle /\ (op.pw = 0 \/ "password" \in doubt')),
         doubt \subseteq doubt',
         panel' = panel \/ ~Up',
         ReadOK', StopsFirst'
  PROVE  IInv'
<1>1. CASE main' = main
  <2>1. UNCHANGED database  BY <1>1 DEF database
  <2>2. doubt \cap (DataDoubts \cup {"password"}) \subseteq doubt'  OBVIOUS
  <2> QED  BY <2>1, <2>2, Quiet
<1>2. CASE ~Sound'
  <2>1. PlanOK' /\ op'.box \in {op.box, NoBackup}
    <3>1. CASE op' = op
      BY <3>1 DEF PlanOK, Planned, IInv
    <3>2. CASE GoesOn(op, op')
      BY <3>2 DEF GoesOn, PlanIs, PlanOK, Planned
    <3> QED  BY <3>1, <3>2
  <2>2. WalOK /\ Archives /\ Passwords  BY DEF IInv
  <2>3. WalOK'
    BY <2>2 DEF WalOK
  <2>4. Whole'
    BY <1>2 DEF Whole
  <2>5. Archives'
    BY <2>1, <2>2, ArchivesSame
  <2>6. Passwords'
    BY <2>2, PasswordsSame
  <2> QED  BY <2>1, <2>3, <2>4, <2>5, <2>6 DEF IInv
<1> QED  BY <1>1, <1>2

\* What a failure at each step leaves open.
LEMMA DoubtsFacts ==
  /\ Doubts(op) \subseteq DataDoubts \cup {"stale", "password"}
  /\ op.pw # 0 => "password" \in Doubts(op)
  /\ Head(op.todo)[1] = "restart" => Stale \subseteq Doubts(op)
  /\ Head(op.todo) = <<"put", "yaml">> => Stale \subseteq Doubts(op)
  /\ Head(op.todo) = <<"put", "db">> => "partly" \in Doubts(op)
<1> DEFINE verb == Head(op.todo)[1]
           object == Head(op.todo)[2]
           d1 == IF op.pw # 0 THEN {"password"} ELSE {}
           d2 == IF verb = "restart" \/ (verb \in {"put", "remove"} /\ object = "yaml") THEN Stale
                ELSE {}
           d3 == IF verb = "put" /\ object = "db" THEN {"partly"} ELSE {}
<1>1. Doubts(op) = d1 \cup d2 \cup d3
  BY DEF Doubts
<1>2. Stale \subseteq {"stale"}
  BY DEF Stale
<1> HIDE DEF verb, object
<1>3. d1 \cup d2 \cup d3 \subseteq DataDoubts \cup {"stale", "password"}
  BY <1>2 DEF DataDoubts
<1>4. Head(op.todo) = <<"put", "yaml">> => verb = "put" /\ object = "yaml"
  BY DEF verb, object
<1>5. Head(op.todo) = <<"put", "db">> => verb = "put" /\ object = "db"
  BY DEF verb, object
<1>6. op.pw # 0 => "password" \in d1
  OBVIOUS
<1>7. (verb = "restart" \/ (verb = "put" /\ object = "yaml")) => Stale \subseteq d2
  OBVIOUS
<1>8. (verb = "put" /\ object = "db") => "partly" \in d3
  OBVIOUS
<1> HIDE DEF d1, d2, d3
<1> QED  BY <1>1, <1>3, <1>4, <1>5, <1>6, <1>7, <1>8 DEF verb

\* What a restore that is cut short leaves.
LEMMA CutLeaves ==
  ASSUME IInv, CutShort, Doing(op),
         Head(op.todo) \in Puts => Doubts(op) \subseteq doubt'
  PROVE  /\ yaml' \in Yamls /\ config' \in BOOLEAN /\ main' \subseteq DOMAIN log
         /\ main' = main \/ ~Sound'
         /\ yaml' = yaml \/ ~Up \/ "stale" \in doubt'
<1>0. yaml \in Yamls /\ config \in BOOLEAN /\ main \subseteq DOMAIN log
        /\ archive.main \subseteq DOMAIN log
  BY DEF IInv, Typed, Archives, ArchiveOK
<1>1. CASE UNCHANGED <<yaml, main, config>>
  BY <1>0, <1>1
<1>2. CASE At("put", "yaml") /\ yaml' = Missing /\ UNCHANGED <<main, config>>
  <2>1. Head(op.todo) = <<"put", "yaml">>
    BY <1>2 DEF At
  <2>2. Stale \subseteq doubt'
    <3>1. Head(op.todo) \in Puts  BY <2>1 DEF Puts
    <3> QED  BY <2>1, <3>1, DoubtsFacts
  <2> QED  BY <1>0, <1>2, <2>2, IdleFits DEF Stale
<1>3. CASE At("put", "db") /\ main' \in SUBSET archive.main /\ UNCHANGED <<yaml, config>>
  <2>1. Head(op.todo) = <<"put", "db">>
    BY <1>3 DEF At
  <2>2. "partly" \in doubt'
    <3>1. Head(op.todo) \in Puts  BY <2>1 DEF Puts
    <3> QED  BY <2>1, <3>1, DoubtsFacts
  <2>3. ~Sound'
    BY <2>2 DEF Sound, DataDoubts
  <2> QED  BY <1>0, <1>3, <2>3
<1>4. CASE At("put", "config") /\ config' = FALSE /\ UNCHANGED <<yaml, main>>
  BY <1>0, <1>4
<1> QED  BY <1>1, <1>2, <1>3, <1>4 DEF CutShort

\* The menu dies.
LEMMA CrashKeeps ==
  ASSUME IInv, Crash
  PROVE  IInv'
<1>1. op # Idle /\ CutShort /\ op' = Idle /\ doubt' = doubt \cup Doubts(op)
      /\ UNCHANGED <<db, wal, log, want, systemd, archive, told>> /\ spent' \in 0..MaxSpent
  BY ParametersOK DEF Crash, Spend, IInv, Typed
<1>2. Doing(op)
  BY <1>1 DEF Doing, IInv, Typed, PlanOK
<1>3. /\ yaml' \in Yamls /\ config' \in BOOLEAN /\ main' \subseteq DOMAIN log
      /\ main' = main \/ ~Sound'
      /\ yaml' = yaml \/ ~Up \/ "stale" \in doubt'
  BY <1>1, <1>2, CutLeaves
<1>4. Typed'
  <2>1. doubt' \subseteq DataDoubts \cup {"stale", "password"}
    BY <1>1, DoubtsFacts DEF IInv, Typed
  <2> QED  BY <1>1, <1>3, <2>1, IdleFits DEF IInv, Typed, systemd
<1>5. panel' = panel /\ cfg' = cfg
  BY <1>1 DEF systemd
<1>6. ReadOK'
  <2>1. CASE ~Up \/ "stale" \in doubt'
    BY <1>5, <2>1, ReadAnew DEF Up
  <2>2. CASE Up /\ "stale" \notin doubt'
    <3>1. Head(op.todo)[1] # "restart"
      BY <1>1, <2>2, DoubtsFacts DEF Stale
    <3>2. Head(op.todo) # Restarting
      BY <3>1 DEF Restarting
    <3>3. ReadOK  BY DEF IInv
    <3>4. yaml' = yaml  BY <1>3, <2>2
    <3> QED  BY <1>1, <1>5, <2>2, <3>2, <3>3, <3>4, ReadSame DEF Up
  <2> QED  BY <2>1, <2>2
<1>7. op'.name = "idle" /\ op'.pw = 0
  BY <1>1 DEF Idle
<1>8. StopsFirst'
  BY <1>7 DEF StopsFirst
<1>9. op.pw = 0 \/ "password" \in doubt'
  BY <1>1, DoubtsFacts
<1>10. GoesOn(op, op')
  BY <1>1, <1>2, IdleGoesOn
<1> QED  BY <1>1, <1>2, <1>3, <1>4, <1>5, <1>6, <1>8, <1>9, <1>10, Broken

\* The machine does.
LEMMA RebootKeeps ==
  ASSUME IInv, Reboot
  PROVE  IInv'
<1>1. /\ CutShort /\ op' = Idle /\ doubt' = doubt \cup (IF op = Idle THEN {} ELSE Doubts(op))
      /\ UNCHANGED <<db, wal, log, want, units, enabled, archive, told>> /\ spent' \in 0..MaxSpent
      /\ cfg' = Missing /\ panel' \in {"due", "off"} /\ xray' \in {"due", "off"}
  BY ParametersOK DEF Reboot, Spend, IInv, Typed
<1>2. ~Up'
  BY <1>1 DEF Up
<1>3. /\ yaml' \in Yamls /\ config' \in BOOLEAN /\ main' \subseteq DOMAIN log
      /\ main' = main \/ ~Sound'
      /\ op.pw = 0 \/ "password" \in doubt'
      /\ op' = op \/ (Doing(op) /\ GoesOn(op, op'))
      /\ doubt' \subseteq DataDoubts \cup {"stale", "password"}
  <2>1. CASE op = Idle
    <3>1. op.todo = <<>> /\ op.pw = 0
      BY <2>1 DEF Idle
    <3>2. UNCHANGED <<yaml, main, config>>
      BY <1>1, <3>1 DEF CutShort, At
    <3> QED  BY <1>1, <2>1, <3>1, <3>2 DEF IInv, Typed
  <2>2. CASE op # Idle
    <3>1. Doing(op)
      BY <2>2 DEF Doing, IInv, Typed, PlanOK
    <3>2. Doubts(op) \subseteq doubt' /\ doubt' = doubt \cup Doubts(op)
      BY <1>1, <2>2
    <3>3. /\ yaml' \in Yamls /\ config' \in BOOLEAN /\ main' \subseteq DOMAIN log
          /\ main' = main \/ ~Sound'
      BY <1>1, <3>1, <3>2, CutLeaves
    <3>4. GoesOn(op, op')
      BY <1>1, <3>1, IdleGoesOn
    <3>5. doubt' \subseteq DataDoubts \cup {"stale", "password"}
            /\ (op.pw = 0 \/ "password" \in doubt')
      BY <3>2, DoubtsFacts DEF IInv, Typed
    <3> QED  BY <3>1, <3>3, <3>4, <3>5
  <2> QED  BY <2>1, <2>2
<1>4. Typed'
  BY <1>1, <1>3, IdleFits DEF IInv, Typed
<1>5. ReadOK'
  BY <1>2, ReadAnew
<1>6. StopsFirst'
  <2>1. op'.name = "idle"  BY <1>1 DEF Idle
  <2> QED  BY <2>1 DEF StopsFirst
<1>7. doubt \subseteq doubt'
  BY <1>1
<1> QED  BY <1>1, <1>2, <1>3, <1>4, <1>5, <1>6, <1>7, Broken

\* A step fails, and the operation ends, closes the database first, or ignores it.
LEMMA StepFailsKeeps ==
  ASSUME IInv, StepFails
  PROVE  IInv'
<1> DEFINE h == Head(op.todo)
<1>1. /\ op.todo # <<>> /\ h[1] \notin {"tell", "close"} /\ CutShort /\ op' = AfterFailure(op)
      /\ doubt' = doubt \cup (IF op'.name = op.name /\ ~op.open THEN {} ELSE Doubts(op))
                        \cup (IF At("stop", "panel") /\ op.name = "restore" THEN {"file"} ELSE {})
      /\ UNCHANGED <<db, wal, log, want, systemd, archive, told>> /\ spent' \in 0..MaxSpent
  BY ParametersOK DEF StepFails, Spend, IInv, Typed
<1>2. Doing(op)
  BY <1>1, Busy DEF IInv
<1>3. /\ GoesOn(op, op')
      /\ op' = Idle \/ (op'.name = op.name /\ op'.name # "idle" /\ op'.pw = op.pw)
      /\ op.name = "port" => op' = Idle
      /\ op'.name = "restore" => h[1] = "stop"
      /\ op.name = "restore" => h[1] \in {"stop", "put"}
  BY <1>1, <1>2, FailureGoesOn
<1>4. op' = Idle => Doubts(op) \subseteq doubt'
  <2>1. op' = Idle => op'.name # op.name
    BY <1>2 DEF Idle, Doing
  <2> QED  BY <1>1, <2>1
<1>5. h \in Puts => op' = Idle
  <2>1. h \in Puts => op.name = "restore"
    <3>1. Belongs(op.name, h)  BY <1>2, ThisStep
    <3> QED  BY <3>1 DEF Belongs
  <2>2. h \in Puts => h[1] # "stop"
    BY DEF Puts
  <2> QED  BY <1>3, <2>1, <2>2
<1>6. /\ yaml' \in Yamls /\ config' \in BOOLEAN /\ main' \subseteq DOMAIN log
      /\ main' = main \/ ~Sound'
      /\ yaml' = yaml \/ ~Up \/ "stale" \in doubt'
  <2>1. h \in Puts => Doubts(op) \subseteq doubt'  BY <1>4, <1>5
  <2> QED  BY <1>1, <1>2, <2>1, CutLeaves
<1>7. panel' = panel /\ cfg' = cfg /\ units' = units /\ enabled' = enabled /\ xray' = xray
  BY <1>1 DEF systemd
<1>8. doubt \subseteq doubt' /\ doubt' \subseteq DataDoubts \cup {"stale", "password"}
  <2>1. doubt \subseteq DataDoubts \cup {"stale", "password"}  BY DEF IInv, Typed
  <2> HIDE DEF IInv
  <2> QED  BY <1>1, <2>1, DoubtsFacts DEF DataDoubts
<1>9. Typed'
  <2>1. op' \in Ops  BY <1>3 DEF GoesOn
  <2> QED  BY <1>1, <1>6, <1>7, <1>8, <2>1 DEF IInv, Typed
<1>10. ReadOK'
  <2>1. CASE ~Up \/ "stale" \in doubt'
    BY <1>7, <2>1, ReadAnew DEF Up
  <2>2. CASE Up /\ "stale" \notin doubt'
    <3>2. op.name # "port" \/ Head(op.todo) # Restarting
      <4>1. ASSUME op.name = "port", Head(op.todo) = Restarting PROVE FALSE
        <5>1. Doubts(op) \subseteq doubt'  BY <1>3, <1>4, <4>1
        <5>2. Head(op.todo)[1] = "restart"  BY <4>1 DEF Restarting
        <5>3. Stale \subseteq doubt'  BY <5>1, <5>2, DoubtsFacts
        <5> QED  BY <2>2, <5>3 DEF Stale
      <4> QED  BY <4>1
    <3>3. ReadOK  BY DEF IInv
    <3>4. yaml' = yaml  BY <1>6, <2>2
    <3>5. "stale" \in doubt => "stale" \in doubt'  BY <1>8
    <3> QED  BY <1>7, <2>2, <3>2, <3>3, <3>4, <3>5, ReadSame DEF Up
  <2> QED  BY <2>1, <2>2
<1>11. StopsFirst'
  <2>1. StopsFirst /\ ("file" \in doubt => "file" \in doubt')  BY <1>8 DEF IInv
  <2>2. op'.name = "restore" => op.name = "restore"
    BY <1>3, <1>2 DEF GoesOn
  <2>3. CASE Head(op.todo) = Stopping /\ op.name = "restore"
    <3>1. At("stop", "panel")  BY <1>1, <2>3 DEF At, Stopping
    <3>2. "file" \in doubt'  BY <1>1, <2>3, <3>1
    <3> QED  BY <3>2 DEF StopsFirst
  <2>4. CASE Head(op.todo) # Stopping \/ op.name # "restore"
    BY <1>7, <2>1, <2>2, <2>4, StopsSame
  <2> QED  BY <2>3, <2>4
<1>12. op'.pw = op.pw \/ (op' = Idle /\ (op.pw = 0 \/ "password" \in doubt'))
  <2>1. op.pw # 0 => "password" \in Doubts(op)  BY DoubtsFacts
  <2> QED  BY <1>3, <1>4, <2>1
<1> QED  BY <1>1, <1>2, <1>3, <1>6, <1>7, <1>8, <1>9, <1>10, <1>11, <1>12, Broken

\* A step that cannot succeed.
LEMMA RefusedKeeps ==
  ASSUME IInv, Refused
  PROVE  IInv'
<1> DEFINE h == Head(op.todo)
<1>1. /\ op' = AfterFailure(op)
      /\ doubt' = doubt \cup (IF op' = Idle THEN Doubts(op) ELSE {})
      /\ UNCHANGED <<yaml, database, config, systemd, archive, told, spent>>
  BY DEF Refused
<1>13. op.todo # <<>> /\ h[1] \in {"enable", "disable", "start", "restart", "setPort"}
  BY DEF Refused, At
<1>14. h[1] \notin {"tell", "close"} /\ h[1] \notin {"stop", "put"}
  BY <1>13
<1>2. Doing(op)
  BY <1>13, Busy DEF IInv
<1>3. /\ GoesOn(op, op')
      /\ op' = Idle \/ (op'.name = op.name /\ op'.name # "idle" /\ op'.pw = op.pw)
      /\ op.name = "port" => op' = Idle
      /\ op'.name = "restore" => h[1] = "stop"
  BY <1>1, <1>2, <1>14, FailureGoesOn
<1>7. panel' = panel /\ cfg' = cfg /\ units' = units /\ enabled' = enabled /\ xray' = xray
  BY <1>1 DEF systemd
<1>8. doubt \subseteq doubt' /\ doubt' \subseteq DataDoubts \cup {"stale", "password"}
  <2>1. doubt \subseteq DataDoubts \cup {"stale", "password"}  BY DEF IInv, Typed
  <2> HIDE DEF IInv
  <2> QED  BY <1>1, <2>1, DoubtsFacts DEF DataDoubts
<1>9. Typed'
  <2>1. op' \in Ops  BY <1>3 DEF GoesOn
  <2> QED  BY <1>1, <1>7, <1>8, <2>1 DEF IInv, Typed, database
<1>10. ReadOK'
  <2>1. CASE op.name = "port" /\ Head(op.todo) = Restarting
    <3>1. Doubts(op) \subseteq doubt'  BY <1>1, <1>3, <2>1
    <3>2. Head(op.todo)[1] = "restart"  BY <2>1 DEF Restarting
    <3>3. Stale \subseteq doubt'  BY <3>1, <3>2, DoubtsFacts
    <3> QED  BY <1>7, <3>3, ReadAnew DEF Stale, Up
  <2>2. CASE op.name # "port" \/ Head(op.todo) # Restarting
    <3>3. ReadOK  BY DEF IInv
    <3>4. yaml' = yaml  BY <1>1
    <3>5. "stale" \in doubt => "stale" \in doubt'  BY <1>8
    <3> QED  BY <1>7, <2>2, <3>3, <3>4, <3>5, ReadSame DEF Up
  <2> QED  BY <2>1, <2>2
<1>11. StopsFirst'
  BY <1>3, <1>14 DEF StopsFirst
<1>12. op'.pw = op.pw \/ (op' = Idle /\ (op.pw = 0 \/ "password" \in doubt'))
  <2>1. op.pw # 0 => "password" \in Doubts(op)  BY DoubtsFacts
  <2> QED  BY <1>1, <1>3, <2>1
<1> QED  BY <1>1, <1>2, <1>3, <1>7, <1>8, <1>9, <1>10, <1>11, <1>12, Quiet

-----------------------------------------------------------------------------
(* What begins, and what happens without the database.                      *)

\* An operation begins.
LEMMA BeginKeeps ==
  ASSUME IInv, NEW n \in Names \ {"idle"}, NEW port \in PanelPorts \cup {0}, NEW todo,
         Begins(n, todo), Begin(n, port, todo)
  PROVE  IInv'
<1>1. /\ op = Idle /\ op' = [Idle EXCEPT !.name = n, !.port = port, !.todo = todo]
      /\ UNCHANGED <<yaml, database, config, systemd, archive, told, doubt>>
      /\ spent' \in 0..MaxSpent
  BY ParametersOK DEF Begin, Spend, IInv, Typed
<1>2. op' \in Ops /\ op'.name = n /\ op'.todo = todo /\ op'.pw = 0 /\ op'.open = FALSE
      /\ op'.box = NoBackup
  <2>1. todo \in Seq(Steps)  BY DEF Begins
  <2> QED  BY <1>1, <2>1, IdleFits DEF Idle, Ops
<1>3. Typed'
  BY <1>1, <1>2 DEF IInv, Typed, database, systemd
<1>4. PlanOK'
  <2>1. todo # <<>> /\ Chain(n, todo) /\ LastOf(todo) \notin NeverLast /\ todo[1] \notin Inside
        /\ (n \in Secret => todo[1] \in Early /\ LastOf(todo) = Telling)
    BY DEF Begins
  <2>2. Head(todo) = todo[1]
    BY DEF Begins
  <2>3. Planned(op')
    BY <1>2, <2>1, <2>2 DEF Planned
  <2> QED  BY <1>2, <2>3 DEF PlanOK, Planned
<1>5. op.name = "idle" /\ op.pw = 0 /\ op.box = NoBackup /\ op.open = FALSE
  BY <1>1 DEF Idle
<1>6. panel' = panel /\ cfg' = cfg /\ log' = log /\ want' = want
  BY <1>1 DEF systemd, database
<1>7. Whole' /\ WalOK'
  <2>1. Whole /\ WalOK  BY DEF IInv
  <2> QED  BY <1>1, <1>2, <1>6, <2>1, WholeSame
<1>8. Archives'
  <2>1. Archives  BY DEF IInv
  <2> QED  BY <1>1, <1>2, <1>6, <2>1, ArchivesSame
<1>9. Passwords'
  <2>1. Passwords  BY DEF IInv
  <2> QED  BY <1>1, <1>2, <1>5, <1>6, <2>1, PasswordsSame
<1>10. ReadOK'
  <2>1. ReadOK  BY DEF IInv
  <2> QED  BY <1>1, <1>5, <1>6, <2>1, ReadSame DEF Up
<1>11. StopsFirst'
  <2>1. n = "restore" => Head(todo) = Stopping
    BY DEF Begins
  <2> QED  BY <1>2, <2>1 DEF StopsFirst
<1> QED  BY <1>3, <1>4, <1>7, <1>8, <1>9, <1>10, <1>11 DEF IInv

\* Every operation begins as it should.
LEMMA OperationKeeps ==
  ASSUME IInv, Operation
  PROVE  IInv'
<1>0. /\ 0 \in PanelPorts \cup {0} /\ PanelPorts \subseteq PanelPorts \cup {0}
      /\ {"install", "uninstall", "password", "show", "port", "restart", "enable", "disable",
          "backup", "restore"} \subseteq Names \ {"idle"}
  BY DEF Names
<1>1. CASE InstallPanel
  <2>1. PICK port \in PanelPorts, keep \in BOOLEAN : Begin("install", port, Install(keep))
    BY <1>1 DEF InstallPanel
  <2>2. Begins("install", Install(keep))  BY InstallBegins
  <2> QED  BY <1>0, <2>1, <2>2, BeginKeeps
<1>2. CASE UninstallPanel
  <2>1. PICK wipe \in BOOLEAN : Begin("uninstall", 0, Uninstall(wipe))
    BY <1>2 DEF UninstallPanel
  <2>2. Begins("uninstall", Uninstall(wipe))  BY UninstallBegins
  <2> QED  BY <1>0, <2>1, <2>2, BeginKeeps
<1>3. CASE Begin("password", 0, ResetAdminPassword)
  BY <1>0, <1>3, PasswordBegins, BeginKeeps
<1>4. CASE Begin("show", 0, ShowInfo)
  BY <1>0, <1>4, ShowBegins, BeginKeeps
<1>5. ASSUME NEW port \in PanelPorts, Begin("port", port, ChangePort) PROVE IInv'
  BY <1>0, <1>5, PortBegins, BeginKeeps
<1>6. CASE Begin("restart", 0, RestartBoth)
  BY <1>0, <1>6, ControlBegins, BeginKeeps
<1>7. CASE Begin("enable", 0, EnableBoth)
  BY <1>0, <1>7, ControlBegins, BeginKeeps
<1>8. CASE Begin("disable", 0, DisableBoth)
  BY <1>0, <1>8, ControlBegins, BeginKeeps
<1>9. CASE BackUp
  BY <1>0, <1>9, BackupBegins, BeginKeeps DEF BackUp
<1>10. CASE RestoreBackup
  <2>1. archive \in Boxes  BY DEF IInv, Typed
  <2>2. Begins("restore", Restore(archive))  BY <2>1, RestoreBegins
  <2>3. Begin("restore", 0, Restore(archive))  BY <1>10 DEF RestoreBackup
  <2> QED  BY <1>0, <2>2, <2>3, BeginKeeps
<1> QED  BY <1>1, <1>2, <1>3, <1>4, <1>5, <1>6, <1>7, <1>8, <1>9, <1>10
         DEF Operation, Reconfigure, Control

\* A panel without a panel.yaml, a panel that dies, xray.
LEMMA WorldQuiet ==
  ASSUME IInv, BootFails \/ PanelDies \/ XrayComes
  PROVE  IInv'
<1>1. /\ UNCHANGED <<yaml, database, config, units, enabled, archive, op, told, doubt>>
      /\ panel' \in {"off", "due", "opening", "on", "failed"}
           /\ xray' \in {"off", "due", "on", "failed"}
      /\ cfg' \in Yamls /\ spent' \in 0..MaxSpent
  BY ParametersOK, IdleFits DEF BootFails, PanelDies, XrayComes, record, Spend, IInv, Typed
<1>2. (panel' = panel /\ cfg' = cfg) \/ ~Up'
  BY DEF BootFails, PanelDies, XrayComes, Up
<1>3. panel = "off" => panel' = "off"
  BY DEF BootFails, PanelDies, XrayComes, Up
<1>4. Typed'
  BY <1>1 DEF IInv, Typed, database
<1>5. ReadOK'
  <2>1. ReadOK  BY DEF IInv
  <2>2. CASE ~Up'
    BY <2>2, ReadAnew
  <2>3. CASE panel' = panel /\ cfg' = cfg
    BY <1>1, <2>1, <2>3, ReadSame DEF Up
  <2> QED  BY <1>2, <2>2, <2>3
<1>6. StopsFirst'
  <2>1. StopsFirst  BY DEF IInv
  <2> QED  BY <1>1, <1>3, <2>1, StopsSame
<1>7. op' = op /\ op'.pw = op.pw /\ (panel' = panel \/ ~Up')
  BY <1>1, <1>2
<1>8. doubt \cap (DataDoubts \cup {"password"}) \subseteq doubt'
        /\ UNCHANGED <<database, archive, told>>
  BY <1>1
<1> QED  BY <1>4, <1>5, <1>6, <1>7, <1>8, Quiet

-----------------------------------------------------------------------------
(* The steps on the database.                                               *)

\* Whoever is connected has a database, and it is whole.
LEMMA HasDb ==
  ASSUME IInv, Sound, Up \/ op.open
  PROVE  db /\ View = want /\ CountIn(log, View) <= Target
  BY DEF IInv, Whole

\* The transactions that are found are some of the log's.
LEMMA Subsets ==
  ASSUME IInv
  PROVE  /\ View \in SUBSET DOMAIN log /\ wal \in SUBSET DOMAIN log /\ want \in SUBSET DOMAIN log
         /\ main \in SUBSET DOMAIN log /\ wal \subseteq View
         /\ CountIn(log, View) \in Nat /\ CountIn(log, wal) \in Nat
              /\ CountIn(log, wal) <= CountIn(log, View)
         /\ Version = CountIn(log, View)
<1>1. log \in Seq(Kinds)  BY DEF IInv, Typed, Kinds
<1>2. DOMAIN log = 1..Len(log) /\ Len(log) \in Nat  BY <1>1
<1>3. /\ View \in SUBSET DOMAIN log /\ wal \in SUBSET DOMAIN log /\ want \in SUBSET DOMAIN log
      /\ main \in SUBSET DOMAIN log /\ wal \subseteq View
  BY DEF IInv, Typed, View
<1>4. CountIn(log, View) \in Nat /\ CountIn(log, wal) \in Nat
  BY <1>2, <1>3, CountFinite
<1>5. CountIn(log, wal) <= CountIn(log, View)
  BY <1>2, <1>3, CountMore
<1>6. Version = CountIn(log, View)
  BY DEF Version, Of, CountIn
<1> QED  BY <1>3, <1>4, <1>5, <1>6

\* A transaction of whoever is connected.  A migration is only done when one is
\* missing.
LEMMA CommitKeeps ==
  ASSUME IInv, NEW kind \in Kinds, Commit(kind), kind = "schema" => Version < Target,
         Up \/ op.open, UNCHANGED <<panel, archive, doubt>>, op'.box = op.box
  PROVE  /\ WalOK' /\ Whole' /\ Archives'
         /\ log' \in Seq(Kinds) /\ Len(log') <= MaxTx /\ Len(log') \in 1..MaxTx
         /\ main' \subseteq DOMAIN log' /\ wal' \subseteq DOMAIN log' /\ want' \subseteq DOMAIN log'
         /\ db' \in BOOLEAN
         /\ PasswordIn(log', want') = IF kind = "password" THEN Len(log') ELSE PasswordIn(log, want)
<1> DEFINE n == Len(log')
<1>1. Typed  BY DEF IInv
<1>2. /\ log' \in Seq(Kinds) /\ n <= MaxTx /\ n \in 1..MaxTx
      /\ DOMAIN log \subseteq DOMAIN log' /\ n \in DOMAIN log' /\ n \notin DOMAIN log
      /\ wal' = wal \cup {n} /\ want' = want \cup {n} /\ main' = main /\ db' = db
      /\ View' = View \cup {n}
  BY <1>1, CommitDoes
<1>3. ASSUME NEW txs \in SUBSET DOMAIN log
      PROVE  /\ CountIn(log', txs) = CountIn(log, txs)
             /\ PasswordIn(log', txs) = PasswordIn(log, txs)
             /\ CountIn(log, txs) \in Nat
             /\ CountIn(log', txs \cup {n}) = CountIn(log, txs) + IF kind = "schema" THEN 1 ELSE 0
             /\ PasswordIn(log', txs \cup {n}) = IF kind = "password" THEN n
                  ELSE PasswordIn(log, txs)
  BY <1>1, CommitDoes
<1> HIDE DEF n
<1>4. /\ View \in SUBSET DOMAIN log /\ wal \in SUBSET DOMAIN log /\ want \in SUBSET DOMAIN log
      /\ main \in SUBSET DOMAIN log
      /\ CountIn(log, wal) <= CountIn(log, View) /\ Version = CountIn(log, View)
  BY Subsets
<1>5. /\ CountIn(log', wal') = CountIn(log, wal) + IF kind = "schema" THEN 1 ELSE 0
      /\ CountIn(log, wal) \in Nat /\ CountIn(log, View) \in Nat
      /\ CountIn(log', View') = CountIn(log, View) + IF kind = "schema" THEN 1 ELSE 0
      /\ PasswordIn(log', want') = IF kind = "password" THEN n ELSE PasswordIn(log, want)
  BY <1>2, <1>3, <1>4
<1>6. WalOK'
  <2>1. CountIn(log, wal) <= Target /\ Target \in Nat  BY ParametersOK DEF IInv, WalOK
  <2>2. kind = "schema" => CountIn(log, wal) + 1 <= Target
    BY <1>4, <1>5, <2>1
  <2> QED  BY <1>5, <2>1, <2>2 DEF WalOK
<1>7. Whole'
  <2>1. SUFFICES ASSUME Sound
        PROVE  /\ db' /\ View' = want' /\ CountIn(log', View') <= Target
               /\ panel' = "on" => CountIn(log', View') = Target
    BY DEF Whole, Sound
  <2>2. db /\ View = want /\ CountIn(log, View) <= Target
    BY <2>1, HasDb
  <2>3. panel = "on" => CountIn(log, View) = Target
    BY <2>1 DEF IInv, Whole
  <2>4. CountIn(log', View') <= Target
    BY <1>4, <1>5, <2>2, ParametersOK
  <2>5. panel' = "on" => CountIn(log', View') = Target
    <3>1. panel = "on" => kind # "schema"
      BY <1>4, <1>5, <2>3, ParametersOK
    <3> QED  BY <1>5, <2>3, <3>1
  <2> QED  BY <1>2, <2>2, <2>4, <2>5
<1>8. Archives'
  <2>1. ASSUME NEW a, ArchiveOK(a)
        PROVE  /\ a.main \subseteq DOMAIN log' /\ a.had \subseteq DOMAIN log'
               /\ a.sure => a.main = a.had /\ CountIn(log', a.main) <= Target
               /\ PasswordIn(log', a.had) \in 0..MaxTx
    <3>1. a.main \in SUBSET DOMAIN log /\ a.had \in SUBSET DOMAIN log
      BY <2>1 DEF ArchiveOK
    <3>2. CountIn(log', a.main) = CountIn(log, a.main)
            /\ PasswordIn(log', a.had) = PasswordIn(log, a.had)
      BY <1>3, <3>1
    <3> QED  BY <1>2, <2>1, <3>2 DEF ArchiveOK
  <2>2. ArchiveOK(archive) /\ ArchiveOK(op.box)
    BY DEF IInv, Archives
  <2>3. ArchiveOK(archive)'
    BY <2>1, <2>2 DEF ArchiveOK
  <2>4. ArchiveOK(op.box)'
    BY <2>1, <2>2 DEF ArchiveOK
  <2> QED  BY <2>3, <2>4 DEF Archives
<1>9. main' \subseteq DOMAIN log' /\ wal' \subseteq DOMAIN log' /\ want' \subseteq DOMAIN log'
        /\ db' \in BOOLEAN
  <2>1. db \in BOOLEAN  BY <1>1 DEF Typed
  <2> QED  BY <1>2, <1>4, <2>1
<1> QED  BY <1>2, <1>5, <1>6, <1>7, <1>8, <1>9 DEF n

\* A transaction of somebody who goes on as before.
LEMMA CommitAside ==
  ASSUME IInv, NEW kind \in {"schema", "row"}, Commit(kind), kind = "schema" => Version < Target,
         Up \/ op.open,
         UNCHANGED <<yaml, units, enabled, panel, cfg, archive, op, told, doubt, spent>>,
         config' \in BOOLEAN, xray' \in {"off", "due", "on", "failed"}
  PROVE  IInv'
<1>0. kind \in Kinds  BY DEF Kinds
<1>1. /\ WalOK' /\ Whole' /\ Archives'
      /\ log' \in Seq(Kinds) /\ Len(log') <= MaxTx
      /\ main' \subseteq DOMAIN log' /\ wal' \subseteq DOMAIN log' /\ want' \subseteq DOMAIN log'
      /\ db' \in BOOLEAN
      /\ PasswordIn(log', want') = PasswordIn(log, want)
  BY <1>0, CommitKeeps
<1>2. Typed'
  BY <1>1 DEF IInv, Typed, Kinds
<1>3. PlanOK'
  BY DEF IInv, PlanOK, Planned
<1>4. Passwords'
  BY <1>1 DEF IInv, Passwords
<1>5. ReadOK' /\ StopsFirst'
  BY DEF IInv, ReadOK, StopsFirst, Up
<1> QED  BY <1>1, <1>2, <1>3, <1>4, <1>5 DEF IInv

\* A request.
LEMMA RequestKeeps ==
  ASSUME IInv, Request \/ Reload
  PROVE  IInv'
<1>1. Up  BY DEF Request, Reload, Up
<1>2. Commit("row") /\ UNCHANGED <<yaml, units, enabled, panel, cfg, archive, op, told, doubt,
        spent>>
      /\ config' \in BOOLEAN /\ xray' \in {"off", "due", "on", "failed"}
  BY DEF Request, Reload, systemd, record, IInv, Typed
<1> QED  BY <1>1, <1>2, CommitAside

\* The panel migrates the schema, then serves.
LEMMA ServeKeeps ==
  ASSUME IInv, Serve
  PROVE  IInv'
<1>1. panel = "opening" /\ Up
      /\ UNCHANGED <<yaml, config, units, enabled, cfg, xray, archive, op, told, doubt, spent>>
  BY DEF Serve, record, Up
<1>2. CASE Version < Target
  <2>1. Commit("schema") /\ panel' = panel
    BY <1>2 DEF Serve
  <2>2. config' \in BOOLEAN /\ xray' \in {"off", "due", "on", "failed"}
    BY <1>1 DEF IInv, Typed
  <2> QED  BY <1>1, <1>2, <2>1, <2>2, CommitAside
<1>3. CASE ~(Version < Target)
  <2>1. panel' = "on" /\ UNCHANGED database
    BY <1>3 DEF Serve
  <2>2. Typed' /\ PlanOK' /\ WalOK' /\ Archives' /\ Passwords' /\ StopsFirst'
    <3>1. Typed'  BY <1>1, <2>1 DEF IInv, Typed, database
    <3>2. PlanOK'  BY <1>1 DEF IInv, PlanOK, Planned
    <3>3. WalOK' /\ Archives' /\ Passwords'
      BY <1>1, <2>1 DEF IInv, WalOK, Archives, ArchiveOK, Passwords, database
    <3>4. StopsFirst'  BY <1>1 DEF IInv, StopsFirst
    <3> QED  BY <3>1, <3>2, <3>3, <3>4
  <2>3. ReadOK'
    BY <1>1, <2>1 DEF IInv, ReadOK, Up
  <2>4. Whole'
    <3>1. SUFFICES ASSUME Sound
          PROVE  /\ db' /\ View' = want' /\ CountIn(log', View') = Target
      <4>1. Target <= Target  BY ParametersOK
      <4> QED  BY <1>1, <4>1 DEF Whole, Sound
    <3>2. db /\ View = want /\ CountIn(log, View) <= Target
      BY <1>1, <3>1, HasDb
    <3>3. CountIn(log, View) = Target
      BY <1>3, <3>2, Subsets, ParametersOK
    <3> QED  BY <2>1, <3>2, <3>3 DEF database, View
  <2> QED  BY <2>2, <2>3, <2>4 DEF IInv
<1> QED  BY <1>2, <1>3

\* An operation migrates the schema, then goes on.
LEMMA MigrateKeeps ==
  ASSUME IInv, MigrateDb
  PROVE  IInv'
<1>1. At("migrate", "db") /\ Migrate /\ UNCHANGED <<yaml, config, systemd, archive, record>>
  BY DEF MigrateDb
<1>2. Doing(op) /\ Head(op.todo) = Migrating
  BY <1>1, AtStep DEF Migrating
<1>3. CASE Version < Target /\ Commit("schema") /\ UNCHANGED op
  <2>1. op.open
    BY <1>2 DEF Doing, Planned, Inside
  <2>2. UNCHANGED <<yaml, units, enabled, panel, cfg, archive, op, told, doubt, spent>>
        /\ config' \in BOOLEAN /\ xray' \in {"off", "due", "on", "failed"}
    BY <1>1, <1>3 DEF systemd, record, IInv, Typed
  <2> QED  BY <1>3, <2>1, <2>2, CommitAside
<1>4. CASE Proceed /\ UNCHANGED database
  <2>1. config' \in BOOLEAN /\ units' \subseteq Svcs /\ enabled' \subseteq Svcs
        /\ xray' \in {"off", "due", "on", "failed"} /\ panel' = panel
        /\ UNCHANGED <<yaml, database, cfg, archive, record>>
    BY <1>1, <1>4 DEF systemd, IInv, Typed
  <2> QED  BY <1>1, <1>4, <2>1, SpecialNames, Light
<1> QED  BY <1>1, <1>3, <1>4 DEF Migrate

\* From here on the operation knows the password.
LEMMA SetPasswordKeeps ==
  ASSUME IInv, SetAdminPassword
  PROVE  IInv'
<1> DEFINE n == Len(log')
<1>1. At("password", "db") /\ Commit("password")
      /\ op' = [op EXCEPT !.todo = Tail(op.todo), !.pw = n]
      /\ UNCHANGED <<yaml, config, systemd, archive, record>>
  BY DEF SetAdminPassword
<1>2. Doing(op) /\ Head(op.todo) = Setting
  BY <1>1, AtStep DEF Setting
<1>3. UNCHANGED <<yaml, config, units, enabled, panel, cfg, xray, archive, told, doubt, spent>>
  BY <1>1 DEF systemd, record
<1>4. op.open = TRUE /\ Setting \in Inside
  BY <1>2 DEF Doing, Planned, Inside, Ops
<1>5. op'.box = op.box
  BY <1>1, <1>2 DEF Doing, Ops
<1>6. /\ WalOK' /\ Whole' /\ Archives'
      /\ log' \in Seq(Kinds) /\ Len(log') <= MaxTx /\ n \in 1..MaxTx
      /\ main' \subseteq DOMAIN log' /\ wal' \subseteq DOMAIN log' /\ want' \subseteq DOMAIN log'
      /\ db' \in BOOLEAN
      /\ PasswordIn(log', want') = n
  <2>1. "password" \in Kinds  BY DEF Kinds
  <2> QED  BY <1>1, <1>3, <1>4, <1>5, <2>1, CommitKeeps
<1> HIDE DEF n
<1>7. /\ Doing(op') /\ op'.name = op.name /\ op'.pw = n /\ op.name \in Secret
  <2>1. op' = PasswordSet(op, n) /\ n \in 1..MaxTx  BY <1>1, <1>6 DEF PasswordSet
  <2> QED  BY <1>2, <2>1, SetPlan
<1>8. Typed'
  BY <1>3, <1>6, <1>7 DEF IInv, Typed, Kinds, Doing
<1>9. PlanOK'
  BY <1>7 DEF Doing, PlanOK, Planned
<1>10. Passwords'
  <2>1. n # 0 /\ n \in 0..MaxTx  BY <1>6, ParametersOK
  <2> QED  BY <1>6, <1>7, <2>1 DEF Passwords
<1>11. ReadOK'
  <2>1. ReadOK /\ Head(op.todo) # Restarting  BY <1>2, StepNames DEF IInv
  <2> QED  BY <1>3, <2>1, ReadSame DEF Up
<1>12. StopsFirst'
  <2>1. StopsFirst /\ op'.name # "restore"  BY <1>7 DEF IInv, Secret
  <2> QED  BY <2>1 DEF StopsFirst
<1> QED  BY <1>6, <1>8, <1>9, <1>10, <1>11, <1>12 DEF IInv

\* Opening recovers the log, or deletes one beside an empty database.
LEMMA OpenKeeps ==
  ASSUME IInv, OpenFile, Sound' => Sound, panel' = panel \/ panel' = "opening"
  PROVE  /\ WalOK' /\ Whole'
         /\ db' \in BOOLEAN /\ wal' \subseteq DOMAIN log' /\ UNCHANGED <<main, log, want>>
<1>1. db' = TRUE /\ wal' = (IF db THEN wal ELSE {}) /\ UNCHANGED <<main, log, want>>
  BY DEF OpenFile
<1>2. wal \subseteq DOMAIN log /\ CountIn(log, wal) <= Target
  BY DEF IInv, Typed, WalOK
<1>3. CountIn(log, {}) = 0 /\ 0 <= Target
  BY NoneYet, ParametersOK
<1>4. WalOK'
  BY <1>1, <1>2, <1>3 DEF WalOK
<1>5. Whole'
  <2>1. SUFFICES ASSUME Sound
        PROVE  /\ View' = want' /\ CountIn(log', View') <= Target
               /\ panel' = "on" => CountIn(log', View') = Target
    BY <1>1 DEF Whole
  <2>2. CASE db
    <3>1. View' = View /\ View = want  BY <1>1, <2>1, <2>2 DEF View, IInv, Whole
    <3> QED  BY <1>1, <2>1, <3>1 DEF IInv, Whole
  <2>3. CASE ~db
    <3>1. main = {} /\ want = {} /\ ~Up  BY <2>1, <2>3 DEF IInv, Whole
    <3>2. View' = {}  BY <1>1, <2>3, <3>1 DEF View
    <3>3. panel' # "on"  BY <3>1 DEF Up
    <3> QED  BY <1>1, <1>3, <3>1, <3>2, <3>3
  <2> QED  BY <2>2, <2>3
<1> QED  BY <1>1, <1>2, <1>4, <1>5

\* Closing moves the log over, or leaves it to who is still connected.
LEMMA CloseKeeps ==
  ASSUME IInv, NEW last \in BOOLEAN, Close(last), Up \/ op.open, doubt' = doubt, op'.open
         => op.open,
         panel' = panel \/ ~Up'
  PROVE  /\ WalOK' /\ Whole'
         /\ main' \subseteq DOMAIN log' /\ wal' \subseteq DOMAIN log' /\ UNCHANGED <<db, log, want>>
<1>1. /\ main' = (IF last THEN View ELSE main) /\ wal' = (IF last THEN {} ELSE wal)
      /\ UNCHANGED <<db, log, want>>
  BY DEF Close
<1>2. wal \subseteq DOMAIN log /\ main \subseteq DOMAIN log /\ View \subseteq DOMAIN log
      /\ CountIn(log, wal) <= Target
  BY DEF IInv, Typed, WalOK, View
<1>3. CountIn(log, {}) = 0 /\ 0 <= Target
  BY NoneYet, ParametersOK
<1>4. WalOK'
  BY <1>1, <1>2, <1>3 DEF WalOK
<1>6. View' = View
  BY <1>1 DEF View
<1>5. Whole'
  <2>1. SUFFICES ASSUME Sound
        PROVE  /\ db' /\ View' = want' /\ CountIn(log', View') <= Target
               /\ panel' = "on" => CountIn(log', View') = Target
    BY DEF Whole, Sound
  <2>2. db /\ View = want /\ CountIn(log, View) <= Target
    BY <2>1, HasDb
  <2>3. panel' = "on" => panel = "on"
    BY DEF Up
  <2>4. panel = "on" => CountIn(log, View) = Target
    BY <2>1 DEF IInv, Whole
  <2> QED  BY <1>1, <1>6, <2>2, <2>3, <2>4
<1> QED  BY <1>1, <1>2, <1>4, <1>5

\* An operation opens the database.
LEMMA OpenDbKeeps ==
  ASSUME IInv, OpenDb
  PROVE  IInv'
<1>1. At("open", "db") /\ op' = Opened(op) /\ OpenFile
      /\ UNCHANGED <<yaml, config, units, enabled, panel, cfg, xray, archive, told, doubt, spent>>
  BY DEF OpenDb, Opened, systemd, record
<1>2. Doing(op) /\ Head(op.todo) = Opening
  BY <1>1, AtStep DEF Opening
<1>3. Doing(op') /\ op'.name = op.name /\ op'.pw = 0 /\ op.pw = 0 /\ op'.box = op.box
      /\ Head(op'.todo) = Migrating
  BY <1>1, <1>2, OpenPlan
<1>4. /\ WalOK' /\ Whole' /\ db' \in BOOLEAN /\ wal' \subseteq DOMAIN log'
           /\ UNCHANGED <<main, log, want>>
  <2>1. Sound' => Sound  BY <1>1 DEF Sound
  <2> QED  BY <1>1, <2>1, OpenKeeps
<1>5. Typed'
  BY <1>1, <1>3, <1>4 DEF IInv, Typed, Doing
<1>6. PlanOK'
  BY <1>3 DEF Doing, PlanOK, Planned
<1>7. Archives'
  <2>1. Archives  BY DEF IInv
  <2> QED  BY <1>1, <1>3, <1>4, <2>1, ArchivesSame
<1>8. Passwords'
  <2>1. Passwords  BY DEF IInv
  <2> QED  BY <1>1, <1>3, <1>4, <2>1, PasswordsSame
<1>9. ReadOK'
  <2>1. ReadOK /\ Head(op.todo) # Restarting  BY <1>2, StepNames DEF IInv
  <2> QED  BY <1>1, <2>1, ReadSame DEF Up
<1>10. StopsFirst'
  <2>1. StopsFirst /\ Head(op.todo) # Stopping  BY <1>2, StepNames DEF IInv
  <2> QED  BY <1>1, <1>3, <2>1, StopsSame
<1> QED  BY <1>4, <1>5, <1>6, <1>7, <1>8, <1>9, <1>10 DEF IInv

\* The panel starts: it reads panel.yaml, then opens the database.
LEMMA BootKeeps ==
  ASSUME IInv, Boot
  PROVE  IInv'
<1>1. panel = "due" /\ panel' = "opening" /\ cfg' = yaml /\ OpenFile /\ doubt' = doubt \ {"stale"}
      /\ UNCHANGED <<yaml, config, units, enabled, xray, archive, op, told, spent>>
  BY DEF Boot
<1>4. /\ WalOK' /\ Whole' /\ db' \in BOOLEAN /\ wal' \subseteq DOMAIN log'
           /\ UNCHANGED <<main, log, want>>
  <2>1. Sound' => Sound  BY <1>1 DEF Sound, DataDoubts
  <2> QED  BY <1>1, <2>1, OpenKeeps
<1>5. Typed'
  BY <1>1, <1>4 DEF IInv, Typed
<1>6. PlanOK'
  BY <1>1 DEF IInv, PlanOK, Planned
<1>7. Archives'
  <2>1. Archives  BY DEF IInv
  <2> QED  BY <1>1, <1>4, <2>1, ArchivesSame
<1>8. Passwords'
  <2>1. Passwords /\ ("password" \in doubt => "password" \in doubt')  BY <1>1 DEF IInv
  <2> QED  BY <1>1, <1>4, <2>1, PasswordsSame
<1>9. ReadOK'
  BY <1>1 DEF ReadOK
<1>10. StopsFirst'
  <2>1. StopsFirst  BY DEF IInv
  <2> QED  BY <1>1, <2>1 DEF StopsFirst
<1> QED  BY <1>4, <1>5, <1>6, <1>7, <1>8, <1>9, <1>10 DEF IInv

\* The log is moved over.
LEMMA CheckpointKeeps ==
  ASSUME IInv, Checkpoint
  PROVE  IInv'
<1>1. (Up \/ op.open) /\ Close(TRUE)
      /\ UNCHANGED <<yaml, config, units, enabled, panel, cfg, xray, archive, op, told, doubt,
           spent>>
  BY DEF Checkpoint, Connected, systemd, record
<1>4. /\ WalOK' /\ Whole' /\ main' \subseteq DOMAIN log' /\ wal' \subseteq DOMAIN log'
      /\ UNCHANGED <<db, log, want>>
  BY <1>1, CloseKeeps
<1>5. Typed'
  BY <1>1, <1>4 DEF IInv, Typed
<1>6. PlanOK' /\ ReadOK' /\ StopsFirst'
  BY <1>1 DEF IInv, PlanOK, Planned, ReadOK, StopsFirst, Up
<1>7. Archives' /\ Passwords'
  BY <1>1, <1>4 DEF IInv, Archives, ArchiveOK, Passwords
<1> QED  BY <1>4, <1>5, <1>6, <1>7 DEF IInv

\* An operation closes the database.
LEMMA CloseDbKeeps ==
  ASSUME IInv, CloseDb
  PROVE  IInv'
<1>1. At("close", "db") /\ op' = Then(Closed(op), Tail(op.todo)) /\ Close(~Up)
      /\ UNCHANGED <<yaml, config, units, enabled, panel, cfg, xray, archive, told, doubt, spent>>
  BY DEF CloseDb, Closed, systemd, record
<1>2. Doing(op) /\ Head(op.todo) = Closing
  BY <1>1, AtStep DEF Closing
<1>3. /\ op.open
      /\ \/ op' = Idle /\ op.pw = 0
         \/ /\ Doing(op') /\ op'.name = op.name /\ op'.pw = op.pw /\ ~op'.open /\ op'.box = op.box
            /\ Head(op'.todo) # Stopping
  BY <1>1, <1>2, ClosePlan
<1>9. Idle.open = FALSE /\ Idle.pw = 0 /\ Idle.name = "idle" /\ Idle.box = NoBackup
  BY DEF Idle
<1>10. /\ op' \in Ops /\ PlanOK' /\ ~op'.open /\ op'.pw = op.pw /\ op'.box \in {op.box, NoBackup}
       /\ op'.name \in {op.name, "idle"}
  <2>1. CASE op' = Idle /\ op.pw = 0
    BY <1>9, <2>1, IdleFits DEF PlanOK, PlanIs
  <2>2. CASE Doing(op') /\ op'.name = op.name /\ op'.pw = op.pw /\ ~op'.open /\ op'.box = op.box
    BY <2>2 DEF Doing, PlanOK, Planned
  <2> QED  BY <1>3, <2>1, <2>2
<1>4. /\ WalOK' /\ Whole' /\ main' \subseteq DOMAIN log' /\ wal' \subseteq DOMAIN log'
      /\ UNCHANGED <<db, log, want>>
  <2>1. (~Up) \in BOOLEAN  OBVIOUS
  <2> QED  BY <1>1, <1>3, <1>10, <2>1, CloseKeeps
<1>5. Typed'
  BY <1>1, <1>4, <1>10 DEF IInv, Typed
<1>7. Archives'
  <2>1. Archives  BY DEF IInv
  <2> QED  BY <1>1, <1>4, <1>10, <2>1, ArchivesSame
<1>8. Passwords'
  <2>1. Passwords  BY DEF IInv
  <2> QED  BY <1>1, <1>4, <1>10, <2>1, PasswordsSame
<1>11. ReadOK'
  <2>1. ReadOK /\ Head(op.todo) # Restarting  BY <1>2, StepNames DEF IInv
  <2> QED  BY <1>1, <2>1, ReadSame DEF Up
<1>12. StopsFirst'
  <2>1. StopsFirst /\ Head(op.todo) # Stopping  BY <1>2, StepNames DEF IInv
  <2> QED  BY <1>1, <1>10, <2>1, StopsSame
<1> QED  BY <1>4, <1>5, <1>7, <1>8, <1>10, <1>11, <1>12 DEF IInv

\* The password is printed.
LEMMA TellKeeps ==
  ASSUME IInv, Tell
  PROVE  IInv'
<1>1. At("tell", "password") /\ op' = Then(op, Tail(op.todo)) /\ told' = op.pw
      /\ doubt' = doubt \ {"password"}
      /\ UNCHANGED <<yaml, database, config, units, enabled, panel, cfg, xray, archive, spent>>
  BY DEF Tell, Proceed, systemd
<1>2. Doing(op) /\ Head(op.todo) = Telling /\ Belongs(op.name, Telling)
  BY <1>1, AtStep DEF Telling
<1>3. GoesOn(op, op') /\ (op' = Idle \/ op'.pw = op.pw)
  BY <1>1, <1>2, ThenGoesOn, StepNames
<1>4. op.pw # 0 /\ op.name # "restore"
  <2>1. op.todo # <<Closing>>  BY <1>2, StepNames
  <2>2. op.name \in Secret  BY <1>2 DEF Belongs
  <2> QED  BY <1>2, <2>1, <2>2, EarlyNames DEF Doing, Planned, Secret
<1>5. op' \in Ops /\ PlanOK' /\ (op'.open => op.open) /\ op'.box \in {op.box, NoBackup}
      /\ op'.name \in {op.name, "idle"}
  BY <1>3 DEF GoesOn, PlanIs, PlanOK, Planned
<1>6. UNCHANGED database /\ doubt \cap DataDoubts \subseteq doubt' /\ log' = log /\ want' = want
  BY <1>1 DEF DataDoubts, database
<1>7. Typed'
  <2>1. op.pw \in 0..MaxTx  BY <1>2 DEF Doing, Ops
  <2> QED  BY <1>1, <1>5, <2>1 DEF IInv, Typed, database
<1>8. Whole' /\ WalOK'
  <2>1. Whole /\ WalOK  BY DEF IInv
  <2> QED  BY <1>1, <1>5, <1>6, <2>1, WholeSame
<1>9. Archives'
  <2>1. Archives  BY DEF IInv
  <2> QED  BY <1>1, <1>5, <1>6, <2>1, ArchivesSame
<1>10. Passwords'
  <2>1. op.pw = PasswordIn(log, want) /\ PasswordIn(log, want) \in 0..MaxTx
    BY <1>4 DEF IInv, Passwords
  <2>2. Idle.pw = 0  BY DEF Idle
  <2> QED  BY <1>1, <1>3, <1>6, <2>1, <2>2 DEF Passwords
<1>11. ReadOK'
  <2>1. ReadOK /\ Head(op.todo) # Restarting  BY <1>2, StepNames DEF IInv
  <2> QED  BY <1>1, <2>1, ReadSame DEF Up
<1>12. StopsFirst'
  BY <1>4, <1>5 DEF StopsFirst
<1> QED  BY <1>5, <1>7, <1>8, <1>9, <1>10, <1>11, <1>12 DEF IInv

\* The panel is stopped, or restarted.
LEMMA StopPanelKeeps ==
  ASSUME IInv, StopPanel
  PROVE  IInv'
<1>1. /\ At("stop", "panel") \/ At("restart", "panel")
      /\ op' = Then(op, Tail(op.todo)) /\ cfg' = Missing
      /\ panel' = IF At("stop", "panel") THEN "off" ELSE "due"
      /\ IF Up THEN Close(~op.open) ELSE UNCHANGED database
      /\ UNCHANGED <<yaml, config, units, enabled, xray, archive, told, doubt, spent>>
  BY DEF StopPanel, Proceed, record
<1>2. Doing(op) /\ Head(op.todo) \in {Stopping, Restarting} /\ Belongs(op.name, Head(op.todo))
      /\ (Head(op.todo) = Stopping => At("stop", "panel"))
  <2>1. CASE At("stop", "panel")
    <3>1. Doing(op) /\ Head(op.todo) = Stopping /\ Belongs(op.name, Stopping)
      BY <2>1, AtStep DEF Stopping
    <3> QED  BY <2>1, <3>1
  <2>2. CASE At("restart", "panel")
    <3>1. Doing(op) /\ Head(op.todo) = Restarting /\ Belongs(op.name, Restarting)
      BY <2>2, AtStep DEF Restarting
    <3> QED  BY <3>1, StepNames
  <2> QED  BY <1>1, <2>1, <2>2
<1>3. GoesOn(op, op') /\ op'.pw = op.pw
  BY <1>1, <1>2, ThenGoesOn, StepNames
<1>4. ~Up' /\ panel' \in {"off", "due"}
  BY <1>1 DEF Up
<1>5. op' \in Ops /\ PlanOK' /\ (op'.open => op.open) /\ op'.box \in {op.box, NoBackup}
      /\ op'.name \in {op.name, "idle"}
  BY <1>3 DEF GoesOn, PlanIs, PlanOK, Planned
<1>6. op'.name = "restore" => panel' = "off"
  <2>1. op'.name = "restore" => op.name = "restore"  BY <1>5
  <2>2. Belongs("restore", Restarting) => FALSE
    BY StepNames DEF Belongs, Puts, Restarting
  <2> QED  BY <1>1, <1>2, <2>1, <2>2
<1>11. ReadOK' /\ StopsFirst'
  BY <1>4, <1>6, ReadAnew DEF StopsFirst
<1>7. CASE ~Up
  <2>1. UNCHANGED <<database, archive, told>> /\ doubt' = doubt  BY <1>1, <1>7
  <2>2. Typed'
    BY <1>1, <1>4, <1>5, <2>1, IdleFits DEF IInv, Typed, database
  <2>3. doubt \cap (DataDoubts \cup {"password"}) \subseteq doubt'  BY <2>1
  <2> QED  BY <1>2, <1>3, <1>4, <1>11, <2>1, <2>2, <2>3, Quiet
<1>8. CASE Up
  <2>1. Close(~op.open) /\ (~op.open) \in BOOLEAN  BY <1>1, <1>8
  <2>2. /\ WalOK' /\ Whole' /\ main' \subseteq DOMAIN log' /\ wal' \subseteq DOMAIN log'
        /\ UNCHANGED <<db, log, want>>
    BY <1>1, <1>4, <1>5, <1>8, <2>1, CloseKeeps
  <2>3. Typed'
    BY <1>1, <1>4, <1>5, <2>2, IdleFits DEF IInv, Typed
  <2>4. Archives'
    <3>1. Archives  BY DEF IInv
    <3> QED  BY <1>1, <1>5, <2>2, <3>1, ArchivesSame
  <2>5. Passwords'
    <3>1. Passwords  BY DEF IInv
    <3> QED  BY <1>1, <1>3, <2>2, <3>1, PasswordsSame
  <2> QED  BY <1>5, <1>11, <2>2, <2>3, <2>4, <2>5 DEF IInv
<1> QED  BY <1>7, <1>8

\* The database is removed; a log that stays is no harm to the next one.
LEMMA RemoveDbKeeps ==
  ASSUME IInv, RemoveDb
  PROVE  IInv'
<1>1. At("remove", "db") /\ Proceed /\ db' = FALSE /\ main' = {} /\ want' = {} /\ told' = 0
      /\ doubt' = (doubt \ {"log", "partly", "live", "password"}) \cup UnderPanel
      /\ UNCHANGED <<yaml, wal, log, config, units, enabled, panel, cfg, xray, archive, spent>>
  BY DEF RemoveDb, systemd
<1>2. /\ Doing(op) /\ GoesOn(op, op') /\ op'.pw = op.pw /\ op' \in Ops
      /\ op'.name = "restore" => op.name = "restore" /\ Head(op.todo) # Stopping
      /\ Head(op.todo) # Restarting
  BY <1>1, ProceedGoesOn, SpecialNames
<1>3. PlanOK' /\ (op'.open => op.open) /\ op'.box \in {op.box, NoBackup}
  BY <1>2 DEF GoesOn, PlanIs, PlanOK, Planned
<1>4. Head(op.todo) = <<"remove", "db">>
  BY <1>1 DEF At
<1>5. op.pw = 0 /\ ~op.open
  <2>1. <<"remove", "db">> \in Early /\ <<"remove", "db">> \notin Inside
    BY DEF Early, Inside, Migrating, Setting, Closing
  <2>2. op.todo # <<Closing>>
    BY <1>4 DEF Closing
  <2> QED  BY <1>2, <1>4, <2>1, <2>2 DEF Doing, Planned
<1>6. UnderPanel \subseteq {"file"} /\ (Up => UnderPanel = {"file"})
  BY DEF UnderPanel
<1>7. Typed'
  <2>1. 0 \in 0..MaxTx  BY ParametersOK
  <2>2. doubt' \subseteq DataDoubts \cup {"stale", "password"}
    BY <1>1, <1>6 DEF IInv, Typed, DataDoubts
  <2> QED  BY <1>1, <1>2, <2>1, <2>2 DEF IInv, Typed
<1>8. WalOK'
  BY <1>1 DEF IInv, WalOK
<1>9. Whole'
  <2>1. SUFFICES ASSUME Sound'
        PROVE  CountIn(log', View') <= Target /\ ~Up' /\ ~op'.open /\ main' = {} /\ want' = {}
             /\ ~db'
    BY DEF Whole, Up
  <2>2. "file" \notin doubt'
    BY <2>1 DEF Sound, DataDoubts
  <2>3. ~Up
    BY <1>1, <1>6, <2>2
  <2>4. View' = wal /\ CountIn(log, wal) <= Target
    BY <1>1 DEF View, IInv, WalOK
  <2> QED  BY <1>1, <1>3, <1>5, <2>3, <2>4 DEF Up
<1>10. Archives'
  <2>1. Archives  BY DEF IInv
  <2> QED  BY <1>1, <1>3, <2>1, ArchivesSame
<1>11. Passwords'
  <2>1. PasswordIn(log', want') = 0 /\ 0 \in 0..MaxTx
    BY <1>1, NoneYet, ParametersOK
  <2> QED  BY <1>1, <1>2, <1>5, <2>1 DEF Passwords
<1>12. ReadOK'
  <2>1. ReadOK /\ ("stale" \in doubt => "stale" \in doubt')  BY <1>1 DEF IInv
  <2> QED  BY <1>1, <1>2, <2>1, ReadSame DEF Up
<1>13. StopsFirst'
  <2>1. StopsFirst /\ ("file" \in doubt => "file" \in doubt')  BY <1>1 DEF IInv
  <2> QED  BY <1>1, <1>2, <2>1, StopsSame
<1> QED  BY <1>3, <1>7, <1>8, <1>9, <1>10, <1>11, <1>12, <1>13 DEF IInv

\* The database is put back, over nobody's feet.
LEMMA PutDbKeeps ==
  ASSUME IInv, PutDb
  PROVE  IInv'
<1> DEFINE d2 == IF wal # {} /\ ~Up THEN {"log"} ELSE {}
           d3 == IF archive.sure THEN {} ELSE {"live"}
<1>1. At("put", "db") /\ Proceed /\ db' = TRUE /\ main' = archive.main /\ want' = archive.had
      /\ told' = Password(archive.had)
      /\ doubt' = (doubt \ {"log", "partly", "live", "password"}) \cup d2 \cup d3
      /\ UNCHANGED <<yaml, wal, log, config, units, enabled, panel, cfg, xray, archive, spent>>
  BY DEF PutDb, systemd
<1>2. /\ Doing(op) /\ GoesOn(op, op') /\ op'.pw = op.pw /\ op' \in Ops
      /\ op'.name = "restore" => op.name = "restore" /\ Head(op.todo) # Stopping
      /\ Head(op.todo) # Restarting
  BY <1>1, ProceedGoesOn, SpecialNames
<1>3. PlanOK' /\ (op'.open => op.open) /\ op'.box \in {op.box, NoBackup}
  BY <1>2 DEF GoesOn, PlanIs, PlanOK, Planned
<1>4. Head(op.todo) = <<"put", "db">> /\ op.name = "restore"
  <2>1. Head(op.todo) = <<"put", "db">> /\ Belongs(op.name, <<"put", "db">>)
    BY <1>1, AtStep
  <2> QED  BY <2>1 DEF Belongs, Puts
<1>5. op.pw = 0
  BY <1>2, <1>4 DEF Doing, Planned, Secret
<1>6. d2 \subseteq {"log"} /\ d3 \subseteq {"live"} /\ (archive.sure \/ "live" \in d3)
      /\ (wal = {} \/ Up \/ "log" \in d2)
  OBVIOUS
<1> HIDE DEF d2, d3
<1>14. panel = "off" \/ "file" \in doubt
  <2>1. Head(op.todo) # Stopping  BY <1>4 DEF Stopping
  <2> QED  BY <1>4, <2>1 DEF IInv, StopsFirst
<1>15. /\ archive.main \subseteq DOMAIN log /\ archive.had \subseteq DOMAIN log
       /\ archive.sure => archive.main = archive.had /\ CountIn(log, archive.main) <= Target
       /\ PasswordIn(log, archive.had) \in 0..MaxTx
  BY DEF IInv, Archives, ArchiveOK
<1>16. told' = PasswordIn(log, archive.had)
  BY <1>1 DEF Password, Of, PasswordIn
<1>7. Typed'
  <2>2. doubt' \subseteq DataDoubts \cup {"stale", "password"}
    BY <1>1, <1>6 DEF IInv, Typed, DataDoubts
  <2> QED  BY <1>1, <1>2, <1>15, <1>16, <2>2 DEF IInv, Typed
<1>8. WalOK'
  BY <1>1 DEF IInv, WalOK
<1>9. Whole'
  <2>1. SUFFICES ASSUME Sound'
        PROVE  CountIn(log', View') <= Target /\ View' = want' /\ db' /\ panel' # "on"
    BY DEF Whole
  <2>2. "file" \notin doubt' /\ "live" \notin doubt' /\ "log" \notin doubt'
    BY <2>1 DEF Sound, DataDoubts
  <2>3. panel = "off" /\ ~Up /\ archive.sure /\ wal = {}
    <3>1. panel = "off"  BY <1>1, <1>14, <2>2
    <3>2. ~Up  BY <3>1 DEF Up
    <3>3. archive.sure  BY <1>1, <1>6, <2>2
    <3>4. wal = {}  BY <1>1, <1>6, <2>2, <3>2
    <3> QED  BY <3>1, <3>2, <3>3, <3>4
  <2>4. View' = archive.main
    BY <1>1, <2>3 DEF View
  <2> QED  BY <1>1, <1>15, <2>3, <2>4
<1>10. Archives'
  <2>1. Archives  BY DEF IInv
  <2> QED  BY <1>1, <1>3, <2>1, ArchivesSame
<1>11. Passwords'
  BY <1>1, <1>2, <1>5, <1>15, <1>16 DEF Passwords
<1>12. ReadOK'
  <2>1. ReadOK /\ ("stale" \in doubt => "stale" \in doubt')  BY <1>1 DEF IInv
  <2> QED  BY <1>1, <1>2, <2>1, ReadSame DEF Up
<1>13. StopsFirst'
  <2>1. StopsFirst /\ ("file" \in doubt => "file" \in doubt')  BY <1>1 DEF IInv
  <2> QED  BY <1>1, <1>2, <2>1, StopsSame
<1> QED  BY <1>3, <1>7, <1>8, <1>9, <1>10, <1>11, <1>12, <1>13 DEF IInv

\* The backup is done.
LEMMA RenameKeeps ==
  ASSUME IInv, RenameArchive
  PROVE  IInv'
<1>1. At("rename", "archive") /\ Proceed /\ archive' = op.box
      /\ UNCHANGED <<yaml, database, config, units, enabled, panel, cfg, xray, told, doubt, spent>>
  BY DEF RenameArchive, systemd, record
<1>2. /\ Doing(op) /\ GoesOn(op, op') /\ op'.pw = op.pw /\ op' \in Ops
      /\ op'.name = "restore" => op.name = "restore" /\ Head(op.todo) # Stopping
      /\ Head(op.todo) # Restarting
  BY <1>1, ProceedGoesOn, SpecialNames
<1>3. PlanOK' /\ (op'.open => op.open) /\ op'.box \in {op.box, NoBackup}
  BY <1>2 DEF GoesOn, PlanIs, PlanOK, Planned
<1>4. op.box \in Boxes /\ log' = log /\ want' = want
  BY <1>1, <1>2 DEF Doing, Ops, database
<1>5. Typed'
  BY <1>1, <1>2, <1>4 DEF IInv, Typed, database
<1>6. Whole' /\ WalOK'
  <2>1. Whole /\ WalOK  BY DEF IInv
  <2> QED  BY <1>1, <1>3, <2>1, WholeSame
<1>7. Archives'
  <2>1. ArchiveOK(archive)'
    BY <1>1, <1>4 DEF IInv, Archives, ArchiveOK
  <2>2. CASE op'.box = op.box
    BY <1>1, <2>1, <2>2 DEF Archives, ArchiveOK
  <2>3. CASE op'.box = NoBackup
    <3>1. ArchiveOK(NoBackup)'  BY NoBackupOK
    <3> QED  BY <2>1, <2>3, <3>1 DEF Archives, ArchiveOK
  <2> QED  BY <1>3, <2>2, <2>3
<1>8. Passwords'
  <2>1. Passwords  BY DEF IInv
  <2> QED  BY <1>1, <1>2, <1>4, <2>1, PasswordsSame
<1>9. ReadOK'
  <2>1. ReadOK  BY DEF IInv
  <2> QED  BY <1>1, <1>2, <2>1, ReadSame DEF Up
<1>10. StopsFirst'
  <2>1. StopsFirst  BY DEF IInv
  <2> QED  BY <1>1, <1>2, <2>1, StopsSame
<1> QED  BY <1>3, <1>5, <1>6, <1>7, <1>8, <1>9, <1>10 DEF IInv

\* A step that leaves what it copied in the box.
LEMMA Copied ==
  ASSUME IInv, NEW x, At("copy", x), <<"copy", x>> \notin Special,
         NEW box \in Boxes, ArchiveOK(box),
         op' = Then([op EXCEPT !.box = box], Tail(op.todo)),
         UNCHANGED <<yaml, database, config, systemd, archive, record>>
  PROVE  IInv'
<1> DEFINE o == [op EXCEPT !.box = box]
<1>1. UNCHANGED <<yaml, database, config, units, enabled, panel, cfg, xray, archive, told, doubt,
        spent>>
  BY DEF systemd, record
<1>2. Doing(op) /\ Head(op.todo) = <<"copy", x>>
  BY AtStep
<1>3. o \in Ops /\ o.todo = op.todo /\ o.name = op.name /\ o.open = op.open /\ o.pw = op.pw
        /\ o.box = box
  BY <1>2 DEF Doing, Ops
<1> HIDE DEF o
<1>4. Doing(o)
  BY <1>2, <1>3 DEF Doing, Planned
<1>5. op' = Then(o, Tail(o.todo))
  BY <1>3 DEF o
<1>6. GoesOn(o, op') /\ op'.pw = o.pw
  BY <1>2, <1>3, <1>4, <1>5, ThenGoesOn DEF Special
<1>7. op' \in Ops /\ PlanOK' /\ (op'.open => op.open) /\ op'.box \in {box, NoBackup}
      /\ op'.name \in {op.name, "idle"} /\ op'.pw = op.pw
  BY <1>3, <1>6 DEF GoesOn, PlanIs, PlanOK, Planned
<1>8. log' = log /\ want' = want
  BY <1>1 DEF database
<1>9. Typed'
  BY <1>1, <1>7 DEF IInv, Typed, database
<1>10. Whole' /\ WalOK'
  <2>1. Whole /\ WalOK  BY DEF IInv
  <2> QED  BY <1>1, <1>7, <2>1, WholeSame
<1>11. Archives'
  <2>1. ArchiveOK(archive)'
    BY <1>1, <1>8 DEF IInv, Archives, ArchiveOK
  <2>2. CASE op'.box = box
    BY <1>8, <2>1, <2>2 DEF Archives, ArchiveOK
  <2>3. CASE op'.box = NoBackup
    <3>1. ArchiveOK(NoBackup)'  BY NoBackupOK
    <3> QED  BY <2>1, <2>3, <3>1 DEF Archives, ArchiveOK
  <2> QED  BY <1>7, <2>2, <2>3
<1>12. Passwords'
  <2>1. Passwords  BY DEF IInv
  <2> QED  BY <1>1, <1>7, <1>8, <2>1, PasswordsSame
<1>13. ReadOK'
  <2>1. ReadOK /\ Head(op.todo) # Restarting  BY <1>2 DEF IInv, Special
  <2> QED  BY <1>1, <2>1, ReadSame DEF Up
<1>14. StopsFirst'
  <2>1. StopsFirst /\ Head(op.todo) # Stopping  BY <1>2 DEF IInv, Special
  <2> QED  BY <1>1, <1>7, <2>1, StopsSame
<1> QED  BY <1>7, <1>9, <1>10, <1>11, <1>12, <1>13, <1>14 DEF IInv

\* panel.yaml, the database and config.json are copied.
LEMMA CopyKeeps ==
  ASSUME IInv, CopyFile
  PROVE  IInv'
<1>0. UNCHANGED <<yaml, database, config, systemd, archive, record>>
  BY DEF CopyFile
<1>1. op \in Ops /\ op.box \in Boxes /\ ArchiveOK(op.box)
      /\ yaml \in Yamls /\ config \in BOOLEAN /\ db \in BOOLEAN
  BY DEF IInv, Typed, Archives, Ops
<1>2. CASE At("copy", "yaml")
  <2> DEFINE box == [op.box EXCEPT !.yaml = yaml]
  <2>1. op' = Then([op EXCEPT !.box.yaml = yaml], Tail(op.todo))
    <3>1. ~At("copy", "config") /\ ~At("copy", "db")  BY <1>2 DEF At
    <3> QED  BY <1>2, <3>1 DEF CopyFile
  <2>2. op' = Then([op EXCEPT !.box = box], Tail(op.todo))
    BY <2>1
  <2>3. box \in Boxes /\ box.main = op.box.main /\ box.had = op.box.had /\ box.sure = op.box.sure
    BY <1>1 DEF Boxes
  <2> HIDE DEF box
  <2>4. ArchiveOK(box)
    BY <1>1, <2>3 DEF ArchiveOK
  <2> QED  BY <1>0, <1>2, <2>2, <2>3, <2>4, SpecialNames, Copied
<1>3. CASE At("copy", "config")
  <2> DEFINE box == [op.box EXCEPT !.config = config]
  <2>1. op' = Then([op EXCEPT !.box.config = config], Tail(op.todo))
    <3>1. ~At("copy", "yaml") /\ ~At("copy", "db")  BY <1>3 DEF At
    <3> QED  BY <1>3, <3>1 DEF CopyFile
  <2>2. op' = Then([op EXCEPT !.box = box], Tail(op.todo))
    BY <2>1
  <2>3. box \in Boxes /\ box.main = op.box.main /\ box.had = op.box.had /\ box.sure = op.box.sure
    BY <1>1 DEF Boxes
  <2> HIDE DEF box
  <2>4. ArchiveOK(box)
    BY <1>1, <2>3 DEF ArchiveOK
  <2> QED  BY <1>0, <1>3, <2>2, <2>3, <2>4, SpecialNames, Copied
<1>4. CASE At("copy", "db")
  <2> DEFINE fine == wal = {} /\ doubt \cap DataDoubts = {}
  <2>1. PICK moved \in (IF Up THEN SUBSET wal ELSE {{}}) :
          op' = Then([op EXCEPT !.box.db = db, !.box.main = main \cup moved, !.box.had = want,
                                !.box.sure = fine], Tail(op.todo))
    <3>1. ~At("copy", "yaml") /\ ~At("copy", "config")  BY <1>4 DEF At
    <3> QED  BY <1>4, <3>1 DEF CopyFile
  <2> DEFINE box == [op.box EXCEPT !.db = db, !.main = main \cup moved, !.had = want, !.sure = fine]
  <2>2. op' = Then([op EXCEPT !.box = box], Tail(op.todo))
    BY <2>1
  <2>3. moved \subseteq wal /\ main \subseteq DOMAIN log /\ wal \subseteq DOMAIN log
          /\ want \subseteq DOMAIN log
        /\ DOMAIN log \subseteq Nat /\ fine \in BOOLEAN
    BY DEF IInv, Typed
  <2>4. box \in Boxes /\ box.main = main \cup moved /\ box.had = want /\ box.sure = fine
    <3> HIDE DEF fine
    <3> QED  BY <1>1, <2>3 DEF Boxes
  <2> HIDE DEF box
  <2>5. fine => main \cup moved = want /\ CountIn(log, main \cup moved) <= Target
    <3>1. SUFFICES ASSUME wal = {}, Sound
          PROVE  main \cup moved = want /\ CountIn(log, main \cup moved) <= Target
      BY DEF Sound
    <3>2. main \cup moved = View
      BY <2>3, <3>1 DEF View
    <3>3. CountIn(log, View) <= Target /\ (db => View = want) /\ (~db => main = {} /\ want = {})
      BY <3>1 DEF IInv, Whole
    <3>4. View = main  BY <3>1 DEF View
    <3> QED  BY <3>2, <3>3, <3>4
  <2>6. PasswordIn(log, want) \in 0..MaxTx
    BY DEF IInv, Passwords
  <2>7. ArchiveOK(box)
    <3> HIDE DEF fine
    <3> QED  BY <2>3, <2>4, <2>5, <2>6 DEF ArchiveOK
  <2> QED  BY <1>0, <1>4, <2>2, <2>4, <2>7, SpecialNames, Copied
<1> QED  BY <1>2, <1>3, <1>4 DEF CopyFile

-----------------------------------------------------------------------------
(* The theorems.                                                            *)

\* A log that ends with the password.
LEMMA LastIsSet ==
  ASSUME NEW l, NEW n \in Nat, l[n + 1] = "password"
  PROVE  PasswordIn(l, 1..n \cup {n + 1}) = n + 1
<1> DEFINE txs == 1..n
           k == n + 1
<1>1. txs \subseteq 1..n /\ k \in Nat /\ k > n /\ l[k] = "password"
  OBVIOUS
<1>2. PasswordIn(l, txs \cup {k}) = k
  <2> HIDE DEF txs, k
  <2> QED  BY <1>1, PasswordNext
<1> QED  BY <1>2

\* A running panel's log: all migrations, then the password.
LEMMA RunningHas ==
  ASSUME Running
  PROVE  /\ log \in Seq(Kinds) /\ Len(log) = Target + 1 /\ DOMAIN log = 1..Target + 1
         /\ CountIn(log, DOMAIN log) = Target
         /\ PasswordIn(log, DOMAIN log) = Target + 1
<1>0. Target \in Nat /\ Target + 1 \in Nat  BY ParametersOK
<1>1. log = [k \in 1..Target + 1 |-> IF k <= Target THEN "schema" ELSE "password"]
  BY DEF Running
<1>2. log \in Seq(Kinds) /\ Len(log) = Target + 1 /\ DOMAIN log = 1..Target + 1
  BY <1>0, <1>1 DEF Kinds
<1>3. CountIn(log, DOMAIN log) = Target
  <2>1. {t \in DOMAIN log : log[t] = "schema"} = 1..Target
    <3>1. ASSUME NEW t \in 1..Target + 1 PROVE log[t] = "schema" <=> t \in 1..Target
      BY <1>0, <1>1
    <3> QED  BY <1>0, <1>2, <3>1
  <2>2. Cardinality(1..Target) = Target
    <3>1. 1 \in Int /\ Target \in Int  BY <1>0
    <3>2. Cardinality(1..Target) = IF 1 > Target THEN 0 ELSE Target - 1 + 1
      BY <3>1, FS_Interval
    <3> QED  BY <1>0, <3>2
  <2> QED  BY <2>1, <2>2 DEF CountIn
<1>4. PasswordIn(log, DOMAIN log) = Target + 1
  <2>1. 1..Target + 1 = 1..Target \cup {Target + 1}
    BY <1>0
  <2>2. log[Target + 1] = "password"
    BY <1>0, <1>1
  <2>3. Target + 1 > Target
    BY <1>0
  <2>5. PasswordIn(log, 1..Target \cup {Target + 1}) = Target + 1
    BY <1>0, <2>2, LastIsSet
  <2> QED  BY <1>2, <2>1, <2>5
<1> QED  BY <1>2, <1>3, <1>4

\* So it begins.
LEMMA InitHolds == Init => IInv
<1> SUFFICES ASSUME Init PROVE IInv
  OBVIOUS
<1>1. /\ wal = {} /\ want = main /\ told = Password(main)
      /\ archive = NoBackup /\ op = Idle /\ doubt = {} /\ spent = 0
  BY DEF Init
<1>2. /\ told = PasswordIn(log, main) /\ View = main
  BY <1>1 DEF Password, Of, PasswordIn, View
<1>3. /\ yaml \in Yamls /\ cfg = yaml /\ db \in BOOLEAN /\ config \in BOOLEAN
      /\ log \in Seq(Kinds) /\ Len(log) <= MaxTx /\ main \subseteq DOMAIN log
      /\ units \subseteq Svcs /\ enabled \subseteq Svcs
      /\ panel \in {"off", "on"} /\ xray \in {"off", "on"}
      /\ CountIn(log, main) <= Target /\ PasswordIn(log, main) \in 0..MaxTx
      /\ ~db => main = {} /\ panel = "off"
      /\ panel = "on" => CountIn(log, main) = Target
  <2>1. CASE Fresh
    <3>1. yaml = Missing /\ cfg = Missing /\ db = FALSE /\ config = FALSE /\ log = <<>> /\ main = {}
          /\ units = Svcs /\ enabled = {} /\ panel = "off" /\ xray = "off"
      BY <2>1 DEF Fresh
    <3>2. CountIn(log, main) = 0 /\ PasswordIn(log, main) = 0
      BY <3>1, NoneYet
    <3>3. <<>> \in Seq(Kinds) /\ Len(<<>>) = 0 /\ 0 <= MaxTx /\ 0 <= Target /\ 0 \in 0..MaxTx
      BY ParametersOK
    <3>4. log \in Seq(Kinds) /\ Len(log) <= MaxTx /\ main \subseteq DOMAIN log
          /\ CountIn(log, main) <= Target /\ PasswordIn(log, main) \in 0..MaxTx
      BY <3>1, <3>2, <3>3
    <3>5. yaml \in Yamls /\ cfg = yaml
      BY <3>1, IdleFits
    <3> QED  BY <3>1, <3>4, <3>5
  <2>2. CASE Running
    <3>1. PICK port \in PanelPorts : yaml = [gen |-> -1, port |-> port]
      BY <2>2 DEF Running
    <3>2. cfg = yaml /\ db = TRUE /\ config = TRUE /\ main = DOMAIN log
          /\ units = Svcs /\ enabled = Svcs /\ panel = "on" /\ xray = "on"
      BY <2>2 DEF Running
    <3>3. yaml \in Yamls
      BY <3>1, ParametersOK DEF Yamls
    <3>4. Target + 1 \in 0..MaxTx /\ Target <= Target /\ Target + 1 <= MaxTx
      BY ParametersOK
    <3> QED  BY <2>2, <3>2, <3>3, <3>4, RunningHas
  <2> QED  BY <2>1, <2>2 DEF Init
<1>4. Idle.name = "idle" /\ Idle.pw = 0 /\ Idle.open = FALSE /\ Idle.box = NoBackup
  BY DEF Idle
<1>5. Typed
  <2>1. 0 \in 0..MaxSpent  BY ParametersOK
  <2> QED  BY <1>1, <1>2, <1>3, <2>1, IdleFits DEF Typed, Kinds
<1>6. PlanOK
  BY <1>1, <1>4 DEF PlanOK
<1>7. WalOK
  <2>1. 0 <= Target  BY ParametersOK
  <2> QED  BY <1>1, <2>1, NoneYet DEF WalOK
<1>8. Whole
  BY <1>1, <1>2, <1>3, <1>4 DEF Whole, Up
<1>9. Archives
  BY <1>1, <1>4, NoBackupOK DEF Archives
<1>10. Passwords
  BY <1>1, <1>2, <1>3, <1>4 DEF Passwords
<1>11. ReadOK /\ StopsFirst
  BY <1>1, <1>3, <1>4 DEF ReadOK, StopsFirst
<1> QED  BY <1>5, <1>6, <1>7, <1>8, <1>9, <1>10, <1>11 DEF IInv

\* Nothing happens.
LEMMA StutterKeeps ==
  ASSUME IInv, UNCHANGED vars
  PROVE  IInv'
<1>1. UNCHANGED <<yaml, database, config, units, enabled, panel, cfg, xray, archive, op, told,
        doubt, spent>>
  BY DEF vars, database
<1>2. Typed'
  BY <1>1 DEF IInv, Typed, database
<1>3. ReadOK' /\ StopsFirst'
  BY <1>1 DEF IInv, ReadOK, StopsFirst, Up
<1>4. op' = op /\ panel' = panel /\ doubt \cap (DataDoubts \cup {"password"}) \subseteq doubt'
        /\ op'.pw = op.pw
      /\ UNCHANGED <<database, archive, told>>
  BY <1>1
<1> QED  BY <1>2, <1>3, <1>4, Quiet

\* Every step keeps the invariant.
LEMMA NextKeeps ==
  ASSUME IInv, [Next]_vars
  PROVE  IInv'
<1>1. CASE Operation
  BY <1>1, OperationKeeps
<1>2. CASE Step
  <2>1. CASE WriteYaml \/ RemoveYaml \/ PutYaml
    BY <2>1, YamlSteps
  <2>2. CASE RemoveXrayState \/ PutConfig \/ StopXray \/ \E s \in Svcs : UnitFile(s)
          \/ Enablement(s) \/ Start(s)
    BY <2>2, LightSteps
  <2>3. CASE RemoveDb
    BY <2>3, RemoveDbKeeps
  <2>4. CASE OpenDb
    BY <2>4, OpenDbKeeps
  <2>5. CASE MigrateDb
    BY <2>5, MigrateKeeps
  <2>6. CASE SetAdminPassword
    BY <2>6, SetPasswordKeeps
  <2>7. CASE CloseDb
    BY <2>7, CloseDbKeeps
  <2>8. CASE Tell
    BY <2>8, TellKeeps
  <2>9. CASE StopPanel
    BY <2>9, StopPanelKeeps
  <2>10. CASE CopyFile
    BY <2>10, CopyKeeps
  <2>11. CASE RenameArchive
    BY <2>11, RenameKeeps
  <2>12. CASE PutDb
    BY <2>12, PutDbKeeps
  <2>13. CASE StepFails
    BY <2>13, StepFailsKeeps
  <2>14. CASE Refused
    BY <2>14, RefusedKeeps
  <2> QED  BY <1>2, <2>1, <2>2, <2>3, <2>4, <2>5, <2>6, <2>7, <2>8, <2>9, <2>10, <2>11, <2>12,
              <2>13,
              <2>14 DEF Step
<1>3. CASE World
  <2>1. CASE BootFails \/ PanelDies \/ XrayComes
    BY <2>1, WorldQuiet
  <2>2. CASE Boot
    BY <2>2, BootKeeps
  <2>3. CASE Serve
    BY <2>3, ServeKeeps
  <2>4. CASE Request \/ Reload
    BY <2>4, RequestKeeps
  <2>5. CASE Checkpoint
    BY <2>5, CheckpointKeeps
  <2>6. CASE Crash
    BY <2>6, CrashKeeps
  <2>7. CASE Reboot
    BY <2>7, RebootKeeps
  <2> QED  BY <1>3, <2>1, <2>2, <2>3, <2>4, <2>5, <2>6, <2>7 DEF World
<1>4. CASE UNCHANGED vars
  BY <1>4, StutterKeeps
<1> QED  BY <1>1, <1>2, <1>3, <1>4 DEF Next

\* IInv holds in every reachable state.
THEOREM Invariance == Spec => []IInv
<1>1. IInv /\ [Next]_vars => IInv'
  BY NextKeeps
<1> QED  BY <1>1, InitHolds, PTL DEF Spec

\* TypeOK: every variable has its type, and the schema never gets past the last
\* migration.
THEOREM TypeCorrect == Spec => []TypeOK
<1>1. IInv => TypeOK
  <2> SUFFICES ASSUME IInv PROVE TypeOK
    OBVIOUS
  <2>1. Typed  BY DEF IInv
  <2>2. op.name \in Names  BY <2>1 DEF Typed, Ops
  <2>3. ASSUME Sound PROVE Version <= Target /\ (panel = "on" => Version = Target)
    <3>1. Version = CountIn(log, View)  BY Subsets
    <3> QED  BY <2>3, <3>1 DEF IInv, Whole
  <2> QED  BY <2>1, <2>2, <2>3 DEF Typed, TypeOK, Sound
<1> QED  BY <1>1, Invariance, PTL

\* DataSurvives: a panel that serves has every transaction that ought to be found,
\* and no other.
THEOREM DataKept == Spec => []DataSurvives
<1>1. IInv => DataSurvives
  BY HasDb DEF DataSurvives, Up, Sound
<1> QED  BY <1>1, Invariance, PTL

\* ServesAsTold: a panel that serves does so where panel.yaml says, and lets in who
\* has the password that was printed last.
THEOREM ToldRight == Spec => []ServesAsTold
<1>1. IInv => ServesAsTold
  <2> SUFFICES ASSUME IInv, panel = "on", op = Idle
      PROVE  /\ "stale" \notin doubt => cfg = yaml
             /\ doubt \cap (DataDoubts \cup {"password"}) = {} => told = Password(View)
    BY DEF ServesAsTold
  <2>1. Idle.name = "idle" /\ Idle.pw = 0  BY DEF Idle
  <2>2. "stale" \notin doubt => cfg = yaml
    BY <2>1 DEF IInv, ReadOK, Up
  <2>3. ASSUME doubt \cap (DataDoubts \cup {"password"}) = {} PROVE told = Password(View)
    <3>1. Sound /\ "password" \notin doubt
      BY <2>3 DEF Sound
    <3>2. View = want
      BY <3>1, HasDb DEF Up
    <3>3. told = PasswordIn(log, want)
      BY <2>1, <3>1 DEF IInv, Passwords
    <3>4. Password(View) = PasswordIn(log, View)
      BY DEF Password, Of, PasswordIn
    <3> QED  BY <3>2, <3>3, <3>4
  <2> QED  BY <2>2, <2>3
<1> QED  BY <1>1, Invariance, PTL

=============================================================================
