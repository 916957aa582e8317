--------------------------- MODULE AccountsProofs ---------------------------
(* The account store keeps its promises for every set of operators and      *)
(* names, and every bound: proofs of all seven properties that the run      *)
(* `accounts` checks.                                                       *)
(*                                                                          *)
(* An operation is a list of steps that is worked off from the front, and   *)
(* a step that fails replaces the list by what the code does on its way     *)
(* out.  The argument has three layers.                                     *)
(*   1. Typed: the types, and each operation's list is the rest of the      *)
(*      steps of its flow, or the way out of it (Planned), with the data    *)
(*      that the next step needs.  With it each action is described once,   *)
(*      by a lemma ("SetPasswordDoes"), as one of two moves of its operator *)
(*      - Advances or Stops - and an effect on the store.                   *)
(*   2. Robust: what holds whatever fails, crashes or overlaps.  Accounts   *)
(*      and creations are told apart by their numbers (NumbersOK); behind a *)
(*      removal its account and then its sessions are gone (SessionsOK);    *)
(*      what the guard refuses when the cleanup begins is still on its      *)
(*      list, or being deleted, or gone or renewed (CleanOK).               *)
(*   3. What needs luck, each part under the events it excuses: one         *)
(*      operator works at a time (Alone), what it has read is still so      *)
(*      (Sync), an account of `user add` is whole (AddOK), and the limit    *)
(*      that was told is the one that is enforced (LimitOK).                *)
(* Their conjunction, IInv, is inductive.                                   *)
EXTENDS Accounts, FiniteSetTheorems, SequenceTheorems, TLAPS

-----------------------------------------------------------------------------
(* The lists of steps.                                                      *)

\* The flows that visit a list of names, and all but the absence of one.
Looping == {"removeAll", "clean"}
Working == Flows \ {"idle"}

\* The list is what is left of the flow's steps from the k-th on.
LeftFrom(flow, todo, k) ==
  /\ Len(todo) = Len(Steps(flow)) + 1 - k
  /\ \A i \in 1..Len(todo) : todo[i] = Steps(flow)[k + i - 1]

\* What an operation of the flow may have left to do: the rest of its steps, the
\* next name of its loop, or the account's deletion after a failed creation.
Planned(flow, todo) ==
  \/ \E k \in 1..Len(Steps(flow)) : LeftFrom(flow, todo, k)
  \/ todo = <<"next">> /\ flow \in Looping
  \/ todo = <<"rollback">> /\ flow \in Creating

\* In the flow's list of steps, t comes directly after s.
Follows(flow, s, t) ==
  \E k \in 1..(Len(Steps(flow)) - 1) : Steps(flow)[k] = s /\ Steps(flow)[k + 1] = t

\* The steps of a deletion that come after userdel.
GoneAt(flow) ==
  {"uncert", "load", "write", "rename"}
    \cup (IF flow = "remove" THEN {"kick"} ELSE {})
    \cup (IF flow \in {"remove", "clean"} THEN {"readV1", "writeV1"} ELSE {})

\* An operation's list fits its flow, and it holds what its next step needs.
Fits(o) ==
  /\ o.todo # <<>> /\ Planned(o.flow, o.todo)
  /\ o.left # {} => o.flow \in Looping
  /\ Head(o.todo) # "next" => o.name \in Names
  /\ Head(o.todo) = "write" => o.db \in Tables
  /\ Head(o.todo) = "writeV1" => o.lines \in Lines
  /\ o.flow \in {"create", "trial", "limit"} => o.limit > 0

FitsAll == \A m \in Operators : Busy(m) => Fits(op[m])

\* p is the operation o, some step further.
Same(o, p) ==
  /\ p.flow = o.flow /\ p.name = o.name /\ p.gen = o.gen /\ p.limit = o.limit
  /\ p.days = o.days /\ p.left = o.left /\ p.due = o.due

\* A step that succeeds: the operation is over, or goes on with the next step.
Went(o, p) ==
  \/ p = [Resting EXCEPT !.failed = o.failed] /\ Tail(o.todo) = <<>> /\ o.left = {}
  \/ /\ Same(o, p) /\ p.failed = o.failed
     /\ p.todo # <<>> /\ Planned(p.flow, p.todo)
     /\ \/ Head(p.todo) = "next" /\ Tail(o.todo) = <<>> /\ o.left # {}
        \/ Follows(o.flow, Head(o.todo), Head(p.todo)) /\ p.todo = Tail(o.todo)

\* A step that fails: the operation is over, or goes on as AfterFailure says.
Stopped(o, p) ==
  \/ p = [Resting EXCEPT !.failed = TRUE]
       /\ ~(o.flow = "add" /\ Head(o.todo) \in {"chpasswd", "cert", "load", "write", "rename"})
  \/ /\ Same(o, p) /\ p.failed
     /\ p.todo # <<>> /\ Planned(p.flow, p.todo)
     /\ \/ Head(p.todo) = "next" /\ o.left # {}
        \/ o.flow \in Creating /\ Head(p.todo) = "rollback" /\ Head(o.todo) # "useradd"
        \/ o.flow = "create" /\ Head(p.todo) = "readV1" /\ Head(o.todo) \in {"write", "rename"}
        \/ o.flow = "removeAll" /\ Head(p.todo) = "kick"

\* Each flow has between one and eight steps.
LEMMA StepsOK ==
  ASSUME NEW flow \in Working
  PROVE  Steps(flow) \in Seq(StepNames) /\ Len(Steps(flow)) \in 1..8
<1>1. CASE flow = "add"
  BY <1>1 DEF Steps, AddSteps, StepNames
<1>2. CASE flow = "create"
  BY <1>2 DEF Steps, CreateSteps, StepNames
<1>3. CASE flow = "trial"
  BY <1>3 DEF Steps, TrialSteps, StepNames
<1>4. CASE flow = "expiry"
  BY <1>4 DEF Steps, ExpirySteps, StepNames
<1>5. CASE flow = "limit"
  BY <1>5 DEF Steps, LimitSteps, StepNames
<1>6. CASE flow = "password"
  BY <1>6 DEF Steps, StepNames
<1>7. CASE flow = "drop"
  BY <1>7 DEF Steps, RemoveSteps, StepNames
<1>8. CASE flow = "remove"
  BY <1>8 DEF Steps, RemoveUserSteps, RemoveSteps, V1Steps, StepNames
<1>10. CASE flow = "removeAll"
  BY <1>10 DEF Steps, RemoveUserSteps, RemoveSteps, V1Steps, StepNames
<1>9. CASE flow = "clean"
  BY <1>9 DEF Steps, CleanSteps, RemoveSteps, V1Steps, StepNames
<1>11. flow \in {"add", "create", "trial", "expiry", "limit", "password", "drop", "remove",
         "removeAll", "clean"}
  BY DEF Working, Flows, Creating, Picking, Deleting
<1> QED  BY <1>1, <1>2, <1>3, <1>4, <1>5, <1>6, <1>7, <1>8, <1>9, <1>10, <1>11

\* The order of the steps: read, then write, then rename, in every flow.
LEMMA StepOrder ==
  ASSUME NEW flow \in Working, NEW s, NEW t, Follows(flow, s, t)
  PROVE  /\ t \notin {"useradd", "next", "rollback"} /\ s \notin {"next", "rollback"}
         /\ s = "writeV1" => flow \in {"create", "trial"}
         /\ t = "write" => s = "load" /\ flow # "password"
         /\ t = "rename" => s = "write"
         /\ t = "writeV1" => s = "readV1"
<1>1. CASE flow = "add"
  BY <1>1 DEF Follows, Steps, AddSteps
<1>2. CASE flow = "create"
  BY <1>2 DEF Follows, Steps, CreateSteps
<1>3. CASE flow = "trial"
  BY <1>3 DEF Follows, Steps, TrialSteps
<1>4. CASE flow = "expiry"
  BY <1>4 DEF Follows, Steps, ExpirySteps
<1>5. CASE flow = "limit"
  BY <1>5 DEF Follows, Steps, LimitSteps
<1>6. CASE flow = "password"
  BY <1>6 DEF Follows, Steps
<1>7. CASE flow = "drop"
  BY <1>7 DEF Follows, Steps, RemoveSteps
<1>8. CASE flow = "remove"
  BY <1>8 DEF Follows, Steps, RemoveUserSteps, RemoveSteps, V1Steps
<1>10. CASE flow = "removeAll"
  BY <1>10 DEF Follows, Steps, RemoveUserSteps, RemoveSteps, V1Steps
<1>9. CASE flow = "clean"
  BY <1>9 DEF Follows, Steps, CleanSteps, RemoveSteps, V1Steps
<1>11. flow \in {"add", "create", "trial", "expiry", "limit", "password", "drop", "remove",
         "removeAll", "clean"}
  BY DEF Working, Flows, Creating, Picking, Deleting
<1> QED  BY <1>1, <1>2, <1>3, <1>4, <1>5, <1>6, <1>7, <1>8, <1>9, <1>10, <1>11

\* What is left of a list that fits, after one step, fits.
LEMMA StepWithin ==
  ASSUME NEW flow \in Working, NEW todo \in Seq(StepNames), todo # <<>>, Planned(flow, todo)
  PROVE  /\ Head(todo) = todo[1] /\ Head(todo) \in StepNames
         /\ Tail(todo) \in Seq(StepNames)
         /\ Tail(todo) # <<>> => Follows(flow, Head(todo), Head(Tail(todo)))
              /\ Planned(flow, Tail(todo))
<1>1. Tail(todo) # <<>> => \E k \in 1..Len(Steps(flow)) : LeftFrom(flow, todo, k)
  <2>1. todo \in {<<"next">>, <<"rollback">>} => Len(todo) = 1
    OBVIOUS
  <2>2. Len(todo) = 1 => Tail(todo) = <<>>
    <3>1. Tail(todo) \in Seq(StepNames) /\ (Len(todo) = 1 => Len(Tail(todo)) = 0)
      OBVIOUS
    <3> QED  BY <3>1, EmptySeq
  <2> QED  BY <2>1, <2>2 DEF Planned
<1>2. ASSUME Tail(todo) # <<>>, NEW k \in 1..Len(Steps(flow)), LeftFrom(flow, todo, k)
      PROVE  /\ k + 1 \in 1..Len(Steps(flow)) /\ LeftFrom(flow, Tail(todo), k + 1)
             /\ Follows(flow, Head(todo), Head(Tail(todo)))
  <2>1. Steps(flow) \in Seq(StepNames)  BY StepsOK
  <2>2. Len(todo) >= 2 /\ Len(Tail(todo)) = Len(todo) - 1
          /\ \A i \in 1..Len(Tail(todo)) : Tail(todo)[i] = todo[i + 1]
    BY <1>2
  <2>3. k + 1 \in 1..Len(Steps(flow)) /\ LeftFrom(flow, Tail(todo), k + 1)
    BY <1>2, <2>1, <2>2 DEF LeftFrom
  <2>4. Head(todo) = Steps(flow)[k] /\ Head(Tail(todo)) = Steps(flow)[k + 1]
          /\ k \in 1..(Len(Steps(flow)) - 1)
    BY <1>2, <2>1, <2>2, <2>3 DEF LeftFrom
  <2> QED  BY <2>3, <2>4 DEF Follows
<1> QED  BY <1>1, <1>2 DEF Planned

\* How the flows begin.
LEMMA FirstStep ==
  ASSUME NEW flow \in Working
  PROVE  /\ Steps(flow) # <<>> /\ Planned(flow, Steps(flow))
         /\ flow \in Creating => Head(Steps(flow)) = "useradd"
         /\ flow \in {"drop", "remove", "removeAll"} => Head(Steps(flow)) = "userdel"
         /\ flow = "clean" => Head(Steps(flow)) = "kick"
         /\ flow = "expiry" => Head(Steps(flow)) = "chage"
         /\ flow = "limit" => Head(Steps(flow)) = "load"
         /\ flow = "password" => Head(Steps(flow)) = "chpasswd"
<1>1. Steps(flow) # <<>> /\ LeftFrom(flow, Steps(flow), 1)
  BY StepsOK DEF LeftFrom
<1>2. 1 \in 1..Len(Steps(flow))
  <2>1. Len(Steps(flow)) \in 1..8  BY StepsOK
  <2> QED  BY <2>1
<1>3. Head(Steps(flow)) = Steps(flow)[1]
  BY StepsOK, <1>1
<1>4. flow \in Creating => Steps(flow)[1] = "useradd"
  BY DEF Creating, Steps, AddSteps, CreateSteps, TrialSteps
<1>5. /\ flow = "drop" => Steps(flow)[1] = "userdel"
      /\ flow \in {"remove", "removeAll"} => Steps(flow)[1] = "userdel"
      /\ flow = "clean" => Steps(flow)[1] = "kick"
  BY DEF Steps, RemoveSteps, RemoveUserSteps, CleanSteps, V1Steps
<1>6. /\ flow = "expiry" => Steps(flow)[1] = "chage"
      /\ flow = "limit" => Steps(flow)[1] = "load"
      /\ flow = "password" => Steps(flow)[1] = "chpasswd"
  BY DEF Steps, ExpirySteps, LimitSteps
<1> QED  BY <1>1, <1>2, <1>3, <1>4, <1>5, <1>6 DEF Planned

\* What a step that fails leaves to do is the rest of the same operation.
LEMMA WayOut ==
  ASSUME NEW o \in Ops, o.flow # "idle", o.todo # <<>>, Planned(o.flow, o.todo)
  PROVE  /\ AfterFailure(o) \in Seq(StepNames)
         /\ AfterFailure(o) # <<>> =>
              /\ Planned(o.flow, AfterFailure(o))
              /\ \/ /\ o.flow \in Creating /\ Head(AfterFailure(o)) = "rollback"
                         /\ Head(o.todo) # "useradd"
                 \/ /\ o.flow = "create" /\ Head(AfterFailure(o)) = "readV1"
                         /\ Head(o.todo) \in {"write", "rename"}
                 \/ /\ o.flow = "removeAll" /\ Head(AfterFailure(o)) = "kick"
         /\ o.flow = "add" /\ Head(o.todo) \in {"chpasswd", "cert", "load", "write", "rename"}
              => AfterFailure(o) # <<>>
<1>1. AfterFailure(o) \in {<<"rollback">>, V1Steps \o <<"cert">>, <<"kick">> \o V1Steps, <<>>}
  BY DEF AfterFailure
<1>2. CASE <<o.flow, Head(o.todo)>> \in RolledBack
  BY <1>2 DEF AfterFailure, RolledBack, Planned, Creating, StepNames
<1>3. CASE <<o.flow, Head(o.todo)>> \notin RolledBack /\ o.flow = "create"
        /\ Head(o.todo) \in {"write", "rename"}
  <2>1. AfterFailure(o) = V1Steps \o <<"cert">>
    BY <1>3 DEF AfterFailure
  <2>2. /\ AfterFailure(o) \in Seq(StepNames) /\ Len(AfterFailure(o)) = 3
        /\ AfterFailure(o)[1] = "readV1" /\ AfterFailure(o)[2] = "writeV1"
             /\ AfterFailure(o)[3] = "cert"
    BY <2>1 DEF V1Steps, StepNames
  <2>3. Steps(o.flow) = CreateSteps
    BY <1>3 DEF Steps
  <2>4. LeftFrom(o.flow, AfterFailure(o), 6) /\ 6 \in 1..Len(Steps(o.flow))
    BY <2>2, <2>3 DEF LeftFrom, CreateSteps
  <2> QED  BY <1>3, <2>2, <2>4 DEF Planned
<1>4. CASE <<o.flow, Head(o.todo)>> \notin RolledBack /\ o.flow = "removeAll"
  <2>1. AfterFailure(o) = <<"kick">> \o V1Steps
    BY <1>4 DEF AfterFailure
  <2>2. /\ AfterFailure(o) \in Seq(StepNames) /\ Len(AfterFailure(o)) = 3
        /\ AfterFailure(o)[1] = "kick" /\ AfterFailure(o)[2] = "readV1"
             /\ AfterFailure(o)[3] = "writeV1"
    BY <2>1 DEF V1Steps, StepNames
  <2>3. Steps(o.flow) = RemoveUserSteps
    BY <1>4 DEF Steps
  <2>4. LeftFrom(o.flow, AfterFailure(o), 6) /\ 6 \in 1..Len(Steps(o.flow))
    BY <2>2, <2>3 DEF LeftFrom, RemoveUserSteps, RemoveSteps, V1Steps
  <2> QED  BY <1>4, <2>2, <2>4 DEF Planned
<1>5. CASE /\ <<o.flow, Head(o.todo)>> \notin RolledBack /\ o.flow # "removeAll"
           /\ ~(o.flow = "create" /\ Head(o.todo) \in {"write", "rename"})
  <2>1. AfterFailure(o) = <<>>
    BY <1>5 DEF AfterFailure
  <2> QED  BY <1>5, <2>1 DEF RolledBack
<1> QED  BY <1>2, <1>3, <1>4, <1>5

\* An operator without an operation.
LEMMA RestingOK ==
  /\ Resting \in Ops /\ Resting.flow = "idle" /\ Resting.todo = <<>> /\ Resting.left = {}
       /\ Resting.failed = FALSE
  /\ \A b \in BOOLEAN : /\ [Resting EXCEPT !.failed = b] \in Ops
                        /\ [Resting EXCEPT !.failed = b].flow = "idle"
<1>1. 0 \in Gens /\ 0 \in 0..MaxLimit /\ 0 \in 0..MaxDays /\ 0 \in Days
  BY ParametersOK DEF Gens, Days
<1>2. "idle" \in Flows /\ <<>> \in Seq(StepNames)
  BY DEF Flows
<1>3. Resting \in Ops
  BY <1>1, <1>2 DEF Ops, Resting, Never
<1>4. Resting.flow = "idle" /\ Resting.todo = <<>> /\ Resting.left = {} /\ Resting.failed = FALSE
  BY DEF Resting
<1> QED  BY <1>3, <1>4 DEF Ops

\* What Then makes of an operation: it ends, takes the next name, or goes on.
LEMMA ThenOK ==
  ASSUME NEW o \in Ops, NEW rest \in Seq(StepNames), o.left # {} => o.flow \in Looping,
         rest # <<>> => Planned(o.flow, rest)
  PROVE  /\ Then(o, rest) \in Ops
         /\ \/ rest = <<>> /\ o.left = {} /\ Then(o, rest) = [Resting EXCEPT !.failed = o.failed]
            \/ /\ Same(o, Then(o, rest)) /\ Then(o, rest).failed = o.failed
               /\ Then(o, rest).exp = o.exp /\ Then(o, rest).db = o.db
                    /\ Then(o, rest).lines = o.lines
               /\ Then(o, rest).todo # <<>> /\ Planned(o.flow, Then(o, rest).todo)
               /\ \/ rest = <<>> /\ o.left # {} /\ Then(o, rest).todo = <<"next">>
                  \/ rest # <<>> /\ Then(o, rest).todo = rest
<1>1. CASE rest # <<>>
  <2> DEFINE p == [o EXCEPT !.todo = rest]
  <2>1. p \in Ops /\ Same(o, p) /\ p.failed = o.failed /\ p.exp = o.exp /\ p.db = o.db
          /\ p.lines = o.lines /\ p.todo = rest
    BY DEF Ops, Same
  <2>2. Then(o, rest) = p
    BY <1>1 DEF Then
  <2> HIDE DEF p
  <2> QED  BY <1>1, <2>1, <2>2
<1>2. CASE rest = <<>> /\ o.left # {}
  <2> DEFINE p == [o EXCEPT !.todo = <<"next">>]
  <2>0. <<"next">> \in Seq(StepNames)
    BY DEF StepNames
  <2>1. p \in Ops /\ Same(o, p) /\ p.failed = o.failed /\ p.exp = o.exp /\ p.db = o.db
          /\ p.lines = o.lines /\ p.todo = <<"next">>
    BY <2>0 DEF Ops, Same
  <2>2. Then(o, rest) = p
    BY <1>2 DEF Then
  <2>3. Planned(o.flow, <<"next">>)
    BY <1>2 DEF Planned
  <2>4. p.todo # <<>>
    BY <2>1
  <2> HIDE DEF p
  <2> QED  BY <1>2, <2>1, <2>2, <2>3, <2>4
<1>3. CASE rest = <<>> /\ o.left = {}
  <2>1. Then(o, rest) = [Resting EXCEPT !.failed = o.failed]
    BY <1>3 DEF Then
  <2>2. o.failed \in BOOLEAN
    BY DEF Ops
  <2> QED  BY <1>3, <2>1, <2>2, RestingOK
<1> QED  BY <1>1, <1>2, <1>3

\* A busy operator's flow.
LEMMA WorkingFlow ==
  ASSUME NEW o \in Ops, o.flow # "idle"
  PROVE  o.flow \in Working /\ o.todo \in Seq(StepNames)
  BY DEF Ops, Working

\* An operation that goes on from o2, which is o with other data.
LEMMA ProceedWent ==
  ASSUME NEW o \in Ops, NEW q \in Ops, o.flow # "idle", Fits(o), Same(o, q), q.todo = o.todo,
         q.failed = o.failed
  PROVE  LET p == Then(q, Tail(q.todo)) IN
         /\ p \in Ops /\ Went(o, p)
         /\ p.flow # "idle" => p.exp = q.exp /\ p.db = q.db /\ p.lines = q.lines
<1> DEFINE rest == Tail(q.todo)
<1>1. o.flow \in Working /\ o.todo \in Seq(StepNames)
  BY WorkingFlow
<1>2. rest \in Seq(StepNames)
        /\ (rest # <<>> => Planned(o.flow, rest) /\ Follows(o.flow, Head(o.todo), Head(rest)))
  BY <1>1, StepWithin DEF Fits
<1>3. q.flow = o.flow /\ (q.left # {} => q.flow \in Looping)
  BY DEF Fits, Same
<1>4. rest = Tail(o.todo)
  OBVIOUS
<1> HIDE DEF rest
<1>5. /\ Then(q, rest) \in Ops
      /\ \/ rest = <<>> /\ q.left = {} /\ Then(q, rest) = [Resting EXCEPT !.failed = q.failed]
         \/ /\ Same(q, Then(q, rest)) /\ Then(q, rest).failed = q.failed
            /\ Then(q, rest).exp = q.exp /\ Then(q, rest).db = q.db /\ Then(q, rest).lines = q.lines
            /\ Then(q, rest).todo # <<>> /\ Planned(q.flow, Then(q, rest).todo)
            /\ \/ rest = <<>> /\ q.left # {} /\ Then(q, rest).todo = <<"next">>
               \/ rest # <<>> /\ Then(q, rest).todo = rest
  BY <1>2, <1>3, ThenOK
<1>6. CASE rest = <<>> /\ q.left = {} /\ Then(q, rest) = [Resting EXCEPT !.failed = q.failed]
  <2>1. Then(q, rest).flow = "idle"
    BY <1>6, RestingOK DEF Ops
  <2>2. Went(o, Then(q, rest))
    BY <1>4, <1>6 DEF Went, Same
  <2> QED  BY <1>5, <2>1, <2>2 DEF rest
<1>7. CASE /\ Same(q, Then(q, rest)) /\ Then(q, rest).failed = q.failed
           /\ Then(q, rest).exp = q.exp /\ Then(q, rest).db = q.db /\ Then(q, rest).lines = q.lines
           /\ Then(q, rest).todo # <<>> /\ Planned(q.flow, Then(q, rest).todo)
           /\ \/ rest = <<>> /\ q.left # {} /\ Then(q, rest).todo = <<"next">>
              \/ rest # <<>> /\ Then(q, rest).todo = rest
  <2> DEFINE p == Then(q, rest)
  <2>1. Same(o, p)
    BY <1>7 DEF Same
  <2>2. p.failed = o.failed /\ p.todo # <<>> /\ Planned(p.flow, p.todo)
    BY <1>7 DEF Same
  <2>3. \/ Head(p.todo) = "next" /\ Tail(o.todo) = <<>> /\ o.left # {}
        \/ Follows(o.flow, Head(o.todo), Head(p.todo)) /\ p.todo = Tail(o.todo)
    <3>1. CASE rest = <<>> /\ q.left # {} /\ p.todo = <<"next">>
      BY <3>1, <1>4 DEF Same
    <3>2. CASE rest # <<>> /\ p.todo = rest
      BY <3>2, <1>2, <1>4
    <3> QED  BY <1>7, <3>1, <3>2
  <2> HIDE DEF p
  <2>4. Went(o, p)
    BY <2>1, <2>2, <2>3 DEF Went
  <2> QED  BY <1>5, <1>7, <2>4 DEF p, rest
<1> QED  BY <1>5, <1>6, <1>7

\* An operation whose step fails stops as the code says.
LEMMA RefuseStopped ==
  ASSUME NEW o \in Ops, o.flow # "idle", Fits(o)
  PROVE  LET p == Then([o EXCEPT !.failed = TRUE], AfterFailure(o)) IN
         /\ p \in Ops /\ Stopped(o, p)
         /\ p.flow # "idle" => p.exp = o.exp /\ p.db = o.db /\ p.lines = o.lines
<1> DEFINE q == [o EXCEPT !.failed = TRUE]
           rest == AfterFailure(o)
           p == Then(q, rest)
<1>1. q \in Ops /\ Same(o, q) /\ q.failed = TRUE /\ q.exp = o.exp /\ q.db = o.db
        /\ q.lines = o.lines
  BY DEF Ops, Same
<1>2. /\ rest \in Seq(StepNames)
      /\ rest # <<>> =>
           /\ Planned(o.flow, rest)
           /\ \/ o.flow \in Creating /\ Head(rest) = "rollback" /\ Head(o.todo) # "useradd"
              \/ o.flow = "create" /\ Head(rest) = "readV1" /\ Head(o.todo) \in {"write", "rename"}
              \/ o.flow = "removeAll" /\ Head(rest) = "kick"
      /\ o.flow = "add" /\ Head(o.todo) \in {"chpasswd", "cert", "load", "write", "rename"}
           => rest # <<>>
  BY WayOut DEF Fits
<1>3. q.flow = o.flow /\ q.left = o.left /\ (o.left # {} => o.flow \in Looping)
  BY <1>1 DEF Fits, Same
<1> HIDE DEF q, rest
<1>5. /\ p \in Ops
      /\ \/ rest = <<>> /\ q.left = {} /\ p = [Resting EXCEPT !.failed = q.failed]
         \/ /\ Same(q, p) /\ p.failed = q.failed
            /\ p.exp = q.exp /\ p.db = q.db /\ p.lines = q.lines
            /\ p.todo # <<>> /\ Planned(q.flow, p.todo)
            /\ \/ rest = <<>> /\ q.left # {} /\ p.todo = <<"next">>
               \/ rest # <<>> /\ p.todo = rest
  BY <1>1, <1>2, <1>3, ThenOK
<1>6. CASE rest = <<>> /\ q.left = {} /\ p = [Resting EXCEPT !.failed = q.failed]
  <2>1. p.flow = "idle"
    BY <1>1, <1>6, RestingOK
  <2>2. Stopped(o, p)
    BY <1>1, <1>2, <1>6 DEF Stopped
  <2> QED  BY <1>5, <2>1, <2>2 DEF q, rest
<1>7. CASE /\ Same(q, p) /\ p.failed = q.failed
           /\ p.exp = q.exp /\ p.db = q.db /\ p.lines = q.lines
           /\ p.todo # <<>> /\ Planned(q.flow, p.todo)
           /\ \/ rest = <<>> /\ q.left # {} /\ p.todo = <<"next">>
              \/ rest # <<>> /\ p.todo = rest
  <2>1. Same(o, p) /\ p.failed /\ p.todo # <<>> /\ Planned(p.flow, p.todo)
    BY <1>1, <1>7 DEF Same
  <2>2. \/ Head(p.todo) = "next" /\ o.left # {}
        \/ o.flow \in Creating /\ Head(p.todo) = "rollback" /\ Head(o.todo) # "useradd"
        \/ o.flow = "create" /\ Head(p.todo) = "readV1" /\ Head(o.todo) \in {"write", "rename"}
        \/ o.flow = "removeAll" /\ Head(p.todo) = "kick"
    <3>1. CASE rest = <<>> /\ q.left # {} /\ p.todo = <<"next">>
      BY <3>1, <1>3
    <3>2. CASE rest # <<>> /\ p.todo = rest
      BY <3>2, <1>2
    <3> QED  BY <1>7, <3>1, <3>2
  <2> HIDE DEF p
  <2>4. Stopped(o, p)
    BY <2>1, <2>2 DEF Stopped
  <2> QED  BY <1>1, <1>5, <1>7, <2>4 DEF p, q, rest
<1> QED  BY <1>5, <1>6, <1>7

-----------------------------------------------------------------------------
(* The moves of an operator.                                                *)

\* The types, and that every operation's list fits its flow.
Typed == TypeOK /\ FitsAll

\* Only m's operation moves: a step further, or as its failure says.
Others(m) == op' \in [Operators -> Ops] /\ \A k \in Operators \ {m} : op'[k] = op[k]
Data(m) ==
  op'[m].flow # "idle" =>
    op'[m].exp = op[m].exp /\ op'[m].db = op[m].db /\ op'[m].lines = op[m].lines

Advances(m) == Others(m) /\ Went(op[m], op'[m])
Stops(m) == Others(m) /\ Stopped(op[m], op'[m]) /\ Data(m)

\* Set changes one operator's record.
LEMMA SetOK ==
  ASSUME op \in [Operators -> Ops], NEW m \in Operators, NEW p \in Ops, Set(m, p)
  PROVE  Others(m) /\ op'[m] = p
  BY DEF Set, Others

\* A step that succeeds with the data of q advances its operator.
LEMMA Success ==
  ASSUME Typed, NEW m \in Operators, NEW q \in Ops, Busy(m),
         Same(op[m], q), q.todo = op[m].todo, q.failed = op[m].failed, Proceed(m, q)
  PROVE  /\ Advances(m)
         /\ op'[m].flow # "idle" => op'[m].exp = q.exp /\ op'[m].db = q.db /\ op'[m].lines = q.lines
<1>1. op[m] \in Ops /\ op[m].flow # "idle" /\ Fits(op[m]) /\ op \in [Operators -> Ops]
  BY DEF Typed, TypeOK, FitsAll, Busy
<1> DEFINE p == Then(q, Tail(q.todo))
<1>2. p \in Ops /\ Went(op[m], p)
        /\ (p.flow # "idle" => p.exp = q.exp /\ p.db = q.db /\ p.lines = q.lines)
  BY <1>1, ProceedWent
<1>3. Set(m, p)
  BY DEF Proceed
<1> HIDE DEF p
<1>4. Others(m) /\ op'[m] = p
  BY <1>1, <1>2, <1>3, SetOK
<1> QED  BY <1>2, <1>4 DEF Advances

\* A step that succeeds and keeps no data.
LEMMA PlainSuccess ==
  ASSUME Typed, NEW m \in Operators, Busy(m), Proceed(m, op[m])
  PROVE  Advances(m) /\ Data(m)
<1>1. op[m] \in Ops /\ Same(op[m], op[m])
  BY DEF Typed, TypeOK, Same
<1> QED  BY <1>1, Success DEF Data

\* A step that fails stops its operator.
LEMMA Failure ==
  ASSUME Typed, NEW m \in Operators, Busy(m), Refuse(m)
  PROVE  Stops(m)
<1>1. op[m] \in Ops /\ op[m].flow # "idle" /\ Fits(op[m]) /\ op \in [Operators -> Ops]
  BY DEF Typed, TypeOK, FitsAll, Busy
<1> DEFINE q == [op[m] EXCEPT !.failed = TRUE]
           p == Then(q, AfterFailure(op[m]))
<1>2. p \in Ops /\ Stopped(op[m], p)
        /\ (p.flow # "idle" => p.exp = op[m].exp /\ p.db = op[m].db /\ p.lines = op[m].lines)
  BY <1>1, RefuseStopped
<1>3. Set(m, p)
  BY DEF Refuse
<1> HIDE DEF p
<1>4. Others(m) /\ op'[m] = p
  BY <1>1, <1>2, <1>3, SetOK
<1> QED  BY <1>2, <1>4 DEF Stops, Data

\* What fits still does after a step that succeeds, if its read was well typed.
LEMMA WentFits ==
  ASSUME NEW o \in Ops, NEW p \in Ops, o.flow # "idle", Fits(o), Went(o, p), p.flow # "idle",
         Head(o.todo) = "load" => p.db \in Tables, Head(o.todo) = "readV1" => p.lines \in Lines
  PROVE  Fits(p)
<1>1. o.flow \in Working
  BY WorkingFlow
<1>2. /\ Same(o, p) /\ p.todo # <<>> /\ Planned(p.flow, p.todo)
      /\ \/ Head(p.todo) = "next" /\ Tail(o.todo) = <<>> /\ o.left # {}
         \/ Follows(o.flow, Head(o.todo), Head(p.todo)) /\ p.todo = Tail(o.todo)
  BY RestingOK DEF Went, Ops
<1>3. Head(p.todo) # "next" => Head(o.todo) # "next"
  BY <1>1, <1>2, StepOrder
<1>4. /\ Head(p.todo) = "write" => Head(o.todo) = "load"
      /\ Head(p.todo) = "writeV1" => Head(o.todo) = "readV1"
  BY <1>1, <1>2, StepOrder
<1> QED  BY <1>2, <1>3, <1>4 DEF Fits, Same

\* What fits still does after a step that fails.
LEMMA StoppedFits ==
  ASSUME NEW o \in Ops, NEW p \in Ops, o.flow # "idle", Fits(o), Stopped(o, p), p.flow # "idle",
         Head(o.todo) # "next"
  PROVE  Fits(p)
<1>1. Same(o, p) /\ p.todo # <<>> /\ Planned(p.flow, p.todo)
        /\ Head(p.todo) \in {"next", "rollback", "readV1", "kick"}
  BY RestingOK DEF Stopped
<1> QED  BY <1>1 DEF Fits, Same

\* Whatever m does, the operations fit.
LEMMA MovedFits ==
  ASSUME Typed, NEW m \in Operators, Busy(m), Head(op[m].todo) # "next",
         \/ /\ Advances(m)
            /\ op'[m].flow # "idle" =>
                 /\ Head(op[m].todo) = "load" => op'[m].db \in Tables
                 /\ Head(op[m].todo) = "readV1" => op'[m].lines \in Lines
         \/ Stops(m)
  PROVE  op' \in [Operators -> Ops] /\ FitsAll'
<1>1. op' \in [Operators -> Ops] /\ \A k \in Operators \ {m} : op'[k] = op[k]
  BY DEF Advances, Stops, Others
<1>2. op[m] \in Ops /\ op'[m] \in Ops /\ op[m].flow # "idle" /\ Fits(op[m])
  BY <1>1 DEF Typed, TypeOK, FitsAll, Busy
<1>3. op'[m].flow # "idle" => Fits(op'[m])
  BY <1>2, WentFits, StoppedFits DEF Advances, Stops
<1>4. ASSUME NEW k \in Operators, Busy(k)' PROVE Fits(op[k])'
  BY <1>1, <1>3, <1>4 DEF Typed, FitsAll, Busy
<1> QED  BY <1>1, <1>4 DEF FitsAll

-----------------------------------------------------------------------------
(* What each action does.                                                   *)

\* The account as chpasswd, and as chage, leaves it.
WithPassword(a) == [a EXCEPT !.pw = TRUE]
Renewed(a, e) == [a EXCEPT !.exp = e]

\* chpasswd changes the password alone.
LEMMA PasswordOK ==
  ASSUME NEW a \in Accts
  PROVE  /\ WithPassword(a) \in Accts /\ WithPassword(a).pw
         /\ WithPassword(a).gen = a.gen /\ WithPassword(a).by = a.by
         /\ WithPassword(a).exp = a.exp /\ WithPassword(a).fresh = a.fresh
  BY DEF Accts, WithPassword

\* chage changes the expiry day alone.
LEMMA RenewedOK ==
  ASSUME NEW a \in Accts, NEW e \in Days
  PROVE  /\ Renewed(a, e) \in Accts /\ Renewed(a, e).exp = e
         /\ Renewed(a, e).gen = a.gen /\ Renewed(a, e).by = a.by
         /\ Renewed(a, e).pw = a.pw /\ Renewed(a, e).fresh = a.fresh
  BY DEF Accts, Renewed

\* An operation that has worked out its expiry day.
LEMMA WithExp ==
  ASSUME NEW o \in Ops, NEW e \in Days
  PROVE  LET q == [o EXCEPT !.exp = e] IN
         q \in Ops /\ Same(o, q) /\ q.todo = o.todo /\ q.failed = o.failed
           /\ q.exp = e /\ q.db = o.db /\ q.lines = o.lines
  BY DEF Ops, Same

\* An operation that has read users.json.
LEMMA WithDb ==
  ASSUME NEW o \in Ops, NEW x \in Tables \cup {None}
  PROVE  LET q == [o EXCEPT !.db = x] IN
         q \in Ops /\ Same(o, q) /\ q.todo = o.todo /\ q.failed = o.failed
           /\ q.exp = o.exp /\ q.db = x /\ q.lines = o.lines
  BY DEF Ops, Same

\* An operation that has read the list of the first version.
LEMMA WithLines ==
  ASSUME NEW o \in Ops, NEW x \in Lines \cup {None}
  PROVE  LET q == [o EXCEPT !.lines = x] IN
         q \in Ops /\ Same(o, q) /\ q.todo = o.todo /\ q.failed = o.failed
           /\ q.exp = o.exp /\ q.db = o.db /\ q.lines = x
  BY DEF Ops, Same

\* The expiry day that an operation gives is never, or still to come.
LEMMA ExpiryDayOK ==
  ASSUME NEW o \in Ops, today \in 1..(MaxToday + 1)
  PROVE  ExpiryDay(o) \in Days /\ (ExpiryDay(o) = Never \/ ExpiryDay(o) > today)
<1>1. o.days \in 0..MaxDays /\ MaxDays \in Nat /\ MaxToday \in Nat
  BY ParametersOK DEF Ops
<1> QED  BY <1>1 DEF ExpiryDay, Days, Never

\* What is known of an operator whose next step is s.
LEMMA AtStep ==
  ASSUME Typed, NEW m \in Operators, NEW s, At(m, s)
  PROVE  /\ Busy(m) /\ op[m].flow # "idle" /\ Head(op[m].todo) = s /\ op[m] \in Ops /\ Fits(op[m])
         /\ op[m].flow \in Working
         /\ s # "next" => op[m].name \in Names
  BY WorkingFlow DEF At, Typed, TypeOK, FitsAll, Busy, Fits

\* useradd makes the account under a name that had none, or nothing happens.
LEMMA CreateSystemUserDoes ==
  ASSUME Typed, NEW m \in Operators, CreateSystemUser(m)
  PROVE  /\ At(m, "useradd") /\ UNCHANGED <<certs, rows, tmp, v1, jobs, sess, today, events>>
         /\ \/ /\ Advances(m) /\ passwd[op[m].name] = None
               /\ passwd' = [passwd EXCEPT ![op[m].name] = NewAccount(op[m])]
               /\ told' = [told EXCEPT ![op[m].name] = None]
               /\ made' = made \cup {op[m].gen} /\ spent' = spent
            \/ Stops(m) /\ UNCHANGED <<passwd, told, made>> /\ spent' \in {spent, spent + 1}
<1>1. At(m, "useradd") /\ Busy(m) /\ op[m] \in Ops
  BY AtStep DEF CreateSystemUser
<1>2. ExpiryDay(op[m]) \in Days
  BY <1>1, ExpiryDayOK DEF Typed, TypeOK
<1>3. Proceed(m, [op[m] EXCEPT !.exp = ExpiryDay(op[m])]) => Advances(m)
  <2> DEFINE q == [op[m] EXCEPT !.exp = ExpiryDay(op[m])]
  <2>1. q \in Ops /\ Same(op[m], q) /\ q.todo = op[m].todo /\ q.failed = op[m].failed
    BY <1>1, <1>2, WithExp
  <2> HIDE DEF q
  <2>2. Proceed(m, q) => Advances(m)
    BY <1>1, <2>1, Success
  <2> QED  BY <2>2 DEF q
<1>4. Refuse(m) => Stops(m)
  BY <1>1, Failure
<1> QED  BY <1>1, <1>3, <1>4 DEF CreateSystemUser, Succeeds, Fails, Spend

\* chpasswd sets the password of an account that is there, or nothing happens.
LEMMA SetPasswordDoes ==
  ASSUME Typed, NEW m \in Operators, SetPassword(m)
  PROVE  /\ At(m, "chpasswd") /\ UNCHANGED <<certs, rows, tmp, v1, jobs, sess, today, told, events,
              made>>
         /\ \/ /\ Advances(m) /\ passwd[op[m].name] # None
               /\ passwd' = [passwd EXCEPT ![op[m].name] = WithPassword(passwd[op[m].name])]
                    /\ spent' = spent
            \/ Stops(m) /\ passwd' = passwd /\ spent' \in {spent, spent + 1}
<1>1. At(m, "chpasswd") /\ Busy(m)
  BY AtStep DEF SetPassword
<1> QED  BY <1>1, PlainSuccess, Failure DEF WithPassword, SetPassword, Succeeds, Fails, Spend

\* chage sets the expiry day of an account that is there, or nothing happens.
LEMMA ChageExpiryDoes ==
  ASSUME Typed, NEW m \in Operators, ChageExpiry(m)
  PROVE  /\ At(m, "chage") /\ UNCHANGED <<certs, rows, tmp, v1, jobs, sess, today, told, events,
              made>>
         /\ \/ /\ Advances(m) /\ passwd[op[m].name] # None
               /\ passwd' = [passwd EXCEPT ![op[m].name] = Renewed(passwd[op[m].name],
                    ExpiryDay(op[m]))]
               /\ spent' = spent
            \/ Stops(m) /\ passwd' = passwd /\ spent' \in {spent, spent + 1}
<1>1. At(m, "chage") /\ Busy(m) /\ op[m] \in Ops
  BY AtStep DEF ChageExpiry
<1>2. ExpiryDay(op[m]) \in Days
  BY <1>1, ExpiryDayOK DEF Typed, TypeOK
<1>3. Proceed(m, [op[m] EXCEPT !.exp = ExpiryDay(op[m])]) => Advances(m)
  <2> DEFINE q == [op[m] EXCEPT !.exp = ExpiryDay(op[m])]
  <2>1. q \in Ops /\ Same(op[m], q) /\ q.todo = op[m].todo /\ q.failed = op[m].failed
    BY <1>1, <1>2, WithExp
  <2> HIDE DEF q
  <2>2. Proceed(m, q) => Advances(m)
    BY <1>1, <2>1, Success
  <2> QED  BY <2>2 DEF q
<1>4. Refuse(m) => Stops(m)
  BY <1>1, Failure
<1> QED  BY <1>1, <1>3, <1>4 DEF Renewed, ChageExpiry, Succeeds, Fails, Spend

\* userdel leaves no account, or nothing happens.
LEMMA DeleteSystemUserDoes ==
  ASSUME Typed, NEW m \in Operators, DeleteSystemUser(m)
  PROVE  /\ At(m, "userdel") /\ UNCHANGED <<certs, rows, tmp, v1, jobs, sess, today, told, events,
              made>>
         /\ \/ /\ Advances(m) /\ passwd' = [passwd EXCEPT ![op[m].name] = None] /\ spent' = spent
            \/ Stops(m) /\ passwd' = passwd /\ spent' \in {spent, spent + 1}
<1>1. At(m, "userdel") /\ Busy(m)
  BY AtStep DEF DeleteSystemUser
<1> QED  BY <1>1, PlainSuccess, Failure DEF DeleteSystemUser, Succeeds, Fails, Spend

\* The userdel of a creation that failed, whose error is ignored.
LEMMA RollbackDoes ==
  ASSUME Typed, NEW m \in Operators, Rollback(m)
  PROVE  /\ At(m, "rollback") /\ Advances(m)
              /\ UNCHANGED <<certs, rows, tmp, v1, jobs, sess, today, told, made>>
         /\ \/ passwd' = [passwd EXCEPT ![op[m].name] = None] /\ UNCHANGED <<events, spent>>
            \/ passwd' = passwd /\ events' = events \cup {"rollbackFault"} /\ spent' = spent + 1
<1>1. At(m, "rollback") /\ Busy(m)
  BY AtStep DEF Rollback
<1> QED  BY <1>1, PlainSuccess DEF Rollback, Spend, Note

\* The certificate is made or not; only `user add` stops when it is not.
LEMMA CertifyDoes ==
  ASSUME Typed, NEW m \in Operators, Certify(m)
  PROVE  /\ At(m, "cert") /\ UNCHANGED <<passwd, rows, tmp, v1, jobs, sess, today, events, made>>
         /\ certs' \in {certs, certs \cup {op[m].name}} /\ spent' \in {spent, spent + 1}
         /\ Advances(m) \/ (Stops(m) /\ op[m].flow = "add")
         /\ told' = IF op[m].flow = "create" THEN [told EXCEPT ![op[m].name] = op[m].limit]
              ELSE told
<1>1. At(m, "cert") /\ Busy(m)
  BY AtStep DEF Certify
<1> QED  BY <1>1, PlainSuccess, Failure DEF Certify, Succeeds, Fails, Spend

\* The certificate is removed or not.
LEMMA RemoveCertDoes ==
  ASSUME Typed, NEW m \in Operators, RemoveCert(m)
  PROVE  /\ At(m, "uncert") /\ UNCHANGED <<passwd, rows, tmp, v1, jobs, sess, today, told, events,
              made>>
         /\ certs' \in {certs, certs \ {op[m].name}} /\ spent' \in {spent, spent + 1}
         /\ Advances(m) \/ Stops(m)
<1>1. At(m, "uncert") /\ Busy(m)
  BY AtStep DEF RemoveCert
<1> QED  BY <1>1, PlainSuccess, Failure DEF RemoveCert, Succeeds, Fails, Spend

\* users.json is read, or cannot be parsed.
LEMMA LoadDoes ==
  ASSUME Typed, NEW m \in Operators, Load(m)
  PROVE  /\ At(m, "load") /\ UNCHANGED <<passwd, certs, rows, tmp, v1, jobs, sess, today, told,
              events, made, spent>>
         /\ \/ /\ Advances(m) /\ rows # Broken
               /\ op'[m].flow # "idle" => op'[m].db = rows /\ rows \in Tables
            \/ Stops(m) /\ rows = Broken
<1>1. At(m, "load") /\ Busy(m) /\ op[m] \in Ops
  BY AtStep DEF Load
<1>3. CASE rows # Broken /\ Succeeds(m, [op[m] EXCEPT !.db = rows])
  <2> DEFINE q == [op[m] EXCEPT !.db = rows]
  <2>1. rows \in Tables
    BY <1>3 DEF Typed, TypeOK
  <2>2. q \in Ops /\ Same(op[m], q) /\ q.todo = op[m].todo /\ q.failed = op[m].failed /\ q.db = rows
    BY <1>1, <2>1, WithDb
  <2>3. Proceed(m, q)
    BY <1>3 DEF Succeeds
  <2> HIDE DEF q
  <2>4. Advances(m) /\ (op'[m].flow # "idle" => op'[m].db = rows)
    BY <1>1, <2>2, <2>3, Success
  <2> QED  BY <1>1, <1>3, <2>1, <2>4 DEF Load, Succeeds
<1>4. CASE rows = Broken /\ Fails(m, TRUE)
  BY <1>1, <1>4, Failure DEF Load, Fails
<1> QED  BY <1>3, <1>4 DEF Load

\* The temporary file holds the table with one row changed, or is damaged.
LEMMA WriteTmpDoes ==
  ASSUME Typed, NEW m \in Operators, WriteTmp(m)
  PROVE  /\ At(m, "write") /\ UNCHANGED <<passwd, certs, rows, v1, jobs, sess, today, told, events,
              made>>
         /\ \/ /\ Advances(m) /\ tmp' = [op[m].db EXCEPT ![op[m].name] = NewRow(op[m])]
                    /\ spent' = spent
               /\ op'[m].flow # "idle" => op'[m].exp = op[m].exp
            \/ Stops(m) /\ tmp' \in {tmp, Broken} /\ spent' = spent + 1
<1>1. At(m, "write") /\ Busy(m) /\ op[m] \in Ops
  BY AtStep DEF WriteTmp
<1>3. Proceed(m, [op[m] EXCEPT !.db = None]) => Advances(m)
        /\ (op'[m].flow # "idle" => op'[m].exp = op[m].exp)
  <2> DEFINE q == [op[m] EXCEPT !.db = None]
  <2>1. q \in Ops /\ Same(op[m], q) /\ q.todo = op[m].todo /\ q.failed = op[m].failed
          /\ q.exp = op[m].exp
    BY <1>1, WithDb
  <2> HIDE DEF q
  <2>2. Proceed(m, q) => Advances(m) /\ (op'[m].flow # "idle" => op'[m].exp = op[m].exp)
    BY <1>1, <2>1, Success
  <2> QED  BY <2>2 DEF q
<1>4. Refuse(m) => Stops(m)
  BY <1>1, Failure
<1> QED  BY <1>1, <1>3, <1>4 DEF WriteTmp, Succeeds, Fails, Spend

\* The temporary file becomes users.json, or nothing happens to it.
LEMMA RenameTmpDoes ==
  ASSUME Typed, NEW m \in Operators, RenameTmp(m)
  PROVE  /\ At(m, "rename") /\ tmp' = None
              /\ UNCHANGED <<passwd, certs, v1, jobs, sess, today, events, made>>
         /\ \/ /\ Advances(m) /\ tmp # None /\ rows' = tmp /\ spent' = spent
               /\ told' = IF op[m].flow = "add" THEN [told EXCEPT ![op[m].name] = op[m].limit]
                    ELSE told
            \/ Stops(m) /\ UNCHANGED <<rows, told>> /\ spent' \in {spent, spent + 1}
<1>1. At(m, "rename") /\ Busy(m)
  BY AtStep DEF RenameTmp
<1> QED  BY <1>1, PlainSuccess, Failure DEF RenameTmp, Succeeds, Fails, Spend

\* The list of the first version is read; it has no error path.
LEMMA ReadV1Does ==
  ASSUME Typed, NEW m \in Operators, ReadV1(m)
  PROVE  /\ At(m, "readV1") /\ UNCHANGED <<passwd, certs, rows, tmp, v1, jobs, sess, today, told,
              events, made, spent>>
         /\ Advances(m) /\ (op'[m].flow # "idle" => op'[m].lines = v1)
<1>1. At(m, "readV1") /\ Busy(m) /\ op[m] \in Ops /\ v1 \in Lines
  BY AtStep DEF ReadV1, Typed, TypeOK
<1> DEFINE q == [op[m] EXCEPT !.lines = v1]
<1>2. q \in Ops /\ Same(op[m], q) /\ q.todo = op[m].todo /\ q.failed = op[m].failed /\ q.lines = v1
  BY <1>1, WithLines
<1>3. Proceed(m, q)
  BY DEF ReadV1, Succeeds
<1> HIDE DEF q
<1>4. Advances(m) /\ (op'[m].flow # "idle" => op'[m].lines = v1)
  BY <1>1, <1>2, <1>3, Success
<1> QED  BY <1>1, <1>4 DEF ReadV1, Succeeds

\* The list of the first version is written over, or is lost.
LEMMA WriteV1Does ==
  ASSUME Typed, NEW m \in Operators, WriteV1(m)
  PROVE  /\ At(m, "writeV1") /\ Advances(m)
              /\ UNCHANGED <<passwd, certs, rows, tmp, jobs, sess, today, made>>
         /\ \/ v1' = [op[m].lines EXCEPT ![op[m].name] = NewLine(op[m])]
                 /\ UNCHANGED <<events, spent>>
            \/ v1' = [n \in Names |-> None] /\ events' = events \cup {"v1Fault"}
                 /\ spent' = spent + 1
         /\ told' = CASE op[m].flow = "limit" -> [told EXCEPT ![op[m].name] = op[m].limit]
                      [] op[m].flow = "removeAll" -> [told EXCEPT ![op[m].name] = None]
                      [] OTHER -> told
<1>1. At(m, "writeV1") /\ Busy(m) /\ op[m] \in Ops
  BY AtStep DEF WriteV1
<1> DEFINE q == [op[m] EXCEPT !.lines = None]
<1>2. q \in Ops /\ Same(op[m], q) /\ q.todo = op[m].todo /\ q.failed = op[m].failed
  BY <1>1, WithLines
<1>3. Proceed(m, q)
  BY DEF WriteV1
<1> HIDE DEF q
<1>4. Advances(m)
  BY <1>1, <1>2, <1>3, Success
<1> QED  BY <1>1, <1>4 DEF WriteV1, Spend, Note

\* The job that ends a trial is scheduled or not; nobody looks.
LEMMA ScheduleTrialEndDoes ==
  ASSUME Typed, NEW m \in Operators, ScheduleTrialEnd(m)
  PROVE  /\ At(m, "at") /\ Advances(m)
              /\ UNCHANGED <<passwd, certs, rows, tmp, v1, sess, today, events, made>>
         /\ jobs' \in {jobs, jobs \cup {[name |-> op[m].name, gen |-> op[m].gen,
              running |-> FALSE]}}
         /\ spent' \in {spent, spent + 1}
         /\ told' = [told EXCEPT ![op[m].name] = op[m].limit]
<1>1. At(m, "at") /\ Busy(m)
  BY AtStep DEF ScheduleTrialEnd
<1> QED  BY <1>1, PlainSuccess DEF ScheduleTrialEnd, Spend

\* The sessions under the name end.
LEMMA KickDoes ==
  ASSUME Typed, NEW m \in Operators, Kick(m)
  PROVE  /\ At(m, "kick") /\ Advances(m) /\ sess' = {s \in sess : s.name # op[m].name}
         /\ UNCHANGED <<passwd, certs, rows, tmp, v1, jobs, today, told, events, made, spent>>
<1>1. At(m, "kick") /\ Busy(m)
  BY AtStep DEF Kick
<1> QED  BY <1>1, PlainSuccess DEF Kick, Succeeds

\* The operation p that begins on one name, and the loop p over all there are.
OneName(p) ==
  /\ p.flow \in Working \ Looping /\ p.todo = Steps(p.flow) /\ p.name \in Names /\ p.left = {}
  /\ p.gen = (IF passwd[p.name] = None THEN spent + 1 ELSE passwd[p.name].gen)
  /\ p.flow \in Creating => passwd[p.name] = None
  /\ p.flow = "remove" => passwd[p.name] # None
  /\ p.flow \in {"create", "trial", "limit"} => p.limit > 0

AllNames(p) ==
  /\ p.flow \in Looping /\ p.todo = <<"next">> /\ p.left = Present
  /\ p.due = {ExpiryOf(n) : n \in {a \in Present : Expired(passwd[a])}}

\* An operator begins an operation.
Begins(m) ==
  /\ ~Busy(m) /\ Others(m) /\ ~op'[m].failed /\ (OneName(op'[m]) \/ AllNames(op'[m]))
  /\ spent < MaxSpent /\ spent' = spent + 1
  /\ events' = (IF Overlaps(m) THEN events \cup {"overlap"} ELSE events)
  /\ UNCHANGED <<passwd, certs, rows, tmp, v1, jobs, sess, today, told, made>>

\* Begin does no more than that.
LEMMA BeginDoes ==
  ASSUME Typed, NEW m \in Operators, NEW o \in Ops, ~o.failed, OneName(o) \/ AllNames(o),
         Begin(m, o)
  PROVE  Begins(m)
<1>1. op \in [Operators -> Ops] /\ Set(m, o)
  BY DEF Typed, TypeOK, Begin
<1>2. Others(m) /\ op'[m] = o
  BY <1>1, SetOK
<1> QED  BY <1>2 DEF Begin, Begins, Spend

\* The record of an operation on one name.
LEMMA OrderOK ==
  ASSUME Typed, spent < MaxSpent, NEW f \in Working, NEW n \in Names, NEW l \in 0..MaxLimit,
         NEW d \in 0..MaxDays
  PROVE  LET o == Order(f, n, l, d) IN
         /\ o \in Ops /\ ~o.failed /\ o.flow = f /\ o.todo = Steps(f) /\ o.name = n /\ o.limit = l
              /\ o.left = {}
         /\ o.gen = (IF passwd[n] = None THEN spent + 1 ELSE passwd[n].gen)
<1> DEFINE g == IF passwd[n] = None THEN spent + 1 ELSE passwd[n].gen
           t == Steps(f)
<1>1. g \in Gens
  <2>1. passwd[n] \in Accts \cup {None} /\ spent \in Nat /\ MaxSpent \in Nat
    BY ParametersOK DEF Typed, TypeOK
  <2>2. passwd[n] # None => passwd[n].gen \in Gens
    BY <2>1 DEF Accts
  <2> QED  BY <2>1, <2>2 DEF Gens
<1>2. t \in Seq(StepNames) /\ f \in Flows
  BY StepsOK DEF Working
<1>3. Resting \in Ops /\ Resting.left = {} /\ Resting.failed = FALSE
  BY RestingOK
<1>4. Order(f, n, l, d) = [Resting EXCEPT !.flow = f, !.todo = t, !.name = n, !.limit = l,
        !.days = d, !.gen = g]
  BY DEF Order
<1> HIDE DEF t, g
<1>5. [Resting EXCEPT !.flow = f, !.todo = t, !.name = n, !.limit = l, !.days = d,
        !.gen = g] \in Ops
  BY <1>1, <1>2, <1>3 DEF Ops
<1> DEFINE o == [Resting EXCEPT !.flow = f, !.todo = t, !.name = n, !.limit = l, !.days = d,
      !.gen = g]
<1>6. /\ ~o.failed /\ o.flow = f /\ o.todo = t /\ o.name = n /\ o.limit = l /\ o.left = {}
      /\ o.gen = g
  BY <1>3 DEF Ops
<1> HIDE DEF o
<1>7. Order(f, n, l, d) = o
  BY <1>4 DEF o
<1> QED  BY <1>5, <1>6, <1>7 DEF t, g, o

\* The operations on one name begin with the first step of their flow.
LEMMA StartsBegin ==
  ASSUME Typed, NEW m \in Operators, NEW n \in Names, NEW l \in 0..MaxLimit, NEW d \in 0..MaxDays,
         \/ \E f \in Creating : StartCreate(m, f, n, l, d)
         \/ \E f \in Picking : StartPick(m, f, n, l, d)
         \/ StartDrop(m, n)
  PROVE  Begins(m)
<1>1. ASSUME NEW f \in Creating, StartCreate(m, f, n, l, d) PROVE Begins(m)
  <2>1. spent < MaxSpent /\ f \in Working \ Looping /\ passwd[n] = None
          /\ (f \in {"create", "trial"} => l > 0)
    BY <1>1 DEF StartCreate, Begin, Spend, Working, Looping, Flows, Creating
  <2> DEFINE o == Order(f, n, l, d)
  <2>2. /\ o \in Ops /\ ~o.failed /\ o.flow = f /\ o.todo = Steps(f) /\ o.name = n /\ o.limit = l
             /\ o.left = {}
        /\ o.gen = (IF passwd[n] = None THEN spent + 1 ELSE passwd[n].gen)
    BY <2>1, OrderOK
  <2>3. Begin(m, o)
    BY <1>1 DEF StartCreate
  <2> HIDE DEF o
  <2>4. OneName(o)
    BY <2>1, <2>2, <1>1 DEF OneName, Creating
  <2> QED  BY <2>2, <2>3, <2>4, BeginDoes
<1>2. ASSUME NEW f \in Picking, StartPick(m, f, n, l, d) PROVE Begins(m)
  <2>1. spent < MaxSpent /\ f \in {"expiry", "limit", "password", "remove"}
          /\ f \in Working \ Looping
          /\ passwd[n] # None /\ (f = "limit" => l > 0)
    BY <1>2 DEF StartPick, Begin, Spend, Working, Looping, Flows, Picking
  <2> DEFINE o == Order(f, n, l, d)
  <2>2. /\ o \in Ops /\ ~o.failed /\ o.flow = f /\ o.todo = Steps(f) /\ o.name = n /\ o.limit = l
             /\ o.left = {}
        /\ o.gen = (IF passwd[n] = None THEN spent + 1 ELSE passwd[n].gen)
    BY <2>1, OrderOK
  <2>3. Begin(m, o)
    BY <1>2 DEF StartPick
  <2> HIDE DEF o
  <2>4. OneName(o)
    BY <2>1, <2>2 DEF OneName, Creating
  <2> QED  BY <2>2, <2>3, <2>4, BeginDoes
<1>3. ASSUME StartDrop(m, n) PROVE Begins(m)
  <2>1. spent < MaxSpent /\ "drop" \in Working \ Looping /\ 0 \in 0..MaxLimit /\ 0 \in 0..MaxDays
    BY <1>3, ParametersOK DEF StartDrop, Begin, Spend, Working, Looping, Flows, Deleting
  <2> DEFINE o == Order("drop", n, 0, 0)
  <2>2. /\ o \in Ops /\ ~o.failed /\ o.flow = "drop" /\ o.todo = Steps("drop") /\ o.name = n
             /\ o.left = {}
        /\ o.gen = (IF passwd[n] = None THEN spent + 1 ELSE passwd[n].gen)
    BY <2>1, OrderOK
  <2>3. Begin(m, o)
    BY <1>3 DEF StartDrop
  <2> HIDE DEF o
  <2>4. OneName(o)
    BY <2>1, <2>2 DEF OneName, Creating
  <2> QED  BY <2>2, <2>3, <2>4, BeginDoes
<1> QED  BY <1>1, <1>2, <1>3

\* The loops begin with every name there is.
LEMMA LoopBegins ==
  ASSUME Typed, NEW m \in Operators, NEW f \in Looping, StartLoop(m, f)
  PROVE  Begins(m)
<1> DEFINE w == <<"next">>
           u == {ExpiryOf(n) : n \in {a \in Present : Expired(passwd[a])}}
           o == [Resting EXCEPT !.flow = f, !.todo = w, !.left = Present, !.due = u]
<1>1. w \in Seq(StepNames) /\ f \in Flows /\ Present \in SUBSET Names
  BY DEF StepNames, Looping, Flows, Deleting, Present
<1>2. u \in SUBSET [name : Names, exp : Days]
  <2>1. ASSUME NEW n \in Present PROVE ExpiryOf(n) \in [name : Names, exp : Days]
    <3>1. n \in Names /\ passwd[n] \in Accts
      BY DEF Present, Typed, TypeOK
    <3> QED  BY <3>1 DEF ExpiryOf, Accts
  <2> QED  BY <2>1
<1>3. Resting \in Ops /\ Resting.failed = FALSE
  BY RestingOK
<1>4. Begin(m, o)
  BY DEF StartLoop
<1>5. o.due = u /\ o.left = Present /\ o.todo = w /\ o.flow = f /\ ~o.failed
  <2> HIDE DEF u, w
  <2> QED  BY <1>3 DEF Ops
<1>6. o \in Ops
  <2> HIDE DEF u, w
  <2> QED  BY <1>1, <1>2, <1>3 DEF Ops
<1> HIDE DEF o
<1>7. AllNames(o)
  BY <1>5 DEF AllNames
<1> QED  BY <1>4, <1>5, <1>6, <1>7, BeginDoes

\* What a loop asks of the next name.
Goes(m, n) ==
  \/ op[m].flow = "removeAll"
  \/ passwd[n] # None /\ passwd[n].exp # Never /\ DaysLeft(passwd[n].exp) < 0

\* The loop takes up the name, skips it, or ends with it.
TakesUp(m, n) ==
  LET o == op[m]  p == op'[m] IN
  \/ /\ Goes(m, n) /\ p.todo = Steps(o.flow)
     /\ p.flow = o.flow /\ p.name = n /\ p.due = o.due /\ p.left = o.left \ {n}
          /\ p.failed = o.failed
  \/ /\ ~Goes(m, n) /\ p.todo = <<"next">>
     /\ p.flow = o.flow /\ p.due = o.due /\ p.left = o.left \ {n} /\ p.failed = o.failed
  \/ ~Goes(m, n) /\ o.left = {n} /\ p = [Resting EXCEPT !.failed = o.failed]

\* NextName does no more than that.
LEMMA NextNameDoes ==
  ASSUME Typed, NEW m \in Operators, NextName(m)
  PROVE  /\ At(m, "next") /\ op[m].flow \in Looping /\ Others(m)
         /\ \E n \in op[m].left : TakesUp(m, n)
         /\ UNCHANGED <<passwd, certs, rows, tmp, v1, jobs, sess, today, told, events, spent, made>>
<1>1. At(m, "next") /\ op[m].flow # "idle" /\ op[m] \in Ops /\ Fits(op[m]) /\ op[m].flow \in Working
  BY AtStep DEF NextName
<1>2. PICK n \in op[m].left :
        Set(m, Then([op[m] EXCEPT !.left = @ \ {n}, !.name = n],
             IF Goes(m, n) THEN Steps(op[m].flow) ELSE <<>>))
  <2> DEFINE o(n) == [op[m] EXCEPT !.left = @ \ {n}, !.name = n]
  <2>1. PICK n \in op[m].left :
          LET goes == \/ o(n).flow = "removeAll"
                      \/ passwd[n] # None /\ passwd[n].exp # Never /\ DaysLeft(passwd[n].exp) < 0
          IN Set(m, Then(o(n), IF goes THEN Steps(o(n).flow) ELSE <<>>))
    BY DEF NextName
  <2>2. o(n).flow = op[m].flow
    BY <1>1 DEF Ops
  <2> QED  BY <2>1, <2>2 DEF Goes
<1>3. op[m].flow \in Looping
  BY <1>1, <1>2 DEF Fits
<1> DEFINE q == [op[m] EXCEPT !.left = @ \ {n}, !.name = n]
           rest == IF Goes(m, n) THEN Steps(op[m].flow) ELSE <<>>
<1>4. q \in Ops /\ q.flow = op[m].flow /\ q.name = n /\ q.due = op[m].due
        /\ q.left = op[m].left \ {n} /\ q.failed = op[m].failed
  BY <1>1 DEF Ops
<1>5. rest \in Seq(StepNames) /\ (rest # <<>> => Planned(q.flow, rest))
        /\ (Goes(m, n) => rest # <<>>)
  BY <1>1, <1>4, StepsOK, FirstStep
<1>6. Set(m, Then(q, rest))
  BY <1>2
<1>7. (Goes(m, n) => rest = Steps(op[m].flow)) /\ (~Goes(m, n) => rest = <<>>)
  OBVIOUS
<1> HIDE DEF q, rest
<1>8. /\ Then(q, rest) \in Ops
      /\ \/ rest = <<>> /\ q.left = {} /\ Then(q, rest) = [Resting EXCEPT !.failed = q.failed]
         \/ /\ Same(q, Then(q, rest)) /\ Then(q, rest).failed = q.failed
            /\ \/ rest = <<>> /\ q.left # {} /\ Then(q, rest).todo = <<"next">>
               \/ rest # <<>> /\ Then(q, rest).todo = rest
  BY <1>3, <1>4, <1>5, ThenOK
<1>9. Others(m) /\ op'[m] = Then(q, rest)
  BY <1>6, <1>8, SetOK DEF Typed, TypeOK
<1>10. TakesUp(m, n)
  BY <1>4, <1>5, <1>7, <1>8, <1>9 DEF TakesUp, Same
<1> QED  BY <1>1, <1>3, <1>9, <1>10 DEF NextName

\* A crash ends the operation and leaves the store as it is.
LEMMA CrashDoes ==
  ASSUME Typed, NEW m \in Operators, Crash(m)
  PROVE  /\ Busy(m) /\ Others(m) /\ op'[m] = [Resting EXCEPT !.failed = TRUE]
         /\ events' = events \cup {"crash"} /\ spent' = spent + 1
         /\ UNCHANGED <<passwd, certs, rows, tmp, v1, jobs, sess, today, told, made>>
<1>1. [Resting EXCEPT !.failed = TRUE] \in Ops
  BY RestingOK
<1>2. Others(m) /\ op'[m] = [Resting EXCEPT !.failed = TRUE]
  BY <1>1, SetOK DEF Crash, Typed, TypeOK
<1> QED  BY <1>2 DEF Crash, Spend, Note

\* The flows that change an account's row.
Changing == {"expiry", "limit"}

\* Which operations a step belongs to.
LEMMA StepFlows ==
  ASSUME NEW flow \in Working, NEW k \in 1..Len(Steps(flow)), NEW s, s = Steps(flow)[k]
  PROVE  /\ s = "useradd" => flow \in Creating
         /\ s = "chpasswd" => flow \in Creating \cup {"password"}
         /\ s = "cert" => flow \in {"add", "create"}
         /\ s \in {"load", "write", "rename"}
              => flow \in (Creating \ {"trial"}) \cup Deleting \cup Changing
         /\ s \in {"readV1", "writeV1"}
              => flow \in {"create", "trial", "limit", "remove", "removeAll", "clean"}
         /\ s = "at" => flow = "trial"
         /\ s \in {"userdel", "uncert"} => flow \in Deleting
         /\ s = "kick" => flow \in Deleting \ {"drop"}
         /\ s = "chage" => flow = "expiry"
         /\ s \notin {"next", "rollback"}
<1>1. CASE flow = "add"
  BY <1>1 DEF Steps, AddSteps, Creating
<1>2. CASE flow = "create"
  BY <1>2 DEF Steps, CreateSteps, Creating
<1>3. CASE flow = "trial"
  BY <1>3 DEF Steps, TrialSteps, Creating
<1>4. CASE flow = "expiry"
  BY <1>4 DEF Steps, ExpirySteps, Changing
<1>5. CASE flow = "limit"
  BY <1>5 DEF Steps, LimitSteps, Changing
<1>6. CASE flow = "password"
  BY <1>6 DEF Steps
<1>7. CASE flow = "drop"
  BY <1>7 DEF Steps, RemoveSteps, Deleting
<1>8. CASE flow = "remove"
  BY <1>8 DEF Steps, RemoveUserSteps, RemoveSteps, V1Steps, Deleting
<1>9. CASE flow = "removeAll"
  BY <1>9 DEF Steps, RemoveUserSteps, RemoveSteps, V1Steps, Deleting
<1>10. CASE flow = "clean"
  BY <1>10 DEF Steps, CleanSteps, RemoveSteps, V1Steps, Deleting
<1>11. flow \in {"add", "create", "trial", "expiry", "limit", "password", "drop", "remove",
         "removeAll", "clean"}
  BY DEF Working, Flows, Creating, Picking, Deleting
<1> QED  BY <1>1, <1>2, <1>3, <1>4, <1>5, <1>6, <1>7, <1>8, <1>9, <1>10, <1>11

\* The same of the step that is next.
LEMMA HeadFlows ==
  ASSUME NEW o \in Ops, o.flow # "idle", Fits(o), NEW s, s = Head(o.todo)
  PROVE  /\ s = "useradd" => o.flow \in Creating
         /\ s = "chpasswd" => o.flow \in Creating \cup {"password"}
         /\ s = "cert" => o.flow \in {"add", "create"}
         /\ s \in {"load", "write", "rename"}
              => o.flow \in (Creating \ {"trial"}) \cup Deleting \cup Changing
         /\ s \in {"readV1", "writeV1"}
              => o.flow \in {"create", "trial", "limit", "remove", "removeAll", "clean"}
         /\ s = "at" => o.flow = "trial"
         /\ s \in {"userdel", "uncert"} => o.flow \in Deleting
         /\ s = "kick" => o.flow \in Deleting \ {"drop"}
         /\ s = "chage" => o.flow = "expiry"
         /\ s = "next" => o.flow \in Looping
         /\ s = "rollback" => o.flow \in Creating
<1>1. o.flow \in Working /\ o.todo \in Seq(StepNames) /\ o.todo # <<>> /\ Planned(o.flow, o.todo)
  BY WorkingFlow DEF Fits
<1>2. CASE o.todo = <<"next">> /\ o.flow \in Looping
  BY <1>2
<1>3. CASE o.todo = <<"rollback">> /\ o.flow \in Creating
  BY <1>3
<1>4. CASE \E k \in 1..Len(Steps(o.flow)) : LeftFrom(o.flow, o.todo, k)
  <2>1. PICK k \in 1..Len(Steps(o.flow)) : LeftFrom(o.flow, o.todo, k)
    BY <1>4
  <2>2. s = Steps(o.flow)[k]
    BY <1>1, <2>1 DEF LeftFrom
  <2> QED  BY <1>1, <2>2, StepFlows
<1> QED  BY <1>1, <1>2, <1>3, <1>4 DEF Planned

\* None and Broken are no rows, limits or tables.
LEMMA NoneApart ==
  None \notin [limit : Limits, exp : Days] /\ None \notin Limits /\ Broken \notin Tables
<1>1. Limits \subseteq Nat /\ Days \subseteq Nat
  BY ParametersOK DEF Limits, Days
<1>2. [limit : Limits, exp : Days] \subseteq [limit : Nat, exp : Nat]
  BY <1>1
<1>3. Tables \subseteq [Names -> [limit : Nat, exp : Nat] \cup {None}]
  <2>1. ASSUME NEW t \in Tables PROVE t \in [Names -> [limit : Nat, exp : Nat] \cup {None}]
    BY <1>2, <2>1 DEF Tables
  <2> QED  BY <2>1
<1> QED  BY <1>1, <1>2, <1>3, ParametersOK

\* useradd's account is one.
LEMMA NewAccountOK ==
  ASSUME NEW o \in Ops, o.flow \in Creating, today \in 1..(MaxToday + 1)
  PROVE  NewAccount(o) \in Accts
  BY ExpiryDayOK DEF NewAccount, Accts, Ops

\* The row that an operation writes.
LEMMA NewRowOK ==
  ASSUME NEW o \in Ops, o.db \in Tables, o.name \in Names,
         o.flow \in Creating \cup Deleting \cup Changing
  PROVE  /\ NewRow(o) \in [limit : Limits, exp : Days] \cup {None}
         /\ o.flow \in Deleting <=> NewRow(o) = None
         /\ o.flow \in Creating => NewRow(o).limit = o.limit
         /\ o.flow = "limit" => NewRow(o).limit = o.limit
         /\ o.flow = "expiry" => NewRow(o).limit = (IF o.db[o.name] = None THEN 0
              ELSE o.db[o.name].limit)
<1> DEFINE old == IF o.db[o.name] = None THEN Row(0, Never) ELSE o.db[o.name]
<1>1. old \in [limit : Limits, exp : Days] /\ (o.db[o.name] = None => old.limit = 0)
  <2>1. 0 \in Limits /\ Never \in Days
    BY ParametersOK DEF Limits, Days, Never
  <2> QED  BY <2>1 DEF Tables, Row
<1>2. o.limit \in Limits /\ o.exp \in Days
  BY ParametersOK DEF Ops, Limits
<1>3. CASE o.flow \in Creating
  <2>1. NewRow(o) = Row(o.limit, o.exp) /\ o.flow \notin Deleting /\ o.flow \notin Changing
    BY <1>3 DEF NewRow, Creating, Deleting, Changing
  <2> QED  BY <1>2, <1>3, <2>1, NoneApart DEF Row, Changing
<1>4. CASE o.flow \in Deleting
  BY <1>4 DEF NewRow, Creating, Deleting
<1>5. CASE o.flow = "expiry"
  <2>1. NewRow(o) = Row(old.limit, o.exp) /\ o.flow \notin Deleting /\ o.flow \notin Creating
    BY <1>5 DEF NewRow, Creating, Deleting
  <2> HIDE DEF old
  <2>2. Row(old.limit, o.exp) \in [limit : Limits, exp : Days]
          /\ Row(old.limit, o.exp).limit = old.limit
    BY <1>1, <1>2 DEF Row
  <2>3. old.limit = IF o.db[o.name] = None THEN 0 ELSE o.db[o.name].limit
    BY <1>1 DEF old
  <2> QED  BY <1>5, <2>1, <2>2, <2>3, NoneApart
<1>6. CASE o.flow = "limit"
  <2>1. NewRow(o) = Row(o.limit, old.exp) /\ o.flow \notin Deleting /\ o.flow \notin Creating
    BY <1>6 DEF NewRow, Creating, Deleting
  <2> HIDE DEF old
  <2>2. Row(o.limit, old.exp) \in [limit : Limits, exp : Days]
          /\ Row(o.limit, old.exp).limit = o.limit
    BY <1>1, <1>2 DEF Row
  <2> QED  BY <1>1, <1>2, <1>6, <2>1, <2>2, NoneApart
<1> QED  BY <1>3, <1>4, <1>5, <1>6 DEF Changing

-----------------------------------------------------------------------------
(* Types.                                                                   *)

\* The store begins well typed.
LEMMA InitOK == Init => Typed
<1> SUFFICES ASSUME Init PROVE Typed
  OBVIOUS
<1>1. PICK old \in SUBSET Names :
        /\ passwd = [n \in Names |-> IF n \in old
                      THEN [gen |-> 0, by |-> "v1", pw |-> TRUE, exp |-> 2, fresh |-> TRUE]
                           ELSE None]
        /\ v1 = [n \in Names |-> IF n \in old THEN MaxLimit + 1 ELSE None]
        /\ told = v1 /\ spent = Cardinality(old \ NewNames)
  BY DEF Init
<1>2. 0 \in Gens /\ 2 \in Days /\ MaxLimit + 1 \in Limits /\ 1 \in 1..(MaxToday + 1)
  BY ParametersOK DEF Gens, Days, Limits
<1>3. passwd \in [Names -> Accts \cup {None}]
  <2>1. [gen |-> 0, by |-> "v1", pw |-> TRUE, exp |-> 2, fresh |-> TRUE] \in Accts
    BY <1>2 DEF Accts
  <2> QED  BY <1>1, <2>1
<1>4. v1 \in Lines /\ told \in Lines
  BY <1>1, <1>2 DEF Lines
<1>5. spent \in Nat
  BY <1>1, ParametersOK, FS_Subset, FS_CardinalityType
<1>6. rows \in Tables \cup {Broken} /\ tmp \in Tables \cup {None, Broken}
  BY DEF Init, NoneOf, Tables
<1>7. op \in [Operators -> Ops] /\ \A m \in Operators : op[m].flow = "idle"
  <2>1. Resting \in Ops /\ Resting.flow = "idle"
    BY RestingOK
  <2> QED  BY <2>1 DEF Init
<1>8. TypeOK
  BY <1>2, <1>3, <1>4, <1>5, <1>6, <1>7 DEF TypeOK, Init
<1> QED  BY <1>7, <1>8 DEF Typed, FitsAll, Busy

\* A new operation fits.
LEMMA BegunFits ==
  ASSUME Typed, NEW m \in Operators, Begins(m)
  PROVE  Typed'
<1>1. op' \in [Operators -> Ops] /\ op'[m] \in Ops /\ \A k \in Operators \ {m} : op'[k] = op[k]
  BY DEF Begins, Others
<1>2. Fits(op'[m])
  <2> DEFINE p == op'[m]
  <2>1. CASE OneName(p)
    <3>1. p.flow \in Working \ Looping /\ p.todo = Steps(p.flow)
      BY <2>1 DEF OneName
    <3>2. p.todo # <<>> /\ Planned(p.flow, p.todo) /\ Head(p.todo) \notin {"write", "writeV1"}
      <4>1. p.flow \in Creating \/ p.flow \in {"drop", "remove", "removeAll"}
              \/ p.flow \in {"clean", "expiry", "limit", "password"}
        BY <3>1 DEF Working, Flows, Creating, Picking, Deleting
      <4> QED  BY <3>1, <4>1, FirstStep
    <3> QED  BY <2>1, <3>2 DEF OneName, Fits
  <2>2. CASE AllNames(p)
    <3>1. p.todo # <<>> /\ Head(p.todo) = "next" /\ p.flow \in Looping /\ p.todo = <<"next">>
      BY <2>2 DEF AllNames
    <3> QED  BY <3>1 DEF Fits, Planned, Looping
  <2> QED  BY <2>1, <2>2 DEF Begins
<1>3. FitsAll'
  <2>1. ASSUME NEW k \in Operators, Busy(k)' PROVE Fits(op[k])'
    BY <1>1, <1>2, <2>1 DEF Typed, FitsAll, Busy
  <2> QED  BY <2>1 DEF FitsAll
<1>4. events' \subseteq EventNames /\ spent' \in Nat
  BY DEF Begins, Typed, TypeOK, EventNames
<1> QED  BY <1>1, <1>3, <1>4 DEF Typed, TypeOK, Begins

\* A loop that takes up a name keeps the types.
LEMMA NextNameFits ==
  ASSUME Typed, NEW m \in Operators, NextName(m)
  PROVE  Typed'
<1>1. /\ At(m, "next") /\ op[m].flow \in Looping /\ Others(m)
      /\ \E n \in op[m].left : TakesUp(m, n)
      /\ UNCHANGED <<passwd, certs, rows, tmp, v1, jobs, sess, today, told, events, spent, made>>
  BY NextNameDoes
<1>2. op' \in [Operators -> Ops] /\ op'[m] \in Ops /\ op[m] \in Ops
        /\ \A k \in Operators \ {m} : op'[k] = op[k]
  BY <1>1 DEF Others, Typed, TypeOK
<1>3. PICK n \in op[m].left : TakesUp(m, n)
  BY <1>1
<1>4. n \in Names
  BY <1>2 DEF Ops
<1>5. op'[m].flow # "idle" => Fits(op'[m])
  <2> DEFINE p == op'[m]
  <2>1. CASE p.todo = Steps(op[m].flow) /\ p.flow = op[m].flow /\ p.name = n
    <3>1. p.flow \in {"removeAll", "clean"} /\ p.flow \in Working /\ p.flow \in Looping
      BY <1>1, <2>1 DEF Looping, Working, Flows, Deleting
    <3>2. p.todo # <<>> /\ Planned(p.flow, p.todo) /\ Head(p.todo) \in {"userdel", "kick"}
      BY <2>1, <3>1, FirstStep
    <3> QED  BY <1>4, <2>1, <3>1, <3>2 DEF Fits
  <2>2. CASE p.todo = <<"next">> /\ p.flow = op[m].flow
    <3>1. p.todo # <<>> /\ Head(p.todo) = "next" /\ p.flow \in Looping
      BY <1>1, <2>2
    <3> QED  BY <2>2, <3>1 DEF Fits, Planned, Looping
  <2>3. CASE p = [Resting EXCEPT !.failed = op[m].failed]
    <3>1. op[m].failed \in BOOLEAN
      BY <1>2 DEF Ops
    <3> QED  BY <2>3, <3>1, RestingOK
  <2> QED  BY <1>3, <2>1, <2>2, <2>3 DEF TakesUp
<1>6. FitsAll'
  <2>1. ASSUME NEW k \in Operators, Busy(k)' PROVE Fits(op[k])'
    BY <1>2, <1>5, <2>1 DEF Typed, FitsAll, Busy
  <2> QED  BY <2>1 DEF FitsAll
<1> QED  BY <1>1, <1>2, <1>6 DEF Typed, TypeOK

\* Each step of an operation keeps the types.
LEMMA StepTypes ==
  ASSUME Typed, NEW m \in Operators,
         \/ CreateSystemUser(m) \/ SetPassword(m) \/ ChageExpiry(m) \/ DeleteSystemUser(m)
              \/ Rollback(m)
         \/ Certify(m) \/ RemoveCert(m) \/ Load(m) \/ WriteTmp(m) \/ RenameTmp(m) \/ ReadV1(m)
              \/ WriteV1(m)
         \/ ScheduleTrialEnd(m) \/ Kick(m)
  PROVE  Typed'
<1> USE DEF Typed
<1> DEFINE o == op[m]
           n == op[m].name
<1>1. TypeOK /\ o \in Ops
  BY DEF TypeOK
<1>2. CASE CreateSystemUser(m)
  <2>1. At(m, "useradd") /\ o.flow \in Creating /\ n \in Names /\ o.gen \in Gens
    BY <1>1, <1>2, CreateSystemUserDoes, AtStep, HeadFlows DEF Ops
  <2>2. NewAccount(o) \in Accts
    BY <1>1, <2>1, NewAccountOK DEF TypeOK
  <2>3. passwd' \in [Names -> Accts \cup {None}] /\ told' \in Lines /\ made' \subseteq Gens
    BY <1>1, <1>2, <2>1, <2>2, CreateSystemUserDoes DEF TypeOK, Lines
  <2>4. op' \in [Operators -> Ops] /\ FitsAll'
    BY <1>2, <2>1, CreateSystemUserDoes, AtStep, MovedFits
  <2> QED  BY <1>1, <1>2, <2>3, <2>4, CreateSystemUserDoes DEF TypeOK
<1>3. CASE SetPassword(m)
  <2>1. At(m, "chpasswd") /\ n \in Names
    BY <1>3, SetPasswordDoes, AtStep
  <2>2. passwd' \in [Names -> Accts \cup {None}]
    <3>1. passwd[n] # None => WithPassword(passwd[n]) \in Accts
      BY <1>1, <2>1, PasswordOK DEF TypeOK
    <3> QED  BY <1>1, <1>3, <2>1, <3>1, SetPasswordDoes DEF TypeOK
  <2>3. op' \in [Operators -> Ops] /\ FitsAll'
    BY <1>3, <2>1, SetPasswordDoes, AtStep, MovedFits
  <2> QED  BY <1>1, <1>3, <2>2, <2>3, SetPasswordDoes DEF TypeOK
<1>4. CASE ChageExpiry(m)
  <2>1. At(m, "chage") /\ n \in Names /\ ExpiryDay(o) \in Days
    BY <1>1, <1>4, ChageExpiryDoes, AtStep, ExpiryDayOK DEF TypeOK
  <2>2. passwd' \in [Names -> Accts \cup {None}]
    <3>1. passwd[n] # None => Renewed(passwd[n], ExpiryDay(o)) \in Accts
      BY <1>1, <2>1, RenewedOK DEF TypeOK
    <3> QED  BY <1>1, <1>4, <2>1, <3>1, ChageExpiryDoes DEF TypeOK
  <2>3. op' \in [Operators -> Ops] /\ FitsAll'
    BY <1>4, <2>1, ChageExpiryDoes, AtStep, MovedFits
  <2> QED  BY <1>1, <1>4, <2>2, <2>3, ChageExpiryDoes DEF TypeOK
<1>5. CASE DeleteSystemUser(m)
  <2>1. passwd' \in [Names -> Accts \cup {None}]
    BY <1>1, <1>5, DeleteSystemUserDoes DEF TypeOK
  <2>2. op' \in [Operators -> Ops] /\ FitsAll'
    BY <1>5, DeleteSystemUserDoes, AtStep, MovedFits
  <2> QED  BY <1>1, <1>5, <2>1, <2>2, DeleteSystemUserDoes DEF TypeOK
<1>6. CASE Rollback(m)
  <2>0. passwd' \in [Names -> Accts \cup {None}]
    BY <1>1, <1>6, RollbackDoes DEF TypeOK
  <2>1. events' \subseteq EventNames
    BY <1>1, <1>6, RollbackDoes DEF TypeOK, EventNames
  <2>3. spent' \in Nat
    BY <1>1, <1>6, RollbackDoes DEF TypeOK
  <2>2. op' \in [Operators -> Ops] /\ FitsAll'
    BY <1>6, RollbackDoes, AtStep, MovedFits
  <2> QED  BY <1>1, <1>6, <2>0, <2>1, <2>2, <2>3, RollbackDoes DEF TypeOK
<1>7. CASE Certify(m)
  <2>1. At(m, "cert") /\ n \in Names /\ o.limit \in Limits
    BY <1>1, <1>7, CertifyDoes, AtStep, ParametersOK DEF Ops, Limits
  <2>2. told' \in Lines /\ certs' \subseteq Names
    BY <1>1, <1>7, <2>1, CertifyDoes DEF TypeOK, Lines
  <2>3. op' \in [Operators -> Ops] /\ FitsAll'
    BY <1>7, <2>1, CertifyDoes, AtStep, MovedFits
  <2> QED  BY <1>1, <1>7, <2>2, <2>3, CertifyDoes DEF TypeOK
<1>8. CASE RemoveCert(m)
  <2>1. certs' \subseteq Names
    BY <1>1, <1>8, RemoveCertDoes DEF TypeOK
  <2>2. op' \in [Operators -> Ops] /\ FitsAll'
    BY <1>8, RemoveCertDoes, AtStep, MovedFits
  <2> QED  BY <1>1, <1>8, <2>1, <2>2, RemoveCertDoes DEF TypeOK
<1>9. CASE Load(m)
  <2>1. op' \in [Operators -> Ops] /\ FitsAll'
    BY <1>9, LoadDoes, AtStep, MovedFits
  <2> QED  BY <1>1, <1>9, <2>1, LoadDoes DEF TypeOK
<1>10. CASE WriteTmp(m)
  <2>1. At(m, "write") /\ n \in Names /\ o.db \in Tables
          /\ o.flow \in Creating \cup Deleting \cup Changing
    BY <1>1, <1>10, WriteTmpDoes, AtStep, HeadFlows DEF Fits
  <2>2. [o.db EXCEPT ![n] = NewRow(o)] \in Tables
    BY <1>1, <2>1, NewRowOK DEF Tables
  <2>3. tmp' \in Tables \cup {None, Broken}
    BY <1>1, <1>10, <2>2, WriteTmpDoes DEF TypeOK
  <2>4. op' \in [Operators -> Ops] /\ FitsAll'
    BY <1>10, <2>1, WriteTmpDoes, AtStep, MovedFits
  <2> QED  BY <1>1, <1>10, <2>3, <2>4, WriteTmpDoes DEF TypeOK
<1>11. CASE RenameTmp(m)
  <2>1. At(m, "rename") /\ n \in Names /\ o.limit \in Limits
    BY <1>1, <1>11, RenameTmpDoes, AtStep, ParametersOK DEF Ops, Limits
  <2>2. told' \in Lines /\ rows' \in Tables \cup {Broken} /\ tmp' \in Tables \cup {None, Broken}
    BY <1>1, <1>11, <2>1, RenameTmpDoes DEF TypeOK, Lines
  <2>3. op' \in [Operators -> Ops] /\ FitsAll'
    BY <1>11, <2>1, RenameTmpDoes, AtStep, MovedFits
  <2> QED  BY <1>1, <1>11, <2>2, <2>3, RenameTmpDoes DEF TypeOK
<1>12. CASE ReadV1(m)
  <2>1. op' \in [Operators -> Ops] /\ FitsAll'
    BY <1>1, <1>12, ReadV1Does, AtStep, MovedFits DEF TypeOK
  <2> QED  BY <1>1, <1>12, <2>1, ReadV1Does DEF TypeOK
<1>13. CASE WriteV1(m)
  <2>1. At(m, "writeV1") /\ n \in Names /\ o.limit \in Limits /\ o.lines \in Lines
    BY <1>1, <1>13, WriteV1Does, AtStep, ParametersOK DEF Ops, Limits, Fits
  <2>2. NewLine(o) \in Limits \cup {None}
    BY <2>1 DEF NewLine
  <2>3. v1' \in Lines /\ told' \in Lines
    BY <1>1, <1>13, <2>1, <2>2, WriteV1Does DEF TypeOK, Lines
  <2>4. events' \subseteq EventNames /\ spent' \in Nat
    BY <1>1, <1>13, WriteV1Does DEF TypeOK, EventNames
  <2>5. op' \in [Operators -> Ops] /\ FitsAll'
    BY <1>13, <2>1, WriteV1Does, AtStep, MovedFits
  <2> QED  BY <1>1, <1>13, <2>3, <2>4, <2>5, WriteV1Does DEF TypeOK
<1>14. CASE ScheduleTrialEnd(m)
  <2>1. At(m, "at") /\ n \in Names /\ o.limit \in Limits /\ o.gen \in Gens
    BY <1>1, <1>14, ScheduleTrialEndDoes, AtStep, ParametersOK DEF Ops, Limits
  <2>4. told' \in Lines
    BY <1>1, <1>14, <2>1, ScheduleTrialEndDoes DEF TypeOK, Lines
  <2>5. [name |-> n, gen |-> o.gen, running |-> FALSE] \in [name : Names, gen : Gens,
          running : BOOLEAN]
    BY <2>1
  <2>2. told' \in Lines /\ jobs' \subseteq [name : Names, gen : Gens, running : BOOLEAN]
    BY <1>1, <1>14, <2>4, <2>5, ScheduleTrialEndDoes DEF TypeOK
  <2>3. op' \in [Operators -> Ops] /\ FitsAll'
    BY <1>14, <2>1, ScheduleTrialEndDoes, AtStep, MovedFits
  <2> QED  BY <1>1, <1>14, <2>2, <2>3, ScheduleTrialEndDoes DEF TypeOK
<1>15. CASE Kick(m)
  <2>1. op' \in [Operators -> Ops] /\ FitsAll'
    BY <1>15, KickDoes, AtStep, MovedFits
  <2> QED  BY <1>1, <1>15, <2>1, KickDoes DEF TypeOK
<1> QED  BY <1>2, <1>3, <1>4, <1>5, <1>6, <1>7, <1>8, <1>9, <1>10, <1>11, <1>12, <1>13, <1>14, <1>15

\* The fourteen steps of the operations.
Works(m) ==
  \/ CreateSystemUser(m) \/ SetPassword(m) \/ ChageExpiry(m) \/ DeleteSystemUser(m) \/ Rollback(m)
  \/ Certify(m) \/ RemoveCert(m) \/ Load(m) \/ WriteTmp(m) \/ RenameTmp(m) \/ ReadV1(m)
       \/ WriteV1(m)
  \/ ScheduleTrialEnd(m) \/ Kick(m)

\* What happens without an operator.
Happens ==
  \/ \E j \in jobs : TrialEnds(j) \/ TrialLineDropped(j)
  \/ \E n \in Names : Login(n)
  \/ Midnight \/ Damage

\* A step is one of an operator's, or happens without one.
LEMMA NextCases ==
  ASSUME Typed, Next
  PROVE  Happens \/ \E m \in Operators : Begins(m) \/ NextName(m) \/ Works(m) \/ Crash(m)
<1>1. ASSUME NEW m \in Operators, Operate(m) PROVE Begins(m) \/ NextName(m) \/ Works(m) \/ Crash(m)
  <2>1. ASSUME NEW n \in Names, NEW l \in 0..MaxLimit, NEW d \in 0..MaxDays,
               \/ \E f \in Creating : StartCreate(m, f, n, l, d)
               \/ \E f \in Picking : StartPick(m, f, n, l, d)
        PROVE  Begins(m)
    BY <2>1, StartsBegin
  <2>2. ASSUME NEW n \in Names, StartDrop(m, n) PROVE Begins(m)
    <3>1. 0 \in 0..MaxLimit /\ 0 \in 0..MaxDays
      BY ParametersOK
    <3> QED  BY <2>2, <3>1, StartsBegin
  <2>3. ASSUME NEW f \in {"removeAll", "clean"}, StartLoop(m, f) PROVE Begins(m)
    BY <2>3, LoopBegins DEF Looping
  <2> QED  BY <1>1, <2>1, <2>2, <2>3 DEF Operate, Works
<1> QED  BY <1>1 DEF Next, Happens

\* What happens without an operator keeps the types.
LEMMA HappensTypes ==
  ASSUME Typed, Happens
  PROVE  Typed' /\ op' = op /\ made' = made
<1>1. ASSUME op' = op PROVE FitsAll'
  BY <1>1 DEF Typed, FitsAll, Busy
<1>2. ASSUME NEW j \in jobs, TrialEnds(j) PROVE Typed' /\ op' = op /\ made' = made
  <2>1. j \in [name : Names, gen : Gens, running : BOOLEAN] /\ j.name \in Names
    BY DEF Typed, TypeOK
  <2>2. [j EXCEPT !.running = TRUE] \in [name : Names, gen : Gens, running : BOOLEAN]
    BY <2>1
  <2>3. jobs' \subseteq [name : Names, gen : Gens, running : BOOLEAN]
          /\ events' \subseteq EventNames
    BY <1>2, <2>2 DEF TrialEnds, Typed, TypeOK, EventNames
  <2>4. passwd' \in [Names -> Accts \cup {None}]
    BY <1>2, <2>1 DEF TrialEnds, Typed, TypeOK
  <2> QED  BY <1>1, <1>2, <2>3, <2>4 DEF TrialEnds, Typed, TypeOK
<1>3. ASSUME NEW j \in jobs, TrialLineDropped(j) PROVE Typed' /\ op' = op /\ made' = made
  <2>1. v1' \in Lines /\ jobs' \subseteq [name : Names, gen : Gens, running : BOOLEAN]
    BY <1>3 DEF TrialLineDropped, Typed, TypeOK, Lines
  <2> QED  BY <1>1, <1>3, <2>1 DEF TrialLineDropped, Typed, TypeOK
<1>4. ASSUME NEW n \in Names, Login(n) PROVE Typed' /\ op' = op /\ made' = made
  <2>1. passwd[n] \in Accts
    BY <1>4 DEF Login, Typed, TypeOK
  <2>2. sess' \subseteq [name : Names, gen : Gens]
    BY <1>4, <2>1 DEF Login, Typed, TypeOK, Accts
  <2> QED  BY <1>1, <1>4, <2>2 DEF Login, Typed, TypeOK
<1>5. ASSUME Midnight PROVE Typed' /\ op' = op /\ made' = made
  <2>1. today' \in 1..(MaxToday + 1)
    BY <1>5, ParametersOK DEF Midnight, Typed, TypeOK
  <2> QED  BY <1>1, <1>5, <2>1 DEF Midnight, Typed, TypeOK
<1>6. ASSUME Damage PROVE Typed' /\ op' = op /\ made' = made
  BY <1>1, <1>6 DEF Damage, Spend, Note, Typed, TypeOK, EventNames
<1> QED  BY <1>2, <1>3, <1>4, <1>5, <1>6 DEF Happens

\* A crash keeps the types.
LEMMA CrashTypes ==
  ASSUME Typed, NEW m \in Operators, Crash(m)
  PROVE  Typed'
<1>1. /\ Busy(m) /\ Others(m) /\ op'[m] = [Resting EXCEPT !.failed = TRUE]
      /\ events' = events \cup {"crash"} /\ spent' = spent + 1
      /\ UNCHANGED <<passwd, certs, rows, tmp, v1, jobs, sess, today, told, made>>
  BY CrashDoes
<1>2. op'[m].flow = "idle"
  BY <1>1, RestingOK
<1>3. FitsAll'
  <2>1. ASSUME NEW k \in Operators, Busy(k)' PROVE Fits(op[k])'
    BY <1>1, <1>2, <2>1 DEF Typed, FitsAll, Busy, Others
  <2> QED  BY <2>1 DEF FitsAll
<1>4. op' \in [Operators -> Ops] /\ events' \subseteq EventNames /\ spent' \in Nat
  BY <1>1 DEF Typed, TypeOK, EventNames, Others
<1> QED  BY <1>1, <1>3, <1>4 DEF Typed, TypeOK

\* Every step keeps the types.
LEMMA NextTypes ==
  ASSUME Typed, [Next]_vars
  PROVE  Typed'
<1>1. CASE Next
  BY <1>1, NextCases, HappensTypes, BegunFits, NextNameFits, StepTypes, CrashTypes DEF Works
<1>2. CASE UNCHANGED vars
  BY <1>2 DEF Typed, TypeOK, FitsAll, Busy, vars
<1> QED  BY <1>1, <1>2

\* Types.
THEOREM TypesInvariant == Spec => []Typed
  BY InitOK, NextTypes, PTL DEF Spec

\* What the screens show follows from the types: both look a limit up in
\* users.json first, then in the list of the first version.
LEMMA ShownOfTypes == Typed => ShownIsEnforced
<1> SUFFICES ASSUME Typed, rows # Broken, NEW n \in Present PROVE Shown(n) = Enforced(n)
  BY DEF ShownIsEnforced
<1>1. n \in Names /\ rows \in Tables /\ v1 \in Lines
  BY DEF Present, Typed, TypeOK
<1>2. rows[n] # None => rows[n].limit \in Limits
  BY <1>1 DEF Tables
<1>3. v1[n] # None => v1[n] \in Limits
  BY <1>1 DEF Lines
<1>4. Limits \subseteq Nat
  BY ParametersOK DEF Limits
<1>5. CASE rows[n] = None
  BY <1>5 DEF Shown, Enforced, RowLimit
<1>6. CASE rows[n] # None
  <2>1. LineLimit(n) > 0 => LineLimit(n) = v1[n]
    BY DEF LineLimit
  <2>2. LineLimit(n) \in Nat
    BY <1>3, <1>4 DEF LineLimit
  <2>3. RowLimit(n) = rows[n].limit
    BY <1>6 DEF RowLimit
  <2>4. rows[n].limit \in Nat
    BY <1>2, <1>4, <1>6
  <2>5. CASE rows[n].limit > 0
    BY <1>6, <2>3, <2>4, <2>5 DEF Shown, Enforced
  <2>6. CASE rows[n].limit = 0 /\ LineLimit(n) > 0
    BY <1>6, <2>1, <2>3, <2>6 DEF Shown, Enforced
  <2>7. CASE rows[n].limit = 0 /\ LineLimit(n) = 0
    BY <1>6, <2>3, <2>7 DEF Shown, Enforced
  <2> QED  BY <2>2, <2>4, <2>5, <2>6, <2>7
<1> QED  BY <1>5, <1>6

-----------------------------------------------------------------------------
(* What the steps have in common.                                           *)

\* An expiry day that an account is given now has not come.
Later(e) == e = Never \/ e > today

\* The account under n is the one that was, or was deleted.
Keeps(n) ==
  passwd'[n] # None =>
    /\ passwd[n] # None
    /\ passwd'[n].gen = passwd[n].gen /\ passwd'[n].by = passwd[n].by
         /\ passwd'[n].fresh = passwd[n].fresh
    /\ passwd[n].pw => passwd'[n].pw
    /\ passwd'[n].exp = passwd[n].exp \/ Later(passwd'[n].exp)

\* useradd makes the account.
Makes(m) ==
  /\ At(m, "useradd") /\ Advances(m) /\ passwd[op[m].name] = None
  /\ passwd' = [passwd EXCEPT ![op[m].name] = NewAccount(op[m])]
  /\ made' = made \cup {op[m].gen}

\* What every step has in common: one account at most is made, the others are
\* kept or deleted, sessions only end.
LEMMA WorksDoes ==
  ASSUME Typed, NEW m \in Operators, Works(m)
  PROVE  /\ Busy(m) /\ Head(op[m].todo) # "next" /\ (Advances(m) \/ Stops(m))
         /\ (Makes(m) /\ \A n \in Names \ {op[m].name} : Keeps(n))
              \/ (made' = made /\ \A n \in Names : Keeps(n))
         /\ At(m, "useradd") => Makes(m) \/ Stops(m)
         /\ At(m, "userdel") => Stops(m) \/ passwd'[op[m].name] = None
         /\ spent' \in {spent, spent + 1} /\ today' = today
         /\ sess' \subseteq sess
         /\ At(m, "kick") => Advances(m) /\ \A s \in sess' : s.name # op[m].name
<1>1. ASSUME passwd' = passwd PROVE \A n \in Names : Keeps(n)
  BY <1>1 DEF Keeps
<1>2. ASSUME passwd' = [passwd EXCEPT ![op[m].name] = None]
      PROVE (\A n \in Names : Keeps(n)) /\ (op[m].name \in Names => passwd'[op[m].name] = None)
  BY <1>2 DEF Keeps, Typed, TypeOK
<1>3. CASE CreateSystemUser(m)
  <2>1. At(m, "useradd") /\ Busy(m) /\ Head(op[m].todo) = "useradd" /\ op[m].name \in Names
    BY <1>3, CreateSystemUserDoes, AtStep
  <2>2. CASE Makes(m)
    <3>1. \A n \in Names \ {op[m].name} : Keeps(n)
      BY <2>1, <2>2 DEF Makes, Keeps, Typed, TypeOK
    <3> QED  BY <1>3, <2>1, <2>2, <3>1, CreateSystemUserDoes DEF Makes, At
  <2>3. CASE Stops(m) /\ UNCHANGED <<passwd, told, made>>
    BY <1>1, <1>3, <2>1, <2>3, CreateSystemUserDoes DEF At
  <2> QED  BY <1>3, <2>1, <2>2, <2>3, CreateSystemUserDoes DEF Makes
<1>4. CASE SetPassword(m)
  <2>1. At(m, "chpasswd") /\ Busy(m) /\ Head(op[m].todo) = "chpasswd" /\ op[m].name \in Names
    BY <1>4, SetPasswordDoes, AtStep
  <2>2. ASSUME passwd[op[m].name] # None, passwd' =
               [passwd EXCEPT ![op[m].name] = WithPassword(passwd[op[m].name])]
        PROVE  \A n \in Names : Keeps(n)
    <3>1. passwd[op[m].name] \in Accts
      BY <2>1, <2>2 DEF Typed, TypeOK
    <3>2. \A n \in Names \ {op[m].name} : passwd'[n] = passwd[n]
      BY <2>1, <2>2 DEF Typed, TypeOK
    <3>3. passwd'[op[m].name] = WithPassword(passwd[op[m].name])
      BY <2>1, <2>2 DEF Typed, TypeOK
    <3>4. Keeps(op[m].name)
      BY <2>2, <3>1, <3>3, PasswordOK DEF Keeps
    <3>5. \A n \in Names \ {op[m].name} : Keeps(n)
      BY <3>2 DEF Keeps
    <3> QED  BY <3>4, <3>5
  <2>3. \A n \in Names : Keeps(n)
    BY <1>1, <1>4, <2>2, SetPasswordDoes
  <2> QED  BY <1>4, <2>1, <2>3, SetPasswordDoes DEF At
<1>5. CASE ChageExpiry(m)
  <2>1. At(m, "chage") /\ Busy(m) /\ Head(op[m].todo) = "chage" /\ op[m].name \in Names
          /\ op[m] \in Ops
    BY <1>5, ChageExpiryDoes, AtStep
  <2>2. ASSUME passwd[op[m].name] # None,
               passwd' = [passwd EXCEPT ![op[m].name] = Renewed(passwd[op[m].name],
                    ExpiryDay(op[m]))]
        PROVE  \A n \in Names : Keeps(n)
    <3>1. passwd[op[m].name] \in Accts /\ ExpiryDay(op[m]) \in Days /\ Later(ExpiryDay(op[m]))
      BY <2>1, <2>2, ExpiryDayOK DEF Typed, TypeOK, Later
    <3>2. \A n \in Names \ {op[m].name} : passwd'[n] = passwd[n]
      BY <2>1, <2>2 DEF Typed, TypeOK
    <3>3. passwd'[op[m].name] = Renewed(passwd[op[m].name], ExpiryDay(op[m]))
      BY <2>1, <2>2 DEF Typed, TypeOK
    <3> QED  BY <2>2, <3>1, <3>2, <3>3, RenewedOK DEF Keeps
  <2>3. \A n \in Names : Keeps(n)
    BY <1>1, <1>5, <2>2, ChageExpiryDoes
  <2> QED  BY <1>5, <2>1, <2>3, ChageExpiryDoes DEF At
<1>6. CASE DeleteSystemUser(m)
  <2>1. At(m, "userdel") /\ Busy(m) /\ Head(op[m].todo) = "userdel" /\ op[m].name \in Names
    BY <1>6, DeleteSystemUserDoes, AtStep
  <2> QED  BY <1>1, <1>2, <1>6, <2>1, DeleteSystemUserDoes DEF At
<1>7. CASE Rollback(m)
  <2>1. At(m, "rollback") /\ Busy(m) /\ Head(op[m].todo) = "rollback"
    BY <1>7, RollbackDoes, AtStep
  <2>2. \A n \in Names : Keeps(n)
    BY <1>1, <1>2, <1>7, RollbackDoes
  <2>3. spent' \in {spent, spent + 1}
    BY <1>7, RollbackDoes
  <2> QED  BY <1>7, <2>1, <2>2, <2>3, RollbackDoes DEF At
<1>8. CASE Certify(m)
  BY <1>1, <1>8, CertifyDoes, AtStep DEF At
<1>9. CASE RemoveCert(m)
  BY <1>1, <1>9, RemoveCertDoes, AtStep DEF At
<1>10. CASE Load(m)
  BY <1>1, <1>10, LoadDoes, AtStep DEF At
<1>11. CASE WriteTmp(m)
  BY <1>1, <1>11, WriteTmpDoes, AtStep DEF At
<1>12. CASE RenameTmp(m)
  BY <1>1, <1>12, RenameTmpDoes, AtStep DEF At
<1>13. CASE ReadV1(m)
  BY <1>1, <1>13, ReadV1Does, AtStep DEF At
<1>14. CASE WriteV1(m)
  <2>1. At(m, "writeV1") /\ Busy(m) /\ Head(op[m].todo) = "writeV1"
    BY <1>14, WriteV1Does, AtStep
  <2>2. spent' \in {spent, spent + 1}
    BY <1>14, WriteV1Does
  <2> QED  BY <1>1, <1>14, <2>1, <2>2, WriteV1Does DEF At
<1>15. CASE ScheduleTrialEnd(m)
  BY <1>1, <1>15, ScheduleTrialEndDoes, AtStep DEF At
<1>16. CASE Kick(m)
  <2>1. At(m, "kick") /\ Busy(m) /\ Head(op[m].todo) = "kick"
    BY <1>16, KickDoes, AtStep
  <2>2. sess' \subseteq sess /\ \A s \in sess' : s.name # op[m].name
    BY <1>16, KickDoes
  <2> QED  BY <1>1, <1>16, <2>1, <2>2, KickDoes DEF At
<1> QED  BY <1>3, <1>4, <1>5, <1>6, <1>7, <1>8, <1>9, <1>10, <1>11, <1>12, <1>13, <1>14, <1>15,
            <1>16 DEF Works

\* How an operation that is not over after a step goes on.
LEMMA MovedOn ==
  ASSUME Typed, NEW m \in Operators, Works(m), op'[m].flow # "idle"
  PROVE  LET o == op[m]  p == op'[m] IN
         /\ o \in Ops /\ p \in Ops /\ Fits(o) /\ o.flow # "idle" /\ o.flow \in Working
         /\ Same(o, p) /\ p.todo # <<>>
         /\ \/ Advances(m) /\ p.failed = o.failed /\ o.left # {} /\ o.flow \in Looping
                 /\ Head(p.todo) = "next" /\ Tail(o.todo) = <<>>
            \/ Advances(m) /\ p.failed = o.failed /\ Follows(o.flow, Head(o.todo), Head(p.todo))
                 /\ p.todo = Tail(o.todo)
            \/ /\ Stops(m) /\ p.failed
               /\ \/ o.left # {} /\ o.flow \in Looping /\ Head(p.todo) = "next"
                  \/ o.flow \in Creating /\ Head(p.todo) = "rollback" /\ Head(o.todo) # "useradd"
                  \/ o.flow = "create" /\ Head(p.todo) = "readV1"
                       /\ Head(o.todo) \in {"write", "rename"}
                  \/ o.flow = "removeAll" /\ Head(p.todo) = "kick"
<1>1. Busy(m) /\ (Advances(m) \/ Stops(m))
  BY WorksDoes
<1>2. op[m] \in Ops /\ Fits(op[m]) /\ op[m].flow # "idle" /\ op[m].failed \in BOOLEAN
  BY <1>1 DEF Typed, TypeOK, FitsAll, Busy, Ops
<1>3. op[m].flow \in Working /\ (op[m].left # {} => op[m].flow \in Looping)
  BY <1>2, WorkingFlow DEF Fits
<1>4. op'[m] \in Ops
  BY <1>1 DEF Advances, Stops, Others
<1>5. op'[m] # [Resting EXCEPT !.failed = op[m].failed] /\ op'[m] # [Resting EXCEPT !.failed = TRUE]
  BY <1>2, RestingOK
<1>6. CASE Advances(m)
  BY <1>2, <1>3, <1>4, <1>5, <1>6 DEF Advances, Went
<1>7. CASE Stops(m)
  BY <1>2, <1>3, <1>4, <1>5, <1>7 DEF Stops, Stopped
<1> QED  BY <1>1, <1>6, <1>7

\* What happens without an operator: accounts go, sessions begin on the accounts
\* that are there, and the day never goes back.
LEMMA HappensDoes ==
  ASSUME Typed, Happens
  PROVE  /\ op' = op /\ made' = made /\ spent' \in {spent, spent + 1} /\ today' >= today
              /\ today' \in Int
         /\ \A n \in Names : passwd'[n] \in {passwd[n], None}
         /\ \A s \in sess' : s \in sess \/ (passwd'[s.name] # None /\ passwd'[s.name].gen = s.gen)
<1>1. today \in Int /\ today + 1 \in Int /\ today + 1 >= today
  BY DEF Typed, TypeOK
<1>2. ASSUME NEW j \in jobs, TrialEnds(j) PROVE \A n \in Names : passwd'[n] \in {passwd[n], None}
  BY <1>2 DEF TrialEnds, Typed, TypeOK
<1> QED  BY <1>1, <1>2, HappensTypes
            DEF Happens, TrialEnds, TrialLineDropped, Login, Midnight, Damage, Spend

-----------------------------------------------------------------------------
(* Accounts and creations are numbered.                                     *)

\* A creation's number is fresh until useradd and taken afterwards.
Numbered(o) ==
  /\ o.flow \in Creating => IF Head(o.todo) = "useradd" THEN o.gen \in (1..spent) \ made
       ELSE o.gen \in made
  /\ o.flow = "remove" => o.gen \in made \cup {0}

\* No two creations have the same number, and no account has one that is to come.
NumbersOK ==
  /\ made \subseteq 1..spent
  /\ \A n \in Names : passwd[n] # None => passwd[n].gen \in made \cup {0}
  /\ \A m \in Operators : Busy(m) => Numbered(op[m])
  /\ \A m, k \in Operators :
       m # k /\ op[m].flow \in Creating /\ op[k].flow \in Creating => op[m].gen # op[k].gen

\* So it is at the start.
LEMMA NumbersInit == Init => NumbersOK
<1> SUFFICES ASSUME Init PROVE NumbersOK
  OBVIOUS
<1>1. \A m \in Operators : op[m].flow = "idle"
  BY RestingOK DEF Init
<1>2. \A n \in Names : passwd[n] # None => passwd[n].gen = 0
  BY DEF Init
<1> QED  BY <1>1, <1>2 DEF NumbersOK, Busy, Creating, Init

\* Every step keeps the numbers.
LEMMA NumbersNext ==
  ASSUME Typed, NumbersOK, [Next]_vars
  PROVE  NumbersOK'
<1>1. /\ made \subseteq 1..spent /\ spent \in Nat
      /\ \A n \in Names : passwd[n] # None => passwd[n].gen \in made \cup {0}
      /\ \A m \in Operators : Busy(m) => Numbered(op[m])
      /\ \A m, k \in Operators :
           m # k /\ op[m].flow \in Creating /\ op[k].flow \in Creating => op[m].gen # op[k].gen
  BY DEF NumbersOK, Typed, TypeOK
<1>2. CASE Happens
  <2>1. /\ op' = op /\ made' = made /\ spent' \in {spent, spent + 1}
        /\ \A n \in Names : passwd'[n] \in {passwd[n], None}
    BY <1>2, HappensDoes
  <2>2. 1..spent \subseteq 1..spent'
    BY <1>1, <2>1
  <2>3. ASSUME NEW m \in Operators, Busy(m)' PROVE Numbered(op[m])'
    BY <1>1, <2>1, <2>2, <2>3 DEF Numbered, Busy
  <2> QED  BY <1>1, <2>1, <2>2, <2>3 DEF NumbersOK
<1>3. ASSUME NEW m \in Operators, Begins(m) PROVE NumbersOK'
  <2> DEFINE p == op'[m]
  <2>1. UNCHANGED <<made, passwd>> /\ spent' = spent + 1
          /\ \A k \in Operators \ {m} : op'[k] = op[k]
    BY <1>3 DEF Begins, Others
  <2>2. p.flow \in Creating => Head(p.todo) = "useradd" /\ p.gen = spent + 1
    <3>1. ASSUME p.flow \in Creating PROVE OneName(p) /\ p.flow \in Working
      BY <1>3, <3>1 DEF Begins, AllNames, OneName, Creating, Looping
    <3> QED  BY <3>1, FirstStep DEF OneName
  <2>3. p.flow = "remove" => p.gen \in made \cup {0}
    <3>1. ASSUME p.flow = "remove" PROVE OneName(p)
      BY <1>3, <3>1 DEF Begins, AllNames, Looping
    <3> QED  BY <1>1, <3>1 DEF OneName
  <2>4. Numbered(op[m])'
    BY <1>1, <2>1, <2>2, <2>3 DEF Numbered, Creating
  <2>5. ASSUME NEW k \in Operators, Busy(k)' PROVE Numbered(op[k])'
    BY <1>1, <2>1, <2>4, <2>5 DEF Numbered, Busy
  <2>6. ASSUME NEW k \in Operators \ {m}, op[k].flow \in Creating PROVE op[k].gen \in 1..spent
    <3>1. Busy(k) /\ Numbered(op[k])
      BY <1>1, <2>6 DEF Busy, Creating
    <3> QED  BY <1>1, <2>6, <3>1 DEF Numbered
  <2>7. \A k \in Operators \ {m} : p.flow \in Creating /\ op[k].flow \in Creating
          => p.gen # op[k].gen
    BY <1>1, <2>2, <2>6
  <2>8. \A k, l \in Operators :
          k # l /\ op'[k].flow \in Creating /\ op'[l].flow \in Creating => op'[k].gen # op'[l].gen
    BY <1>1, <2>1, <2>7
  <2>9. made' \subseteq 1..spent' /\ \A n \in Names : passwd'[n] # None
          => passwd'[n].gen \in made' \cup {0}
    BY <1>1, <2>1
  <2> QED  BY <2>5, <2>8, <2>9 DEF NumbersOK
<1>4. ASSUME NEW m \in Operators, UNCHANGED <<made, passwd>>, spent' \in {spent, spent + 1},
             Others(m),
             op'[m].flow \notin Creating, op'[m].flow # "remove"
      PROVE  NumbersOK'
  BY <1>1, <1>4 DEF NumbersOK, Numbered, Others, Busy
<1>5. ASSUME NEW m \in Operators, NextName(m) PROVE NumbersOK'
  <2>1. /\ op[m].flow \in Looping /\ Others(m) /\ \E n \in op[m].left : TakesUp(m, n)
        /\ UNCHANGED <<made, passwd, spent>> /\ op[m].failed \in BOOLEAN
    BY <1>5, NextNameDoes DEF Typed, TypeOK, Ops
  <2>2. op'[m].flow \in Looping \/ op'[m].flow = "idle"
    BY <2>1, RestingOK DEF TakesUp
  <2> QED  BY <1>4, <2>1, <2>2 DEF Looping, Creating
<1>6. ASSUME NEW m \in Operators, Crash(m) PROVE NumbersOK'
  <2>1. op'[m].flow = "idle" /\ Others(m) /\ UNCHANGED <<made, passwd>> /\ spent' = spent + 1
    BY <1>6, CrashDoes, RestingOK
  <2> QED  BY <1>4, <2>1 DEF Creating
<1>7. ASSUME NEW m \in Operators, Works(m) PROVE NumbersOK'
  <2> DEFINE o == op[m]
             p == op'[m]
  <2>1. /\ Busy(m) /\ Others(m) /\ spent' \in {spent, spent + 1} /\ o \in Ops /\ Fits(o)
             /\ o.flow # "idle" /\ o.flow \in Working
        /\ Numbered(o) /\ o.todo # <<>>
        /\ At(m, "useradd") <=> Head(o.todo) = "useradd"
    BY <1>1, <1>7, WorksDoes, WorkingFlow
         DEF Advances, Stops, Typed, TypeOK, FitsAll, Busy, Fits, At
  <2>2. /\ Makes(m) => At(m, "useradd") /\ made' = made \cup {o.gen}
        /\ Makes(m) \/ made' = made
    BY <1>7, WorksDoes DEF Makes
  <2>3. Makes(m) => o.flow \in Creating /\ o.gen \in 1..spent
    BY <1>1, <2>1, <2>2, HeadFlows DEF Numbered
  <2>4. made' \subseteq 1..spent' /\ made \subseteq made'
    <3>1. 1..spent \subseteq 1..spent'
      BY <1>1, <2>1
    <3> QED  BY <1>1, <2>2, <2>3, <3>1
  <2>5. \A n \in Names : passwd'[n] # None => passwd'[n].gen \in made' \cup {0}
    <3>1. ASSUME NEW n \in Names, Keeps(n), passwd'[n] # None
          PROVE passwd'[n].gen \in made' \cup {0}
      BY <1>1, <2>4, <3>1 DEF Keeps
    <3>2. ASSUME Makes(m), o.name \in Names PROVE passwd'[o.name].gen = o.gen
      BY <3>2 DEF Makes, NewAccount, Typed, TypeOK
    <3> QED  BY <1>7, <2>2, <3>1, <3>2, WorksDoes
  <2>6. p.flow # "idle" => Numbered(op[m])'
    <3>1. SUFFICES ASSUME p.flow # "idle" PROVE Numbered(op[m])'
      OBVIOUS
    <3>2. /\ Same(o, p)
          /\ \/ p.flow \in Looping
             \/ Follows(o.flow, Head(o.todo), Head(p.todo)) /\ Advances(m)
             \/ o.flow \in Creating /\ Head(p.todo) = "rollback" /\ Head(o.todo) # "useradd"
             \/ o.flow = "create" /\ Head(p.todo) = "readV1" /\ Head(o.todo) \in {"write", "rename"}
      BY <1>7, <3>1, MovedOn DEF Same, Looping
    <3>3. p.flow = o.flow /\ p.gen = o.gen
      BY <3>2 DEF Same
    <3>4. CASE p.flow \notin Creating
      BY <2>1, <2>4, <3>3, <3>4 DEF Numbered
    <3>5. CASE p.flow \in Creating
      <4>1. Head(p.todo) # "useradd"
        BY <2>1, <3>2, <3>5, StepOrder DEF Creating, Looping
      <4>2. o.gen \in made'
        <5>1. CASE Head(o.todo) # "useradd"
          BY <2>1, <2>4, <3>3, <3>5, <5>1 DEF Numbered
        <5>2. CASE Head(o.todo) = "useradd"
          <6>1. Makes(m) \/ Stops(m)
            BY <1>7, <2>1, <5>2, WorksDoes
          <6>2. ~Stops(m)
            BY <2>1, <3>1, <3>3, <3>5, <5>2, RestingOK DEF Stops, Stopped, Creating, Looping, Fits
          <6> QED  BY <2>2, <6>1, <6>2
        <5> QED  BY <5>1, <5>2
      <4> QED  BY <3>3, <3>5, <4>1, <4>2 DEF Numbered, Creating
    <3> QED  BY <3>4, <3>5
  <2>7. ASSUME NEW k \in Operators \ {m}, op[k].flow # "idle" PROVE Numbered(op[k])'
    <3>1. Numbered(op[k]) /\ op'[k] = op[k]
      BY <1>1, <2>1, <2>7 DEF Busy, Others
    <3>2. o.flow \in Creating /\ op[k].flow \in Creating => op[k].gen # o.gen
      BY <1>1
    <3>3. op[k].gen \notin made => op[k].gen \notin made' \/ op[k].flow \notin Creating
      BY <2>2, <2>3, <3>2
    <3>4. 1..spent \subseteq 1..spent'
      BY <1>1, <2>1
    <3> QED  BY <2>4, <3>1, <3>3, <3>4 DEF Numbered
  <2>8. p.flow = "idle" \/ (p.flow = o.flow /\ p.gen = o.gen)
    BY <1>7, MovedOn DEF Same
  <2>9. \A k, l \in Operators :
          k # l /\ op'[k].flow \in Creating /\ op'[l].flow \in Creating => op'[k].gen # op'[l].gen
    BY <1>1, <2>1, <2>8 DEF Others, Creating
  <2>10. \A k \in Operators : Busy(k)' => Numbered(op[k])'
    BY <2>1, <2>6, <2>7 DEF Others, Busy
  <2> QED  BY <2>4, <2>5, <2>9, <2>10 DEF NumbersOK
<1>8. CASE UNCHANGED vars
  BY <1>1, <1>8 DEF vars, NumbersOK, Numbered, Busy
<1> QED  BY <1>2, <1>3, <1>5, <1>6, <1>7, <1>8, NextCases

-----------------------------------------------------------------------------
(* A removal and its sessions.                                              *)

\* The order of a removal's steps, and of the cleanup's.
LEMMA RemovalOrder ==
  ASSUME NEW s, NEW t
  PROVE  /\ Follows("remove", s, t) =>
              /\ t # "userdel"
              /\ t \in {"readV1", "writeV1"} => s \in {"kick", "readV1"}
         /\ Follows("clean", s, t) => (t # "kick" /\ (t = "userdel" <=> s = "kick"))
<1>1. Follows("remove", s, t) => t # "userdel"
        /\ (t \in {"readV1", "writeV1"} => s \in {"kick", "readV1"})
  BY DEF Follows, Steps, RemoveUserSteps, RemoveSteps, V1Steps
<1>2. Follows("clean", s, t) => (t # "kick" /\ (t = "userdel" <=> s = "kick"))
  <2>3. Follows("clean", s, t) => t # "kick"
    BY DEF Follows, Steps, CleanSteps, RemoveSteps, V1Steps
  <2>4. Follows("clean", s, t) /\ t = "userdel" => s = "kick"
    BY DEF Follows, Steps, CleanSteps, RemoveSteps, V1Steps
  <2>5. Follows("clean", s, t) /\ s = "kick" => t = "userdel"
    BY DEF Follows, Steps, CleanSteps, RemoveSteps, V1Steps
  <2> QED  BY <2>3, <2>4, <2>5
<1> QED  BY <1>1, <1>2

\* An operation that has one step left is at its last one, or at a way out of it.
LEMMA LastOf ==
  ASSUME NEW o \in Ops, o.flow # "idle", Fits(o), Tail(o.todo) = <<>>
  PROVE  \/ Head(o.todo) = Steps(o.flow)[Len(Steps(o.flow))]
         \/ Head(o.todo) = "next" /\ o.flow \in Looping
         \/ Head(o.todo) = "rollback" /\ o.flow \in Creating
<1>1. o.todo \in Seq(StepNames) /\ o.todo # <<>> /\ Planned(o.flow, o.todo) /\ o.flow \in Working
  BY DEF Fits, Ops, Working
<1>2. Len(o.todo) = 1 /\ Head(o.todo) = o.todo[1]
  <2>1. Len(Tail(o.todo)) = Len(o.todo) - 1 /\ Head(o.todo) = o.todo[1]
    BY <1>1, HeadTailProperties
  <2>2. Len(Tail(o.todo)) = 0
    <3>1. <<>> \in Seq(StepNames)
      OBVIOUS
    <3> QED  BY <3>1, EmptySeq
  <2>3. Len(o.todo) \in Nat
    BY <1>1
  <2>4. Len(o.todo) = 1
    BY <2>1, <2>2, <2>3
  <2> QED  BY <2>1, <2>4
<1>3. CASE \E k \in 1..Len(Steps(o.flow)) : LeftFrom(o.flow, o.todo, k)
  <2>1. PICK k \in 1..Len(Steps(o.flow)) : LeftFrom(o.flow, o.todo, k)
    BY <1>3
  <2>2. Len(Steps(o.flow)) \in 1..8
    BY <1>1, StepsOK
  <2>3. 1 = Len(Steps(o.flow)) + 1 - k /\ o.todo[1] = Steps(o.flow)[k + 1 - 1]
    <3>1. 1 \in 1..Len(o.todo)
      BY <1>2
    <3> QED  BY <1>2, <2>1, <3>1 DEF LeftFrom
  <2>4. k = Len(Steps(o.flow)) /\ k + 1 - 1 = k
    BY <2>2, <2>3
  <2> QED  BY <1>2, <2>3, <2>4
<1> QED  BY <1>1, <1>2, <1>3 DEF Planned

\* The last steps of the flows whose end a property is about.
LEMMA LastStep ==
  ASSUME NEW o \in Ops, o.flow # "idle", Fits(o), Tail(o.todo) = <<>>
  PROVE  /\ o.flow = "remove" => Head(o.todo) = "writeV1"
         /\ o.flow = "clean" => Head(o.todo) \in {"writeV1", "next"}
         /\ o.flow = "limit" => Head(o.todo) = "writeV1"
         /\ o.flow = "add" => Head(o.todo) \in {"rename", "rollback"}
<1>1. Steps("remove")[Len(Steps("remove"))] = "writeV1"
  BY DEF Steps, RemoveUserSteps, RemoveSteps, V1Steps
<1>2. Steps("clean")[Len(Steps("clean"))] = "writeV1"
  BY DEF Steps, CleanSteps, RemoveSteps, V1Steps
<1>3. Steps("limit")[Len(Steps("limit"))] = "writeV1"
  BY DEF Steps, LimitSteps
<1>4. Steps("add")[Len(Steps("add"))] = "rename"
  BY DEF Steps, AddSteps
<1> QED  BY <1>1, <1>2, <1>3, <1>4, LastOf DEF Looping, Creating

\* The account that a removal began with is gone, and then its sessions.
CutOff(o) ==
  o.flow = "remove" /\ Head(o.todo) # "userdel" =>
    /\ passwd[o.name] # None => passwd[o.name].gen # o.gen
    /\ Head(o.todo) \in {"readV1", "writeV1"} => \A s \in sess : ~(s.name = o.name /\ s.gen = o.gen)

SessionsOK == \A m \in Operators : CutOff(op[m])

\* Nothing is being removed at the start.
LEMMA SessionsInit == Init => SessionsOK
  BY RestingOK DEF Init, SessionsOK, CutOff

\* Every step keeps it: a new account under the name has another number, and a
\* login needs an account.
LEMMA SessionsNext ==
  ASSUME Typed, NumbersOK, SessionsOK, [Next]_vars
  PROVE  SessionsOK'
<1>1. \A m \in Operators : op[m].flow = "remove" => op[m].name \in Names /\ Fits(op[m])
        /\ op[m] \in Ops /\ op[m].left = {}
  <2>1. ASSUME NEW m \in Operators, op[m].flow = "remove"
        PROVE op[m].name \in Names /\ Fits(op[m]) /\ op[m] \in Ops /\ op[m].left = {}
    <3>1. op[m] \in Ops /\ Fits(op[m]) /\ op[m].flow # "idle" /\ op[m].left = {}
      BY <2>1 DEF Typed, TypeOK, FitsAll, Busy, Fits, Looping
    <3>2. Head(op[m].todo) # "next"
      BY <2>1, <3>1, HeadFlows DEF Looping
    <3> QED  BY <3>1, <3>2 DEF Fits
  <2> QED  BY <2>1
\* Another's removal stays as good as it was.
<1>2. ASSUME NEW k \in Operators, op'[k] = op[k], op[k].flow = "remove",
             \/ passwd'[op[k].name] # None =>
                  passwd[op[k].name] # None /\ passwd'[op[k].name].gen = passwd[op[k].name].gen
             \/ passwd'[op[k].name].gen \notin made \cup {0},
             \A s \in sess' : s \in sess \/ (passwd'[s.name] # None /\ passwd'[s.name].gen = s.gen)
      PROVE  CutOff(op[k])'
  <2>1. CutOff(op[k]) /\ op[k].gen \in made \cup {0}
    BY <1>2 DEF SessionsOK, NumbersOK, Numbered, Busy
  <2> QED  BY <1>2, <2>1 DEF CutOff
<1>3. CASE Happens
  <2>1. op' = op /\ \A n \in Names : passwd'[n] \in {passwd[n], None}
    BY <1>3, HappensDoes
  <2>2. \A s \in sess' : s \in sess \/ (passwd'[s.name] # None /\ passwd'[s.name].gen = s.gen)
    BY <1>3, HappensDoes
  <2>3. ASSUME NEW k \in Operators PROVE CutOff(op[k])'
    <3>1. CASE op[k].flow = "remove"
      BY <1>1, <1>2, <2>1, <2>2, <3>1
    <3>2. CASE op[k].flow # "remove"
      BY <2>1, <3>2 DEF CutOff
    <3> QED  BY <3>1, <3>2
  <2> QED  BY <2>3 DEF SessionsOK
<1>4. ASSUME NEW m \in Operators, Others(m), UNCHANGED <<passwd, sess>>, CutOff(op[m])'
      PROVE SessionsOK'
  <2>1. ASSUME NEW k \in Operators PROVE CutOff(op[k])'
    BY <1>4 DEF Others, SessionsOK, CutOff
  <2> QED  BY <2>1 DEF SessionsOK
<1>5. ASSUME NEW m \in Operators, Begins(m) PROVE SessionsOK'
  <2>1. Others(m) /\ UNCHANGED <<passwd, sess>> /\ (OneName(op'[m]) \/ AllNames(op'[m]))
    BY <1>5 DEF Begins
  <2>2. op'[m].flow = "remove" => Head(op'[m].todo) = "userdel"
    BY <2>1, FirstStep DEF OneName, AllNames, Looping
  <2> QED  BY <1>4, <2>1, <2>2 DEF CutOff
<1>6. ASSUME NEW m \in Operators, NextName(m) PROVE SessionsOK'
  <2>1. op[m].flow \in Looping /\ Others(m) /\ (\E n \in op[m].left : TakesUp(m, n))
          /\ UNCHANGED <<passwd, sess>>
          /\ op[m].failed \in BOOLEAN
    BY <1>6, NextNameDoes DEF Typed, TypeOK, Ops
  <2>2. op'[m].flow \in Looping \/ op'[m].flow = "idle"
    BY <2>1, RestingOK DEF TakesUp
  <2> QED  BY <1>4, <2>1, <2>2 DEF CutOff, Looping
<1>7. ASSUME NEW m \in Operators, Crash(m) PROVE SessionsOK'
  <2>1. Others(m) /\ op'[m].flow = "idle" /\ UNCHANGED <<passwd, sess>>
    BY <1>7, CrashDoes, RestingOK
  <2> QED  BY <1>4, <2>1 DEF CutOff
<1>8. ASSUME NEW m \in Operators, Works(m) PROVE SessionsOK'
  <2> DEFINE o == op[m]
             p == op'[m]
  <2>1. Busy(m) /\ Others(m) /\ sess' \subseteq sess
    BY <1>8, WorksDoes DEF Advances, Stops
  <2>2. \A n \in Names : Keeps(n) \/ (Makes(m) /\ n = o.name)
    BY <1>8, WorksDoes
  <2>3. Makes(m) => o.gen \notin made \cup {0} /\ (o.name \in Names => passwd'[o.name].gen = o.gen)
    <3>1. SUFFICES ASSUME Makes(m)
                   PROVE o.gen \notin made \cup {0}
                        /\ (o.name \in Names => passwd'[o.name].gen = o.gen)
      OBVIOUS
    <3>2. o.flow \in Creating /\ Head(o.todo) = "useradd"
      BY <3>1, AtStep, HeadFlows DEF Makes
    <3>3. o.gen \in (1..spent) \ made
      BY <2>1, <3>2 DEF NumbersOK, Numbered
    <3> QED  BY <3>1, <3>3 DEF Makes, NewAccount, Typed, TypeOK
  <2>4. ASSUME NEW n \in Names
        PROVE  \/ passwd'[n] # None => passwd[n] # None /\ passwd'[n].gen = passwd[n].gen
               \/ passwd'[n].gen \notin made \cup {0}
    BY <2>2, <2>3 DEF Keeps
  <2>5. ASSUME NEW k \in Operators \ {m} PROVE CutOff(op[k])'
    <3>1. op'[k] = op[k]
      BY <2>1 DEF Others
    <3>2. CASE op[k].flow = "remove"
      BY <1>1, <1>2, <2>1, <2>4, <3>1, <3>2
    <3>3. CASE op[k].flow # "remove"
      BY <3>1, <3>3 DEF CutOff
    <3> QED  BY <3>2, <3>3
  <2>6. CutOff(op[m])'
    <3>1. SUFFICES ASSUME p.flow = "remove" PROVE CutOff(op[m])'
      BY DEF CutOff
    <3>2. /\ Same(o, p) /\ o.flow = "remove" /\ Follows("remove", Head(o.todo), Head(p.todo))
          /\ Head(o.todo) = "userdel" => passwd'[o.name] = None
      <4>1. p.flow # "idle"
        BY <3>1
      <4>2. Same(o, p) /\ o.flow = "remove"
        BY <1>8, <3>1, <4>1, MovedOn DEF Same
      <4>3. Follows("remove", Head(o.todo), Head(p.todo))
        BY <1>8, <3>1, <4>1, <4>2, MovedOn DEF Looping, Creating
      <4>4. ~Stops(m)
        BY <1>1, <3>1, <4>2, RestingOK DEF Stops, Stopped, Creating
      <4>5. Head(o.todo) = "userdel" => passwd'[o.name] = None
        BY <1>8, <2>1, <4>4, WorksDoes DEF At
      <4> QED  BY <4>2, <4>3, <4>5
    <3>3. o.name \in Names /\ p.name = o.name /\ p.gen = o.gen /\ CutOff(o)
            /\ o.gen \in made \cup {0}
      BY <1>1, <2>1, <3>2 DEF Same, SessionsOK, NumbersOK, Numbered
    <3>4. Head(p.todo) \in {"readV1", "writeV1"} => Head(o.todo) \in {"kick", "readV1"}
      BY <3>2, RemovalOrder
    <3>5. Head(o.todo) = "kick" => \A s \in sess' : s.name # o.name
      BY <1>8, <2>1, WorksDoes DEF At
    <3>6. passwd'[o.name] # None => passwd'[o.name].gen # o.gen
      BY <2>4, <3>2, <3>3 DEF CutOff
    <3>7. Head(p.todo) \in {"readV1", "writeV1"}
            => \A s \in sess' : ~(s.name = o.name /\ s.gen = o.gen)
      BY <2>1, <3>2, <3>3, <3>4, <3>5 DEF CutOff
    <3> QED  BY <3>3, <3>6, <3>7 DEF CutOff
  <2> QED  BY <2>5, <2>6 DEF SessionsOK
<1>9. CASE UNCHANGED vars
  BY <1>9 DEF vars, SessionsOK, CutOff
<1> QED  BY <1>3, <1>5, <1>6, <1>7, <1>8, <1>9, NextCases

-----------------------------------------------------------------------------
(* The cleanup of expired accounts.                                         *)

\* What the guard refused when the cleanup began is still to be visited, or
\* is being deleted, or is gone or renewed.
DueOK(o) ==
  o.flow = "clean" =>
    /\ \A d \in o.due : d.exp # Never /\ d.exp <= today
    /\ ~o.failed => \A n \in Names : passwd[n] # None /\ ExpiryOf(n) \in o.due =>
         n \in o.left \/ (n = o.name /\ Head(o.todo) \in {"kick", "userdel"})

CleanOK == \A m \in Operators : DueOK(op[m])

\* No cleanup runs at the start.
LEMMA CleanInit == Init => CleanOK
  BY RestingOK DEF Init, CleanOK, DueOK

\* The account under a name of the cleanup's list was there before the step.
LEMMA StillDue ==
  ASSUME Typed, NEW n \in Names, Keeps(n), NEW D \in SUBSET [name : Names, exp : Days],
         \A d \in D : d.exp # Never /\ d.exp <= today, passwd'[n] # None, ExpiryOf(n)' \in D
  PROVE  passwd[n] # None /\ ExpiryOf(n) \in D
<1>1. ExpiryOf(n)'.exp = passwd'[n].exp /\ ExpiryOf(n)'.exp \in Days
  BY DEF ExpiryOf
<1>2. ~Later(passwd'[n].exp)
  <2>1. passwd'[n].exp # Never /\ passwd'[n].exp <= today /\ passwd'[n].exp \in Int /\ today \in Int
    BY <1>1 DEF Typed, TypeOK, Days
  <2> QED  BY <2>1 DEF Later
<1>3. passwd[n] # None /\ passwd'[n].exp = passwd[n].exp
  BY <1>2 DEF Keeps
<1> QED  BY <1>3 DEF ExpiryOf

\* So was none of a new account's: its expiry day is still to come.
LEMMA NewNotDue ==
  ASSUME Typed, NEW m \in Operators, Makes(m), NEW n \in Names, n = op[m].name,
         NEW D \in SUBSET [name : Names, exp : Days], \A d \in D : d.exp # Never /\ d.exp <= today
  PROVE  ExpiryOf(n)' \notin D
<1>1. op[m] \in Ops
  BY DEF Typed, TypeOK
<1>2. passwd'[n].exp = ExpiryDay(op[m])
  BY DEF Typed, TypeOK, Makes, NewAccount
<1>3. ExpiryDay(op[m]) \in Days /\ (ExpiryDay(op[m]) = Never \/ ExpiryDay(op[m]) > today)
  BY <1>1, ExpiryDayOK DEF Typed, TypeOK
<1>4. ExpiryDay(op[m]) \in Int /\ today \in Int
  BY <1>3 DEF Typed, TypeOK, Days
<1>5. ExpiryOf(n)'.exp = ExpiryDay(op[m])
  BY <1>2 DEF ExpiryOf
<1> QED  BY <1>3, <1>4, <1>5

\* Every step keeps it: the cleanup deletes whatever it finds expired, and whoever
\* renews an account gives it a day that is still to come.
LEMMA CleanNext ==
  ASSUME Typed, CleanOK, [Next]_vars
  PROVE  CleanOK'
<1>1. ASSUME NEW m \in Operators
      PROVE  /\ op[m] \in Ops /\ op[m].due \in SUBSET [name : Names, exp : Days]
             /\ op[m].flow = "clean" =>
                  Fits(op[m]) /\ op[m].flow # "idle"
                       /\ (Head(op[m].todo) # "next" => op[m].name \in Names)
  <2>1. op[m] \in Ops
    BY DEF Typed, TypeOK
  <2>2. op[m].due \in SUBSET [name : Names, exp : Days]
    BY <2>1 DEF Ops
  <2> QED  BY <2>1, <2>2 DEF Typed, FitsAll, Fits, Busy
<1>2. today \in Int /\ (\A d \in [name : Names, exp : Days] : d.exp \in Int)
  BY DEF Typed, TypeOK, Days
<1>3. ASSUME NEW k \in Operators, op'[k] = op[k], today' >= today, today' \in Int,
             \A n \in Names : Keeps(n) \/ (\E m \in Operators : Makes(m) /\ n = op[m].name)
      PROVE  DueOK(op[k])'
  <2>1. SUFFICES ASSUME op[k].flow = "clean" PROVE DueOK(op[k])'
    BY <1>3 DEF DueOK
  <2>2. \A d \in op[k].due : d.exp # Never /\ d.exp <= today
    BY <2>1 DEF CleanOK, DueOK
  <2>3. \A d \in op[k].due : d.exp # Never /\ d.exp <= today'
    <3>1. ASSUME NEW d \in op[k].due PROVE d.exp # Never /\ d.exp <= today'
      <4>1. d \in [name : Names, exp : Days]
        BY <1>1
      <4>2. d.exp \in Int /\ d.exp # Never /\ d.exp <= today
        BY <1>2, <2>2, <4>1
      <4> QED  BY <1>2, <1>3, <4>2
    <3> QED  BY <3>1
  <2>4. ASSUME NEW n \in Names, passwd'[n] # None, ExpiryOf(n)' \in op[k].due
        PROVE  passwd[n] # None /\ ExpiryOf(n) \in op[k].due
    <3>1. op[k].due \in SUBSET [name : Names, exp : Days]
      BY <1>1
    <3>2. Keeps(n)
      BY <1>3, <2>2, <2>4, <3>1, NewNotDue
    <3> QED  BY <2>2, <2>4, <3>1, <3>2, StillDue
  <2> QED  BY <1>3, <2>1, <2>3, <2>4 DEF CleanOK, DueOK
<1>4. CASE Happens
  <2>1. op' = op /\ today' >= today /\ today' \in Int
          /\ \A n \in Names : passwd'[n] \in {passwd[n], None}
    BY <1>4, HappensDoes
  <2>2. \A n \in Names : Keeps(n)
    BY <2>1 DEF Keeps
  <2> QED  BY <1>3, <2>1, <2>2 DEF CleanOK
<1>5. ASSUME NEW m \in Operators, Others(m), passwd' = passwd, today' = today, DueOK(op[m])'
      PROVE CleanOK'
  <2>1. \A n \in Names : Keeps(n)
    BY <1>5 DEF Keeps
  <2>2. \A k \in Operators \ {m} : DueOK(op[k])'
    BY <1>2, <1>3, <1>5, <2>1 DEF Others
  <2> QED  BY <1>5, <2>2 DEF CleanOK
<1>6. ASSUME NEW m \in Operators, Begins(m) PROVE CleanOK'
  <2> DEFINE p == op'[m]
  <2>1. Others(m) /\ passwd' = passwd /\ today' = today /\ (OneName(p) \/ AllNames(p))
    BY <1>6 DEF Begins
  <2>2. SUFFICES ASSUME p.flow = "clean" PROVE DueOK(op[m])'
    BY <1>5, <2>1 DEF DueOK
  <2>3. p.left = Present /\ p.due = {ExpiryOf(n) : n \in {a \in Present : Expired(passwd[a])}}
    BY <2>1, <2>2 DEF AllNames, OneName, Looping
  <2>4. \A d \in p.due : d.exp # Never /\ d.exp <= today'
    <3>1. ASSUME NEW n \in Present, Expired(passwd[n])
          PROVE ExpiryOf(n).exp # Never /\ ExpiryOf(n).exp <= today
      <4>1. passwd[n].exp \in Int
        BY DEF Present, Typed, TypeOK, Accts, Days
      <4> QED  BY <1>2, <3>1, <4>1 DEF Expired, ExpiryOf
    <3> QED  BY <2>1, <2>3, <3>1
  <2>5. \A n \in Names : passwd'[n] # None => n \in p.left
    BY <2>1, <2>3 DEF Present
  <2> QED  BY <2>4, <2>5 DEF DueOK
<1>7. ASSUME NEW m \in Operators, NextName(m) PROVE CleanOK'
  <2> DEFINE o == op[m]
             p == op'[m]
  <2>1. /\ At(m, "next") /\ o.flow \in Looping /\ Others(m) /\ (\E n \in o.left : TakesUp(m, n))
        /\ UNCHANGED <<passwd, today>>
    BY <1>7, NextNameDoes
  <2>2. PICK n \in o.left : TakesUp(m, n)
    BY <2>1
  <2>3. SUFFICES ASSUME p.flow = "clean" PROVE DueOK(op[m])'
    BY <1>5, <2>1 DEF DueOK
  <2>4. p.flow = o.flow /\ p.due = o.due /\ p.left = o.left \ {n} /\ p.failed = o.failed
          /\ o.flow = "clean"
    <3>1. o.failed \in BOOLEAN
      <4>1. o \in Ops
        BY <1>1
      <4> QED  BY <4>1 DEF Ops
    <3> QED  BY <2>2, <2>3, <3>1, RestingOK DEF TakesUp
  <2>5. \A d \in o.due : d.exp # Never /\ d.exp <= today
    BY <2>4 DEF CleanOK, DueOK
  <2>6. Goes(m, n) => p.name = n /\ Head(p.todo) = "kick"
    <3>1. "clean" \in Working
      BY DEF Working, Flows, Deleting
    <3>2. p.flow # "idle"
      BY <2>3
    <3> QED  BY <2>2, <2>4, <3>1, <3>2, FirstStep DEF TakesUp
  <2>7. ~Goes(m, n) => ~(passwd[n] # None /\ ExpiryOf(n) \in o.due)
    <3>1. SUFFICES ASSUME passwd[n] # None, ExpiryOf(n) \in o.due PROVE Goes(m, n)
      OBVIOUS
    <3>2. passwd[n].exp # Never /\ passwd[n].exp <= today
      BY <2>5, <3>1 DEF ExpiryOf
    <3>3. passwd[n].exp \in Int
      <4>1. ExpiryOf(n) \in [name : Names, exp : Days]
        BY <1>1, <3>1
      <4>2. ExpiryOf(n).exp \in Int
        BY <1>2, <4>1
      <4> QED  BY <4>2 DEF ExpiryOf
    <3> QED  BY <1>2, <3>1, <3>2, <3>3 DEF Goes, DaysLeft
  <2>8. Head(o.todo) = "next"
    BY <2>1, AtStep
  <2>9. ASSUME ~o.failed, NEW a \in Names, passwd[a] # None, ExpiryOf(a) \in o.due
        PROVE  a \in p.left \/ (a = p.name /\ Head(p.todo) \in {"kick", "userdel"})
    <3>1. a \in o.left
      BY <2>4, <2>8, <2>9 DEF CleanOK, DueOK
    <3> QED  BY <2>4, <2>6, <2>7, <2>9, <3>1
  <2> QED  BY <2>1, <2>4, <2>5, <2>9 DEF DueOK, ExpiryOf
<1>8. ASSUME NEW m \in Operators, Crash(m) PROVE CleanOK'
  <2>1. Others(m) /\ op'[m].flow = "idle" /\ UNCHANGED <<passwd, today>>
    BY <1>8, CrashDoes, RestingOK
  <2> QED  BY <1>5, <2>1 DEF DueOK
<1>9. ASSUME NEW m \in Operators, Works(m) PROVE CleanOK'
  <2> DEFINE o == op[m]
             p == op'[m]
  <2>1. Busy(m) /\ Others(m) /\ today' = today /\ Head(o.todo) # "next"
    BY <1>9, WorksDoes DEF Advances, Stops
  <2>2. \A n \in Names : Keeps(n) \/ (Makes(m) /\ n = o.name)
    BY <1>9, WorksDoes
  <2>3. \A k \in Operators \ {m} : DueOK(op[k])'
    BY <1>2, <1>3, <2>1, <2>2 DEF Others
  <2>4. DueOK(op[m])'
    <3>1. SUFFICES ASSUME p.flow = "clean" PROVE DueOK(op[m])'
      BY DEF DueOK
    <3>2. p.flow # "idle"
      BY <3>1
    <3>3. Same(o, p) /\ o.flow = "clean"
      BY <1>9, <3>1, <3>2, MovedOn DEF Same
    <3>4. o.name \in Names /\ Fits(o) /\ o.flow # "idle"
      BY <1>1, <2>1, <3>3
    <3>5. \A d \in o.due : d.exp # Never /\ d.exp <= today
      BY <3>3 DEF CleanOK, DueOK
    <3>6. ASSUME ~p.failed PROVE ~o.failed /\ Advances(m) /\
               (\/ Head(p.todo) = "next" /\ Tail(o.todo) = <<>>
                \/ Follows("clean", Head(o.todo), Head(p.todo)))
      BY <1>9, <3>1, <3>2, <3>3, <3>6, MovedOn DEF Creating
    <3>7. ~Makes(m)
      <4>1. At(m, "useradd") => o.flow \in Creating
        BY <3>4, AtStep, HeadFlows
      <4> QED  BY <3>3, <4>1 DEF Makes, Creating
    <3>8. ASSUME ~p.failed, Head(o.todo) = "userdel" PROVE passwd'[o.name] = None
      <4>1. ~Stops(m)
        BY <3>1, <3>2, <3>8, RestingOK DEF Stops, Stopped
      <4> QED  BY <1>9, <2>1, <3>8, <4>1, WorksDoes DEF At
    <3>9. ASSUME ~p.failed, NEW a \in Names, passwd'[a] # None, ExpiryOf(a)' \in o.due
          PROVE  a \in p.left \/ (a = p.name /\ Head(p.todo) \in {"kick", "userdel"})
      <4>1. passwd[a] # None /\ ExpiryOf(a) \in o.due
        <5>1. Keeps(a) /\ o.due \in SUBSET [name : Names, exp : Days]
          BY <1>1, <2>2, <3>7
        <5> QED  BY <3>5, <3>9, <5>1, StillDue
      <4>2. a \in o.left \/ (a = o.name /\ Head(o.todo) \in {"kick", "userdel"})
        BY <3>3, <3>6, <3>9, <4>1 DEF CleanOK, DueOK
      <4>3. CASE a \in o.left
        BY <3>3, <4>3 DEF Same
      <4>4. CASE a = o.name /\ Head(o.todo) = "kick"
        <5>1. Tail(o.todo) # <<>>
          <6>1. o \in Ops
            BY <1>1
          <6> QED  BY <3>3, <3>4, <4>4, <6>1, LastStep
        <5>2. Follows("clean", "kick", Head(p.todo))
          BY <3>6, <3>9, <4>4, <5>1
        <5> QED  BY <3>3, <4>4, <5>2, RemovalOrder DEF Same
      <4>5. CASE a = o.name /\ Head(o.todo) = "userdel"
        BY <3>8, <3>9, <4>5
      <4> QED  BY <4>2, <4>3, <4>4, <4>5
    <3>10. p.due = o.due
      BY <3>3 DEF Same
    <3> QED  BY <2>1, <3>5, <3>9, <3>10 DEF DueOK
  <2> QED  BY <2>3, <2>4 DEF CleanOK
<1>10. CASE UNCHANGED vars
  <2>1. op' = op /\ today' = today /\ \A n \in Names : Keeps(n)
    BY <1>10 DEF vars, Keeps
  <2> QED  BY <1>2, <1>3, <2>1 DEF CleanOK
<1> QED  BY <1>4, <1>6, <1>7, <1>8, <1>9, <1>10, NextCases

-----------------------------------------------------------------------------
(* What holds whatever fails.                                               *)

\* The parts that hold whatever fails or overlaps.
Robust == Typed /\ NumbersOK /\ SessionsOK /\ CleanOK

\* They always hold.
LEMMA RobustInvariant == Spec => []Robust
<1>1. Init => Robust
  BY InitOK, NumbersInit, SessionsInit, CleanInit DEF Robust
<1>2. Robust /\ [Next]_vars => Robust'
  BY NextTypes, NumbersNext, SessionsNext, CleanNext DEF Robust
<1> QED  BY <1>1, <1>2, PTL DEF Spec

\* RollbackSparesOthers: a creation that fails deletes no account but its own, as
\* the account under its name has the creation's number until somebody deletes it.
THEOREM BackedOut == Spec => RollbackSparesOthers
<1>1. Robust /\ [Next]_vars =>
        [\A m \in Operators :
           Rollback(m) /\ passwd[op[m].name] # None /\ passwd'[op[m].name] = None
             => passwd[op[m].name].gen = op[m].gen \/ op[m].gen \in made]_vars
  <2> SUFFICES ASSUME Robust, NEW m \in Operators, Rollback(m) PROVE op[m].gen \in made
    OBVIOUS
  <2>1. At(m, "rollback") /\ Typed /\ NumbersOK
    BY RollbackDoes DEF Robust
  <2>2. op[m].flow \in Creating /\ Head(op[m].todo) = "rollback" /\ Busy(m)
    BY <2>1, AtStep, HeadFlows
  <2> QED  BY <2>1, <2>2 DEF NumbersOK, Numbered
<1> QED  BY <1>1, RobustInvariant, PTL DEF Spec, RollbackSparesOthers

\* How an operation ends well: with the last of its steps.
LEMMA EndsHow ==
  ASSUME Typed, [Next]_vars, NEW m \in Operators, NEW f \in {"remove", "clean"}, Ends(m, f)
  PROVE  /\ op[m] \in Ops /\ Fits(op[m]) /\ op[m].flow # "idle" /\ ~op[m].failed /\ Others(m)
         /\ \/ /\ Works(m) /\ Advances(m) /\ op[m].left = {} /\ Head(op[m].todo) = "writeV1"
               /\ op[m].name \in Names /\ UNCHANGED <<passwd, sess, made>>
            \/ f = "clean" /\ NextName(m) /\ UNCHANGED <<passwd, sess, made>>
                 /\ \E n \in op[m].left : op[m].left = {n} /\ ~Goes(m, n)
<1> DEFINE o == op[m]
<1>1. o \in Ops /\ Fits(o) /\ o.flow # "idle" /\ o.flow \in {"remove", "clean"} /\ o.flow = f
  BY DEF Typed, TypeOK, FitsAll, Busy, Ends
<1>2. op'[m] = Resting /\ ~op'[m].failed /\ op'[m].flow = "idle"
  BY RestingOK DEF Ends
<1>3. o.failed \in BOOLEAN
  BY <1>1 DEF Ops
<1> HIDE DEF o
<1>4. op' # op
  BY <1>1, <1>2 DEF o
<1>5. ~Happens /\ ~UNCHANGED vars
  BY <1>4, HappensDoes DEF vars
<1>6. ASSUME NEW k \in Operators, Others(k) PROVE k = m
  BY <1>1, <1>2, <1>6 DEF Others, o
<1>7. ~Begins(m)
  BY <1>1 DEF Begins, Busy, o
<1>8. ~Crash(m)
  <2>1. [Resting EXCEPT !.failed = TRUE].failed = TRUE
    BY DEF Resting
  <2> QED  BY <1>2, <2>1, CrashDoes
<1>9. NextName(m) \/ Works(m)
  <2>1. \A k \in Operators : Begins(k) \/ NextName(k) \/ Works(k) \/ Crash(k) => Others(k)
    BY NextNameDoes, WorksDoes, CrashDoes DEF Begins, Advances, Stops
  <2> QED  BY <1>5, <1>6, <1>7, <1>8, <2>1, NextCases
<1>10. CASE NextName(m)
  <2>1. /\ f \in Looping /\ Others(m) /\ (\E n \in o.left : TakesUp(m, n))
             /\ UNCHANGED <<passwd, sess, made>>
    BY <1>1, <1>10, NextNameDoes DEF o
  <2>2. PICK n \in o.left : TakesUp(m, n)
    BY <2>1
  <2>3. ~Goes(m, n) /\ o.left = {n} /\ op'[m] = [Resting EXCEPT !.failed = o.failed]
    BY <1>1, <1>2, <2>2 DEF TakesUp, o
  <2>4. op'[m].failed = o.failed
    BY <1>3, <2>3 DEF Resting
  <2> QED  BY <1>1, <1>2, <1>10, <2>1, <2>3, <2>4 DEF Looping, o
<1>11. CASE Works(m)
  <2>1. Others(m) /\ (Advances(m) \/ Stops(m)) /\ Head(o.todo) # "next"
    BY <1>11, WorksDoes DEF Advances, Stops, o
  <2>2. ~Stops(m)
    <3>1. [Resting EXCEPT !.failed = TRUE].failed = TRUE
      BY DEF Resting
    <3> QED  BY <1>2, <3>1 DEF Stops, Stopped
  <2>3. Went(o, op'[m])
    BY <2>1, <2>2 DEF Advances, o
  <2>4. op'[m] = [Resting EXCEPT !.failed = o.failed] /\ Tail(o.todo) = <<>> /\ o.left = {}
    BY <1>1, <1>2, <2>3 DEF Went, Same
  <2>5. op'[m].failed = o.failed
    BY <1>3, <2>4 DEF Resting
  <2>6. Head(o.todo) = "writeV1" /\ o.name \in Names
    BY <1>1, <2>1, <2>4, LastStep DEF Fits
  <2>7. WriteV1(m)
    BY <1>11, <2>6 DEF Works, o, CreateSystemUser, SetPassword, ChageExpiry, DeleteSystemUser,
         Rollback, Certify,
         RemoveCert, Load, WriteTmp, RenameTmp, ReadV1, ScheduleTrialEnd, Kick, At
  <2>8. UNCHANGED <<passwd, sess, made>>
    BY <2>7 DEF WriteV1
  <2> QED  BY <1>1, <1>2, <1>11, <2>1, <2>2, <2>4, <2>5, <2>6, <2>8 DEF o
<1> QED  BY <1>9, <1>10, <1>11

\* RemovedIsCutOff: behind a removal that went well no session of the account that
\* it was asked to remove is left.
THEOREM Cut == Spec => RemovedIsCutOff
<1>1. Robust /\ [Next]_vars =>
        [\A m \in Operators :
           Ends(m, "remove")
             => \A s \in sess : s.name = op[m].name /\ s.gen = op[m].gen
                  => passwd[s.name] # None /\ passwd[s.name].gen = s.gen]_vars
  <2> SUFFICES ASSUME Robust, [Next]_vars, NEW m \in Operators, Ends(m, "remove")
               PROVE  \A s \in sess : ~(s.name = op[m].name /\ s.gen = op[m].gen)
    OBVIOUS
  <2>1. Head(op[m].todo) = "writeV1"
    BY EndsHow DEF Robust
  <2> QED  BY <2>1 DEF Robust, SessionsOK, CutOff, Ends
<1> QED  BY <1>1, RobustInvariant, PTL DEF Spec, RemovedIsCutOff

\* CleanupAgreesWithGuard: a cleanup that went well leaves no account that the
\* login guard refused when it began.
THEOREM Cleaned == Spec => CleanupAgreesWithGuard
<1>1. Robust /\ [Next]_vars =>
        [\A m \in Operators :
           Ends(m, "clean") => \A n \in Present : ExpiryOf(n) \in op[m].due
                => passwd'[n] = None]_vars
  <2> SUFFICES ASSUME Robust, [Next]_vars, NEW m \in Operators, Ends(m, "clean"),
                      NEW n \in Names, passwd[n] # None, ExpiryOf(n) \in op[m].due
               PROVE  FALSE
    BY DEF Present
  <2>1. op[m].flow = "clean" /\ ~op[m].failed /\ op[m] \in Ops /\ Fits(op[m]) /\ op[m].flow # "idle"
    BY EndsHow DEF Robust, Ends
  <2>2. /\ \A d \in op[m].due : d.exp # Never /\ d.exp <= today
        /\ n \in op[m].left \/ (n = op[m].name /\ Head(op[m].todo) \in {"kick", "userdel"})
    BY <2>1 DEF Robust, CleanOK, DueOK
  <2>3. CASE op[m].left = {} /\ Head(op[m].todo) = "writeV1"
    BY <2>2, <2>3
  <2>4. CASE NextName(m) /\ \E a \in op[m].left : op[m].left = {a} /\ ~Goes(m, a)
    <3>1. Head(op[m].todo) = "next"
      BY <2>4, AtStep, NextNameDoes DEF Robust
    <3>2. ~Goes(m, n)
      BY <2>2, <2>4, <3>1
    <3>3. passwd[n].exp # Never /\ passwd[n].exp <= today
      BY <2>2 DEF ExpiryOf
    <3>4. passwd[n].exp \in Int /\ today \in Int
      BY DEF Robust, Typed, TypeOK, Accts, Days
    <3> QED  BY <3>2, <3>3, <3>4 DEF Goes, DaysLeft
  <2> QED  BY <2>3, <2>4, EndsHow DEF Robust
<1> QED  BY <1>1, RobustInvariant, PTL DEF Spec, CleanupAgreesWithGuard

-----------------------------------------------------------------------------
(* One operator at a time: the parts that need it.                          *)

\* While no two operations overlap, one operator at most is busy, and none
\* between the two halves of a trial's end.
Alone ==
  "overlap" \notin events =>
    /\ \A m, k \in Operators : Busy(m) /\ Busy(k) => m = k
    /\ \A j \in jobs : j.running => passwd[j.name] = None /\ \A m \in Operators : ~Busy(m)

\* The temporary file is users.json with one row changed.
Written(o) ==
  LET n == o.name IN
  /\ \A a \in Names \ {n} : tmp[a] = rows[a]
  /\ o.flow \in Deleting <=> tmp[n] = None
  /\ o.flow \in Creating \cup {"limit"} => tmp[n].limit = o.limit
  /\ o.flow = "expiry" => tmp[n].limit = RowLimit(n)

\* What an operation has read is still so; what it deletes is gone.
InStep(o) ==
  /\ Head(o.todo) = "write" => o.db = rows
  /\ Head(o.todo) = "rename" => tmp \in Tables /\ Written(o)
  /\ Head(o.todo) = "writeV1" => o.lines = v1
  /\ o.flow \in Deleting /\ Head(o.todo) \in GoneAt(o.flow) => passwd[o.name] = None

Sync ==
  events \cap {"overlap", "broken"} = {} =>
    /\ rows # Broken
    /\ \A m \in Operators : Busy(m) => InStep(op[m])

\* An account of `hexplus user add` is whole, or its operation still runs.
Adding(o) == o.flow = "add" /\ Head(o.todo) # "useradd"
AddGood(n) == passwd[n] # None /\ passwd[n].by = "add" => passwd[n].pw /\ rows[n] # None
AddStep(o) ==
  Adding(o) /\ Head(o.todo) \notin {"chpasswd", "rollback"} /\ passwd[o.name] # None
       => passwd[o.name].pw

AddOK ==
  events \cap {"overlap", "crash", "rollbackFault", "broken"} = {} =>
    /\ \A m \in Operators : Busy(m) => AddStep(op[m])
    /\ \A n \in Names : AddGood(n) \/ \E m \in Operators : Adding(op[m]) /\ op[m].name = n

\* A creation has told nothing yet.  It finds no row until it publishes its own,
\* and what it then enforces is the limit it was given.
Unwritten(o) == Head(o.todo) \in {"chpasswd", "load", "write", "rename"}
     \/ (o.flow = "add" /\ Head(o.todo) = "cert")
LimitStep(o) ==
  LET n == o.name  h == Head(o.todo) IN
  /\ (o.flow \in Creating /\ h # "useradd" /\ passwd[n] # None /\ passwd[n].fresh) =>
       /\ told[n] = None
       /\ Unwritten(o) => rows[n] = None
       /\ o.flow = "add" => v1[n] = None
       /\ o.flow = "create" /\ h \in {"readV1", "writeV1"} => RowLimit(n) \in {0, o.limit}
       /\ o.flow = "trial" /\ h \in {"readV1", "writeV1"} => RowLimit(n) = 0
       /\ o.flow \in {"create", "trial"} /\ h \in {"cert", "at"} => Enforced(n) = o.limit
  /\ (o.flow = "limit" /\ h \in {"readV1", "writeV1"}) => RowLimit(n) = o.limit

\* The limit that was told is enforced, or is about to be: `limit` has written
\* users.json and not yet the list of the first version.
Told(n) == passwd[n] # None /\ passwd[n].fresh /\ told[n] # None => Enforced(n) = told[n]
HalfSet(o, n) == o.flow = "limit" /\ o.name = n /\ Head(o.todo) \in {"readV1", "writeV1"}
LimitOK ==
  events \cap {"overlap", "crash", "v1Fault", "broken"} = {} =>
    /\ \A m \in Operators : Busy(m) => LimitStep(op[m])
    /\ \A n \in Names : Told(n) \/ \E m \in Operators : HalfSet(op[m], n)

-----------------------------------------------------------------------------
(* The order of the steps, and what a step leaves alone.                    *)

\* The order of the steps of the flows that write limits, and of the deleting ones.
LEMMA DeletingOrder ==
  ASSUME NEW flow \in Deleting, NEW s, NEW t, Follows(flow, s, t), t \in GoneAt(flow)
  PROVE  s = "userdel" \/ s \in GoneAt(flow)
<1>1. CASE flow = "drop"
  BY <1>1 DEF Follows, Steps, RemoveSteps, GoneAt
<1>2. CASE flow = "remove"
  BY <1>2 DEF Follows, Steps, RemoveUserSteps, RemoveSteps, V1Steps, GoneAt
<1>3. CASE flow = "removeAll"
  BY <1>3 DEF Follows, Steps, RemoveUserSteps, RemoveSteps, V1Steps, GoneAt
<1>4. CASE flow = "clean"
  BY <1>4 DEF Follows, Steps, CleanSteps, RemoveSteps, V1Steps, GoneAt
<1> QED  BY <1>1, <1>2, <1>3, <1>4 DEF Deleting

\* The order of the steps of a creation and of a change of the limit.
LEMMA LimitOrder ==
  ASSUME NEW flow \in Creating \cup {"limit"}, NEW s, NEW t, Follows(flow, s, t)
  PROVE  /\ flow \in Creating => (t = "chpasswd" <=> s = "useradd")
         /\ t \in {"load", "write", "rename"} => s \in {"chpasswd", "cert", "load", "write"}
         /\ t \in {"load", "write", "rename"} /\ flow = "create" => s # "cert"
         /\ t = "readV1" => s = (IF flow = "trial" THEN "chpasswd" ELSE "rename")
         /\ t = "writeV1" => s = "readV1"
         /\ t = "at" => s = "writeV1"
         /\ t = "cert" => s = (IF flow = "add" THEN "chpasswd" ELSE "writeV1")
         /\ flow = "trial" => t \notin {"load", "write", "rename"}
         /\ s # "at" /\ (flow = "create" => s # "cert") /\ (flow = "add" => s # "rename")
         /\ flow = "limit" => (s = "rename" => t = "readV1") /\ (s = "readV1" => t = "writeV1")
<1>1. CASE flow = "add"
  BY <1>1 DEF Follows, Steps, AddSteps, Creating
<1>2. CASE flow = "create"
  BY <1>2 DEF Follows, Steps, CreateSteps, Creating
<1>3. CASE flow = "trial"
  BY <1>3 DEF Follows, Steps, TrialSteps, Creating
<1>4. CASE flow = "limit"
  BY <1>4 DEF Follows, Steps, LimitSteps, Creating
<1> QED  BY <1>1, <1>2, <1>3, <1>4 DEF Creating

\* The next step that is due is the one that is taken.
LEMMA WhichStep ==
  ASSUME NEW m \in Operators, Works(m)
  PROVE  LET s == Head(op[m].todo) IN
         /\ s = "useradd" => CreateSystemUser(m)
         /\ s = "chpasswd" => SetPassword(m)
         /\ s = "chage" => ChageExpiry(m)
         /\ s = "userdel" => DeleteSystemUser(m)
         /\ s = "rollback" => Rollback(m)
         /\ s = "cert" => Certify(m)
         /\ s = "load" => Load(m)
         /\ s = "write" => WriteTmp(m)
         /\ s = "rename" => RenameTmp(m)
         /\ s = "readV1" => ReadV1(m)
         /\ s = "writeV1" => WriteV1(m)
         /\ s = "at" => ScheduleTrialEnd(m)
  BY DEF Works, CreateSystemUser, SetPassword, ChageExpiry, DeleteSystemUser, Rollback, Certify,
     RemoveCert, Load, WriteTmp, RenameTmp, ReadV1, WriteV1, ScheduleTrialEnd, Kick, At

\* What a step leaves alone.
LEMMA WorksKeeps ==
  ASSUME Typed, NEW m \in Operators, Works(m)
  PROVE  LET s == Head(op[m].todo) IN
         /\ events \subseteq events'
         /\ \A j \in jobs' : j.running => j \in jobs
         /\ s # "rename" => rows' = rows
         /\ s \notin {"write", "rename"} => tmp' = tmp
         /\ s # "writeV1" => v1' = v1
         /\ s \notin {"useradd", "chpasswd", "chage", "userdel", "rollback"} => passwd' = passwd
         /\ s \notin {"useradd", "cert", "rename", "writeV1", "at"} => told' = told
<1> DEFINE s == Head(op[m].todo)
<1>1. CASE CreateSystemUser(m)
  BY <1>1, CreateSystemUserDoes, AtStep
<1>2. CASE SetPassword(m)
  BY <1>2, SetPasswordDoes, AtStep
<1>3. CASE ChageExpiry(m)
  BY <1>3, ChageExpiryDoes, AtStep
<1>4. CASE DeleteSystemUser(m)
  BY <1>4, DeleteSystemUserDoes, AtStep
<1>5. CASE Rollback(m)
  BY <1>5, RollbackDoes, AtStep
<1>6. CASE Certify(m)
  BY <1>6, CertifyDoes, AtStep
<1>7. CASE RemoveCert(m)
  BY <1>7, RemoveCertDoes, AtStep
<1>8. CASE Load(m)
  BY <1>8, LoadDoes, AtStep
<1>9. CASE WriteTmp(m)
  BY <1>9, WriteTmpDoes, AtStep
<1>10. CASE RenameTmp(m)
  BY <1>10, RenameTmpDoes, AtStep
<1>11. CASE ReadV1(m)
  BY <1>11, ReadV1Does, AtStep
<1>12. CASE WriteV1(m)
  BY <1>12, WriteV1Does, AtStep
<1>13. CASE ScheduleTrialEnd(m)
  <2>1. \A j \in jobs' : j.running => j \in jobs
    BY <1>13, ScheduleTrialEndDoes
  <2> QED  BY <1>13, <2>1, ScheduleTrialEndDoes, AtStep
<1>14. CASE Kick(m)
  BY <1>14, KickDoes, AtStep
<1> QED  BY <1>1, <1>2, <1>3, <1>4, <1>5, <1>6, <1>7, <1>8, <1>9, <1>10, <1>11, <1>12, <1>13, <1>14
            DEF Works

-----------------------------------------------------------------------------
(* One operator at a time.                                                  *)

\* Nobody is busy at the start.
LEMMA AloneInit == Init => Alone
  BY RestingOK DEF Init, Alone, Busy

\* Every step keeps it: whoever begins beside another marks the overlap.
LEMMA AloneNext ==
  ASSUME Typed, Alone, [Next]_vars
  PROVE  Alone'
<1> SUFFICES ASSUME "overlap" \notin events'
             PROVE  /\ \A m, k \in Operators : Busy(m)' /\ Busy(k)' => m = k
                    /\ \A j \in jobs' : j.running => passwd'[j.name] = None
                         /\ \A m \in Operators : ~Busy(m)'
  BY DEF Alone
<1>1. ASSUME "overlap" \notin events
      PROVE  /\ \A m, k \in Operators : Busy(m) /\ Busy(k) => m = k
             /\ \A j \in jobs : j.running => passwd[j.name] = None /\ \A m \in Operators : ~Busy(m)
  BY <1>1 DEF Alone
<1>2. ASSUME NEW m \in Operators, Others(m), Busy(m), events \subseteq events',
             \A j \in jobs' : j.running => j \in jobs
      PROVE  /\ \A l, k \in Operators : Busy(l)' /\ Busy(k)' => l = k
             /\ \A j \in jobs' : ~j.running
  BY <1>1, <1>2 DEF Others, Busy
<1>3. ASSUME NEW m \in Operators, Begins(m)
      PROVE  /\ \A l, k \in Operators : Busy(l)' /\ Busy(k)' => l = k
             /\ \A j \in jobs' : ~j.running
  <2>1. ~Overlaps(m) /\ Others(m) /\ jobs' = jobs
    BY <1>3 DEF Begins
  <2> QED  BY <2>1 DEF Overlaps, Others, Busy
<1>4. ASSUME NEW m \in Operators, NextName(m) \/ Works(m) \/ Crash(m)
      PROVE  /\ \A l, k \in Operators : Busy(l)' /\ Busy(k)' => l = k
             /\ \A j \in jobs' : ~j.running
  <2>1. Busy(m) /\ Others(m) /\ events \subseteq events' /\ \A j \in jobs' : j.running => j \in jobs
    <3>1. CASE NextName(m)
      BY <3>1, NextNameDoes, AtStep
    <3>2. CASE Works(m)
      BY <3>2, WorksDoes, WorksKeeps DEF Advances, Stops
    <3>3. CASE Crash(m)
      BY <3>3, CrashDoes
    <3> QED  BY <1>4, <3>1, <3>2, <3>3
  <2> QED  BY <1>2, <2>1
<1>5. ASSUME NEW j \in jobs, TrialEnds(j)
      PROVE  /\ \A m \in Operators : ~Busy(m)'
             /\ \A i \in jobs' : i.running => passwd'[i.name] = None
  <2>1. op' = op /\ (\A m \in Operators : ~Busy(m)) /\ events' = events
    BY <1>5 DEF TrialEnds
  <2>2. \A i \in jobs : i.running => passwd[i.name] = None
    BY <1>1, <2>1
  <2>3. \A i \in jobs : i.name \in Names
    BY DEF Typed, TypeOK
  <2>4. \A i \in jobs' : i \in jobs \/ i = [j EXCEPT !.running = TRUE]
    BY <1>5 DEF TrialEnds
  <2>5. [j EXCEPT !.running = TRUE].name = j.name
    BY DEF Typed, TypeOK
  <2>6. \A n \in Names : passwd'[n] = IF n = j.name THEN None ELSE passwd[n]
    BY <1>5 DEF TrialEnds, Typed, TypeOK
  <2>7. \A i \in jobs' : i.running => passwd'[i.name] = None
    BY <2>2, <2>3, <2>4, <2>5, <2>6
  <2> QED  BY <2>1, <2>7 DEF Busy
<1>6. ASSUME op' = op, events' = events, passwd' = passwd, jobs' \subseteq jobs
      PROVE  /\ \A m, k \in Operators : Busy(m)' /\ Busy(k)' => m = k
             /\ \A j \in jobs' : j.running => passwd'[j.name] = None
                  /\ \A m \in Operators : ~Busy(m)'
  BY <1>1, <1>6 DEF Busy
<1>7. CASE Happens
  <2>1. ASSUME NEW j \in jobs, TrialEnds(j)
        PROVE  /\ \A m, k \in Operators : Busy(m)' /\ Busy(k)' => m = k
               /\ \A i \in jobs' : i.running => passwd'[i.name] = None
                    /\ \A m \in Operators : ~Busy(m)'
    BY <1>5, <2>1
  <2>2. ASSUME NEW j \in jobs, TrialLineDropped(j)
        PROVE op' = op /\ events' = events /\ passwd' = passwd /\ jobs' \subseteq jobs
    BY <2>2 DEF TrialLineDropped
  <2>3. ASSUME NEW n \in Names, Login(n)
        PROVE op' = op /\ events' = events /\ passwd' = passwd /\ jobs' \subseteq jobs
    BY <2>3 DEF Login
  <2>4. CASE Midnight
    BY <1>6, <2>4 DEF Midnight
  <2>5. CASE Damage
    <3>1. op' = op /\ events \subseteq events' /\ passwd' = passwd /\ jobs' = jobs
      BY <2>5 DEF Damage, Note
    <3> QED  BY <1>1, <3>1 DEF Busy
  <2> QED  BY <1>6, <1>7, <2>1, <2>2, <2>3, <2>4, <2>5 DEF Happens
<1>8. CASE UNCHANGED vars
  BY <1>6, <1>8 DEF vars
<1> QED  BY <1>3, <1>4, <1>7, <1>8, NextCases

\* Without an overlap nobody else is busy, before a step and after it.
LEMMA Solo ==
  ASSUME Typed, Alone, NEW m \in Operators, Begins(m) \/ NextName(m) \/ Works(m) \/ Crash(m),
         "overlap" \notin events'
  PROVE  /\ "overlap" \notin events /\ events \subseteq events' /\ Others(m)
         /\ \A k \in Operators \ {m} : ~Busy(k) /\ ~Busy(k)'
         /\ ~Begins(m) => Busy(m)
<1>1. Others(m) /\ events \subseteq events' /\ (Begins(m) \/ Busy(m))
  <2>1. CASE Begins(m)
    BY <2>1 DEF Begins
  <2>2. CASE NextName(m)
    BY <2>2, NextNameDoes, AtStep
  <2>3. CASE Works(m)
    BY <2>3, WorksDoes, WorksKeeps DEF Advances, Stops
  <2>4. CASE Crash(m)
    BY <2>4, CrashDoes
  <2> QED  BY <2>1, <2>2, <2>3, <2>4
<1>2. "overlap" \notin events
  BY <1>1
<1>3. \A k \in Operators \ {m} : ~Busy(k)
  <2>1. CASE Begins(m)
    BY <2>1 DEF Begins, Overlaps
  <2>2. CASE Busy(m)
    BY <1>2, <2>2 DEF Alone
  <2> QED  BY <1>1, <2>1, <2>2
<1>4. \A k \in Operators \ {m} : ~Busy(k)'
  BY <1>1, <1>3 DEF Others, Busy
<1> QED  BY <1>1, <1>2, <1>3, <1>4

\* Nobody is busy while a trial ends.
LEMMA TrialAlone ==
  ASSUME Typed, Alone, NEW j \in jobs, "overlap" \notin events', TrialEnds(j) \/ TrialLineDropped(j)
  PROVE  /\ "overlap" \notin events /\ events' = events /\ op' = op
         /\ \A m \in Operators : ~Busy(m) /\ ~Busy(m)'
         /\ j.name \in Names /\ passwd'[j.name] = None
         /\ \A n \in Names : passwd'[n] \in {passwd[n], None}
         /\ UNCHANGED <<rows, tmp, told>>
         /\ \A n \in Names \ {j.name} : v1'[n] = v1[n]
<1>1. j.name \in Names
  BY DEF Typed, TypeOK
<1>2. CASE TrialEnds(j)
  BY <1>1, <1>2 DEF TrialEnds, Busy, Typed, TypeOK
<1>3. CASE TrialLineDropped(j)
  <2>1. j.running /\ events' = events /\ op' = op /\ passwd' = passwd
    BY <1>3 DEF TrialLineDropped
  <2>2. passwd[j.name] = None /\ \A m \in Operators : ~Busy(m)
    BY <2>1 DEF Alone
  <2>3. \A n \in Names \ {j.name} : v1'[n] = v1[n]
    BY <1>1, <1>3 DEF TrialLineDropped, Typed, TypeOK, Lines
  <2> QED  BY <1>1, <1>3, <2>1, <2>2, <2>3 DEF TrialLineDropped, Busy
<1> QED  BY <1>2, <1>3

-----------------------------------------------------------------------------
(* What has been read is still so.                                          *)

\* Nothing has been read at the start.
LEMMA SyncInit == Init => Sync
<1>1. NoneOf \in Tables
  BY DEF NoneOf, Tables
<1> QED  BY <1>1, NoneApart, RestingOK DEF Init, Sync, Busy

\* What the temporary file holds when it has been written.
LEMMA WriteWritten ==
  ASSUME Typed, NEW m \in Operators, WriteTmp(m), Advances(m), op[m].db = rows,
         op'[m].flow # "idle",
         tmp' = [op[m].db EXCEPT ![op[m].name] = NewRow(op[m])]
  PROVE  tmp' \in Tables /\ Written(op[m])'
<1> DEFINE o == op[m]
           p == op'[m]
<1>1. o \in Ops /\ Fits(o) /\ o.flow # "idle" /\ Head(o.todo) = "write" /\ o.name \in Names
        /\ rows' = rows
  BY WriteTmpDoes, AtStep
<1>2. o.db \in Tables /\ o.flow \in Creating \cup Deleting \cup Changing
  BY <1>1, HeadFlows DEF Fits
<1>3. /\ NewRow(o) \in [limit : Limits, exp : Days] \cup {None}
      /\ o.flow \in Deleting <=> NewRow(o) = None
      /\ o.flow \in Creating => NewRow(o).limit = o.limit
      /\ o.flow = "limit" => NewRow(o).limit = o.limit
      /\ o.flow = "expiry" => NewRow(o).limit = (IF o.db[o.name] = None THEN 0
           ELSE o.db[o.name].limit)
  BY <1>1, <1>2, NewRowOK
<1>4. p.name = o.name /\ p.flow = o.flow /\ p.limit = o.limit
  <2>1. o.failed \in BOOLEAN
    BY <1>1 DEF Ops
  <2> QED  BY <2>1, RestingOK DEF Advances, Went, Same
<1>5. rows \in Tables /\ rows # Broken
  BY <1>2, NoneApart
<1> HIDE DEF o, p
<1>6. tmp' = [rows EXCEPT ![o.name] = NewRow(o)]
  BY DEF o
<1>7. tmp' \in Tables
  BY <1>1, <1>3, <1>5, <1>6 DEF Tables
<1>8. tmp'[o.name] = NewRow(o) /\ \A a \in Names \ {o.name} : tmp'[a] = rows[a]
  BY <1>1, <1>5, <1>6 DEF Tables
<1>9. ASSUME NEW n \in Names, n = o.name, o.flow = "expiry" PROVE NewRow(o).limit = RowLimit(n)'
  <2>1. o.db = rows
    BY DEF o
  <2> QED  BY <1>1, <1>3, <1>5, <1>9, <2>1 DEF RowLimit
<1> QED  BY <1>1, <1>3, <1>4, <1>7, <1>8, <1>9 DEF Written, p, o

\* Every step keeps it.
LEMMA SyncNext ==
  ASSUME Typed, Alone, Sync, [Next]_vars
  PROVE  Sync'
<1> SUFFICES ASSUME events' \cap {"overlap", "broken"} = {}
             PROVE  rows' # Broken /\ \A m \in Operators : Busy(m)' => InStep(op[m])'
  BY DEF Sync
<1>1. "overlap" \notin events' /\ "broken" \notin events'
  OBVIOUS
<1>2. ASSUME events \subseteq events'
      PROVE rows # Broken /\ \A m \in Operators : Busy(m) => InStep(op[m])
  BY <1>1, <1>2 DEF Sync
<1>3. ASSUME NEW m \in Operators, Begins(m)
      PROVE  rows' # Broken /\ \A k \in Operators : Busy(k)' => InStep(op[k])'
  <2> DEFINE p == op'[m]
  <2>1. events \subseteq events' /\ \A k \in Operators \ {m} : ~Busy(k)'
    BY <1>1, <1>3, Solo
  <2>2. (OneName(p) \/ AllNames(p)) /\ rows' = rows
    BY <1>3 DEF Begins
  <2>3. Head(p.todo) \in {"useradd", "userdel", "chage", "load", "chpasswd", "next"}
        /\ (p.flow \in Deleting => Head(p.todo) \in {"userdel", "next"})
    <3>1. CASE AllNames(p)
      BY <3>1 DEF AllNames
    <3>2. CASE OneName(p)
      BY <3>2, FirstStep DEF OneName, Working, Flows, Creating, Picking, Deleting, Looping
    <3> QED  BY <2>2, <3>1, <3>2
  <2>4. InStep(op[m])'
    BY <2>3 DEF InStep, GoneAt
  <2> QED  BY <1>2, <2>1, <2>2, <2>4
<1>4. ASSUME NEW m \in Operators, NextName(m)
      PROVE  rows' # Broken /\ \A k \in Operators : Busy(k)' => InStep(op[k])'
  <2> DEFINE o == op[m]
             p == op'[m]
  <2>1. events \subseteq events' /\ \A k \in Operators \ {m} : ~Busy(k)'
    BY <1>1, <1>4, Solo
  <2>2. o.flow \in Looping /\ (\E n \in o.left : TakesUp(m, n)) /\ rows' = rows /\ o \in Ops
    BY <1>4, NextNameDoes, AtStep
  <2>3. SUFFICES ASSUME p.flow # "idle" PROVE InStep(op[m])'
    BY <1>2, <2>1, <2>2 DEF Busy
  <2>4. o.failed \in BOOLEAN
    BY <2>2 DEF Ops
  <2>5. p.todo \in {Steps(o.flow), <<"next">>}
    BY <2>2, <2>3, <2>4, RestingOK DEF TakesUp
  <2>6. Head(Steps(o.flow)) \in {"userdel", "kick"}
          /\ (o.flow = "removeAll" => Head(Steps(o.flow)) = "userdel")
    BY <2>2, FirstStep DEF Looping, Working, Flows, Deleting
  <2>7. Head(p.todo) \in {"userdel", "kick", "next"}
    BY <2>5, <2>6
  <2>8. p.flow = o.flow
    BY <2>2, <2>3, <2>4, RestingOK DEF TakesUp
  <2> QED  BY <2>2, <2>7, <2>8 DEF InStep, GoneAt, Looping
<1>5. ASSUME NEW m \in Operators, Crash(m)
      PROVE  rows' # Broken /\ \A k \in Operators : Busy(k)' => InStep(op[k])'
  <2>1. events \subseteq events' /\ \A k \in Operators \ {m} : ~Busy(k)'
    BY <1>1, <1>5, Solo
  <2>2. op'[m].flow = "idle" /\ rows' = rows
    BY <1>5, CrashDoes, RestingOK
  <2> QED  BY <1>2, <2>1, <2>2 DEF Busy
<1>6. ASSUME NEW m \in Operators, Works(m)
      PROVE  rows' # Broken /\ \A k \in Operators : Busy(k)' => InStep(op[k])'
  <2> DEFINE o == op[m]
             p == op'[m]
             s == Head(op[m].todo)
  <2>1. events \subseteq events' /\ (\A k \in Operators \ {m} : ~Busy(k)') /\ Busy(m) /\ ~Begins(m)
    BY <1>1, <1>6, Solo, WorksDoes DEF Begins
  <2>2. rows # Broken /\ InStep(o) /\ o \in Ops /\ Fits(o) /\ o.flow # "idle"
    BY <1>2, <2>1 DEF Typed, TypeOK, FitsAll, Busy
  <2>3. rows' # Broken
    <3>1. CASE s = "rename"
      <4>1. RenameTmp(m)
        BY <1>6, <3>1, WhichStep
      <4>2. tmp \in Tables
        BY <2>2, <3>1 DEF InStep
      <4> QED  BY <2>2, <4>1, <4>2, RenameTmpDoes, NoneApart
    <3>2. CASE s # "rename"
      BY <1>6, <2>2, <3>2, WorksKeeps
    <3> QED  BY <3>1, <3>2
  <2>4. SUFFICES ASSUME p.flow # "idle" PROVE InStep(op[m])'
    BY <2>1, <2>3 DEF Busy
  <2>5. /\ o.flow \in Working /\ Same(o, p)
        /\ \/ Head(p.todo) = "next"
           \/ Advances(m) /\ Follows(o.flow, s, Head(p.todo))
           \/ /\ Stops(m)
              /\ \/ o.flow \in Creating /\ Head(p.todo) = "rollback"
                 \/ o.flow = "create" /\ Head(p.todo) = "readV1"
                 \/ o.flow = "removeAll" /\ Head(p.todo) = "kick"
    BY <1>6, <2>4, MovedOn
  <2>6. /\ Head(p.todo) \in {"write", "rename", "writeV1"} => Advances(m)
             /\ Follows(o.flow, s, Head(p.todo))
        /\ o.flow \in Deleting /\ Head(p.todo) \in GoneAt(o.flow) => Advances(m)
             /\ Follows(o.flow, s, Head(p.todo))
    BY <2>5 DEF GoneAt, Deleting, Creating
  <2>7. ASSUME Head(p.todo) = "write" PROVE p.db = rows'
    <3>1. s = "load"
      BY <2>5, <2>6, <2>7, StepOrder
    <3>2. Load(m)
      BY <1>6, <3>1, WhichStep
    <3> QED  BY <2>2, <2>4, <3>2, LoadDoes
  <2>8. ASSUME Head(p.todo) = "rename" PROVE tmp' \in Tables /\ Written(op[m])'
    <3>1. s = "write" /\ Advances(m)
      BY <2>5, <2>6, <2>8, StepOrder
    <3>2. WriteTmp(m) /\ o.db = rows
      BY <1>6, <2>2, <3>1, WhichStep DEF InStep
    <3>3. ~Stops(m)
      <4>1. Head(p.todo) \notin {"next", "rollback", "readV1", "kick"}
        BY <2>8
      <4> QED  BY <2>4, <4>1, RestingOK DEF Stops, Stopped
    <3>4. tmp' = [o.db EXCEPT ![o.name] = NewRow(o)]
      BY <3>2, <3>3, WriteTmpDoes
    <3> QED  BY <2>4, <3>1, <3>2, <3>4, WriteWritten
  <2>9. ASSUME Head(p.todo) = "writeV1" PROVE p.lines = v1'
    <3>1. s = "readV1"
      BY <2>5, <2>6, <2>9, StepOrder
    <3>2. ReadV1(m)
      BY <1>6, <3>1, WhichStep
    <3> QED  BY <2>4, <3>2, ReadV1Does
  <2>10. ASSUME p.flow \in Deleting, Head(p.todo) \in GoneAt(p.flow) PROVE passwd'[p.name] = None
    <3>1. p.flow = o.flow /\ p.name = o.name
      BY <2>5 DEF Same
    <3>2. Advances(m) /\ Follows(o.flow, s, Head(p.todo))
      BY <2>6, <2>10, <3>1
    <3>3. s = "userdel" \/ s \in GoneAt(o.flow)
      BY <2>10, <3>1, <3>2, DeletingOrder
    <3>4. CASE s = "userdel"
      <4>1. ~Stops(m)
        <5>1. Head(p.todo) # "next" /\ ~(o.flow = "removeAll" /\ Head(p.todo) = "kick")
          BY <2>10, <3>1 DEF GoneAt
        <5> QED  BY <2>4, <2>10, <3>1, <5>1, RestingOK DEF Stops, Stopped, Deleting, Creating
      <4> QED  BY <1>6, <2>1, <3>1, <3>4, <4>1, WorksDoes DEF At
    <3>5. CASE s \in GoneAt(o.flow)
      <4>1. passwd[o.name] = None
        BY <2>2, <2>10, <3>1, <3>5 DEF InStep
      <4>2. passwd' = passwd
        BY <1>6, <3>5, WorksKeeps DEF GoneAt
      <4> QED  BY <3>1, <4>1, <4>2
    <3> QED  BY <3>3, <3>4, <3>5
  <2> QED  BY <2>7, <2>8, <2>9, <2>10 DEF InStep
<1>7. CASE Happens
  <2>1. ASSUME NEW j \in jobs, TrialEnds(j) \/ TrialLineDropped(j)
        PROVE  rows' # Broken /\ \A k \in Operators : Busy(k)' => InStep(op[k])'
    BY <1>1, <1>2, <2>1, TrialAlone
  <2>2. ASSUME UNCHANGED <<op, events, passwd, rows, tmp, v1>>
        PROVE  rows' # Broken /\ \A k \in Operators : Busy(k)' => InStep(op[k])'
    BY <1>2, <2>2 DEF Busy, InStep, Written, RowLimit
  <2>3. ASSUME NEW n \in Names, Login(n) PROVE UNCHANGED <<op, events, passwd, rows, tmp, v1>>
    BY <2>3 DEF Login
  <2>4. Midnight => UNCHANGED <<op, events, passwd, rows, tmp, v1>>
    BY DEF Midnight
  <2>5. ~Damage
    BY <1>1 DEF Damage, Note
  <2> QED  BY <1>7, <2>1, <2>2, <2>3, <2>4, <2>5 DEF Happens
<1>8. CASE UNCHANGED vars
  BY <1>2, <1>8 DEF vars, Busy, InStep, Written, RowLimit
<1> QED  BY <1>3, <1>4, <1>5, <1>6, <1>7, <1>8, NextCases

-----------------------------------------------------------------------------
(* An account of `hexplus user add` is whole.                               *)

\* `user add` has made no account at the start.
LEMMA AddInit == Init => AddOK
<1> SUFFICES ASSUME Init PROVE AddOK
  OBVIOUS
<1>1. \A n \in Names : passwd[n] # None => passwd[n].by = "v1"
  BY DEF Init
<1> QED  BY <1>1, RestingOK DEF Init, AddOK, AddGood, Busy

\* How an operator that adds an account goes on, when no fault is to be allowed for.
LEMMA AddGoesOn ==
  ASSUME Typed, NEW m \in Operators, Works(m), op'[m].flow # "idle", op'[m].flow = "add"
         \/ op[m].flow = "add"
  PROVE  LET o == op[m]  p == op'[m]  s == Head(op[m].todo) IN
         /\ p.flow = "add" /\ o.flow = "add" /\ p.name = o.name /\ p.left = {}
         /\ \/ Advances(m) /\ Follows("add", s, Head(p.todo))
            \/ Head(p.todo) = "rollback" /\ s # "useradd"
         /\ Head(p.todo) # "useradd" /\ (Head(p.todo) = "chpasswd" <=> s = "useradd")
<1> DEFINE o == op[m]
           p == op'[m]
           s == Head(op[m].todo)
<1>1. /\ Same(o, p) /\ Fits(o) /\ o.flow \in Working
      /\ \/ o.left # {} /\ o.flow \in Looping
         \/ Advances(m) /\ Follows(o.flow, s, Head(p.todo))
         \/ o.flow \in Creating /\ Head(p.todo) = "rollback" /\ s # "useradd"
         \/ o.flow = "create"
         \/ o.flow = "removeAll"
  BY MovedOn
<1>2. p.flow = "add" /\ o.flow = "add" /\ p.name = o.name /\ p.left = o.left
  BY <1>1 DEF Same
<1>3. o.left = {} /\ "add" \in Creating
  BY <1>1, <1>2 DEF Fits, Looping, Creating
<1>4. \/ Advances(m) /\ Follows("add", s, Head(p.todo))
      \/ Head(p.todo) = "rollback" /\ s # "useradd"
  BY <1>1, <1>2 DEF Looping
<1>5. Head(p.todo) # "useradd" /\ (Head(p.todo) = "chpasswd" <=> s = "useradd")
  BY <1>1, <1>2, <1>3, <1>4, LimitOrder, StepOrder
<1> QED  BY <1>2, <1>3, <1>4, <1>5

\* The steps that `hexplus user add` takes.
LEMMA AddHeads ==
  ASSUME NEW o \in Ops, o.flow = "add", Fits(o)
  PROVE  Head(o.todo) \in {"useradd", "chpasswd", "cert", "load", "write", "rename", "rollback"}
<1>1. o.flow # "idle" /\ o.flow \in Working /\ Head(o.todo) \in StepNames
  BY StepWithin, WorkingFlow DEF Fits
<1> QED  BY <1>1, HeadFlows DEF StepNames, Deleting, Looping

\* Every step keeps it: a step of `user add` that fails rolls the account back.
LEMMA AddNext ==
  ASSUME Typed, Alone, Sync, AddOK, [Next]_vars
  PROVE  AddOK'
<1> SUFFICES ASSUME events' \cap {"overlap", "crash", "rollbackFault", "broken"} = {}
             PROVE  /\ \A m \in Operators : Busy(m)' => AddStep(op[m])'
                    /\ \A n \in Names : AddGood(n)' \/ \E m \in Operators : Adding(op'[m])
                         /\ op'[m].name = n
  BY DEF AddOK, Adding
<1>1. "overlap" \notin events' /\ "crash" \notin events' /\ "rollbackFault" \notin events'
        /\ "broken" \notin events'
  OBVIOUS
<1>2. ASSUME events \subseteq events'
      PROVE  /\ \A m \in Operators : Busy(m) => AddStep(op[m]) /\ InStep(op[m])
             /\ \A n \in Names : AddGood(n) \/ \E m \in Operators : Adding(op[m]) /\ op[m].name = n
             /\ rows # Broken
  <2>1. events \cap {"overlap", "crash", "rollbackFault", "broken"} = {}
          /\ events \cap {"overlap", "broken"} = {}
    BY <1>2
  <2> QED  BY <2>1 DEF AddOK, Sync
<1>3. \A k \in Operators : ~Busy(k) => ~Adding(op[k])
  BY DEF Busy, Adding
\* A step that touches no account and no row.
<1>4. ASSUME NEW m \in Operators, events \subseteq events', \A k \in Operators \ {m} : ~Busy(k)
             /\ ~Busy(k)',
             ~Adding(op[m]), ~Adding(op'[m]), UNCHANGED <<passwd, rows>>
      PROVE  /\ \A k \in Operators : Busy(k)' => AddStep(op[k])'
             /\ \A n \in Names : AddGood(n)'
  <2>1. \A n \in Names : AddGood(n)
    BY <1>2, <1>3, <1>4
  <2> QED  BY <1>4, <2>1 DEF AddGood, AddStep, Adding
<1>5. ASSUME NEW m \in Operators, Begins(m)
      PROVE  /\ \A k \in Operators : Busy(k)' => AddStep(op[k])'
             /\ \A n \in Names : AddGood(n)'
  <2>1. events \subseteq events' /\ \A k \in Operators \ {m} : ~Busy(k) /\ ~Busy(k)'
    BY <1>1, <1>5, Solo
  <2>2. ~Busy(m) /\ UNCHANGED <<passwd, rows>> /\ (OneName(op'[m]) \/ AllNames(op'[m]))
    BY <1>5 DEF Begins
  <2>3. ~Adding(op'[m])
    BY <2>2, FirstStep DEF OneName, AllNames, Adding, Looping, Creating
  <2> QED  BY <1>3, <1>4, <2>1, <2>2, <2>3
<1>6. ASSUME NEW m \in Operators, NextName(m)
      PROVE  /\ \A k \in Operators : Busy(k)' => AddStep(op[k])'
             /\ \A n \in Names : AddGood(n)'
  <2>1. events \subseteq events' /\ \A k \in Operators \ {m} : ~Busy(k) /\ ~Busy(k)'
    BY <1>1, <1>6, Solo
  <2>2. /\ op[m].flow \in Looping /\ UNCHANGED <<passwd, rows>>
        /\ (\E n \in op[m].left : TakesUp(m, n)) /\ op[m].failed \in BOOLEAN
    BY <1>6, NextNameDoes DEF Typed, TypeOK, Ops
  <2>3. op'[m].flow \in Looping \/ op'[m].flow = "idle"
    BY <2>2, RestingOK DEF TakesUp
  <2> QED  BY <1>4, <2>1, <2>2, <2>3 DEF Adding, Looping
<1>7. ASSUME NEW m \in Operators, Crash(m) PROVE FALSE
  BY <1>1, <1>7, CrashDoes
<1>8. ASSUME NEW m \in Operators, Works(m)
      PROVE  /\ \A k \in Operators : Busy(k)' => AddStep(op[k])'
             /\ \A n \in Names : AddGood(n)' \/ \E k \in Operators : Adding(op'[k])
                  /\ op'[k].name = n
  <2> DEFINE o == op[m]
             p == op'[m]
             s == Head(op[m].todo)
  <2>1. events \subseteq events' /\ (\A k \in Operators \ {m} : ~Busy(k) /\ ~Busy(k)') /\ Busy(m)
    BY <1>1, <1>8, Solo, WorksDoes DEF Begins
  <2>2. AddStep(o) /\ InStep(o) /\ o \in Ops /\ Fits(o) /\ o.flow # "idle" /\ rows # Broken
    BY <1>2, <2>1 DEF Typed, TypeOK, FitsAll, Busy
  <2>3. s # "next" /\ o.name \in Names
    BY <1>8, <2>2, WorksDoes DEF Fits
  <2>4. \A n \in Names : Keeps(n) \/ (Makes(m) /\ n = o.name)
    BY <1>8, WorksDoes
  <2>5. Makes(m) => s = "useradd" /\ o.flow \in Creating
    BY <2>2, HeadFlows DEF Makes, At
  <2>6. /\ rows \in Tables
        /\ s # "rename" => rows' = rows
        /\ s = "rename" => \/ Stops(m) /\ rows' = rows
                           \/ /\ Advances(m) /\ rows' = tmp
                                   /\ (\A a \in Names \ {o.name} : tmp[a] = rows[a])
                              /\ o.flow \in Deleting <=> tmp[o.name] = None
    <3>1. s = "rename" => RenameTmp(m) /\ Written(o)
      BY <1>8, <2>2, WhichStep DEF InStep
    <3> QED  BY <1>8, <2>2, <3>1, WorksKeeps, RenameTmpDoes DEF Written, Typed, TypeOK
  <2>7. ASSUME p.flow # "idle" PROVE AddStep(op[m])'
    <3>1. SUFFICES ASSUME p.flow = "add", Head(p.todo) \notin {"useradd", "chpasswd", "rollback"},
                          passwd'[p.name] # None
                   PROVE  passwd'[p.name].pw
      BY DEF AddStep, Adding
    <3>2. /\ o.flow = "add" /\ p.name = o.name /\ p.left = {} /\ s # "useradd"
          /\ Follows("add", s, Head(p.todo)) /\ Advances(m)
      BY <1>8, <2>7, <3>1, AddGoesOn
    <3>3. "add" \in Working
      BY DEF Working, Flows, Creating
    <3>4. s # "rollback"
      BY <3>2, <3>3, StepOrder
    <3>5. CASE s = "chpasswd"
      <4>1. SetPassword(m)
        BY <1>8, <3>5, WhichStep
      <4>2. ~Stops(m)
        <5>1. o.left = {}
          BY <2>2, <3>2 DEF Fits, Looping
        <5> QED  BY <2>7, <3>1, <3>2, <5>1, RestingOK DEF Stops, Stopped
      <4>3. passwd[o.name] # None /\ passwd' =
              [passwd EXCEPT ![o.name] = WithPassword(passwd[o.name])]
        BY <4>1, <4>2, SetPasswordDoes
      <4>4. passwd'[o.name] = WithPassword(passwd[o.name]) /\ passwd[o.name] \in Accts
        BY <2>3, <4>3 DEF Typed, TypeOK
      <4> QED  BY <3>2, <4>4, PasswordOK
    <3>6. CASE s # "chpasswd"
      <4>1. Keeps(o.name) /\ passwd[o.name] # None
        BY <2>3, <2>4, <2>5, <3>1, <3>2 DEF Keeps
      <4>2. passwd[o.name].pw
        BY <2>2, <3>2, <3>4, <3>6, <4>1 DEF AddStep, Adding
      <4> QED  BY <3>1, <3>2, <4>1, <4>2 DEF Keeps
    <3> QED  BY <3>5, <3>6
  <2>8. ASSUME NEW n \in Names, Adding(o), o.name = n
        PROVE  AddGood(n)' \/ (Adding(p) /\ p.name = n)
    <3>1. CASE p.flow # "idle"
      BY <1>8, <2>8, <3>1, AddGoesOn DEF Adding
    <3>2. CASE p.flow = "idle"
      <4>1. s \in {"chpasswd", "cert", "load", "write", "rename", "rollback"}
        BY <2>2, <2>8, AddHeads DEF Adding
      <4>2. CASE s = "rollback"
        <5>1. Rollback(m)
          BY <1>8, <4>2, WhichStep
        <5>2. passwd' = [passwd EXCEPT ![o.name] = None]
          BY <1>1, <5>1, RollbackDoes
        <5>3. passwd'[n] = None
          BY <2>8, <5>2 DEF Typed, TypeOK
        <5> QED  BY <5>3 DEF AddGood
      <4>3. CASE s # "rollback"
        <5>1. ~Stops(m)
          <6>1. o.flow = "add" /\ s \in {"chpasswd", "cert", "load", "write", "rename"}
            BY <2>8, <4>1, <4>3 DEF Adding
          <6> QED  BY <3>2, <6>1 DEF Stops, Stopped, Same
        <5>2. Advances(m)
          BY <1>8, <5>1, WorksDoes
        <5>3. Tail(o.todo) = <<>>
          BY <2>2, <3>2, <5>2 DEF Advances, Went, Same
        <5>4. s = "rename" /\ o.flow = "add"
          BY <2>2, <2>8, <4>3, <5>3, LastStep DEF Adding
        <5>5. rows' = tmp /\ tmp[n] # None
          BY <2>6, <2>8, <5>1, <5>4 DEF Deleting
        <5>6. passwd' = passwd
          BY <1>8, <5>4, WorksKeeps
        <5> QED  BY <2>2, <2>8, <5>4, <5>5, <5>6 DEF AddStep, AddGood
      <4> QED  BY <4>2, <4>3
    <3> QED  BY <3>1, <3>2
  <2>9. ASSUME NEW n \in Names, AddGood(n)
        PROVE  AddGood(n)' \/ (Adding(p) /\ p.name = n)
    <3>1. CASE Makes(m) /\ n = o.name /\ o.flow = "add"
      <4>1. s = "useradd" /\ Advances(m)
        BY <2>5, <3>1 DEF Makes
      <4>2. Tail(o.todo) # <<>>
        BY <2>2, <3>1, <4>1, LastStep
      <4>3. p.flow # "idle"
        BY <2>2, <4>1, <4>2 DEF Advances, Went, Same
      <4> QED  BY <1>8, <3>1, <4>3, AddGoesOn DEF Adding
    <3>2. CASE Makes(m) /\ n = o.name /\ o.flow # "add"
      <4>1. passwd'[n].by = o.flow
        BY <3>2 DEF Makes, NewAccount, Typed, TypeOK
      <4> QED  BY <3>2, <4>1 DEF AddGood
    <3>3. CASE Keeps(n)
      <4>1. SUFFICES ASSUME passwd'[n] # None, passwd'[n].by = "add"
                     PROVE passwd'[n].pw /\ rows'[n] # None
        BY DEF AddGood
      <4>2. passwd[n] # None /\ passwd[n].pw /\ passwd'[n].pw /\ rows[n] # None
        BY <2>9, <3>3, <4>1 DEF Keeps, AddGood
      <4>3. s = "rename" /\ o.flow \in Deleting => n # o.name
        BY <2>2, <4>2 DEF InStep, GoneAt
      <4> QED  BY <2>6, <4>2, <4>3
    <3> QED  BY <2>4, <3>1, <3>2, <3>3
  <2>10. ASSUME NEW n \in Names PROVE AddGood(n) \/ (Adding(o) /\ o.name = n)
    BY <1>2, <1>3, <2>1
  <2> QED  BY <2>1, <2>7, <2>8, <2>9, <2>10 DEF Busy
<1>9. CASE Happens
  <2>1. ASSUME NEW j \in jobs, TrialEnds(j) \/ TrialLineDropped(j)
        PROVE  /\ \A k \in Operators : Busy(k)' => AddStep(op[k])'
               /\ \A n \in Names : AddGood(n)'
    <3>1. /\ events' = events /\ (\A k \in Operators : ~Busy(k) /\ ~Busy(k)')
          /\ (\A n \in Names : passwd'[n] \in {passwd[n], None}) /\ rows' = rows
      BY <1>1, <2>1, TrialAlone
    <3>2. \A n \in Names : AddGood(n)
      BY <1>2, <1>3, <3>1
    <3> QED  BY <3>1, <3>2 DEF AddGood
  <2>2. ASSUME UNCHANGED <<op, events, passwd, rows>>
        PROVE  /\ \A k \in Operators : Busy(k)' => AddStep(op[k])'
               /\ \A n \in Names : AddGood(n)' \/ \E k \in Operators : Adding(op'[k])
                    /\ op'[k].name = n
    BY <1>2, <2>2 DEF Busy, AddStep, AddGood, Adding
  <2>3. ASSUME NEW n \in Names, Login(n) PROVE UNCHANGED <<op, events, passwd, rows>>
    BY <2>3 DEF Login
  <2>4. Midnight => UNCHANGED <<op, events, passwd, rows>>
    BY DEF Midnight
  <2>5. ~Damage
    BY <1>1 DEF Damage, Note
  <2> QED  BY <1>9, <2>1, <2>2, <2>3, <2>4, <2>5 DEF Happens
<1>10. CASE UNCHANGED vars
  BY <1>2, <1>10 DEF vars, Busy, AddStep, AddGood, Adding
<1> QED  BY <1>5, <1>6, <1>7, <1>8, <1>9, <1>10, NextCases

-----------------------------------------------------------------------------
(* The limit that was told.                                                 *)

\* No limit has been told at the start.
LEMMA LimitInit == Init => LimitOK
<1> SUFFICES ASSUME Init PROVE LimitOK
  OBVIOUS
<1>1. told = v1 /\ v1 \in Lines /\ rows = NoneOf /\ rows # Broken
  <2>1. v1 \in Lines
    BY InitOK DEF Typed, TypeOK
  <2>2. NoneOf \in Tables
    BY DEF NoneOf, Tables
  <2> QED  BY <2>1, <2>2, NoneApart DEF Init
<1>2. ASSUME NEW n \in Names PROVE Told(n)
  <2>1. rows[n] = None
    BY <1>1 DEF NoneOf
  <2> QED  BY <1>1, <2>1 DEF Told, Enforced, RowLimit, LineLimit
<1> QED  BY <1>2, RestingOK DEF Init, LimitOK, Busy

\* The guard's answer for a name after a step, from the row and the line it leaves.
LEMMA EnforcedAfter ==
  ASSUME NEW n \in Names, rows' # Broken
  PROVE  /\ rows'[n] = None => RowLimit(n)' = 0
         /\ rows'[n] # None => RowLimit(n)' = rows'[n].limit
         /\ RowLimit(n)' > 0 => Enforced(n)' = RowLimit(n)'
         /\ ~(RowLimit(n)' > 0) /\ v1'[n] = None => Enforced(n)' = 0
         /\ ~(RowLimit(n)' > 0) /\ v1'[n] # None => Enforced(n)' = v1'[n]
         /\ RowLimit(n)' = RowLimit(n) /\ v1'[n] = v1[n] => Enforced(n)' = Enforced(n)
         /\ rows # Broken /\ rows'[n] = rows[n] => RowLimit(n)' = RowLimit(n)
<1>1. RowLimit(n)' = IF rows'[n] = None THEN 0 ELSE rows'[n].limit
  BY DEF RowLimit
<1>2. Enforced(n)' = IF RowLimit(n)' > 0 THEN RowLimit(n)' ELSE IF v1'[n] = None THEN 0 ELSE v1'[n]
  BY DEF Enforced, LineLimit
<1>3. Enforced(n) = IF RowLimit(n) > 0 THEN RowLimit(n) ELSE IF v1[n] = None THEN 0 ELSE v1[n]
  BY DEF Enforced, LineLimit
<1>4. rows # Broken => RowLimit(n) = IF rows[n] = None THEN 0 ELSE rows[n].limit
  BY DEF RowLimit
<1> QED  BY <1>1, <1>2, <1>3, <1>4

\* What m's step does to the limits, as long as nothing is lost and nobody else
\* is at work.
Undisturbed(m) ==
  /\ Works(m) /\ "v1Fault" \notin events'
  /\ rows # Broken /\ rows' # Broken
  /\ InStep(op[m]) /\ LimitStep(op[m])

\* Undisturbed, a step writes the row and the line of its own name alone, and tells
\* a limit only as the last step of its flow.
LEMMA LimitsMove ==
  ASSUME Typed, NEW m \in Operators, Undisturbed(m)
  PROVE  LET o == op[m]  s == Head(op[m].todo) IN
         /\ o \in Ops /\ Fits(o) /\ o.flow # "idle" /\ o.flow \in Working /\ o.name \in Names
         /\ o.limit \in Nat /\ o.limit # None
         /\ \/ rows' = rows
            \/ /\ s = "rename" /\ Advances(m) /\ rows' = tmp
                    /\ (\A a \in Names \ {o.name} : rows'[a] = rows[a])
               /\ o.flow \in Deleting <=> rows'[o.name] = None
               /\ o.flow \in Creating \cup {"limit"} => rows'[o.name].limit = o.limit
               /\ o.flow = "expiry" => rows'[o.name].limit = RowLimit(o.name)
         /\ \/ v1' = v1 /\ s # "writeV1"
            \/ /\ s = "writeV1" /\ Advances(m) /\ v1'[o.name] = NewLine(o)
               /\ \A a \in Names \ {o.name} : v1'[a] = v1[a]
         /\ \A a \in Names \ {o.name} : told'[a] = told[a]
         /\ \/ told'[o.name] = told[o.name]
            \/ told'[o.name] = None
            \/ told'[o.name] = o.limit /\ Advances(m)
                 /\ <<o.flow, s>> \in {<<"add", "rename">>, <<"limit", "writeV1">>,
                      <<"trial", "at">>}
            \/ told'[o.name] = o.limit /\ <<o.flow, s>> = <<"create", "cert">> /\ Advances(m)
<1> DEFINE o == op[m]
           s == Head(op[m].todo)
<1>1. /\ Works(m) /\ "v1Fault" \notin events' /\ rows # Broken /\ rows' # Broken
      /\ InStep(o) /\ Busy(m) /\ s # "next"
  BY WorksDoes DEF Undisturbed
<1>2. o \in Ops /\ Fits(o) /\ o.flow # "idle" /\ o.flow \in Working /\ o.name \in Names
  BY <1>1, WorkingFlow DEF Typed, TypeOK, FitsAll, Busy, Fits
<1>3. o.limit \in Nat /\ o.limit # None
  <2>1. o.limit \in 0..MaxLimit
    BY <1>2 DEF Ops
  <2> QED  BY <2>1, ParametersOK
<1>4. s = "rename" => RenameTmp(m) /\ Written(o)
  BY <1>1, WhichStep DEF InStep
<1>5. \/ rows' = rows
      \/ /\ s = "rename" /\ Advances(m) /\ rows' = tmp
              /\ (\A a \in Names \ {o.name} : rows'[a] = rows[a])
         /\ o.flow \in Deleting <=> rows'[o.name] = None
         /\ o.flow \in Creating \cup {"limit"} => rows'[o.name].limit = o.limit
         /\ o.flow = "expiry" => rows'[o.name].limit = RowLimit(o.name)
  BY <1>1, <1>4, WorksKeeps, RenameTmpDoes DEF Written
<1>6. \/ v1' = v1 /\ s # "writeV1"
      \/ /\ s = "writeV1" /\ Advances(m) /\ v1'[o.name] = NewLine(o)
         /\ \A a \in Names \ {o.name} : v1'[a] = v1[a]
  <2>1. CASE s = "writeV1"
    <3>1. WriteV1(m) /\ o.lines = v1
      BY <1>1, <2>1, WhichStep DEF InStep
    <3>2. Advances(m) /\ v1' = [v1 EXCEPT ![o.name] = NewLine(o)]
      BY <1>1, <3>1, WriteV1Does
    <3> QED  BY <1>2, <2>1, <3>2 DEF Typed, TypeOK, Lines
  <2>2. CASE s # "writeV1"
    BY <1>1, <2>2, WorksKeeps
  <2> QED  BY <2>1, <2>2
<1>7. told \in [Names -> Limits \cup {None}]
  BY DEF Typed, TypeOK, Lines
<1>8. /\ \A a \in Names \ {o.name} : told'[a] = told[a]
      /\ \/ told'[o.name] = told[o.name]
         \/ told'[o.name] = None
         \/ told'[o.name] = o.limit /\ Advances(m)
              /\ <<o.flow, s>> \in {<<"add", "rename">>, <<"limit", "writeV1">>, <<"trial", "at">>}
         \/ told'[o.name] = o.limit /\ <<o.flow, s>> = <<"create", "cert">> /\ Advances(m)
  <2>1. CASE s = "useradd"
    <3>1. CreateSystemUser(m)
      BY <1>1, <2>1, WhichStep
    <3>2. told' \in {told, [told EXCEPT ![o.name] = None]}
      BY <3>1, CreateSystemUserDoes
    <3> QED  BY <1>2, <1>7, <3>2
  <2>2. CASE s = "cert"
    <3>1. Certify(m)
      BY <1>1, <2>2, WhichStep
    <3>2. told' = told \/ (o.flow = "create" /\ Advances(m)
            /\ told' = [told EXCEPT ![o.name] = o.limit])
      BY <3>1, CertifyDoes
    <3> QED  BY <1>2, <1>7, <2>2, <3>2
  <2>3. CASE s = "rename"
    <3>1. told' = told \/ (o.flow = "add" /\ Advances(m)
            /\ told' = [told EXCEPT ![o.name] = o.limit])
      BY <1>4, <2>3, RenameTmpDoes
    <3> QED  BY <1>2, <1>7, <2>3, <3>1
  <2>4. CASE s = "writeV1"
    <3>1. WriteV1(m)
      BY <1>1, <2>4, WhichStep
    <3>2. \/ told' \in {told, [told EXCEPT ![o.name] = None]}
          \/ o.flow = "limit" /\ Advances(m) /\ told' = [told EXCEPT ![o.name] = o.limit]
      BY <3>1, WriteV1Does
    <3> QED  BY <1>2, <1>7, <2>4, <3>2
  <2>5. CASE s = "at"
    <3>1. ScheduleTrialEnd(m)
      BY <1>1, <2>5, WhichStep
    <3>2. Advances(m) /\ told' = [told EXCEPT ![o.name] = o.limit]
      BY <3>1, ScheduleTrialEndDoes
    <3>3. o.flow = "trial"
      BY <1>2, <2>5, HeadFlows
    <3> QED  BY <1>2, <1>7, <2>5, <3>2, <3>3
  <2>6. CASE s \notin {"useradd", "cert", "rename", "writeV1", "at"}
    BY <1>1, <2>6, WorksKeeps
  <2> QED  BY <2>1, <2>2, <2>3, <2>4, <2>5, <2>6
<1> QED  BY <1>2, <1>3, <1>5, <1>6, <1>8

\* How a creation, or a change of the limit, goes on.
LEMMA LimitGoesOn ==
  ASSUME Typed, NEW m \in Operators, Works(m), op'[m].flow # "idle",
         op[m].flow \in Creating \cup {"limit"}
  PROVE  LET o == op[m]  p == op'[m]  s == Head(op[m].todo) IN
         /\ p.flow = o.flow /\ p.name = o.name /\ p.limit = o.limit /\ o.left = {}
         /\ Advances(m) => Follows(o.flow, s, Head(p.todo))
         /\ \/ Advances(m)
            \/ /\ Stops(m) /\ o.flow # "limit" /\ s # "useradd"
               /\ \/ Head(p.todo) = "rollback"
                  \/ o.flow = "create" /\ Head(p.todo) = "readV1" /\ s \in {"write", "rename"}
<1> DEFINE o == op[m]
           p == op'[m]
           s == Head(op[m].todo)
<1>1. o \in Ops /\ Fits(o) /\ o.flow # "idle" /\ Same(o, p)
  BY MovedOn
<1>2. o.left = {} /\ o.flow \notin Looping
  BY <1>1 DEF Fits, Looping, Creating
<1>3. Advances(m) => Follows(o.flow, s, Head(p.todo))
  BY <1>1, <1>2, RestingOK DEF Advances, Went, Ops
<1>4. \/ Advances(m)
      \/ /\ Stops(m) /\ o.flow # "limit" /\ s # "useradd"
         /\ \/ Head(p.todo) = "rollback"
            \/ o.flow = "create" /\ Head(p.todo) = "readV1" /\ s \in {"write", "rename"}
  BY <1>2, MovedOn DEF Looping, Creating
<1> QED  BY <1>1, <1>2, <1>3, <1>4 DEF Same

\* A creation, or a change of the limit, keeps what it needs to tell the truth.
LEMMA LimitStepNext ==
  ASSUME Typed, NEW m \in Operators, Undisturbed(m), op'[m].flow # "idle", NEW n \in Names,
         n = op[m].name
  PROVE  LimitStep(op[m])'
<1> DEFINE o == op[m]
           p == op'[m]
           s == Head(op[m].todo)
           h == Head(op'[m].todo)
<1>1. /\ Works(m) /\ "v1Fault" \notin events' /\ rows # Broken /\ rows' # Broken
      /\ InStep(o) /\ LimitStep(o)
  BY DEF Undisturbed
<1>2. /\ o \in Ops /\ Fits(o) /\ o.flow # "idle" /\ o.flow \in Working
      /\ o.limit \in Nat /\ o.limit # None
  BY LimitsMove
<1>3. p.flow = o.flow /\ p.name = n /\ p.limit = o.limit
  BY <1>1, MovedOn DEF Same
<1>4. SUFFICES ASSUME o.flow \in Creating \cup {"limit"} PROVE LimitStep(op[m])'
  BY <1>3 DEF LimitStep
<1>5. /\ Advances(m) => Follows(o.flow, s, h)
      /\ \/ Advances(m)
         \/ /\ Stops(m) /\ o.flow # "limit" /\ s # "useradd"
            /\ \/ h = "rollback"
               \/ o.flow = "create" /\ h = "readV1" /\ s \in {"write", "rename"}
  BY <1>1, <1>4, LimitGoesOn
\* The row and the line that the step leaves.
<1>6. \/ rows' = rows
      \/ /\ s = "rename" /\ Advances(m)
         /\ rows'[n] # None /\ rows'[n].limit = o.limit
  <2>1. o.flow \notin Deleting
    BY <1>4 DEF Creating, Deleting
  <2> QED  BY <1>4, <2>1, LimitsMove
<1>7. \/ v1' = v1 /\ s # "writeV1"
      \/ s = "writeV1" /\ Advances(m) /\ v1'[n] = o.limit
  <2>1. o.flow \notin Deleting
    BY <1>4 DEF Creating, Deleting
  <2> QED  BY <2>1, LimitsMove DEF NewLine
<1>8. /\ rows'[n] = None => RowLimit(n)' = 0
      /\ rows'[n] # None => RowLimit(n)' = rows'[n].limit
      /\ rows' = rows => RowLimit(n)' = RowLimit(n)
  BY <1>1, EnforcedAfter
<1>9. ASSUME o.flow = "limit", h \in {"readV1", "writeV1"} PROVE RowLimit(n)' = o.limit
  <2>1. Follows("limit", s, h) /\ Advances(m)
    BY <1>5, <1>9
  <2>2. CASE h = "readV1"
    <3>1. s = "rename"
      BY <1>4, <1>9, <2>1, <2>2, LimitOrder
    <3>2. RenameTmp(m) /\ Written(o)
      BY <1>1, <3>1, WhichStep DEF InStep
    <3>3. ~Stops(m)
      BY <1>2, <1>3, <1>9, <2>2, RestingOK DEF Stops, Stopped, Fits, Looping, Creating
    <3>4. rows' = tmp
      BY <3>2, <3>3, RenameTmpDoes
    <3>5. tmp[n] # None /\ tmp[n].limit = o.limit
      BY <1>9, <3>2 DEF Written, Deleting
    <3> QED  BY <1>8, <3>4, <3>5
  <2>3. CASE h = "writeV1"
    <3>1. s = "readV1"
      BY <1>4, <1>9, <2>1, <2>3, LimitOrder
    <3>2. RowLimit(n) = o.limit
      BY <1>1, <1>9, <3>1 DEF LimitStep
    <3> QED  BY <1>6, <1>8, <3>1, <3>2
  <2> QED  BY <1>9, <2>2, <2>3
<1>10. ASSUME o.flow \in Creating, h # "useradd", passwd'[n] # None, passwd'[n].fresh
       PROVE  /\ told'[n] = None
              /\ Unwritten(p) => rows'[n] = None
              /\ o.flow = "add" => v1'[n] = None
              /\ o.flow = "create" /\ h \in {"readV1", "writeV1"} => RowLimit(n)' \in {0, o.limit}
              /\ o.flow = "trial" /\ h \in {"readV1", "writeV1"} => RowLimit(n)' = 0
              /\ o.flow \in {"create", "trial"} /\ h \in {"cert", "at"} => Enforced(n)' = o.limit
  <2>1. CASE s = "useradd"
    <3>1. Advances(m) /\ h = "chpasswd"
      BY <1>4, <1>5, <1>10, <2>1, LimitOrder
    <3>2. ~Stops(m)
      BY <1>2, <1>3, <1>4, <1>10, <2>1, <3>1, RestingOK DEF Stops, Stopped, Fits, Looping, Creating
    <3>3. CreateSystemUser(m)
      BY <1>1, <2>1, WhichStep
    <3>4. passwd' = [passwd EXCEPT ![n] = NewAccount(o)] /\ told' = [told EXCEPT ![n] = None]
      BY <3>2, <3>3, CreateSystemUserDoes
    <3>5. passwd'[n] = NewAccount(o) /\ told'[n] = None
      BY <3>4 DEF Typed, TypeOK, Lines
    <3>6. rows[n] = None /\ v1[n] = None
      <4>1. NewAccount(o).fresh = (rows # Broken /\ rows[o.name] = None /\ v1[o.name] = None)
        BY DEF NewAccount
      <4> QED  BY <1>10, <3>5, <4>1
    <3> QED  BY <1>6, <1>7, <2>1, <3>1, <3>5, <3>6
  <2>2. CASE s # "useradd"
    <3>1. Keeps(n) /\ passwd[n] # None /\ passwd[n].fresh
      <4>1. Keeps(n)
        BY <1>1, <1>2, <2>2, WorksDoes DEF Makes, At
      <4> QED  BY <1>10, <4>1 DEF Keeps
    <3>2. /\ told[n] = None
          /\ Unwritten(o) => rows[n] = None
          /\ o.flow = "add" => v1[n] = None
          /\ o.flow = "create" /\ s \in {"readV1", "writeV1"} => RowLimit(n) \in {0, o.limit}
          /\ o.flow = "trial" /\ s \in {"readV1", "writeV1"} => RowLimit(n) = 0
      BY <1>1, <1>10, <2>2, <3>1 DEF LimitStep
    <3>3. /\ Advances(m) => s # "at" /\ ~(o.flow = "create" /\ s = "cert")
               /\ ~(o.flow = "add" /\ s = "rename")
      BY <1>4, <1>5, LimitOrder
    <3>4. told'[n] = None
      <4>1. \/ told'[n] = told[n]
            \/ told'[n] = None
            \/ Advances(m) /\ <<o.flow, s>> \in {<<"add", "rename">>, <<"limit", "writeV1">>,
                 <<"trial", "at">>}
            \/ <<o.flow, s>> = <<"create", "cert">> /\ Advances(m)
        BY LimitsMove
      <4>2. o.flow # "limit"
        BY <1>10 DEF Creating
      <4> QED  BY <3>2, <3>3, <4>1, <4>2
    <3>5. ASSUME Unwritten(p) PROVE rows'[n] = None
      <4>1. Advances(m) /\ Follows(o.flow, s, h)
        BY <1>5, <3>5 DEF Unwritten
      <4>2. h \in {"chpasswd", "load", "write", "rename"} \/ (o.flow = "add" /\ h = "cert")
        BY <1>3, <3>5 DEF Unwritten
      <4>3. s \in {"chpasswd", "load", "write"} \/ (o.flow = "add" /\ s = "cert")
        <5>1. CASE h = "chpasswd"
          BY <1>4, <1>10, <2>2, <4>1, <5>1, LimitOrder
        <5>2. CASE h \in {"load", "write", "rename"}
          <6>1. s \in {"chpasswd", "cert", "load", "write"} /\ (o.flow = "create" => s # "cert")
            BY <1>4, <4>1, <5>2, LimitOrder
          <6>2. s = "cert" => o.flow \in {"add", "create"}
            BY <1>2, HeadFlows
          <6> QED  BY <6>1, <6>2
        <5>3. CASE o.flow = "add" /\ h = "cert"
          BY <1>4, <4>1, <5>3, LimitOrder
        <5> QED  BY <4>2, <5>1, <5>2, <5>3
      <4>4. rows[n] = None
        BY <3>2, <4>3 DEF Unwritten
      <4> QED  BY <1>6, <4>3, <4>4
    <3>6. ASSUME o.flow = "add" PROVE v1'[n] = None
      <4>1. s # "writeV1"
        BY <1>2, <3>6, HeadFlows
      <4> QED  BY <1>7, <3>2, <3>6, <4>1
    <3>7. ASSUME o.flow = "create", h = "readV1" PROVE RowLimit(n)' \in {0, o.limit}
      <4>1. s \in {"write", "rename"}
        BY <1>4, <1>5, <3>7, LimitOrder
      <4>2. rows[n] = None
        BY <3>2, <4>1 DEF Unwritten
      <4> QED  BY <1>6, <1>8, <4>2
    <3>8. ASSUME o.flow = "trial", h = "readV1" PROVE RowLimit(n)' = 0
      <4>1. s = "chpasswd"
        BY <1>4, <1>5, <3>8, LimitOrder
      <4>2. rows[n] = None
        BY <3>2, <4>1 DEF Unwritten
      <4> QED  BY <1>6, <1>8, <4>1, <4>2
    <3>9. ASSUME o.flow \in {"create", "trial"}, h = "writeV1"
          PROVE  s = "readV1" /\ RowLimit(n)' = RowLimit(n)
      <4>1. s = "readV1"
        BY <1>4, <1>5, <3>9, LimitOrder
      <4> QED  BY <1>6, <1>8, <4>1
    <3>10. ASSUME o.flow \in {"create", "trial"}, h \in {"cert", "at"} PROVE Enforced(n)' = o.limit
      <4>1. s = "writeV1"
        BY <1>4, <1>5, <3>10, LimitOrder
      <4>2. v1'[n] = o.limit /\ RowLimit(n)' = RowLimit(n)
        BY <1>6, <1>7, <1>8, <4>1
      <4>3. RowLimit(n)' \in {0, o.limit} /\ o.limit > 0
        BY <1>2, <3>2, <3>10, <4>1, <4>2 DEF Fits
      <4>4. /\ RowLimit(n)' > 0 => Enforced(n)' = RowLimit(n)'
            /\ ~(RowLimit(n)' > 0) /\ v1'[n] # None => Enforced(n)' = v1'[n]
        BY <1>1, EnforcedAfter
      <4>5. CASE RowLimit(n)' = 0
        <5>1. ~(RowLimit(n)' > 0)
          BY <4>5
        <5> QED  BY <1>2, <4>2, <4>4, <5>1
      <4>6. CASE RowLimit(n)' = o.limit
        <5>1. RowLimit(n)' > 0
          BY <4>3, <4>6
        <5> QED  BY <4>4, <4>6, <5>1
      <4> QED  BY <4>3, <4>5, <4>6
    <3> QED  BY <3>2, <3>4, <3>5, <3>6, <3>7, <3>8, <3>9, <3>10
  <2> QED  BY <2>1, <2>2
<1> QED  BY <1>3, <1>9, <1>10 DEF LimitStep

\* The operator's step leaves every account with the limit that was told.
LEMMA ToldNext ==
  ASSUME Typed, NEW m \in Operators, Undisturbed(m), NEW n \in Names, Told(n) \/ HalfSet(op[m], n)
  PROVE  Told(n)' \/ HalfSet(op'[m], n)
<1> DEFINE o == op[m]
           p == op'[m]
           s == Head(op[m].todo)
           h == Head(op'[m].todo)
<1>1. /\ Works(m) /\ "v1Fault" \notin events' /\ rows # Broken /\ rows' # Broken
      /\ InStep(o) /\ LimitStep(o)
  BY DEF Undisturbed
<1>2. /\ o \in Ops /\ Fits(o) /\ o.flow # "idle" /\ o.flow \in Working
      /\ o.limit \in Nat /\ o.limit # None /\ o.name \in Names
  BY LimitsMove
<1>3. /\ rows'[n] = None => RowLimit(n)' = 0
      /\ rows'[n] # None => RowLimit(n)' = rows'[n].limit
      /\ RowLimit(n)' > 0 => Enforced(n)' = RowLimit(n)'
      /\ ~(RowLimit(n)' > 0) /\ v1'[n] = None => Enforced(n)' = 0
      /\ RowLimit(n)' = RowLimit(n) /\ v1'[n] = v1[n] => Enforced(n)' = Enforced(n)
      /\ rows'[n] = rows[n] => RowLimit(n)' = RowLimit(n)
  BY <1>1, EnforcedAfter
\* A step that leaves the name's row, line and limit told as they are.
<1>4. ASSUME rows'[n] = rows[n], v1'[n] = v1[n], told'[n] = told[n], Keeps(n), Told(n)
      PROVE Told(n)'
  BY <1>3, <1>4 DEF Told, Keeps
<1>5. CASE n # o.name
  <2>1. rows'[n] = rows[n] /\ v1'[n] = v1[n] /\ told'[n] = told[n]
    BY <1>5, LimitsMove
  <2>2. Keeps(n)
    BY <1>1, <1>5, WorksDoes
  <2> QED  BY <1>4, <1>5, <2>1, <2>2 DEF HalfSet
<1>6. CASE n = o.name
  <2>1. s # "useradd" => Keeps(n)
    BY <1>1, <1>2, <1>6, WorksDoes DEF Makes, At
  <2>2. ASSUME o.flow \in Creating, s # "useradd", passwd[n] # None, passwd[n].fresh
        PROVE  /\ told[n] = None
               /\ o.flow = "add" => v1[n] = None
               /\ o.flow \in {"create", "trial"} /\ s \in {"cert", "at"} => Enforced(n) = o.limit
    BY <1>1, <1>6, <2>2 DEF LimitStep
  <2>3. CASE s = "useradd"
    <3>1. CreateSystemUser(m)
      BY <1>1, <2>3, WhichStep
    <3>2. CASE told' = [told EXCEPT ![n] = None]
      BY <3>2 DEF Told, Typed, TypeOK, Lines
    <3>3. CASE UNCHANGED <<passwd, told>>
      <4>1. rows' = rows /\ v1' = v1
        BY <1>1, <2>3, WorksKeeps
      <4>2. Keeps(n)
        BY <3>3 DEF Keeps
      <4> QED  BY <1>4, <2>3, <3>3, <4>1, <4>2 DEF HalfSet
    <3> QED  BY <1>6, <3>1, <3>2, <3>3, CreateSystemUserDoes
  <2>4. CASE s \notin {"useradd", "cert", "rename", "readV1", "writeV1", "at"}
    <3>1. rows' = rows /\ v1' = v1 /\ told' = told
      BY <1>1, <2>4, WorksKeeps
    <3> QED  BY <1>4, <2>1, <2>4, <3>1 DEF HalfSet
  <2>5. CASE s \in {"cert", "at"}
    <3>1. rows' = rows /\ v1' = v1 /\ passwd' = passwd
      BY <1>1, <2>5, WorksKeeps
    <3>2. \/ told'[n] = told[n]
          \/ told'[n] = None
          \/ told'[n] = o.limit /\ o.flow \in {"create", "trial"}
      <4>1. s \notin {"rename", "writeV1"}
        BY <2>5
      <4> QED  BY <1>6, <4>1, LimitsMove
    <3>3. CASE told'[n] = told[n]
      BY <1>4, <2>1, <2>5, <3>1, <3>3 DEF HalfSet
    <3>4. CASE told'[n] = None
      BY <3>4 DEF Told
    <3>5. CASE told'[n] = o.limit /\ o.flow \in {"create", "trial"}
      <4>1. ASSUME passwd'[n] # None, passwd'[n].fresh PROVE Enforced(n)' = o.limit
        BY <1>3, <2>2, <2>5, <3>1, <3>5, <4>1 DEF Creating
      <4> QED  BY <3>5, <4>1 DEF Told
    <3> QED  BY <3>2, <3>3, <3>4, <3>5
  <2>6. CASE s = "readV1"
    <3>1. rows' = rows /\ v1' = v1 /\ told' = told
      BY <1>1, <2>6, WorksKeeps
    <3>2. CASE HalfSet(o, n)
      <4>1. Advances(m)
        BY <1>1, <2>6, ReadV1Does, WhichStep
      <4>2. o.flow = "limit" /\ Tail(o.todo) # <<>>
        BY <1>2, <2>6, <3>2, LastStep DEF HalfSet
      <4>3. p.flow # "idle"
        BY <1>2, <4>1, <4>2 DEF Advances, Went, Same
      <4>4. p.flow = "limit" /\ p.name = o.name /\ Follows("limit", "readV1", h)
        BY <1>1, <2>6, <4>1, <4>2, <4>3, LimitGoesOn
      <4>5. h = "writeV1"
        BY <4>4, LimitOrder
      <4> QED  BY <1>6, <4>4, <4>5 DEF HalfSet
    <3> QED  BY <1>4, <2>1, <2>6, <3>1, <3>2
  <2>7. CASE s = "writeV1"
    <3>1. rows' = rows /\ passwd' = passwd /\ WriteV1(m)
      BY <1>1, <2>7, WorksKeeps, WhichStep
    <3>2. o.flow \in {"create", "trial", "limit", "remove", "removeAll", "clean"}
      BY <1>2, <2>7, HeadFlows
    <3>3. told' = CASE o.flow = "limit" -> [told EXCEPT ![o.name] = o.limit]
                    [] o.flow = "removeAll" -> [told EXCEPT ![o.name] = None]
                    [] OTHER -> told
      BY <3>1, WriteV1Does
    <3>4. CASE o.flow = "limit"
      <4>1. told'[n] = o.limit
        BY <1>6, <3>3, <3>4 DEF Typed, TypeOK, Lines
      <4>2. RowLimit(n)' = o.limit /\ o.limit > 0
        BY <1>1, <1>2, <1>3, <1>6, <2>7, <3>1, <3>4 DEF LimitStep, Fits
      <4> QED  BY <1>3, <4>1, <4>2 DEF Told
    <3>5. CASE o.flow = "removeAll"
      <4>1. told'[n] = None
        BY <1>6, <3>3, <3>5 DEF Typed, TypeOK, Lines
      <4> QED  BY <4>1 DEF Told
    <3>6. CASE o.flow \in {"remove", "clean"}
      <4>1. passwd'[n] = None
        BY <1>1, <1>6, <2>7, <3>1, <3>6 DEF InStep, GoneAt, Deleting
      <4> QED  BY <4>1 DEF Told
    <3>7. CASE o.flow \in {"create", "trial"}
      <4>1. told' = told
        BY <3>3, <3>7
      <4> QED  BY <2>2, <2>7, <3>1, <3>7, <4>1 DEF Told, Creating
    <3> QED  BY <3>2, <3>4, <3>5, <3>6, <3>7
  <2>8. CASE s = "rename"
    <3>1. v1' = v1 /\ passwd' = passwd /\ RenameTmp(m) /\ Written(o)
      BY <1>1, <2>8, WorksKeeps, WhichStep DEF InStep
    <3>2. ~HalfSet(o, n) /\ Told(n)
      BY <2>8 DEF HalfSet
    <3>3. o.flow \in (Creating \ {"trial"}) \cup Deleting \cup Changing
      BY <1>2, <2>8, HeadFlows
    <3>4. CASE UNCHANGED <<rows, told>>
      BY <1>4, <2>1, <2>8, <3>1, <3>2, <3>4
    <3>5. CASE /\ Advances(m) /\ rows' = tmp
               /\ told' = IF o.flow = "add" THEN [told EXCEPT ![o.name] = o.limit] ELSE told
      <4>1. CASE o.flow = "add"
        <5>1. told'[n] = o.limit
          BY <1>6, <3>5, <4>1 DEF Typed, TypeOK, Lines
        <5>2. RowLimit(n)' = o.limit
          BY <1>3, <1>6, <3>1, <3>5, <4>1 DEF Written, Creating, Deleting
        <5>3. ASSUME passwd'[n] # None, passwd'[n].fresh PROVE Enforced(n)' = o.limit
          <6>1. v1'[n] = None
            BY <2>2, <2>8, <3>1, <4>1, <5>3 DEF Creating
          <6>2. CASE o.limit > 0
            BY <1>3, <5>2, <6>2
          <6>3. CASE o.limit = 0
            <7>1. ~(RowLimit(n)' > 0)
              BY <5>2, <6>3
            <7> QED  BY <1>3, <6>1, <6>3, <7>1
          <6> QED  BY <1>2, <6>2, <6>3
        <5> QED  BY <5>1, <5>3 DEF Told
      <4>2. CASE o.flow = "create"
        BY <2>2, <2>8, <3>1, <3>5, <4>2 DEF Told, Creating
      <4>3. CASE o.flow \in Deleting
        <5>1. passwd'[n] = None
          BY <1>1, <1>6, <2>8, <3>1, <4>3 DEF InStep, GoneAt
        <5> QED  BY <5>1 DEF Told
      <4>4. CASE o.flow = "expiry"
        <5>1. RowLimit(n)' = RowLimit(n)
          BY <1>3, <1>6, <3>1, <3>5, <4>4 DEF Written, Deleting
        <5>2. Enforced(n)' = Enforced(n) /\ told' = told
          BY <1>3, <3>1, <3>5, <4>4, <5>1
        <5> QED  BY <3>1, <3>2, <5>2 DEF Told
      <4>5. CASE o.flow = "limit"
        <5>1. Tail(o.todo) # <<>>
          BY <1>2, <2>8, <4>5, LastStep
        <5>2. p.flow # "idle"
          BY <1>2, <3>5, <5>1 DEF Advances, Went, Same
        <5>3. p.flow = "limit" /\ p.name = o.name /\ Follows("limit", "rename", h)
          BY <1>1, <2>8, <3>5, <4>5, <5>2, LimitGoesOn
        <5>4. h = "readV1"
          BY <5>3, LimitOrder
        <5> QED  BY <1>6, <5>3, <5>4 DEF HalfSet
      <4> QED  BY <3>3, <4>1, <4>2, <4>3, <4>4, <4>5 DEF Creating, Changing
    <3> QED  BY <3>1, <3>4, <3>5, RenameTmpDoes
  <2> QED  BY <2>3, <2>4, <2>5, <2>6, <2>7, <2>8
<1> QED  BY <1>5, <1>6

\* Every step keeps it.
LEMMA LimitNext ==
  ASSUME Typed, Alone, Sync, Sync', LimitOK, [Next]_vars
  PROVE  LimitOK'
<1> SUFFICES ASSUME events' \cap {"overlap", "crash", "v1Fault", "broken"} = {}
             PROVE  /\ \A m \in Operators : Busy(m)' => LimitStep(op[m])'
                    /\ \A n \in Names : Told(n)' \/ \E m \in Operators : HalfSet(op'[m], n)
  BY DEF LimitOK, HalfSet
<1>1. "overlap" \notin events' /\ "crash" \notin events' /\ "v1Fault" \notin events'
        /\ "broken" \notin events'
  OBVIOUS
<1>2. ASSUME events \subseteq events'
      PROVE  /\ \A m \in Operators : Busy(m) => LimitStep(op[m]) /\ InStep(op[m])
             /\ \A n \in Names : Told(n) \/ \E m \in Operators : HalfSet(op[m], n)
             /\ rows # Broken
  <2>1. events \cap {"overlap", "crash", "v1Fault", "broken"} = {}
          /\ events \cap {"overlap", "broken"} = {}
    BY <1>2
  <2> QED  BY <2>1 DEF LimitOK, Sync
<1>3. rows' # Broken
  BY <1>1 DEF Sync
<1>4. \A k \in Operators, n \in Names : HalfSet(op[k], n) => Busy(k)
  BY DEF Busy, HalfSet
\* A step that touches no limit.
<1>5. ASSUME NEW m \in Operators, events \subseteq events', \A k \in Operators \ {m} : ~Busy(k)
             /\ ~Busy(k)',
             op[m].flow # "limit", UNCHANGED <<passwd, rows, v1, told>>, Busy(m)'
                  => LimitStep(op[m])'
      PROVE  /\ \A k \in Operators : Busy(k)' => LimitStep(op[k])'
             /\ \A n \in Names : Told(n)'
  <2>1. \A n \in Names : ~HalfSet(op[m], n)
    BY <1>5 DEF HalfSet
  <2>2. \A n \in Names : Told(n)
    BY <1>2, <1>4, <1>5, <2>1
  <2> QED  BY <1>5, <2>2 DEF Told, Enforced, RowLimit, LineLimit
<1>6. ASSUME NEW m \in Operators, Begins(m)
      PROVE  /\ \A k \in Operators : Busy(k)' => LimitStep(op[k])'
             /\ \A n \in Names : Told(n)'
  <2>1. events \subseteq events' /\ \A k \in Operators \ {m} : ~Busy(k) /\ ~Busy(k)'
    BY <1>1, <1>6, Solo
  <2>2. ~Busy(m) /\ UNCHANGED <<passwd, rows, v1, told>> /\ (OneName(op'[m]) \/ AllNames(op'[m]))
    BY <1>6 DEF Begins
  <2>3. /\ op'[m].flow \in Creating => Head(op'[m].todo) = "useradd"
        /\ op'[m].flow = "limit" => Head(op'[m].todo) = "load"
    BY <2>2, FirstStep DEF OneName, AllNames, Looping, Creating
  <2>4. LimitStep(op[m])'
    BY <2>3 DEF LimitStep
  <2> QED  BY <1>5, <2>1, <2>2, <2>4 DEF Busy
<1>7. ASSUME NEW m \in Operators, NextName(m)
      PROVE  /\ \A k \in Operators : Busy(k)' => LimitStep(op[k])'
             /\ \A n \in Names : Told(n)'
  <2>1. events \subseteq events' /\ \A k \in Operators \ {m} : ~Busy(k) /\ ~Busy(k)'
    BY <1>1, <1>7, Solo
  <2>2. /\ op[m].flow \in Looping /\ UNCHANGED <<passwd, rows, v1, told>>
        /\ (\E n \in op[m].left : TakesUp(m, n)) /\ op[m].failed \in BOOLEAN
    BY <1>7, NextNameDoes DEF Typed, TypeOK, Ops
  <2>3. op'[m].flow \in Looping \/ op'[m].flow = "idle"
    BY <2>2, RestingOK DEF TakesUp
  <2>4. LimitStep(op[m])'
    BY <2>3 DEF LimitStep, Looping, Creating
  <2> QED  BY <1>5, <2>1, <2>2, <2>4 DEF Looping
<1>8. ASSUME NEW m \in Operators, Crash(m) PROVE FALSE
  BY <1>1, <1>8, CrashDoes
<1>9. ASSUME NEW m \in Operators, Works(m)
      PROVE  /\ \A k \in Operators : Busy(k)' => LimitStep(op[k])'
             /\ \A n \in Names : Told(n)' \/ \E k \in Operators : HalfSet(op'[k], n)
  <2>1. events \subseteq events' /\ (\A k \in Operators \ {m} : ~Busy(k) /\ ~Busy(k)') /\ Busy(m)
    BY <1>1, <1>9, Solo, WorksDoes DEF Begins
  <2>2. Undisturbed(m)
    BY <1>1, <1>2, <1>3, <1>9, <2>1 DEF Undisturbed
  <2>3. op[m].name \in Names
    BY <2>2, LimitsMove
  <2>4. Busy(m)' => LimitStep(op[m])'
    BY <2>2, <2>3, LimitStepNext DEF Busy
  <2>5. \A n \in Names : Told(n) \/ HalfSet(op[m], n)
    BY <1>2, <1>4, <2>1
  <2>6. \A n \in Names : Told(n)' \/ HalfSet(op'[m], n)
    BY <2>2, <2>5, ToldNext
  <2> QED  BY <2>1, <2>4, <2>6
<1>10. CASE Happens
  <2>1. ASSUME NEW j \in jobs, TrialEnds(j) \/ TrialLineDropped(j)
        PROVE  /\ \A k \in Operators : Busy(k)' => LimitStep(op[k])'
               /\ \A n \in Names : Told(n)'
    <3>1. /\ events' = events /\ (\A k \in Operators : ~Busy(k) /\ ~Busy(k)')
          /\ (\A n \in Names : passwd'[n] \in {passwd[n], None}) /\ UNCHANGED <<rows, told>>
          /\ passwd'[j.name] = None /\ \A n \in Names \ {j.name} : v1'[n] = v1[n]
      BY <1>1, <2>1, TrialAlone
    <3>2. \A n \in Names : Told(n)
      BY <1>2, <1>4, <3>1
    <3>3. ASSUME NEW n \in Names PROVE Told(n)'
      <4>1. n # j.name => Enforced(n)' = Enforced(n)
        BY <3>1 DEF Enforced, RowLimit, LineLimit
      <4> QED  BY <3>1, <3>2, <4>1 DEF Told
    <3> QED  BY <3>1, <3>3
  <2>2. ASSUME UNCHANGED <<op, events, passwd, rows, v1, told>>
        PROVE  /\ \A k \in Operators : Busy(k)' => LimitStep(op[k])'
               /\ \A n \in Names : Told(n)' \/ \E k \in Operators : HalfSet(op'[k], n)
    BY <1>2, <2>2 DEF Busy, LimitStep, Told, HalfSet, Enforced, RowLimit, LineLimit, Unwritten
  <2>3. ASSUME NEW n \in Names, Login(n) PROVE UNCHANGED <<op, events, passwd, rows, v1, told>>
    BY <2>3 DEF Login
  <2>4. Midnight => UNCHANGED <<op, events, passwd, rows, v1, told>>
    BY DEF Midnight
  <2>5. ~Damage
    BY <1>1 DEF Damage, Note
  <2> QED  BY <1>10, <2>1, <2>2, <2>3, <2>4, <2>5 DEF Happens
<1>11. CASE UNCHANGED vars
  BY <1>2, <1>11 DEF vars, Busy, LimitStep, Told, HalfSet, Enforced, RowLimit, LineLimit, Unwritten
<1> QED  BY <1>6, <1>7, <1>8, <1>9, <1>10, <1>11, NextCases

-----------------------------------------------------------------------------
(* The invariant, and what follows from it.                                 *)

\* The inductive invariant.
IInv == Robust /\ Alone /\ Sync /\ AddOK /\ LimitOK

\* IInv holds in every reachable state.
THEOREM Invariance == Spec => []IInv
<1>1. Init => IInv
  BY InitOK, NumbersInit, SessionsInit, CleanInit, AloneInit, SyncInit, AddInit, LimitInit
       DEF IInv, Robust
<1>2. IInv /\ [Next]_vars => IInv'
  BY NextTypes, NumbersNext, SessionsNext, CleanNext, AloneNext, SyncNext, AddNext, LimitNext
       DEF IInv, Robust
<1> QED  BY <1>1, <1>2, PTL DEF Spec

\* LimitAsTold: unless operations overlap, crash or meet a fault, the limit that the
\* login guard enforces is the one that the operator was last told.
THEOREM ToldTheTruth == Spec => []LimitAsTold
<1>1. IInv => LimitAsTold
  <2> SUFFICES ASSUME IInv, events \cap {"overlap", "crash", "v1Fault", "broken"} = {},
                      NEW n \in Present, Quiet(n), passwd[n].fresh, told[n] # None
               PROVE  Enforced(n) = told[n]
    BY DEF LimitAsTold
  <2>1. n \in Names /\ passwd[n] # None
    BY DEF Present
  <2>2. ASSUME NEW m \in Operators, HalfSet(op[m], n) PROVE FALSE
    BY <2>2 DEF HalfSet, Quiet, Busy
  <2>3. Told(n)
    BY <2>1, <2>2 DEF IInv, LimitOK
  <2> QED  BY <2>1, <2>3 DEF Told
<1> QED  BY <1>1, Invariance, PTL

\* AddIsAllOrNothing: `hexplus user add` leaves an account with a password and a
\* row, or none.
THEOREM AllOrNothing == Spec => []AddIsAllOrNothing
<1>1. IInv => AddIsAllOrNothing
  <2> SUFFICES ASSUME IInv, events \cap {"overlap", "crash", "rollbackFault", "broken"} = {},
                      NEW n \in Present, Quiet(n), passwd[n].by = "add"
               PROVE  passwd[n].pw /\ rows[n] # None
    BY DEF AddIsAllOrNothing
  <2>1. n \in Names /\ passwd[n] # None
    BY DEF Present
  <2>2. ASSUME NEW m \in Operators, Adding(op[m]), op[m].name = n PROVE FALSE
    BY <2>2 DEF Adding, Quiet, Busy
  <2>3. AddGood(n)
    BY <2>1, <2>2 DEF IInv, AddOK
  <2> QED  BY <2>1, <2>3 DEF AddGood
<1> QED  BY <1>1, Invariance, PTL

\* TypeOK: every variable has its type.
THEOREM TypeCorrect == Spec => []TypeOK
<1>1. IInv => TypeOK
  BY DEF IInv, Robust, Typed
<1> QED  BY <1>1, Invariance, PTL

\* ShownIsEnforced: the limit that the screens show is the one that is enforced.
THEOREM ScreensAgree == Spec => []ShownIsEnforced
<1>1. IInv => ShownIsEnforced
  BY ShownOfTypes DEF IInv, Robust
<1> QED  BY <1>1, Invariance, PTL

=============================================================================
