---------------------------- MODULE OvpnGuardProofs ----------------------------
(***************************************************************************)
(* What the guard guarantees for any number of instances, users, processes *)
(* and events.                                                             *)
(*                                                                         *)
(* An instance serves one management client at a time, and a pass keeps    *)
(* its connections until it has killed.  So two passes never hold the same *)
(* session (Apart), what is cut of a pass's sessions it has cut itself     *)
(* (Cuts), and of each account it leaves those that come first (Spared).   *)
(***************************************************************************)
EXTENDS OvpnGuard, FiniteSetTheorems, WellFoundedInduction, TLAPS

-----------------------------------------------------------------------------
(* The inductive invariant.                                                *)

\* Sessions are of the processes that run now.  A device that is there has
\* moved its counter in every tick since it connected, one that is gone has not.
Current ==
  /\ IsFiniteSet(sess)
  /\ \A s \in sess :
       /\ s.gen = life[s.inst].gen /\ s.cid < life[s.inst].next
       /\ s.since + s.rx <= Clock
       /\ s.alive => s.since + s.rx = Clock

\* What guard g read over a connection that still stands.
Held(g, r) == client[r.inst] = g /\ r.cid < life[r.inst].next

RowOK(g, r) ==
  /\ r.inst \notin pass[g].todo /\ r.gen = pass[g].conn[r.inst]
  /\ r.since + r.rx <= Clock
  /\ r.gen <= life[r.inst].gen
  /\ r.gen = life[r.inst].gen => Held(g, r)

ReadsOK(g) ==
  /\ IsFiniteSet(pass[g].seen)
  /\ \A r \in pass[g].seen : RowOK(g, r)
  /\ \A r, t \in pass[g].seen : Id(r) = Id(t) => r = t
  /\ pass[g].pc \in {"idle", "locking"} => pass[g].seen = {}
  /\ pass[g].pc # "killing" => pass[g].kills = {} /\ pass[g].stale = {}

Reads == \A g \in Guards : ReadsOK(g)

\* No two passes hold the same session.
Apart == \A g, h \in Guards : g # h => Ids(pass[g].seen) \cap Ids(pass[h].seen) = {}

Cuts ==
  /\ \A k \in cut : \E h \in Guards : k \in Ids(pass[h].seen)
  /\ \A g \in Guards : pass[g].pc = "opening" => Ids(pass[g].seen) \cap cut = {}

\* The sessions of u that pass g has neither ended nor is about to.
Left(g, u) == {s \in Of(pass[g].seen, u) : Id(s) \notin cut \cup pass[g].kills}

SparesOK(g) ==
  pass[g].pc = "killing" /\ pass[g].victim = Nobody =>
    \A u \in Users \ pass[g].refused :
      Cardinality(Left(g, u)) >= Allowed(u, Cardinality(Of(pass[g].seen, u)))

Spared == \A g \in Guards : SparesOK(g)

\* While the loop reads the clock stands still.
UpToDate ==
  pass[Loop].pc = "opening" =>
    \A r \in pass[Loop].seen, s \in sess : Id(r) = Id(s) => r.rx = s.rx /\ r.since = s.since

Calm == \A i \in Instances : life[i].gen = 0

\* A record was made when the counter had moved as far, or later.
Remembered ==
  Calm =>
    /\ \A a \in act :
         /\ a.key[2] < life[a.key[1]].next
         /\ \A s \in sess : a.key = <<s.inst, s.cid>> => s.since + a.rx <= a.changed
    /\ StaleIsDead

IInv == TypeOK /\ Current /\ Reads /\ Apart /\ Cuts /\ Spared /\ UpToDate /\ Remembered

-----------------------------------------------------------------------------
(* Counting.                                                               *)

\* A set of numbers has a least one.
LEMMA Least ==
  ASSUME NEW T \in SUBSET Nat, T # {}
  PROVE  \E n \in T : \A m \in T : n <= m
<1> DEFINE Less == OpToRel(<, Nat)
<1>1. IsWellFoundedOn(Less, Nat)
  BY NatLessThanWellFounded
<1>2. \A m, n \in Nat : m < n => <<m, n>> \in Less
  BY DEF OpToRel
<1> HIDE DEF Less
<1>3. PICK n \in T : \A m \in T : ~ (<<m, n>> \in Less)
  BY <1>1, WFMin
<1>4. \A m \in T : ~ (m < n)
  BY <1>2, <1>3
<1>5. QED
  BY <1>4

\* Those with fewer than n before them.
Firsts(S, n, R) == {x \in S : Cardinality({y \in S : <<y, x>> \in R}) < n}

\* Of a finite set in a strict order, the firsts are n, or all.
LEMMA FirstSuffice ==
  ASSUME NEW S, IsFiniteSet(S), NEW n \in Nat, NEW R,
         \A x \in S : <<x, x>> \notin R,
         \A x, y, z \in S : <<x, y>> \in R /\ <<y, z>> \in R => <<x, z>> \in R
  PROVE  Firsts(S, n, R) = S \/ n <= Cardinality(Firsts(S, n, R))
<1> DEFINE B(x) == {y \in S : <<y, x>> \in R}
           K == {x \in S : Cardinality(B(x)) < n}
           T == {Cardinality(B(x)) : x \in S \ K}
<1>1. \A x \in S : IsFiniteSet(B(x)) /\ Cardinality(B(x)) \in Nat
  BY FS_Subset, FS_CardinalityType
<1>2. IsFiniteSet(K) /\ Cardinality(K) \in Nat
  BY FS_Subset, FS_CardinalityType
<1> SUFFICES ASSUME S # K PROVE n <= Cardinality(K)
  BY DEF Firsts
<1>3. PICK m \in S \ K : \A x \in S \ K : Cardinality(B(m)) <= Cardinality(B(x))
  <2> HIDE DEF B, K
  <2>1. K \subseteq S
    BY DEF K
  <2>2. T \in SUBSET Nat /\ T # {}
    BY <1>1, <2>1
  <2>3. PICK l \in T : \A k \in T : l <= k
    <3> HIDE DEF T
    <3> QED
      BY <2>2, Least
  <2> QED
    BY <2>3
<1>4. B(m) \subseteq K
  <2>1. ASSUME NEW x \in B(m) PROVE Cardinality(B(x)) < Cardinality(B(m))
    <3>1. B(x) \subseteq B(m) /\ x \notin B(x)
      BY <2>1
    <3>2. x \in S /\ B(x) # B(m)
      BY <2>1, <3>1
    <3> HIDE DEF B
    <3>3. Cardinality(B(x)) <= Cardinality(B(m)) /\ Cardinality(B(x)) # Cardinality(B(m))
      BY <1>1, <3>1, <3>2, FS_Subset
    <3> QED
      BY <1>1, <3>2, <3>3
  <2>2. B(m) \subseteq S
    OBVIOUS
  <2> HIDE DEF B
  <2> QED
    BY <1>1, <1>3, <2>1, <2>2
<1> HIDE DEF B
<1>5. Cardinality(B(m)) <= Cardinality(K)
  BY <1>2, <1>4, FS_Subset
<1>6. ~ (Cardinality(B(m)) < n)
  BY <1>3
<1> QED
  BY <1>1, <1>2, <1>5, <1>6

-----------------------------------------------------------------------------
(* What the steps of a pass do to it.                                      *)

Others(g) == \A h \in Guards \ {g} : pass'[h] = pass[h]

PassTypes == pass \in [Guards -> Passes]

\* The fields that a step of g leaves alone.
KeepsPolicy(g) == pass'[g].refused = pass[g].refused /\ pass'[g].victim = pass[g].victim
KeepsReads(g) ==
  /\ pass'[g].todo = pass[g].todo /\ pass'[g].conn = pass[g].conn /\ pass'[g].seen = pass[g].seen
KeepsVerdict(g) == pass'[g].stale = pass[g].stale /\ pass'[g].kills = pass[g].kills

\* A step that sets the pass of g touches no other.
LEMMA Updated ==
  ASSUME TypeOK, NEW g \in Guards, NEW p \in Passes, pass' = [pass EXCEPT ![g] = p]
  PROVE  PassTypes' /\ Others(g) /\ pass'[g] = p
BY DEF TypeOK, PassTypes, Others

\* Beginning sets only the policy or the name to kick.
LEMMA BeginEffect ==
  ASSUME TypeOK, NEW g \in Guards, BeginPass(g) \/ \E u \in Users : BeginKick(g, u)
  PROVE  /\ PassTypes' /\ Others(g)
         /\ pass[g].pc = "idle" /\ pass'[g].pc = "locking"
         /\ KeepsReads(g) /\ KeepsVerdict(g)
<1>1. pass[g] \in Passes /\ refused \in SUBSET Users
  BY DEF TypeOK
<1>2. CASE BeginPass(g)
  <2> DEFINE p == [pass[g] EXCEPT !.pc = "locking", !.refused = refused]
  <2>1. p \in Passes
    BY <1>1 DEF Passes
  <2>2. pass' = [pass EXCEPT ![g] = p] /\ pass[g].pc = "idle"
    BY <1>2 DEF BeginPass
  <2>3. /\ p.pc = "locking" /\ p.todo = pass[g].todo /\ p.conn = pass[g].conn
        /\ p.seen = pass[g].seen /\ p.stale = pass[g].stale /\ p.kills = pass[g].kills
    BY <1>1 DEF Passes
  <2> HIDE DEF p
  <2> QED
    BY <2>1, <2>2, <2>3, Updated DEF KeepsReads, KeepsVerdict
<1>3. ASSUME NEW u \in Users, BeginKick(g, u)
      PROVE  /\ PassTypes' /\ Others(g)
             /\ pass[g].pc = "idle" /\ pass'[g].pc = "locking"
             /\ KeepsReads(g) /\ KeepsVerdict(g)
  <2> DEFINE p == [pass[g] EXCEPT !.pc = "locking", !.victim = u]
  <2>1. p \in Passes
    BY <1>1 DEF Passes
  <2>2. pass' = [pass EXCEPT ![g] = p] /\ pass[g].pc = "idle"
    BY <1>3 DEF BeginKick
  <2>3. /\ p.pc = "locking" /\ p.todo = pass[g].todo /\ p.conn = pass[g].conn
        /\ p.seen = pass[g].seen /\ p.stale = pass[g].stale /\ p.kills = pass[g].kills
    BY <1>1 DEF Passes
  <2> HIDE DEF p
  <2> QED
    BY <2>1, <2>2, <2>3, Updated DEF KeepsReads, KeepsVerdict
<1> QED
  BY <1>2, <1>3

\* With the lock or without it every instance is to be asked.
LEMMA LockEffect ==
  ASSUME TypeOK, NEW g \in Guards, Lock(g) \/ LockFails(g)
  PROVE  /\ PassTypes' /\ Others(g)
         /\ pass[g].pc = "locking" /\ pass'[g].pc = "opening" /\ pass'[g].todo = Instances
         /\ pass'[g].conn = pass[g].conn /\ pass'[g].seen = pass[g].seen
         /\ KeepsPolicy(g) /\ KeepsVerdict(g)
<1> DEFINE p == [pass[g] EXCEPT !.pc = "opening", !.todo = Instances]
<1>1. pass[g] \in Passes
  BY DEF TypeOK
<1>2. p \in Passes
  BY <1>1 DEF Passes
<1>3. pass' = [pass EXCEPT ![g] = p] /\ pass[g].pc = "locking"
  BY DEF Lock, LockFails, Opened
<1>4. /\ p.pc = "opening" /\ p.todo = Instances /\ p.conn = pass[g].conn /\ p.seen = pass[g].seen
      /\ p.refused = pass[g].refused /\ p.victim = pass[g].victim
      /\ p.stale = pass[g].stale /\ p.kills = pass[g].kills
  BY <1>1 DEF Passes
<1> HIDE DEF p
<1> QED
  BY <1>2, <1>3, <1>4, Updated DEF KeepsPolicy, KeepsVerdict

\* A connection adds the rows of its instance.
LEMMA OpenEffect ==
  ASSUME TypeOK, NEW g \in Guards, NEW i \in Instances, OpenInst(g, i)
  PROVE  /\ PassTypes' /\ Others(g)
         /\ pass[g].pc = "opening" /\ pass'[g].pc = "opening"
         /\ pass'[g].todo = pass[g].todo \ {i}
         /\ pass'[g].conn = [pass[g].conn EXCEPT ![i] = life[i].gen]
         /\ pass'[g].seen = pass[g].seen \cup StatusOf(i)
         /\ KeepsPolicy(g) /\ KeepsVerdict(g)
<1> DEFINE todo == pass[g].todo \ {i}
           conn == [pass[g].conn EXCEPT ![i] = life[i].gen]
           seen == pass[g].seen \cup StatusOf(i)
           p == [pass[g] EXCEPT !.todo = todo, !.conn = conn, !.seen = seen]
<1>1. pass[g] \in Passes
  BY DEF TypeOK
<1>2. todo \in SUBSET Instances /\ conn \in [Instances -> Int] /\ seen \in SUBSET Rows
  <2>1. StatusOf(i) \subseteq Rows
    BY DEF TypeOK, StatusOf, Rows, Sessions
  <2>2. life[i].gen \in Int
    BY DEF TypeOK
  <2> QED
    BY <1>1, <2>1, <2>2 DEF Passes
<1>3. pass' = [pass EXCEPT ![g] = p] /\ pass[g].pc = "opening"
  BY DEF OpenInst
<1> HIDE DEF todo, conn, seen
<1>4. p \in Passes
  BY <1>1, <1>2 DEF Passes
<1>5. /\ p.pc = pass[g].pc /\ p.todo = todo /\ p.conn = conn /\ p.seen = seen
      /\ p.refused = pass[g].refused /\ p.victim = pass[g].victim
      /\ p.stale = pass[g].stale /\ p.kills = pass[g].kills
  BY <1>1 DEF Passes
<1> HIDE DEF p
<1> QED
  BY <1>3, <1>4, <1>5, Updated DEF KeepsPolicy, KeepsVerdict, todo, conn, seen

\* An instance that is left out is not asked again.
LEMMA SkipEffect ==
  ASSUME TypeOK, NEW g \in Guards, NEW i \in Instances, SkipInst(g, i)
  PROVE  /\ PassTypes' /\ Others(g)
         /\ pass[g].pc = "opening" /\ pass'[g].pc = "opening"
         /\ pass'[g].todo = pass[g].todo \ {i}
         /\ pass'[g].conn = pass[g].conn /\ pass'[g].seen = pass[g].seen
         /\ KeepsPolicy(g) /\ KeepsVerdict(g)
<1> DEFINE p == [pass[g] EXCEPT !.todo = pass[g].todo \ {i}]
<1>1. pass[g] \in Passes
  BY DEF TypeOK
<1>2. p \in Passes
  BY <1>1 DEF Passes
<1>3. pass' = [pass EXCEPT ![g] = p] /\ pass[g].pc = "opening"
  BY DEF SkipInst
<1>4. /\ p.pc = pass[g].pc /\ p.todo = pass[g].todo \ {i} /\ p.conn = pass[g].conn
      /\ p.seen = pass[g].seen /\ p.refused = pass[g].refused /\ p.victim = pass[g].victim
      /\ p.stale = pass[g].stale /\ p.kills = pass[g].kills
  BY <1>1 DEF Passes
<1> HIDE DEF p
<1> QED
  BY <1>2, <1>3, <1>4, Updated DEF KeepsPolicy, KeepsVerdict

Verdict(g) == IF pass[g].victim # Nobody THEN Of(pass[g].seen, pass[g].victim) ELSE Decide(g)

\* A judgement reads nothing more.
LEMMA JudgeEffect ==
  ASSUME TypeOK, NEW g \in Guards, Judge(g)
  PROVE  /\ PassTypes' /\ Others(g)
         /\ pass[g].pc = "opening" /\ pass'[g].pc = "killing"
         /\ pass'[g].kills = Ids(Verdict(g))
         /\ pass'[g].stale = Ids({s \in pass[g].seen : Stale(g, s)})
         /\ KeepsPolicy(g) /\ KeepsReads(g)
<1> DEFINE kills == Ids(Verdict(g))
           stale == Ids({s \in pass[g].seen : Stale(g, s)})
           p == [pass[g] EXCEPT !.pc = "killing", !.kills = kills, !.stale = stale]
<1>1. pass[g] \in Passes
  BY DEF TypeOK
<1>2. kills \in SUBSET (Instances \X Nat \X Nat) /\ stale \in SUBSET (Instances \X Nat \X Nat)
  <2>1. \A S \in SUBSET Rows : Ids(S) \in SUBSET (Instances \X Nat \X Nat)
    BY DEF Ids, Id, Rows
  <2>2. Verdict(g) \in SUBSET Rows /\ {s \in pass[g].seen : Stale(g, s)} \in SUBSET Rows
    BY <1>1 DEF Verdict, Of, Decide, Passes
  <2> QED
    BY <2>1, <2>2
<1>3. pass' = [pass EXCEPT ![g] = p] /\ pass[g].pc = "opening"
  BY DEF Judge, Verdict
<1> HIDE DEF kills, stale
<1>4. p \in Passes
  BY <1>1, <1>2 DEF Passes
<1>5. /\ p.pc = "killing" /\ p.todo = pass[g].todo /\ p.conn = pass[g].conn
      /\ p.seen = pass[g].seen /\ p.refused = pass[g].refused /\ p.victim = pass[g].victim
      /\ p.stale = stale /\ p.kills = kills
  BY <1>1 DEF Passes
<1> HIDE DEF p
<1> QED
  BY <1>3, <1>4, <1>5, Updated DEF KeepsPolicy, KeepsReads, kills, stale

\* A kill, successful or not, is not tried twice.
LEMMA KillEffect ==
  ASSUME TypeOK, NEW g \in Guards, NEW k \in pass[g].kills, Kill(g, k) \/ KillFails(g, k)
  PROVE  /\ PassTypes' /\ Others(g)
         /\ pass[g].pc = "killing" /\ pass'[g].pc = "killing"
         /\ pass'[g].kills = pass[g].kills \ {k} /\ pass'[g].stale = pass[g].stale
         /\ KeepsPolicy(g) /\ KeepsReads(g)
<1>1. pass[g].pc = "killing" /\ pass' = [pass EXCEPT ![g].kills = pass[g].kills \ {k}]
  BY DEF Kill, KillFails, Ended
<1> QED
  BY <1>1 DEF TypeOK, PassTypes, Passes, Others, KeepsPolicy, KeepsReads

\* A pass leaves nothing behind.
LEMMA EndEffect ==
  ASSUME TypeOK, NEW g \in Guards, EndPass(g)
  PROVE  PassTypes' /\ Others(g) /\ pass'[g] = NoPass
BY DEF TypeOK, PassTypes, Passes, Others, EndPass, NoPass

-----------------------------------------------------------------------------
(* Devices, accounts and instances.                                        *)

\* The invariant holds of the guard's first state.
LEMMA Initially == Init => IInv
<1> SUFFICES ASSUME Init PROVE IInv
  OBVIOUS
<1> USE ParametersOK
<1>1. NoPass \in Passes
  BY DEF NoPass, Passes
<1>2. TypeOK
  BY <1>1 DEF Init, TypeOK, EventNames, NoPass
<1>3. Current
  BY FS_EmptySet DEF Init, Current
<1>4. Reads /\ Apart /\ Cuts
  BY FS_EmptySet DEF Init, Reads, ReadsOK, RowOK, Apart, Cuts, NoPass, Ids
<1>5. Spared /\ UpToDate /\ Remembered
  BY DEF Init, Spared, SparesOK, UpToDate, Remembered, StaleIsDead, NoPass
<1> QED
  BY <1>2, <1>3, <1>4, <1>5 DEF IInv

\* What happens, but for a tick, leaves the clock alone.
LEMMA HappensElse ==
  ASSUME TypeOK, NEW e \in EventNames, Happens(e)
  PROVE  events' \in [EventNames -> Nat] /\ (e # "tick" => Clock' = Clock)
BY DEF TypeOK, Happens, Clock, EventNames

\* The sessions there are go on as they were, or have ended or died.
Thins ==
  \A t \in sess' : \E s \in sess :
    Id(t) = Id(s) /\ t.since = s.since /\ t.rx = s.rx /\ (t.alive => s.alive)

\* Sessions that go on, die or end disturb neither what is known of them nor what
\* is remembered.
LEMMA ThinsKeeps ==
  ASSUME IInv, Thins, UNCHANGED life, Clock' = Clock, IsFiniteSet(sess'), sess' \subseteq Sessions
  PROVE  /\ Current'
         /\ (pass'[Loop].pc = "opening" => pass'[Loop] = pass[Loop]) => UpToDate'
         /\ pass'[Loop].stale \subseteq pass[Loop].stale /\ UNCHANGED act => Remembered'
<1>1. Current'
  BY DEF IInv, Current, Thins, Id
<1>2. ASSUME pass'[Loop].pc = "opening" => pass'[Loop] = pass[Loop] PROVE UpToDate'
  BY <1>2 DEF IInv, UpToDate, Thins, Id
<1>3. ASSUME pass'[Loop].stale \subseteq pass[Loop].stale, UNCHANGED act PROVE Remembered'
  <2> SUFFICES ASSUME Calm' PROVE
        /\ \A a \in act : /\ a.key[2] < life[a.key[1]].next
                         /\ \A t \in sess' : a.key = <<t.inst, t.cid>> => t.since + a.rx <= a.changed
        /\ StaleIsDead'
    BY <1>3 DEF Remembered
  <2>1. Calm
    BY DEF Calm
  <2>2. \A t \in sess' : \E s \in sess :
           t.inst = s.inst /\ t.cid = s.cid /\ t.since = s.since
    BY DEF Thins, Id
  <2>3. StaleIsDead'
    BY <1>3, <2>1 DEF IInv, Remembered, StaleIsDead, Calm, Thins
  <2> QED
    BY <2>1, <2>2, <2>3 DEF IInv, Remembered
<1> QED
  BY <1>1, <1>2, <1>3

\* Neither what was read nor what was cut depends on what sessions there are.
LEMMA PassesKeep ==
  ASSUME Reads, Apart, Cuts, Spared, UNCHANGED <<life, client, pass, cut>>, Clock' = Clock
  PROVE  Reads' /\ Apart' /\ Cuts' /\ Spared'
<1>1. Reads'
  BY DEF Reads, ReadsOK, RowOK, Held
<1>2. Apart' /\ Cuts'
  BY DEF Apart, Cuts
<1>3. Spared'
  BY DEF Spared, SparesOK, Left
<1> QED
  BY <1>1, <1>2, <1>3

\* A session is listed, its device vanishes or OpenVPN drops it.
LEMMA ThinningKeeps ==
  ASSUME IInv, NEW s \in sess, Listed(s) \/ DeviceGone(s) \/ Timeout(s)
  PROVE  IInv'
<1>1. UNCHANGED <<life, refused, lock, client, pass, act, cut, events>> /\ Clock' = Clock
  BY DEF Listed, DeviceGone, Timeout, guards, Clock
<1>2. s \in Sessions
  BY DEF IInv, TypeOK
<1>3. PICK t \in Sessions :
        /\ Id(t) = Id(s) /\ t.since = s.since /\ t.rx = s.rx /\ (t.alive => s.alive)
        /\ sess' = (sess \ {s}) \cup {t} \/ sess' = sess \ {s}
  <2>1. CASE Listed(s)
    <3> DEFINE t == [s EXCEPT !.listed = TRUE]
    <3>1. t \in Sessions /\ Id(t) = Id(s) /\ t.since = s.since /\ t.rx = s.rx /\ t.alive = s.alive
      BY <1>2 DEF Sessions, Id
    <3> QED
      BY <2>1, <3>1 DEF Listed, Replace
  <2>2. CASE DeviceGone(s)
    <3> DEFINE t == [s EXCEPT !.alive = FALSE]
    <3>1. t \in Sessions /\ Id(t) = Id(s) /\ t.since = s.since /\ t.rx = s.rx /\ ~t.alive
      BY <1>2 DEF Sessions, Id
    <3> QED
      BY <2>2, <3>1 DEF DeviceGone, Replace
  <2>3. CASE Timeout(s)
    BY <1>2, <2>3 DEF Timeout
  <2> QED
    BY <2>1, <2>2, <2>3
<1>4. sess' \subseteq Sessions /\ Thins
  BY <1>2, <1>3 DEF IInv, TypeOK, Thins
<1>5. IsFiniteSet(sess')
  <2>1. IsFiniteSet(sess)
    BY DEF IInv, Current
  <2>2. IsFiniteSet(sess \ {s})
    BY <2>1, FS_RemoveElement
  <2>3. IsFiniteSet((sess \ {s}) \cup {t})
    BY <2>2, FS_AddElement
  <2> QED
    BY <1>3, <2>2, <2>3
<1>6. \A x, y \in sess' : Id(x) = Id(y) => x = y
  BY <1>3 DEF IInv, TypeOK
<1>7. TypeOK'
  BY <1>1, <1>4, <1>6 DEF IInv, TypeOK
<1>8. Current' /\ UpToDate' /\ Remembered'
  BY <1>1, <1>4, <1>5, ThinsKeeps
<1>9. Reads' /\ Apart' /\ Cuts' /\ Spared'
  BY <1>1, PassesKeep DEF IInv
<1> QED
  BY <1>7, <1>8, <1>9 DEF IInv

\* What accounts may is no part of the invariant.
LEMMA AccountKeeps ==
  ASSUME IInv, NEW u \in Users, ChangeAccount(u)
  PROVE  IInv'
<1>1. UNCHANGED <<sess, life, lock, client, pass, act, cut>>
  BY DEF ChangeAccount, guards
<1>2. events' \in [EventNames -> Nat] /\ Clock' = Clock
  BY HappensElse DEF ChangeAccount, EventNames, IInv
<1>3. TypeOK'
  BY <1>1, <1>2 DEF IInv, TypeOK, ChangeAccount
<1>4. Current' /\ UpToDate' /\ Remembered'
  BY <1>1, <1>2, ThinsKeeps DEF IInv, TypeOK, Current, Thins
<1>5. Reads' /\ Apart' /\ Cuts' /\ Spared'
  BY <1>1, <1>2, PassesKeep DEF IInv
<1> QED
  BY <1>3, <1>4, <1>5 DEF IInv

\* A new session has an id that no connection which stands has seen.
LEMMA ConnectKeeps ==
  ASSUME IInv, NEW i \in Instances, NEW u \in Users, Connect(i, u)
  PROVE  IInv'
<1> DEFINE n == [inst |-> i, gen |-> life[i].gen, cid |-> life[i].next, name |-> u,
                 since |-> Clock, alive |-> TRUE, listed |-> FALSE, rx |-> 0]
<1>1. sess' = sess \cup {n} /\ UNCHANGED <<refused, lock, client, pass, act, cut>>
  BY DEF Connect, guards
<1>2. events' \in [EventNames -> Nat] /\ Clock' = Clock /\ Clock \in Nat
  BY HappensElse DEF Connect, EventNames, IInv, TypeOK, Clock
<1>3. /\ life' \in [Instances -> [gen : Nat, next : Nat]]
      /\ \A j \in Instances : life'[j].gen = life[j].gen /\ life[j].next <= life'[j].next
      /\ life'[i].next = life[i].next + 1
  <2>1. life' = [life EXCEPT ![i] = [life[i] EXCEPT !.next = life[i].next + 1]]
    BY DEF Connect
  <2>2. life[i] \in [gen : Nat, next : Nat] /\ life \in [Instances -> [gen : Nat, next : Nat]]
    BY DEF IInv, TypeOK
  <2>3. [life[i] EXCEPT !.next = life[i].next + 1] \in [gen : Nat, next : Nat]
    BY <2>2
  <2> QED
    BY <2>1, <2>2, <2>3
<1>4. n \in Sessions
  BY <1>2 DEF Sessions, IInv, TypeOK
<1>5. n.inst = i /\ n.gen = life[i].gen /\ n.cid = life[i].next /\ n.since = Clock /\ n.rx = 0
  OBVIOUS
<1> HIDE DEF n
<1>6. \A s \in sess : s \in Sessions /\ s.gen = life[s.inst].gen /\ s.cid < life[s.inst].next
  BY DEF IInv, TypeOK, Current
<1>7. \A s \in sess : Id(s) # Id(n)
  BY <1>5, <1>6 DEF Id, Sessions, IInv, TypeOK
\* A row of an earlier connection is of an older process or has a smaller id.
<1>8. \A g \in Guards : \A r \in pass[g].seen : Id(r) # Id(n)
  <2> SUFFICES ASSUME NEW g \in Guards, NEW r \in pass[g].seen, Id(r) = Id(n)
               PROVE  FALSE
    OBVIOUS
  <2>1. r \in Rows /\ RowOK(g, r)
    BY DEF IInv, TypeOK, Passes, Reads, ReadsOK
  <2>2. r.inst = i /\ r.gen = life[i].gen /\ r.cid = life[i].next
    BY <1>5 DEF Id
  <2> QED
    BY <2>1, <2>2 DEF RowOK, Held, Rows
<1>9. TypeOK'
  BY <1>1, <1>2, <1>3, <1>4, <1>7 DEF IInv, TypeOK
<1>10. Current'
  <2>1. IsFiniteSet(sess')
    BY <1>1, FS_AddElement DEF IInv, Current
  <2>2. \A s \in sess : s.cid < life'[s.inst].next /\ s.gen = life'[s.inst].gen
    BY <1>3, <1>6 DEF Sessions, IInv, TypeOK
  <2> QED
    BY <1>1, <1>2, <1>3, <1>5, <2>1, <2>2 DEF IInv, Current, TypeOK
<1>11. Reads'
  <2>1. \A g \in Guards : \A r \in pass[g].seen : RowOK(g, r)'
    <3> SUFFICES ASSUME NEW g \in Guards, NEW r \in pass[g].seen PROVE RowOK(g, r)'
      OBVIOUS
    <3>1. r \in Rows /\ RowOK(g, r)
      BY DEF IInv, TypeOK, Passes, Reads, ReadsOK
    <3> QED
      BY <1>1, <1>2, <1>3, <3>1 DEF RowOK, Held, Rows, IInv, TypeOK
  <2> QED
    BY <1>1, <2>1 DEF IInv, Reads, ReadsOK
<1>12. Apart' /\ Cuts' /\ Spared'
  BY <1>1 DEF IInv, Apart, Cuts, Spared, SparesOK, Left
<1>13. UpToDate'
  BY <1>1, <1>8, ParametersOK DEF IInv, UpToDate
<1>14. Remembered'
  <2> SUFFICES ASSUME Calm' PROVE
        /\ \A a \in act : /\ a.key[2] < life'[a.key[1]].next
                         /\ \A s \in sess' : a.key = <<s.inst, s.cid>> => s.since + a.rx <= a.changed
        /\ StaleIsDead'
    BY <1>1 DEF Remembered
  <2>1. Calm
    BY <1>3 DEF Calm
  <2>2. ASSUME NEW a \in act PROVE
           /\ a.key[2] < life'[a.key[1]].next
           /\ \A s \in sess' : a.key = <<s.inst, s.cid>> => s.since + a.rx <= a.changed
    <3>1. a.key \in Instances \X Nat /\ a.key[2] < life[a.key[1]].next
      BY <2>1 DEF IInv, TypeOK, Remembered
    <3>2. a.key # <<n.inst, n.cid>>
      BY <1>5, <3>1 DEF IInv, TypeOK
    <3>3. \A s \in sess : a.key = <<s.inst, s.cid>> => s.since + a.rx <= a.changed
      BY <2>1 DEF IInv, Remembered
    <3>4. a.key[2] < life'[a.key[1]].next
      BY <1>3, <3>1 DEF IInv, TypeOK
    <3> QED
      BY <1>1, <3>2, <3>3, <3>4
  <2>3. Id(n) \notin pass[Loop].stale
    BY <1>8, ParametersOK DEF IInv, TypeOK, Ids
  <2>4. StaleIsDead'
    BY <1>1, <2>1, <2>3 DEF IInv, Remembered, StaleIsDead, Calm
  <2> QED
    BY <2>2, <2>4
<1> QED
  BY <1>9, <1>10, <1>11, <1>12, <1>13, <1>14 DEF IInv

\* A restart makes every row of the instance one of an older process.
LEMMA RestartKeeps ==
  ASSUME IInv, NEW i \in Instances, RestartInstance(i)
  PROVE  IInv'
<1>1. sess' \subseteq sess /\ (\A s \in sess' : s.inst # i) /\ UNCHANGED <<refused, lock, pass, act, cut>>
  BY DEF RestartInstance
<1>2. events' \in [EventNames -> Nat] /\ Clock' = Clock
  BY HappensElse DEF RestartInstance, EventNames, IInv
<1>3. /\ life' \in [Instances -> [gen : Nat, next : Nat]]
      /\ \A j \in Instances : j # i => life'[j] = life[j]
      /\ life'[i].gen = life[i].gen + 1
  <2>1. life' = [life EXCEPT ![i] = [gen |-> life[i].gen + 1, next |-> 0]]
    BY DEF RestartInstance
  <2>2. life[i] \in [gen : Nat, next : Nat] /\ life \in [Instances -> [gen : Nat, next : Nat]]
    BY DEF IInv, TypeOK
  <2> QED
    BY <2>1, <2>2
<1>4. /\ client' \in [Instances -> Guards \cup {Nobody}]
      /\ \A j \in Instances : j # i => client'[j] = client[j]
  BY DEF RestartInstance, IInv, TypeOK
<1>5. TypeOK'
  BY <1>1, <1>2, <1>3, <1>4 DEF IInv, TypeOK
<1>6. Current'
  <2>1. IsFiniteSet(sess')
    BY <1>1, FS_Subset DEF IInv, Current
  <2>2. \A s \in sess' : s \in sess /\ s.inst \in Instances /\ s.inst # i
    BY <1>1 DEF IInv, TypeOK, Sessions
  <2> QED
    BY <1>2, <1>3, <2>1, <2>2 DEF IInv, Current
<1>7. Reads'
  <2>1. \A g \in Guards : \A r \in pass[g].seen : RowOK(g, r)'
    <3> SUFFICES ASSUME NEW g \in Guards, NEW r \in pass[g].seen PROVE RowOK(g, r)'
      OBVIOUS
    <3>1. r \in Rows /\ RowOK(g, r)
      BY DEF IInv, TypeOK, Passes, Reads, ReadsOK
    <3>2. CASE r.inst = i
      <4>1. r.gen <= life[i].gen /\ r.gen \in Nat /\ life[i].gen \in Nat
        BY <3>1, <3>2 DEF RowOK, Rows, IInv, TypeOK
      <4> QED
        BY <1>1, <1>2, <1>3, <3>1, <3>2, <4>1 DEF RowOK
    <3>3. CASE r.inst # i
      <4>1. r.inst \in Instances
        BY <3>1 DEF Rows
      <4> QED
        BY <1>1, <1>2, <1>3, <1>4, <3>1, <3>3, <4>1 DEF RowOK, Held
    <3> QED
      BY <3>2, <3>3
  <2> QED
    BY <1>1, <2>1 DEF IInv, Reads, ReadsOK
<1>8. Apart' /\ Cuts' /\ Spared'
  BY <1>1 DEF IInv, Apart, Cuts, Spared, SparesOK, Left
<1>9. UpToDate'
  BY <1>1 DEF IInv, UpToDate
<1>10. ~Calm'
  BY <1>3 DEF Calm, IInv, TypeOK
<1> QED
  BY <1>5, <1>6, <1>7, <1>8, <1>9, <1>10 DEF IInv, Remembered

\* The loop has read everything or nothing when the clock moves.
LEMMA TickKeeps ==
  ASSUME IInv, Tick
  PROVE  IInv'
<1>1. UNCHANGED <<life, refused, lock, client, pass, act, cut>> /\ pass[Loop].pc # "opening"
  BY DEF Tick, guards
<1>2. events' \in [EventNames -> Nat] /\ Clock \in Nat /\ Clock' = Clock + 1
  BY DEF Tick, Happens, EventNames, IInv, TypeOK, Clock
<1> DEFINE Moved(s) == IF s.alive THEN [s EXCEPT !.rx = s.rx + 1] ELSE s
           moved == [s \in sess |-> Moved(s)]
<1>3. sess' = {moved[s] : s \in sess}
  BY DEF Tick
<1>4. \A s \in sess :
        /\ moved[s] \in Sessions /\ Id(moved[s]) = Id(s) /\ moved[s].since = s.since
        /\ moved[s].alive = s.alive
        /\ moved[s].rx = IF s.alive THEN s.rx + 1 ELSE s.rx
  BY DEF IInv, TypeOK, Sessions, Id
<1> HIDE DEF moved
<1>5. sess' \subseteq Sessions /\ \A s, t \in sess' : Id(s) = Id(t) => s = t
  BY <1>3, <1>4 DEF IInv, TypeOK
<1>6. TypeOK'
  BY <1>1, <1>2, <1>5 DEF IInv, TypeOK
<1>7. Current'
  <2>1. IsFiniteSet(sess')
    <3>1. moved \in Surjection(sess, sess')
      BY <1>3 DEF Surjection, moved
    <3> QED
      BY <3>1, FS_Surjection DEF IInv, Current
  <2>2. \A s \in sess :
          /\ moved[s].gen = life[moved[s].inst].gen /\ moved[s].cid < life[moved[s].inst].next
          /\ moved[s].since + moved[s].rx <= Clock'
          /\ moved[s].alive => moved[s].since + moved[s].rx = Clock'
    BY <1>2, <1>4 DEF IInv, Current, Id, TypeOK, Sessions
  <2> QED
    BY <1>1, <1>3, <2>1, <2>2 DEF Current
<1>8. Reads'
  <2>1. \A g \in Guards : \A r \in pass[g].seen : RowOK(g, r)'
    <3> SUFFICES ASSUME NEW g \in Guards, NEW r \in pass[g].seen PROVE RowOK(g, r)'
      OBVIOUS
    <3>1. r \in Rows /\ RowOK(g, r)
      BY DEF IInv, TypeOK, Passes, Reads, ReadsOK
    <3> QED
      BY <1>1, <1>2, <3>1 DEF RowOK, Held, Rows
  <2> QED
    BY <1>1, <2>1 DEF IInv, Reads, ReadsOK
<1>9. Apart' /\ Cuts' /\ Spared'
  BY <1>1 DEF IInv, Apart, Cuts, Spared, SparesOK, Left
<1>10. UpToDate'
  BY <1>1 DEF UpToDate
<1>11. Remembered'
  <2>1. \A s \in sess : moved[s].inst = s.inst /\ moved[s].cid = s.cid
    BY <1>4 DEF Id
  <2>2. Calm' => StaleIsDead'
    BY <1>1, <1>3, <1>4 DEF IInv, Remembered, StaleIsDead, Calm
  <2> QED
    BY <1>1, <1>3, <1>4, <2>1, <2>2 DEF IInv, Remembered, Calm
<1> QED
  BY <1>6, <1>7, <1>8, <1>9, <1>10, <1>11 DEF IInv

-----------------------------------------------------------------------------
(* Passes.                                                                 *)

\* Until a pass judges, a step that reads nothing changes nothing that counts.
LEMMA EarlyKeeps ==
  ASSUME IInv, NEW g \in Guards, PassTypes', Others(g),
         UNCHANGED <<world, client, act, cut>>,
         lock' \in Guards \cup {Nobody}, events' \in [EventNames -> Nat], Clock' = Clock,
         pass'[g].conn = pass[g].conn, pass'[g].seen = pass[g].seen, KeepsVerdict(g),
         pass'[g].pc \in {"locking", "opening"},
         \/ pass[g].pc \in {"idle", "locking"}
         \/ pass[g].pc = "opening" /\ pass'[g].pc = "opening" /\ pass'[g].todo \subseteq pass[g].todo
  PROVE  IInv'
<1>1. UNCHANGED <<sess, life, refused>>
  BY DEF world
<1>2. \A h \in Guards : /\ pass'[h].conn = pass[h].conn /\ pass'[h].seen = pass[h].seen
                        /\ pass'[h].stale = pass[h].stale /\ pass'[h].kills = pass[h].kills
  BY DEF Others, KeepsVerdict
<1>3. pass[g].pc # "killing" /\ pass[g].kills = {} /\ pass[g].stale = {}
  BY DEF IInv, Reads, ReadsOK
<1>4. pass[g].pc # "opening" => pass[g].seen = {}
  BY DEF IInv, Reads, ReadsOK
<1>5. TypeOK'
  <2>1. \A h \in Guards : pass'[h].stale \cup pass'[h].kills \subseteq Ids(pass'[h].seen)
    BY <1>2 DEF IInv, TypeOK
  <2> QED
    BY <1>1, <2>1 DEF IInv, TypeOK, PassTypes
<1>6. Current'
  BY <1>1 DEF IInv, Current
<1>7. Reads'
  <2> SUFFICES ASSUME NEW h \in Guards PROVE ReadsOK(h)'
    BY DEF Reads
  <2>1. ReadsOK(h)
    BY DEF IInv, Reads
  <2>2. \A r \in pass[h].seen : RowOK(h, r)'
    <3>1. CASE h = g
      BY <1>1, <1>2, <1>4, <2>1, <3>1 DEF ReadsOK, RowOK, Held
    <3>2. CASE h # g
      BY <1>1, <1>2, <2>1, <3>2 DEF ReadsOK, RowOK, Held, Others
    <3> QED
      BY <3>1, <3>2
  <2>3. CASE h = g
    BY <1>2, <1>3, <1>4, <2>1, <2>2, <2>3 DEF ReadsOK
  <2>4. CASE h # g
    BY <1>2, <2>1, <2>2, <2>4 DEF ReadsOK, Others
  <2> QED
    BY <2>3, <2>4
<1>8. Apart'
  BY <1>2 DEF IInv, Apart
<1>9. Cuts'
  <2>1. \A h \in Guards : pass'[h].pc = "opening" => Ids(pass[h].seen) \cap cut = {}
    BY <1>4 DEF IInv, Cuts, Others, Ids
  <2> QED
    BY <1>2, <2>1 DEF IInv, Cuts
<1>10. Spared'
  <2> SUFFICES ASSUME NEW h \in Guards, pass'[h].pc = "killing" PROVE SparesOK(h)'
    BY DEF Spared, SparesOK
  <2>1. h # g /\ pass'[h] = pass[h] /\ SparesOK(h)
    BY DEF Others, IInv, Spared
  <2> QED
    BY <2>1 DEF SparesOK, Left
<1>11. UpToDate'
  BY <1>1, <1>2, <1>4, ParametersOK DEF IInv, UpToDate, Others
<1>12. Remembered'
  BY <1>1, <1>2, ParametersOK DEF IInv, Remembered, StaleIsDead, Calm
<1> QED
  BY <1>5, <1>6, <1>7, <1>8, <1>9, <1>10, <1>11, <1>12 DEF IInv

\* The policy is read.
LEMMA BeginKeeps ==
  ASSUME IInv, NEW g \in Guards, BeginPass(g) \/ \E u \in Users : BeginKick(g, u)
  PROVE  IInv'
<1>1. TypeOK /\ events \in [EventNames -> Nat] /\ lock \in Guards \cup {Nobody}
  BY DEF IInv, TypeOK
<1>2. UNCHANGED <<world, lock, client, act, cut>>
  BY DEF BeginPass, BeginKick
<1>3. events' \in [EventNames -> Nat] /\ Clock' = Clock
  <2>1. UNCHANGED events \/ Happens("pass")
    BY DEF BeginPass, BeginKick
  <2> QED
    BY <1>1, <2>1, HappensElse DEF EventNames, Clock
<1>4. /\ PassTypes' /\ Others(g)
      /\ pass[g].pc = "idle" /\ pass'[g].pc = "locking"
      /\ KeepsReads(g) /\ KeepsVerdict(g)
  BY <1>1, BeginEffect
<1> QED
  BY <1>1, <1>2, <1>3, <1>4, EarlyKeeps DEF KeepsReads

\* The lock is taken, or is not to be had.
LEMMA LockKeeps ==
  ASSUME IInv, NEW g \in Guards, Lock(g) \/ LockFails(g)
  PROVE  IInv'
<1>1. TypeOK /\ events \in [EventNames -> Nat] /\ lock \in Guards \cup {Nobody}
  BY DEF IInv, TypeOK
<1>2. UNCHANGED <<world, client, act, cut>> /\ lock' \in Guards \cup {Nobody}
  BY <1>1 DEF Lock, LockFails
<1>3. events' \in [EventNames -> Nat] /\ Clock' = Clock
  <2>1. UNCHANGED events \/ Happens("trouble")
    BY DEF Lock, LockFails
  <2> QED
    BY <1>1, <2>1, HappensElse DEF EventNames, Clock
<1>4. /\ PassTypes' /\ Others(g)
      /\ pass[g].pc = "locking" /\ pass'[g].pc = "opening"
      /\ pass'[g].conn = pass[g].conn /\ pass'[g].seen = pass[g].seen /\ KeepsVerdict(g)
  BY <1>1, LockEffect
<1> QED
  BY <1>2, <1>3, <1>4, EarlyKeeps

\* An instance is left out.
LEMMA SkipKeeps ==
  ASSUME IInv, NEW g \in Guards, NEW i \in Instances, SkipInst(g, i)
  PROVE  IInv'
<1>1. TypeOK /\ events \in [EventNames -> Nat] /\ lock \in Guards \cup {Nobody}
  BY DEF IInv, TypeOK
<1>2. UNCHANGED <<world, lock, client, act, cut>>
  BY DEF SkipInst
<1>3. events' \in [EventNames -> Nat] /\ Clock' = Clock
  <2>1. UNCHANGED events \/ Happens("trouble")
    BY DEF SkipInst
  <2> QED
    BY <1>1, <2>1, HappensElse DEF EventNames, Clock
<1>4. /\ PassTypes' /\ Others(g)
      /\ pass[g].pc = "opening" /\ pass'[g].pc = "opening"
      /\ pass'[g].todo = pass[g].todo \ {i}
      /\ pass'[g].conn = pass[g].conn /\ pass'[g].seen = pass[g].seen /\ KeepsVerdict(g)
  BY <1>1, SkipEffect
<1> QED
  BY <1>1, <1>2, <1>3, <1>4, EarlyKeeps

\* The rows of a status are of sessions that run, and nobody else has read them:
\* what an earlier connection to the instance read is of an older process.
LEMMA OpenKeeps ==
  ASSUME IInv, NEW g \in Guards, NEW i \in Instances, OpenInst(g, i)
  PROVE  IInv'
<1>1. TypeOK /\ Reads
  BY DEF IInv
<1>2. /\ UNCHANGED <<sess, life, refused, lock, act, events, cut>> /\ Clock' = Clock
      /\ client[i] = Nobody /\ client' = [client EXCEPT ![i] = g] /\ i \in pass[g].todo
  BY DEF OpenInst, world, Clock
<1>3. /\ PassTypes' /\ Others(g)
      /\ pass[g].pc = "opening" /\ pass'[g].pc = "opening"
      /\ pass'[g].todo = pass[g].todo \ {i}
      /\ pass'[g].conn = [pass[g].conn EXCEPT ![i] = life[i].gen]
      /\ pass'[g].seen = pass[g].seen \cup StatusOf(i)
      /\ KeepsPolicy(g) /\ KeepsVerdict(g)
  BY <1>1, OpenEffect
<1>4. \A r \in StatusOf(i) :
        \E s \in sess : Id(s) = Id(r) /\ s.inst = i /\ s.since = r.since /\ s.rx = r.rx
  BY DEF StatusOf, Id
<1>5. \A r \in StatusOf(i) :
        /\ r \in Rows /\ r.inst = i /\ r.gen = life[i].gen /\ r.cid < life[i].next
        /\ r.since + r.rx <= Clock
  <2>1. StatusOf(i) \subseteq Rows
    BY <1>1 DEF TypeOK, StatusOf, Rows, Sessions
  <2> QED
    BY <2>1 DEF StatusOf, IInv, Current
<1>6. IsFiniteSet(StatusOf(i))
  <2> DEFINE L == {t \in sess : t.inst = i /\ t.listed}
             f == [s \in L |-> [inst |-> i, gen |-> s.gen, cid |-> s.cid, name |-> s.name,
                                since |-> s.since, rx |-> s.rx]]
  <2>1. IsFiniteSet(L)
    BY FS_Subset DEF IInv, Current
  <2>2. f \in Surjection(L, StatusOf(i))
    BY DEF Surjection, StatusOf
  <2> HIDE DEF L, f
  <2> QED
    BY <2>1, <2>2, FS_Surjection
<1>7. \A h \in Guards : \A r \in pass[h].seen : r.inst = i => r.gen < life[i].gen
  <2> SUFFICES ASSUME NEW h \in Guards, NEW r \in pass[h].seen, r.inst = i
               PROVE  r.gen < life[i].gen
    OBVIOUS
  <2>1. RowOK(h, r) /\ r \in Rows
    BY <1>1 DEF TypeOK, Passes, Reads, ReadsOK
  <2>2. r.gen <= life[i].gen /\ r.gen # life[i].gen
    BY <1>2, <2>1, ParametersOK DEF RowOK, Held
  <2>3. r.gen \in Nat /\ life[i].gen \in Nat
    BY <1>1, <2>1 DEF Rows, TypeOK
  <2> QED
    BY <2>2, <2>3
<1>8. \A h \in Guards : \A r \in pass[h].seen, t \in StatusOf(i) : Id(r) # Id(t)
  <2> SUFFICES ASSUME NEW h \in Guards, NEW r \in pass[h].seen, NEW t \in StatusOf(i), Id(r) = Id(t)
               PROVE  FALSE
    OBVIOUS
  <2>1. r \in Rows
    BY <1>1 DEF TypeOK, Passes
  <2> QED
    BY <1>1, <1>5, <1>7, <2>1 DEF Id, TypeOK, Rows
<1>9. \A r, t \in StatusOf(i) : Id(r) = Id(t) => r = t
  <2> SUFFICES ASSUME NEW s \in sess, NEW t \in sess, s.inst = i, t.inst = i, s.gen = t.gen, s.cid = t.cid
               PROVE  s = t
    BY DEF StatusOf, Id
  <2> QED
    BY <1>1 DEF TypeOK, Id
<1>10. TypeOK'
  <2>1. \A h \in Guards : pass'[h].stale \cup pass'[h].kills \subseteq Ids(pass'[h].seen)
    BY <1>1, <1>3 DEF TypeOK, Others, KeepsVerdict, Ids
  <2>2. client' \in [Instances -> Guards \cup {Nobody}]
    BY <1>1, <1>2 DEF TypeOK
  <2> QED
    BY <1>1, <1>2, <1>3, <2>1, <2>2 DEF TypeOK, PassTypes
<1>11. Current'
  BY <1>2 DEF IInv, Current
<1>12. Reads'
  <2> SUFFICES ASSUME NEW h \in Guards PROVE ReadsOK(h)'
    BY DEF Reads
  <2>1. ReadsOK(h) /\ pass[h] \in Passes
    BY <1>1 DEF Reads, TypeOK
  <2>2. \A r \in pass[h].seen : RowOK(h, r)'
    <3> SUFFICES ASSUME NEW r \in pass[h].seen PROVE RowOK(h, r)'
      OBVIOUS
    <3>1. RowOK(h, r) /\ r \in Rows
      BY <2>1 DEF ReadsOK, Passes
    <3>2. CASE r.inst = i
      <4>1. h # g
        BY <1>2, <3>1, <3>2 DEF RowOK
      <4>2. pass'[h] = pass[h]
        BY <1>3, <4>1 DEF Others
      <4>3. r.gen < life[i].gen
        BY <1>7, <3>2
      <4> QED
        BY <1>1, <1>2, <3>1, <3>2, <4>2, <4>3 DEF RowOK, TypeOK, Rows
    <3>3. CASE r.inst # i
      <4>1. client'[r.inst] = client[r.inst]
        BY <1>1, <1>2, <3>1, <3>3 DEF TypeOK, Rows
      <4>2. CASE h = g
        <5>1. pass'[g].conn[r.inst] = pass[g].conn[r.inst] /\ r.inst \notin pass'[g].todo
          BY <1>3, <2>1, <3>1, <3>3, <4>2 DEF RowOK, Rows, Passes
        <5> QED
          BY <1>2, <3>1, <4>1, <4>2, <5>1 DEF RowOK, Held
      <4>3. CASE h # g
        <5>1. pass'[h] = pass[h]
          BY <1>3, <4>3 DEF Others
        <5> QED
          BY <1>2, <3>1, <4>1, <5>1 DEF RowOK, Held
      <4> QED
        BY <4>2, <4>3
    <3> QED
      BY <3>2, <3>3
  <2>3. CASE h = g
    <3>1. \A r \in StatusOf(i) : RowOK(g, r)'
      <4>1. client'[i] = g /\ pass'[g].conn[i] = life[i].gen /\ i \notin pass'[g].todo
        BY <1>1, <1>2, <1>3, <2>1, <2>3 DEF TypeOK, Passes
      <4> QED
        BY <1>1, <1>2, <1>5, <4>1 DEF RowOK, Held, TypeOK
    <3>2. IsFiniteSet(pass'[g].seen)
      <4>1. IsFiniteSet(pass[g].seen)
        BY <2>1, <2>3 DEF ReadsOK
      <4>2. IsFiniteSet(pass[g].seen \cup StatusOf(i))
        BY <1>6, <4>1, FS_Union
      <4> QED
        BY <1>3, <4>2
    <3>3. \A r, t \in pass'[g].seen : Id(r) = Id(t) => r = t
      BY <1>3, <1>8, <1>9, <2>1, <2>3 DEF ReadsOK
    <3>4. pass'[g].kills = {} /\ pass'[g].stale = {}
      BY <1>3, <2>1, <2>3 DEF ReadsOK, KeepsVerdict
    <3> QED
      BY <1>3, <2>2, <2>3, <3>1, <3>2, <3>3, <3>4 DEF ReadsOK
  <2>4. CASE h # g
    BY <1>3, <2>1, <2>2, <2>4 DEF ReadsOK, Others
  <2> QED
    BY <2>3, <2>4
<1>13. Apart'
  <2>1. \A h \in Guards : h # g => Ids(pass'[g].seen) \cap Ids(pass'[h].seen) = {}
    BY <1>3, <1>8 DEF IInv, Apart, Others, Ids
  <2> QED
    BY <1>3, <2>1 DEF IInv, Apart, Others
<1>14. Cuts'
  <2>1. \A h \in Guards : pass[h].seen \subseteq pass'[h].seen
    BY <1>3 DEF Others
  <2>2. Ids(StatusOf(i)) \cap cut = {}
    BY <1>8 DEF IInv, Cuts, Ids
  <2>3. \A h \in Guards : pass'[h].pc = "opening" => Ids(pass'[h].seen) \cap cut = {}
    BY <1>3, <2>2 DEF IInv, Cuts, Others, Ids
  <2>4. \A k \in cut : \E h \in Guards : k \in Ids(pass'[h].seen)
    BY <2>1 DEF IInv, Cuts, Ids
  <2> QED
    BY <1>2, <2>3, <2>4 DEF Cuts
<1>15. Spared'
  <2> SUFFICES ASSUME NEW h \in Guards, pass'[h].pc = "killing" PROVE SparesOK(h)'
    BY DEF Spared, SparesOK
  <2>1. pass'[h] = pass[h] /\ SparesOK(h)
    BY <1>3 DEF Others, IInv, Spared
  <2> QED
    BY <1>2, <2>1 DEF SparesOK, Left
<1>16. UpToDate'
  <2>1. CASE g = Loop
    <3>1. \A r \in StatusOf(i), s \in sess : Id(r) = Id(s) => r.rx = s.rx /\ r.since = s.since
      BY <1>1, <1>4 DEF TypeOK
    <3> QED
      BY <1>2, <1>3, <2>1, <3>1 DEF IInv, UpToDate
  <2>2. CASE g # Loop
    BY <1>2, <1>3, <2>2, ParametersOK DEF IInv, UpToDate, Others
  <2> QED
    BY <2>1, <2>2
<1>17. Remembered'
  <2>1. pass'[Loop].stale = pass[Loop].stale
    BY <1>3, ParametersOK DEF Others, KeepsVerdict
  <2> QED
    BY <1>2, <2>1 DEF IInv, Remembered, StaleIsDead, Calm
<1> QED
  BY <1>10, <1>11, <1>12, <1>13, <1>14, <1>15, <1>16, <1>17 DEF IInv

\* The order in which a user's sessions are kept is a strict one.
LEMMA BeforeIsOrder ==
  ASSUME NEW g, NEW s \in Rows, NEW t \in Rows, NEW r \in Rows
  PROVE  ~Before(g, s, s) /\ (Before(g, s, t) /\ Before(g, t, r) => Before(g, s, r))
<1>1. \A x \in Rows : x.since \in Nat /\ x.inst \in Nat /\ x.cid \in Nat
  BY ParametersOK DEF Rows
<1> DEFINE S(x) == Stale(g, x)
<1>2. \A x : S(x) \in BOOLEAN
  BY DEF Stale
<1> HIDE DEF S
<1>3. ~Before(g, s, s)
  BY <1>1 DEF Before
<1>4. ASSUME Before(g, s, t), Before(g, t, r) PROVE Before(g, s, r)
  <2>1. \A x, y \in Rows :
          Before(g, x, y) <=> \/ ~S(x) /\ S(y)
                              \/ /\ S(x) = S(y)
                                 /\ \/ x.since > y.since
                                    \/ x.since = y.since /\ x.inst < y.inst
                                    \/ x.since = y.since /\ x.inst = y.inst /\ x.cid > y.cid
    BY DEF Before, S
  <2> QED
    BY <1>1, <1>2, <1>4, <2>1
<1> QED
  BY <1>3, <1>4

\* A pass that reads the policy leaves of each account what it allows.
LEMMA JudgeSpares ==
  ASSUME IInv, NEW g \in Guards, Judge(g), pass[g].victim = Nobody,
         NEW u \in Users \ pass[g].refused
  PROVE  Cardinality(Left(g, u)') >= Allowed(u, Cardinality(Of(pass[g].seen, u)))
<1> DEFINE mine == Of(pass[g].seen, u)
           n == LimitOf[u]
           R == {p \in mine \X mine : Before(g, p[1], p[2])}
           K == Firsts(mine, n, R)
<1>1. TypeOK /\ ReadsOK(g) /\ pass[g].pc = "opening" /\ UNCHANGED cut
  BY DEF IInv, Reads, Judge
<1>2. pass'[g].kills = Ids(Decide(g)) /\ pass'[g].seen = pass[g].seen
  BY <1>1, JudgeEffect DEF Verdict, KeepsReads
<1>3. n \in Nat
  BY ParametersOK
<1>4. mine \subseteq Rows /\ IsFiniteSet(mine) /\ Cardinality(mine) \in Nat
  <2>1. mine \subseteq pass[g].seen
    BY DEF Of
  <2> HIDE DEF mine
  <2> QED
    BY <1>1, <2>1, FS_Subset, FS_CardinalityType DEF ReadsOK, TypeOK, Passes
<1>5. \A s \in mine : Rank(g, s) = Cardinality({t \in mine : <<t, s>> \in R})
  <2> SUFFICES ASSUME NEW s \in mine
               PROVE  {t \in Of(pass[g].seen, s.name) : Before(g, t, s)} = {t \in mine : <<t, s>> \in R}
    BY DEF Rank
  <2> QED
    BY DEF Of
<1>6. Left(g, u)' = {s \in mine : ~ (n > 0 /\ Rank(g, s) >= n)}
  <2>1. \A s \in mine : Id(s) \notin cut
    BY <1>1 DEF IInv, Cuts, Of, Ids
  <2>2. \A s \in mine : Id(s) \in Ids(Decide(g)) <=> s \in Decide(g)
    BY <1>1 DEF ReadsOK, Ids, Decide, Of
  <2>3. \A s \in mine : s \in Decide(g) <=> n > 0 /\ Rank(g, s) >= n
    BY DEF Decide, Of
  <2>4. Left(g, u)' = {s \in mine : Id(s) \notin cut \cup Ids(Decide(g))}
    BY <1>1, <1>2 DEF Left
  <2> HIDE DEF mine, n
  <2> QED
    BY <2>1, <2>2, <2>3, <2>4
<1>7. CASE n = 0
  BY <1>4, <1>6, <1>7 DEF Allowed
<1>8. CASE n > 0
  <2>1. \A s \in mine : Rank(g, s) \in Nat
    <3> SUFFICES ASSUME NEW s \in mine PROVE Cardinality({t \in mine : <<t, s>> \in R}) \in Nat
      BY <1>5
    <3> HIDE DEF mine, R
    <3> QED
      BY <1>4, FS_Subset, FS_CardinalityType
  <2>2. Left(g, u)' = K
    <3> HIDE DEF mine, R, n
    <3> QED
      BY <1>3, <1>5, <1>6, <1>8, <2>1 DEF Firsts
  <2>3. /\ \A x \in mine : <<x, x>> \notin R
        /\ \A x, y, z \in mine : <<x, y>> \in R /\ <<y, z>> \in R => <<x, z>> \in R
    BY <1>4, BeforeIsOrder
  <2>4. K = mine \/ n <= Cardinality(K)
    <3> HIDE DEF mine, R, n
    <3> QED
      BY <1>3, <1>4, <2>3, FirstSuffice
  <2>5. IsFiniteSet(K) /\ Cardinality(K) \in Nat
    <3>1. K \subseteq mine
      BY DEF Firsts
    <3> HIDE DEF mine, K
    <3> QED
      BY <1>4, <3>1, FS_Subset, FS_CardinalityType
  <2> HIDE DEF K, mine
  <2> QED
    BY <1>3, <1>4, <1>8, <2>2, <2>4, <2>5 DEF Allowed, mine
<1> QED
  BY <1>3, <1>7, <1>8

\* What the loop remembers of a session it has just read is not older than the
\* session's own last byte.
LEMMA JudgeRemembers ==
  ASSUME IInv, NEW g \in Guards, Judge(g)
  PROVE  Remembered'
<1>1. TypeOK /\ pass[g].pc = "opening" /\ UNCHANGED <<sess, life, events>> /\ Clock' = Clock
  BY DEF IInv, Judge, world, Clock
<1> SUFFICES ASSUME Calm' PROVE
      /\ \A a \in act' : /\ a.key[2] < life[a.key[1]].next
                         /\ \A s \in sess : a.key = <<s.inst, s.cid>> => s.since + a.rx <= a.changed
      /\ StaleIsDead'
  BY <1>1 DEF Remembered
<1>2. Calm
  BY <1>1 DEF Calm
<1>3. /\ \A a \in act : /\ a.key[2] < life[a.key[1]].next
                       /\ \A s \in sess : a.key = <<s.inst, s.cid>> => s.since + a.rx <= a.changed
      /\ StaleIsDead
  BY <1>2 DEF IInv, Remembered
<1>4. CASE g # Loop
  <2>1. act' = act /\ pass'[Loop] = pass[Loop]
    BY <1>1, <1>4, JudgeEffect, ParametersOK DEF Judge, Others
  <2> QED
    BY <1>1, <1>3, <2>1 DEF StaleIsDead
<1>5. CASE g = Loop
  <2>1. \A r \in pass[Loop].seen : r \in Rows /\ r.gen = 0 /\ r.cid < life[r.inst].next
    <3> SUFFICES ASSUME NEW r \in pass[Loop].seen PROVE r \in Rows /\ r.gen = 0 /\ r.cid < life[r.inst].next
      OBVIOUS
    <3>1. r \in Rows /\ RowOK(Loop, r)
      BY <1>1, ParametersOK DEF TypeOK, Passes, IInv, Reads, ReadsOK
    <3> QED
      BY <1>2, <3>1 DEF Calm, RowOK, Held, Rows
  <2>2. \A s \in sess : s \in Sessions /\ s.gen = 0 /\ s.since + s.rx <= Clock
                        /\ (s.alive => s.since + s.rx = Clock)
    BY <1>1, <1>2 DEF Calm, IInv, Current, TypeOK, Sessions
  <2>3. \A r \in pass[Loop].seen, s \in sess : Id(r) = Id(s) => r.rx = s.rx /\ r.since = s.since
    BY <1>1, <1>5 DEF IInv, UpToDate
  <2>4. ASSUME NEW a \in act' PROVE
          /\ a.key[2] < life[a.key[1]].next
          /\ \A s \in sess : a.key = <<s.inst, s.cid>> => s.since + a.rx <= a.changed
    <3>1. act' = UNION {IF Unmoved(s) # {} THEN Unmoved(s)
                       ELSE {[key |-> ActivityKey(s), rx |-> s.rx, changed |-> Clock]} : s \in pass[Loop].seen}
      BY <1>5 DEF Judge, Remember
    <3>2. PICK r \in pass[Loop].seen :
            a \in act \/ a = [key |-> <<r.inst, r.cid>>, rx |-> r.rx, changed |-> Clock]
      BY <2>4, <3>1 DEF Unmoved, ActivityKey
    <3>3. CASE a \in act
      BY <1>3, <3>3
    <3>4. CASE a = [key |-> <<r.inst, r.cid>>, rx |-> r.rx, changed |-> Clock]
      <4>1. \A s \in sess : a.key = <<s.inst, s.cid>> => Id(s) = Id(r)
        BY <2>1, <2>2, <3>4 DEF Id
      <4>2. \A s \in sess : a.key = <<s.inst, s.cid>> => s.since + a.rx <= a.changed
        BY <2>2, <2>3, <3>4, <4>1
      <4> QED
        BY <2>1, <3>4, <4>2
    <3> QED
      BY <3>2, <3>3, <3>4
  <2>5. ASSUME NEW s \in sess, Id(s) \in pass'[Loop].stale PROVE ~s.alive
    <3>1. pass'[Loop].stale = Ids({r \in pass[Loop].seen : Stale(Loop, r)})
      BY <1>1, <1>5, JudgeEffect
    <3>2. PICK r \in pass[Loop].seen : Stale(Loop, r) /\ Id(r) = Id(s)
      BY <2>5, <3>1 DEF Ids
    <3>3. PICK a \in act : /\ a.key = <<r.inst, r.cid>> /\ a.rx = r.rx
                          /\ Clock - a.changed >= StaleAfter
      BY <3>2 DEF Stale, Unmoved, ActivityKey
    <3>4. s.since + s.rx <= a.changed
      BY <1>3, <2>3, <3>2, <3>3 DEF Id
    <3>5. a.changed \in Nat /\ Clock \in Nat
      BY <1>1 DEF TypeOK, Clock, EventNames
    <3>6. s.since \in Nat /\ s.rx \in Nat
      BY <2>2 DEF Sessions
    <3> QED
      BY <2>2, <3>3, <3>4, <3>5, <3>6, ParametersOK
  <2> QED
    BY <1>1, <2>4, <2>5 DEF StaleIsDead
<1> QED
  BY <1>4, <1>5

\* The decision.
LEMMA JudgeKeeps ==
  ASSUME IInv, NEW g \in Guards, Judge(g)
  PROVE  IInv'
<1>1. TypeOK /\ Reads /\ pass[g] \in Passes
  BY DEF IInv, TypeOK
<1>2. UNCHANGED <<sess, life, refused, lock, client, events, cut>> /\ Clock' = Clock
  BY DEF Judge, world, Clock
<1>3. /\ PassTypes' /\ Others(g)
      /\ pass[g].pc = "opening" /\ pass'[g].pc = "killing"
      /\ pass'[g].kills = Ids(Verdict(g))
      /\ pass'[g].stale = Ids({s \in pass[g].seen : Stale(g, s)})
      /\ KeepsPolicy(g) /\ KeepsReads(g)
  BY <1>1, JudgeEffect
<1>4. \A h \in Guards : pass'[h].seen = pass[h].seen /\ pass'[h].conn = pass[h].conn
                        /\ pass'[h].todo = pass[h].todo
  BY <1>3 DEF Others, KeepsReads
<1>5. TypeOK'
  <2>1. act' \subseteq [key : Instances \X Nat, rx : Nat, changed : Nat]
    <3>1. CASE g = Loop
      <4>1. Clock \in Nat
        BY <1>1 DEF TypeOK, Clock, EventNames
      <4>2. \A r \in pass[Loop].seen :
              [key |-> ActivityKey(r), rx |-> r.rx, changed |-> Clock]
                \in [key : Instances \X Nat, rx : Nat, changed : Nat]
        BY <1>1, <3>1, <4>1 DEF Passes, Rows, ActivityKey
      <4> QED
        BY <1>1, <3>1, <4>2 DEF Judge, Remember, Unmoved, TypeOK
    <3>2. CASE g # Loop
      BY <1>1, <3>2 DEF Judge, TypeOK
    <3> QED
      BY <3>1, <3>2
  <2>2. \A h \in Guards : pass'[h].stale \cup pass'[h].kills \subseteq Ids(pass'[h].seen)
    <3>1. pass'[g].stale \cup pass'[g].kills \subseteq Ids(pass[g].seen)
      BY <1>3 DEF Verdict, Of, Decide, Ids
    <3> QED
      BY <1>1, <1>3, <1>4, <3>1 DEF TypeOK, Others
  <2> QED
    BY <1>1, <1>2, <1>3, <2>1, <2>2 DEF TypeOK, PassTypes
<1>6. Current'
  BY <1>2 DEF IInv, Current
<1>7. Reads'
  <2> SUFFICES ASSUME NEW h \in Guards PROVE ReadsOK(h)'
    BY DEF Reads
  <2>1. ReadsOK(h)
    BY <1>1 DEF Reads
  <2>2. \A r \in pass[h].seen : RowOK(h, r)'
    BY <1>2, <1>4, <2>1 DEF ReadsOK, RowOK, Held
  <2> QED
    BY <1>3, <1>4, <2>1, <2>2 DEF ReadsOK, Others
<1>8. Apart' /\ Cuts'
  BY <1>2, <1>3, <1>4 DEF IInv, Apart, Cuts, Others
<1>9. Spared'
  <2> SUFFICES ASSUME NEW h \in Guards PROVE SparesOK(h)'
    BY DEF Spared
  <2>1. CASE h = g
    <3> SUFFICES ASSUME pass'[g].victim = Nobody, NEW u \in Users \ pass'[g].refused
                 PROVE  Cardinality(Left(g, u)') >= Allowed(u, Cardinality(Of(pass'[g].seen, u)))
      BY <2>1 DEF SparesOK
    <3>1. pass[g].victim = Nobody /\ u \in Users \ pass[g].refused
      BY <1>3 DEF KeepsPolicy
    <3> QED
      BY <1>4, <3>1, JudgeSpares
  <2>2. CASE h # g
    BY <1>2, <1>3, <2>2 DEF IInv, Spared, SparesOK, Left, Others
  <2> QED
    BY <2>1, <2>2
<1>10. UpToDate'
  BY <1>2, <1>3, ParametersOK DEF IInv, UpToDate, Others
<1>11. Remembered'
  BY JudgeRemembers
<1> QED
  BY <1>5, <1>6, <1>7, <1>8, <1>9, <1>10, <1>11 DEF IInv

\* A pass that is not the one to end a session, or has it no longer to end,
\* spares what it spared.
LEMMA SparesOn ==
  ASSUME IInv, NEW h \in Guards, pass'[h].pc = pass[h].pc, pass'[h].seen = pass[h].seen, KeepsPolicy(h),
         \A s \in pass[h].seen : Id(s) \in cut' \cup pass'[h].kills => Id(s) \in cut \cup pass[h].kills
  PROVE  SparesOK(h)'
<1> SUFFICES ASSUME pass'[h].pc = "killing", pass'[h].victim = Nobody, NEW u \in Users \ pass'[h].refused
             PROVE  Cardinality(Left(h, u)') >= Allowed(u, Cardinality(Of(pass'[h].seen, u)))
  BY DEF SparesOK
<1>1. Cardinality(Left(h, u)) >= Allowed(u, Cardinality(Of(pass[h].seen, u)))
  BY DEF IInv, Spared, SparesOK, KeepsPolicy
<1>2. Left(h, u) \subseteq Left(h, u)' /\ Left(h, u)' \subseteq Of(pass[h].seen, u)
  BY DEF Left, Of
<1>3. IsFiniteSet(Of(pass[h].seen, u))
  <2>1. IsFiniteSet(pass[h].seen) /\ Of(pass[h].seen, u) \subseteq pass[h].seen
    BY DEF IInv, Reads, ReadsOK, Of
  <2> QED
    BY <2>1, FS_Subset
<1>4. Cardinality(Of(pass[h].seen, u)) \in Nat /\ LimitOf[u] \in Nat
  BY <1>3, FS_CardinalityType, ParametersOK
<1>5. Allowed(u, Cardinality(Of(pass[h].seen, u))) \in Nat
  BY <1>4 DEF Allowed
<1> DEFINE old == Left(h, u)
           new == Left(h, u)'
<1>6. /\ old \subseteq new /\ IsFiniteSet(new)
      /\ Cardinality(old) >= Allowed(u, Cardinality(Of(pass[h].seen, u)))
  BY <1>1, <1>2, <1>3, FS_Subset
<1> HIDE DEF old, new
<1>7. /\ IsFiniteSet(old) /\ Cardinality(old) \in Nat /\ Cardinality(new) \in Nat
      /\ Cardinality(old) <= Cardinality(new)
  BY <1>6, FS_Subset, FS_CardinalityType
<1>8. Cardinality(new) >= Allowed(u, Cardinality(Of(pass[h].seen, u)))
  BY <1>5, <1>6, <1>7
<1> QED
  BY <1>8 DEF new

\* A kill moves a session from those to end to those ended.
LEMMA KillKeeps ==
  ASSUME IInv, NEW g \in Guards, NEW k \in pass[g].kills, Kill(g, k) \/ KillFails(g, k)
  PROVE  IInv'
<1>1. TypeOK /\ Reads
  BY DEF IInv
<1>2. /\ UNCHANGED <<life, refused, lock, client, act>>
      /\ sess' \subseteq sess /\ (cut' = cut \/ cut' = cut \cup {k})
  BY DEF Kill, KillFails, world
<1>3. events' \in [EventNames -> Nat] /\ Clock' = Clock
  <2>1. UNCHANGED events \/ Happens("trouble")
    BY DEF Kill, KillFails
  <2> QED
    BY <1>1, <2>1, HappensElse DEF EventNames, Clock, TypeOK
<1>4. /\ PassTypes' /\ Others(g)
      /\ pass[g].pc = "killing" /\ pass'[g].pc = "killing"
      /\ pass'[g].kills = pass[g].kills \ {k} /\ pass'[g].stale = pass[g].stale
      /\ KeepsPolicy(g) /\ KeepsReads(g)
  BY <1>1, KillEffect
<1>5. \A h \in Guards : pass'[h].seen = pass[h].seen /\ pass'[h].conn = pass[h].conn
                        /\ pass'[h].todo = pass[h].todo
  BY <1>4 DEF Others, KeepsReads
<1>6. k \in Ids(pass[g].seen) /\ k \in Instances \X Nat \X Nat
  BY <1>1 DEF TypeOK, Passes
<1>7. \A h \in Guards : h # g => k \notin Ids(pass[h].seen)
  BY <1>6 DEF IInv, Apart
<1>8. TypeOK'
  <2>1. \A h \in Guards : pass'[h].stale \cup pass'[h].kills \subseteq Ids(pass'[h].seen)
    BY <1>1, <1>4, <1>5 DEF TypeOK, Others
  <2>2. sess' \subseteq Sessions /\ \A s, t \in sess' : Id(s) = Id(t) => s = t
    BY <1>1, <1>2 DEF TypeOK
  <2>3. cut' \subseteq Instances \X Nat \X Nat
    BY <1>1, <1>2, <1>6 DEF TypeOK
  <2> QED
    BY <1>1, <1>2, <1>3, <1>4, <2>1, <2>2, <2>3 DEF TypeOK, PassTypes
<1>9. Current' /\ UpToDate' /\ Remembered'
  <2>1. IsFiniteSet(sess') /\ sess' \subseteq Sessions /\ Thins
    BY <1>1, <1>2, FS_Subset DEF IInv, Current, TypeOK, Thins
  <2>2. /\ pass'[Loop].pc = "opening" => pass'[Loop] = pass[Loop]
        /\ pass'[Loop].stale \subseteq pass[Loop].stale
    BY <1>4, ParametersOK DEF Others
  <2> QED
    BY <1>2, <1>3, <2>1, <2>2, ThinsKeeps
<1>10. Reads'
  <2> SUFFICES ASSUME NEW h \in Guards PROVE ReadsOK(h)'
    BY DEF Reads
  <2>1. ReadsOK(h)
    BY <1>1 DEF Reads
  <2>2. \A r \in pass[h].seen : RowOK(h, r)'
    BY <1>2, <1>3, <1>5, <2>1 DEF ReadsOK, RowOK, Held
  <2> QED
    BY <1>4, <1>5, <2>1, <2>2 DEF ReadsOK, Others
<1>11. Apart'
  BY <1>5 DEF IInv, Apart
<1>12. Cuts'
  <2>1. \A h \in Guards : pass'[h].pc = "opening" => Ids(pass[h].seen) \cap cut' = {}
    BY <1>2, <1>4, <1>7 DEF IInv, Cuts, Others
  <2> QED
    BY <1>2, <1>5, <1>6, <2>1 DEF IInv, Cuts
<1>13. Spared'
  <2> SUFFICES ASSUME NEW h \in Guards PROVE SparesOK(h)'
    BY DEF Spared
  <2>1. \A s \in pass[h].seen : Id(s) \in cut' \cup pass'[h].kills => Id(s) \in cut \cup pass[h].kills
    BY <1>2, <1>4, <1>7 DEF Others, Ids
  <2>2. pass'[h].pc = pass[h].pc /\ KeepsPolicy(h)
    BY <1>4 DEF Others, KeepsPolicy
  <2> QED
    BY <1>5, <2>1, <2>2, SparesOn
<1> QED
  BY <1>8, <1>9, <1>10, <1>11, <1>12, <1>13 DEF IInv

\* The connections are closed and the lock is released.
LEMMA EndKeeps ==
  ASSUME IInv, NEW g \in Guards, EndPass(g)
  PROVE  IInv'
<1>1. TypeOK /\ Reads
  BY DEF IInv
<1>2. /\ UNCHANGED <<sess, life, refused, act, events>> /\ Clock' = Clock
      /\ lock' = Release(lock, g) /\ client' = [i \in Instances |-> Release(client[i], g)]
      /\ cut' = cut \cap UNION {Ids(pass'[h].seen) : h \in Guards}
  BY DEF EndPass, world, Clock
<1>3. PassTypes' /\ Others(g) /\ pass'[g] = NoPass
  BY <1>1, EndEffect
<1>4. /\ pass'[g].pc = "idle" /\ pass'[g].seen = {}
      /\ pass'[g].stale = {} /\ pass'[g].kills = {}
  BY <1>3 DEF NoPass
<1>5. TypeOK'
  <2>1. \A h \in Guards : pass'[h].stale \cup pass'[h].kills \subseteq Ids(pass'[h].seen)
    BY <1>1, <1>3, <1>4 DEF TypeOK, Others
  <2>2. lock' \in Guards \cup {Nobody} /\ client' \in [Instances -> Guards \cup {Nobody}]
    BY <1>1, <1>2 DEF TypeOK, Release
  <2> QED
    BY <1>1, <1>2, <1>3, <2>1, <2>2 DEF TypeOK, PassTypes
<1>6. Current' /\ UpToDate' /\ Remembered'
  <2>1. IsFiniteSet(sess') /\ sess' \subseteq Sessions /\ Thins
    BY <1>1, <1>2 DEF IInv, Current, TypeOK, Thins
  <2>2. /\ pass'[Loop].pc = "opening" => pass'[Loop] = pass[Loop]
        /\ pass'[Loop].stale \subseteq pass[Loop].stale
    BY <1>3, <1>4, ParametersOK DEF Others
  <2> QED
    BY <1>2, <2>1, <2>2, ThinsKeeps
<1>7. Reads'
  <2> SUFFICES ASSUME NEW h \in Guards PROVE ReadsOK(h)'
    BY DEF Reads
  <2>1. CASE h = g
    BY <1>4, <2>1, FS_EmptySet DEF ReadsOK
  <2>2. CASE h # g
    <3>1. ReadsOK(h) /\ pass'[h] = pass[h] /\ pass[h] \in Passes
      BY <1>1, <1>3, <2>2 DEF Reads, Others, TypeOK
    <3>2. \A r \in pass[h].seen : RowOK(h, r)'
      BY <1>2, <2>2, <3>1 DEF ReadsOK, RowOK, Held, Release, Passes, Rows
    <3> QED
      BY <3>1, <3>2 DEF ReadsOK
  <2> QED
    BY <2>1, <2>2
<1>8. Apart'
  BY <1>3, <1>4 DEF IInv, Apart, Others, Ids
<1>9. Cuts'
  <2>1. \A k \in cut' : \E h \in Guards : k \in Ids(pass'[h].seen)
    BY <1>2
  <2>2. \A h \in Guards : pass'[h].pc = "opening" => Ids(pass'[h].seen) \cap cut' = {}
    BY <1>2, <1>3, <1>4 DEF IInv, Cuts, Others
  <2> QED
    BY <2>1, <2>2 DEF Cuts
<1>10. Spared'
  <2> SUFFICES ASSUME NEW h \in Guards PROVE SparesOK(h)'
    BY DEF Spared
  <2>1. CASE h = g
    BY <1>4, <2>1 DEF SparesOK
  <2>2. CASE h # g
    <3>1. pass'[h] = pass[h] /\ cut' \subseteq cut
      BY <1>2, <1>3, <2>2 DEF Others
    <3> QED
      BY <3>1, SparesOn DEF KeepsPolicy
  <2> QED
    BY <2>1, <2>2
<1> QED
  BY <1>5, <1>6, <1>7, <1>8, <1>9, <1>10 DEF IInv

-----------------------------------------------------------------------------
(* Theorems.                                                               *)

\* Every step.
LEMMA StepKeeps ==
  ASSUME IInv, [Next]_vars
  PROVE  IInv'
<1>1. ASSUME NEW i \in Instances, RestartInstance(i) \/ \E u \in Users : Connect(i, u)
      PROVE  IInv'
  BY <1>1, RestartKeeps, ConnectKeeps
<1>2. ASSUME NEW s \in sess, Listed(s) \/ DeviceGone(s) \/ Timeout(s)
      PROVE  IInv'
  BY <1>2, ThinningKeeps
<1>3. ASSUME NEW u \in Users, ChangeAccount(u)
      PROVE  IInv'
  BY <1>3, AccountKeeps
<1>4. CASE Tick
  BY <1>4, TickKeeps
<1>5. ASSUME NEW g \in Guards,
             \/ BeginPass(g) \/ LockFails(g) \/ Lock(g) \/ Judge(g) \/ EndPass(g)
             \/ \E u \in Users : BeginKick(g, u)
             \/ \E i \in Instances : OpenInst(g, i) \/ SkipInst(g, i)
             \/ \E k \in pass[g].kills : Kill(g, k) \/ KillFails(g, k)
      PROVE  IInv'
  BY <1>5, BeginKeeps, LockKeeps, OpenKeeps, SkipKeeps, JudgeKeeps, KillKeeps, EndKeeps
<1>6. CASE UNCHANGED vars
  <2>1. UNCHANGED <<sess, life, refused, lock, client, pass, act, events, cut>> /\ Clock' = Clock
    BY <1>6 DEF vars, world, Clock
  <2>2. TypeOK'
    BY <2>1 DEF IInv, TypeOK
  <2>3. Current' /\ UpToDate' /\ Remembered'
    BY <2>1, ThinsKeeps DEF IInv, TypeOK, Current, Thins
  <2>4. Reads' /\ Apart' /\ Cuts' /\ Spared'
    BY <2>1, PassesKeep DEF IInv
  <2> QED
    BY <2>2, <2>3, <2>4 DEF IInv
<1> QED
  BY <1>1, <1>2, <1>3, <1>4, <1>5, <1>6 DEF Next, PassStep

\* The invariant the theorems rest on.
THEOREM Invariance == Spec => []IInv
<1>1. IInv /\ [Next]_vars => IInv'
  BY StepKeeps
<1> QED
  BY Initially, <1>1, PTL DEF Spec

\* A pass only ends or judges sessions it has read, whatever devices, instances
\* and other passes do meanwhile.
THEOREM TypeCorrect == Spec => []TypeOK
<1>1. IInv => TypeOK
  BY DEF IInv
<1> QED
  BY Invariance, <1>1, PTL

\* The device limit (enforce, Decide): however many passes run at once, with or
\* without the lock, guards leave every account as many of the sessions a pass
\* read as its limit allows.
THEOREM LimitKept == Spec => []KeepsLimit
<1>1. IInv => KeepsLimit
  <2> SUFFICES ASSUME IInv, NEW g \in Guards, pass[g].pc = "killing", pass[g].victim = Nobody,
                      NEW u \in Users \ pass[g].refused
               PROVE  Cardinality({s \in Of(pass[g].seen, u) : Id(s) \notin cut})
                        >= Allowed(u, Cardinality(Of(pass[g].seen, u)))
    BY DEF KeepsLimit
  <2> DEFINE old == Left(g, u)
             all == {s \in Of(pass[g].seen, u) : Id(s) \notin cut}
             mine == Of(pass[g].seen, u)
  <2>1. Cardinality(old) >= Allowed(u, Cardinality(mine))
    BY DEF IInv, Spared, SparesOK
  <2>2. old \subseteq all /\ all \subseteq pass[g].seen /\ mine \subseteq pass[g].seen
    BY DEF Left, Of
  <2>3. IsFiniteSet(pass[g].seen)
    BY DEF IInv, Reads, ReadsOK
  <2> HIDE DEF old, all, mine
  <2>4. IsFiniteSet(all) /\ IsFiniteSet(mine)
    BY <2>2, <2>3, FS_Subset
  <2>5. /\ IsFiniteSet(old) /\ Cardinality(old) \in Nat /\ Cardinality(all) \in Nat
        /\ Cardinality(mine) \in Nat /\ Cardinality(old) <= Cardinality(all)
    BY <2>2, <2>4, FS_Subset, FS_CardinalityType
  <2>6. Allowed(u, Cardinality(mine)) \in Nat
    BY <2>5, ParametersOK DEF Allowed
  <2>7. Cardinality(all) >= Allowed(u, Cardinality(mine))
    BY <2>1, <2>5, <2>6
  <2> QED
    BY <2>7 DEF all, mine
<1> QED
  BY Invariance, <1>1, PTL

\* While no instance restarts, the loop never takes the session of a device that
\* is there for stale (activity.mark).
THEOREM StaleAreDead == Spec => []StaleIsDead
<1>1. IInv => StaleIsDead
  BY DEF IInv, Remembered, StaleIsDead, Calm
<1> QED
  BY Invariance, <1>1, PTL

\* A kill ends the session the pass read or none: over a connection that still
\* stands a client id is of the same process, and another process has another.
THEOREM KillsHitTargets == Spec => KillHitsTarget
<1>1. IInv /\ [Next]_vars =>
        [\A g \in Guards : \A k \in pass[g].kills :
           Kill(g, k) => Ids(sess \ sess') \subseteq {k}]_vars
  <2> SUFFICES ASSUME IInv, NEW g \in Guards, NEW k \in pass[g].kills, Kill(g, k),
                      NEW s \in sess, s \notin sess'
               PROVE  Id(s) = k
    BY DEF Ids
  <2>1. /\ pass[g].conn[k[1]] = life[k[1]].gen
        /\ s.inst = k[1] /\ s.cid = k[3]
    BY DEF Kill
  <2>2. PICK r \in pass[g].seen : k = Id(r)
    BY DEF IInv, TypeOK, Ids
  <2>3. k[1] = r.inst /\ k[2] = r.gen /\ r.gen = pass[g].conn[r.inst]
    BY <2>2 DEF Id, IInv, Reads, ReadsOK, RowOK
  <2>4. s.gen = life[s.inst].gen
    BY DEF IInv, Current
  <2> QED
    BY <2>1, <2>2, <2>3, <2>4 DEF Id
<1> QED
  BY Invariance, <1>1, PTL DEF Spec, KillHitsTarget

=============================================================================
