------------------------------- MODULE OvpnGuard -------------------------------
(***************************************************************************)
(* The device-limit guard of OpenVPN (src/internal/ovpnguard).             *)
(*                                                                         *)
(* A pass opens one management connection per instance, reads the session  *)
(* list on it, decides, and kills over the same connections.  Passes run   *)
(* in the loop of the guard process, in `hexplus ovpnguard once` and in a  *)
(* menu kick; a lock file serialises them when it can be taken.  Around    *)
(* them devices connect and vanish, accounts are refused and renewed, and  *)
(* instances restart, which numbers their clients from 0 again.            *)
(*                                                                         *)
(* A tick of the clock is one Interval.  A device that is there sends      *)
(* keepalive pings more often than that, so its session's received-bytes   *)
(* counter moves in every tick.                                            *)
(***************************************************************************)
EXTENDS Integers, FiniteSets

CONSTANTS
  Instances,     \* OpenVPN processes, as numbers: the order of their names
  Users,
  LimitOf,       \* device limit of each user; 0 is none
  Guards,        \* the processes that make passes
  Loop,          \* the one that remembers activity across passes
  Nobody,
  StaleAfter,    \* ticks without a byte after which a session is stale
  Limits         \* bound: how often each event may happen

EventNames == {"connect", "tick", "pass", "trouble"}

ASSUME ParametersOK ==
  /\ Instances \subseteq Nat /\ LimitOf \in [Users -> Nat]
  /\ Loop \in Guards /\ Nobody \notin Guards \cup Users
  /\ StaleAfter \in Nat \ {0}
  /\ Limits \in [EventNames -> Nat]

VARIABLES
  sess,      \* sessions of all instances
  life,      \* per instance: how often it restarted, the next client id
  refused,   \* accounts that are deleted, expired or locked
  lock,      \* who holds the lock file
  client,    \* per instance: the guard its management interface serves
  pass,      \* per guard: the pass it is making
  act,       \* the loop's memory: when each session's counter last moved
  events,    \* history: how often each event has happened
  cut        \* history: sessions of passes under way that a guard has ended

world == <<sess, life, refused>>
vars  == <<world, lock, client, pass, act, events, cut>>

\* todo: instances to ask; conn: the restart count each connection was made
\* under, or -1; seen: the sessions read; stale: those of them that are taken
\* for dead; kills: those still to end.
NoPass ==
  [pc |-> "idle", refused |-> {}, victim |-> Nobody, todo |-> {},
   conn |-> [i \in Instances |-> -1], seen |-> {}, stale |-> {}, kills |-> {}]

Clock == events["tick"]
Happens(e) == events[e] < Limits[e] /\ events' = [events EXCEPT ![e] = @ + 1]

\* One session in the whole history; what the guard knows it by is less.
Id(s) == <<s.inst, s.gen, s.cid>>
Ids(S) == {Id(s) : s \in S}
Of(S, u) == {s \in S : s.name = u}

Init ==
  /\ sess = {} /\ life = [i \in Instances |-> [gen |-> 0, next |-> 0]]
  /\ refused = {}
  /\ lock = Nobody /\ client = [i \in Instances |-> Nobody]
  /\ pass = [g \in Guards |-> NoPass]
  /\ act = {} /\ cut = {}
  /\ events = [e \in EventNames |-> 0]

-----------------------------------------------------------------------------
(* Devices, accounts and instances.                                        *)

guards == <<lock, client, pass, act, cut>>

\* The auth script lets an account in that is not refused.  Until the handshake
\* is over the session is listed as UNDEF.
Connect(i, u) ==
  /\ u \notin refused
  /\ Happens("connect")
  /\ sess' = sess \cup {[inst |-> i, gen |-> life[i].gen, cid |-> life[i].next, name |-> u,
                         since |-> Clock, alive |-> TRUE, listed |-> FALSE, rx |-> 0]}
  /\ life' = [life EXCEPT ![i].next = @ + 1]
  /\ UNCHANGED <<refused, guards>>

Replace(s, t) == sess' = (sess \ {s}) \cup {t}

Listed(s) ==
  /\ ~s.listed
  /\ Replace(s, [s EXCEPT !.listed = TRUE])
  /\ UNCHANGED <<life, refused, guards, events>>

\* The device leaves, roams or loses power; OpenVPN may take until its keepalive
\* timeout to notice.  (A session not yet listed counts for nobody.)
DeviceGone(s) ==
  /\ s.alive /\ s.listed
  /\ Replace(s, [s EXCEPT !.alive = FALSE])
  /\ UNCHANGED <<life, refused, guards, events>>

Timeout(s) ==
  /\ ~s.alive
  /\ sess' = sess \ {s}
  /\ UNCHANGED <<life, refused, guards, events>>

\* MUTANT: the sessions of the old process are still counted.
RestartKeepsSessions(i) ==
  /\ Happens("trouble")
  /\ life' = [life EXCEPT ![i] = [gen |-> @.gen, next |-> 0]]
  /\ client' = [client EXCEPT ![i] = Nobody]
  /\ UNCHANGED <<sess, refused, lock, pass, act, cut>>

\* The management interface restarts with the instance.
RestartInstance(i) ==
  /\ Happens("trouble")
  /\ sess' = {s \in sess : s.inst # i}
  /\ life' = [life EXCEPT ![i] = [gen |-> @.gen + 1, next |-> 0]]
  /\ client' = [client EXCEPT ![i] = Nobody]
  /\ UNCHANGED <<refused, lock, pass, act, cut>>

\* The menu deletes, locks, expires or renews an account.
ChangeAccount(u) ==
  /\ Happens("trouble")
  /\ refused' = IF u \in refused THEN refused \ {u} ELSE refused \cup {u}
  /\ UNCHANGED <<sess, life, guards>>

\* The loop reads and decides within an interval: an exchange ends after 5 s.
Tick ==
  /\ pass[Loop].pc # "opening"
  /\ Happens("tick")
  /\ sess' = {IF s.alive THEN [s EXCEPT !.rx = @ + 1] ELSE s : s \in sess}
  /\ UNCHANGED <<life, refused, guards>>

-----------------------------------------------------------------------------
(* A pass.                                                                 *)

Step(g, l) == pass' = [pass EXCEPT ![g].pc = l]

\* enforce: the policy is read before the lock is taken.
BeginPass(g) ==
  /\ pass[g].pc = "idle"
  /\ IF g = Loop THEN UNCHANGED events ELSE Happens("pass")
  /\ pass' = [pass EXCEPT ![g].pc = "locking", ![g].refused = refused]
  /\ UNCHANGED <<world, lock, client, act, cut>>

\* Kick: every session of one name, whatever the policy.
BeginKick(g, u) ==
  /\ pass[g].pc = "idle" /\ g # Loop
  /\ Happens("pass")
  /\ pass' = [pass EXCEPT ![g].pc = "locking", ![g].victim = u]
  /\ UNCHANGED <<world, lock, client, act, cut>>

Opened(g) == pass' = [pass EXCEPT ![g].pc = "opening", ![g].todo = Instances]

Lock(g) ==
  /\ pass[g].pc = "locking" /\ lock = Nobody
  /\ lock' = g
  /\ Opened(g)
  /\ UNCHANGED <<world, client, act, events, cut>>

\* Without the lock the pass goes on all the same.
LockFails(g) ==
  /\ pass[g].pc = "locking"
  /\ Happens("trouble")
  /\ Opened(g)
  /\ UNCHANGED <<world, lock, client, act, cut>>

\* What `status 2` tells of instance i; the restart count is not in it, and
\* tells sessions apart only in the properties.
StatusOf(i) ==
  {[inst |-> i, gen |-> s.gen, cid |-> s.cid, name |-> s.name, since |-> s.since, rx |-> s.rx] :
     s \in {t \in sess : t.inst = i /\ t.listed}}

\* MUTANT: the connection is closed as soon as the status is read.
OpenAndClose(g, i) ==
  /\ pass[g].pc = "opening" /\ i \in pass[g].todo
  /\ client[i] = Nobody
  /\ pass' = [pass EXCEPT ![g].todo = @ \ {i}, ![g].conn[i] = life[i].gen,
                          ![g].seen = @ \cup StatusOf(i)]
  /\ UNCHANGED <<world, client, lock, act, events, cut>>

\* An instance serves one management client at a time.
OpenInst(g, i) ==
  /\ pass[g].pc = "opening" /\ i \in pass[g].todo
  /\ client[i] = Nobody
  /\ client' = [client EXCEPT ![i] = g]
  /\ pass' = [pass EXCEPT ![g].todo = @ \ {i}, ![g].conn[i] = life[i].gen,
                          ![g].seen = @ \cup StatusOf(i)]
  /\ UNCHANGED <<world, lock, act, events, cut>>

\* The instance is serving another guard, or does not answer: it is left out.
SkipInst(g, i) ==
  /\ pass[g].pc = "opening" /\ i \in pass[g].todo
  /\ IF client[i] # Nobody THEN UNCHANGED events ELSE Happens("trouble")
  /\ pass' = [pass EXCEPT ![g].todo = @ \ {i}]
  /\ UNCHANGED <<world, lock, client, act, cut>>

\* MUTANT: activity is remembered per client id only.
ActivityKeyCid(s) == s.cid

ActivityKey(s) == <<s.inst, s.cid>>

\* The loop's last record of a session whose counter has not moved since.
Unmoved(s) == {a \in act : a.key = ActivityKey(s) /\ a.rx = s.rx}

Stale(g, s) == g = Loop /\ \E a \in Unmoved(s) : Clock - a.changed >= StaleAfter

\* activity.mark
Remember(S) ==
  act' = UNION {IF Unmoved(s) # {} THEN Unmoved(s)
                ELSE {[key |-> ActivityKey(s), rx |-> s.rx, changed |-> Clock]} : s \in S}

\* The order of a user's sessions: those that stay come first.
Before(g, s, t) ==
  \/ ~Stale(g, s) /\ Stale(g, t)
  \/ /\ Stale(g, s) = Stale(g, t)
     /\ \/ s.since > t.since
        \/ s.since = t.since /\ s.inst < t.inst
        \/ s.since = t.since /\ s.inst = t.inst /\ s.cid > t.cid

Rank(g, s) == Cardinality({t \in Of(pass[g].seen, s.name) : Before(g, t, s)})

\* MUTANT: a refused account is only held to its limit.
DecideLimitOnly(g) ==
  {s \in pass[g].seen : LimitOf[s.name] > 0 /\ Rank(g, s) >= LimitOf[s.name]}

Decide(g) ==
  {s \in pass[g].seen :
     \/ s.name \in pass[g].refused
     \/ LimitOf[s.name] > 0 /\ Rank(g, s) >= LimitOf[s.name]}

\* Every instance has answered or been left out.
Judge(g) ==
  /\ pass[g].pc = "opening" /\ pass[g].todo = {}
  /\ LET kills == IF pass[g].victim # Nobody THEN Of(pass[g].seen, pass[g].victim)
                  ELSE Decide(g)
         stale == {s \in pass[g].seen : Stale(g, s)}
     IN pass' = [pass EXCEPT ![g].pc = "killing", ![g].kills = Ids(kills), ![g].stale = Ids(stale)]
  /\ IF g = Loop THEN Remember(pass[g].seen) ELSE UNCHANGED act
  /\ UNCHANGED <<world, lock, client, events, cut>>

Ended(g, k) == pass' = [pass EXCEPT ![g].kills = @ \ {k}]

\* MUTANT: the kill goes out on a connection of its own.
KillOnNewConnection(g, k) ==
  /\ pass[g].pc = "killing" /\ k \in pass[g].kills
  /\ sess' = {s \in sess : ~(s.inst = k[1] /\ s.cid = k[3])}
  /\ cut' = cut \cup {k}
  /\ Ended(g, k)
  /\ UNCHANGED <<life, refused, lock, client, act, events>>

\* client-kill names an instance's connection and a client id; it fails when
\* the session has gone, or the instance has restarted and broken the
\* connection.
Kill(g, k) ==
  /\ pass[g].pc = "killing" /\ k \in pass[g].kills
  /\ IF pass[g].conn[k[1]] = life[k[1]].gen
     THEN sess' = {s \in sess : ~(s.inst = k[1] /\ s.cid = k[3])}
     ELSE UNCHANGED sess
  /\ cut' = cut \cup {k}
  /\ Ended(g, k)
  /\ UNCHANGED <<life, refused, lock, client, act, events>>

\* The connection's deadline has passed; the other kills go on.
KillFails(g, k) ==
  /\ pass[g].pc = "killing" /\ k \in pass[g].kills
  /\ Happens("trouble")
  /\ Ended(g, k)
  /\ UNCHANGED <<world, lock, client, act, cut>>

Release(f, g) == IF f = g THEN Nobody ELSE f

\* The deferred close of every connection, then the lock.
EndPass(g) ==
  /\ pass[g].pc = "killing" /\ pass[g].kills = {}
  /\ lock' = Release(lock, g)
  /\ client' = [i \in Instances |-> Release(client[i], g)]
  /\ pass' = [pass EXCEPT ![g] = NoPass]
  /\ cut' = cut \cap UNION {Ids(pass'[h].seen) : h \in Guards}
  /\ UNCHANGED <<world, act, events>>

-----------------------------------------------------------------------------
PassStep(g) ==
  \/ Lock(g) \/ Judge(g) \/ EndPass(g)
  \/ \E i \in Instances : OpenInst(g, i) \/ (client[i] # Nobody /\ SkipInst(g, i))
  \/ \E k \in pass[g].kills : Kill(g, k)

Next ==
  \/ \E i \in Instances : RestartInstance(i) \/ \E u \in Users : Connect(i, u)
  \/ \E s \in sess : Listed(s) \/ DeviceGone(s) \/ Timeout(s)
  \/ \E u \in Users : ChangeAccount(u)
  \/ Tick
  \/ \E g \in Guards :
       \/ BeginPass(g) \/ PassStep(g) \/ LockFails(g)
       \/ \E u \in Users : BeginKick(g, u)
       \/ \E i \in Instances : SkipInst(g, i)
       \/ \E k \in pass[g].kills : KillFails(g, k)

Spec == Init /\ [][Next]_vars

\* The ticker fires, and a pass that began comes to its end.
Fairness == WF_vars(BeginPass(Loop)) /\ \A g \in Guards : WF_vars(PassStep(g))

FairSpec == Spec /\ Fairness

-----------------------------------------------------------------------------
(* Properties.                                                             *)

Sessions ==
  [inst : Instances, gen : Nat, cid : Nat, name : Users, since : Nat,
   alive : BOOLEAN, listed : BOOLEAN, rx : Nat]

Rows == [inst : Instances, gen : Nat, cid : Nat, name : Users, since : Nat, rx : Nat]

Passes ==
  [pc : {"idle", "locking", "opening", "killing"}, refused : SUBSET Users,
   victim : Users \cup {Nobody}, todo : SUBSET Instances, conn : [Instances -> Int],
   seen : SUBSET Rows, stale : SUBSET (Instances \X Nat \X Nat),
   kills : SUBSET (Instances \X Nat \X Nat)]

\* The variables hold what the code can put there; client ids tell the sessions
\* of an instance apart, and a pass ends or judges only what it has read.
TypeOK ==
  /\ sess \subseteq Sessions
  /\ life \in [Instances -> [gen : Nat, next : Nat]] /\ refused \subseteq Users
  /\ lock \in Guards \cup {Nobody} /\ client \in [Instances -> Guards \cup {Nobody}]
  /\ pass \in [Guards -> Passes]
  /\ act \subseteq [key : Instances \X Nat, rx : Nat, changed : Nat]
  /\ events \in [EventNames -> Nat] /\ cut \subseteq Instances \X Nat \X Nat
  /\ \A g \in Guards : pass[g].stale \cup pass[g].kills \subseteq Ids(pass[g].seen)
  /\ \A s, t \in sess : Id(s) = Id(t) => s = t

\* A kill never ends a session the pass did not read: client ids start at 0
\* again when an instance restarts between the status and the kill.
KillHitsTarget ==
  [][\A g \in Guards : \A k \in pass[g].kills :
       Kill(g, k) => Ids(sess \ sess') \subseteq {k}]_vars

Allowed(u, n) == IF LimitOf[u] = 0 \/ n <= LimitOf[u] THEN n ELSE LimitOf[u]

\* However many passes run at once, with or without the lock and with
\* different views of who is stale, guards leave every account as many of the
\* sessions a pass read as its limit allows.
KeepsLimit ==
  \A g \in Guards :
    pass[g].pc = "killing" /\ pass[g].victim = Nobody =>
      \A u \in Users \ pass[g].refused :
        LET mine == Of(pass[g].seen, u)
        IN Cardinality({s \in mine : Id(s) \notin cut}) >= Allowed(u, Cardinality(mine))

\* While no instance restarts, the loop never takes the session of a device
\* that is there for stale (activity.mark, keyed by instance and client id).
StaleIsDead ==
  (\A i \in Instances : life[i].gen = 0) =>
    \A s \in sess : Id(s) \in pass[Loop].stale => ~s.alive

\* When devices, accounts and faults come to rest, no account holds more
\* sessions than it may, and a refused account holds none.
LimitsHold ==
  \A u \in Users :
    <>[](LET n == Cardinality({s \in Of(sess, u) : s.listed})
         IN IF u \in refused THEN n = 0 ELSE n = Allowed(u, n))

=============================================================================
