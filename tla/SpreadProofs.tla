----------------------------- MODULE SpreadProofs -----------------------------
(***************************************************************************)
(* What CPU spreading guarantees for any number of instances, ports and    *)
(* limits: module Spread's types, its rules, and that it implements module *)
(* Balance.                                                                *)
(*                                                                         *)
(* Every operation is a list of steps.  The invariant says what the steps  *)
(* that are left have to do with the state: an operation's steps are in a  *)
(* fixed order (Phase, Turn), belong to it (Belongs) and come together     *)
(* (Together); a rule is right, or the step that makes it right is left    *)
(* (RulesOK); nobody who gets a share of the connections is removed before *)
(* the share is taken from him (SharesOK); and a registered worker runs as *)
(* the registry says while the primary runs, unless a failure left that in *)
(* doubt (WorkersOK).  A failed step leaves a list of the same kind.       *)
(***************************************************************************)
EXTENDS Spread, FiniteSetTheorems, WellFoundedInduction, SequenceTheorems, TLAPS

\* The steps that operations are made of.
ApplyVerbs == {"nat", "input", "oldJumps", "jump", "dropIn", "line"}
TeardownVerbs == {"unjump", "noNat", "noInput", "noLine", "noDropIn"}
AddVerbs == {"clear", "conf", "unit", "save"}
RemoveVerbs == {"uncap", "stop", "noUnit", "noConf", "forget", "drop"}
MainVerbs ==
  ApplyVerbs \cup TeardownVerbs
    \cup {"noCaps", "check", "halt", "noGuard", "wipe", "disable", "want", "confirm", "port"}
    \cup GuardParts
IdVerbs == AddVerbs \cup (RemoveVerbs \ {"stop"}) \cup {"follow", "inject", "await"}
Verbs == MainVerbs \cup IdVerbs
           \cup {"stop", "start", "restart", "cap", "restore", "dup", "manage", "unmanage"}

Steps == Verbs \X Procs

\* The steps of a list, those left to do, and whether <<v, p>> is one of them.
StepsIn(s) == {s[k] : k \in 1..Len(s)}
Left == StepsIn(op.todo)
Has(v, p) == <<v, p>> \in Left
Does(v) == \E p \in Procs : Has(v, p)

\* The order of the steps in any operation.
Phase(v) ==
  CASE v = "noCaps" -> 0
    [] v = "unjump" -> 1
    [] v = "noNat" -> 2
    [] v = "noInput" -> 3
    [] v = "noLine" -> 4
    [] v = "noDropIn" -> 5
    [] v = "check" -> 6
    [] v \in RemoveVerbs -> 7
    [] v = "halt" -> 8
    [] v = "noGuard" -> 9
    [] v = "port" -> 10
    [] v \in AddVerbs \cup {"cap", "restore", "dup", "manage", "unmanage"} -> 11
    [] v \in {"follow", "inject"} -> 12
    [] v \in {"want"} \cup GuardParts -> 13
    [] v = "start" -> 14
    [] v = "await" -> 15
    [] v = "nat" -> 16
    [] v = "input" -> 17
    [] v = "oldJumps" -> 18
    [] v = "jump" -> 19
    [] v = "dropIn" -> 20
    [] v = "line" -> 21
    [] v \in {"restart", "confirm"} -> 22
    [] OTHER -> 23

\* The order of an instance's steps.
Turn(v) ==
  CASE v \in {"conf", "stop"} -> 1
    [] v \in {"unit", "noUnit"} -> 2
    [] v \in {"save", "noConf"} -> 3
    [] v = "forget" -> 4
    [] v = "drop" -> 5
    [] OTHER -> 0

\* x may come before y.
InOrder(x, y) ==
  /\ x # y
  /\ Phase(x[1]) <= Phase(y[1])
  /\ x[2] = y[2] /\ Phase(x[1]) = Phase(y[1]) => Turn(x[1]) <= Turn(y[1])

\* Step x may be one of operation o.
Belongs(o, x) ==
  /\ x[1] \in MainVerbs => x[2] = Main
  /\ x[1] \in IdVerbs => x[2] \in Ids
  /\ x[1] \in ApplyVerbs => o.name \in {"enable", "apply", "port"}
  /\ x[1] \in {"want", "await"} => o.name = "enable"
  /\ x[1] \in AddVerbs => o.name \in {"enable", "extra"} /\ x[2] \in DOMAIN o.ports
       /\ (o.name = "enable" => o.ports[x[2]] \in WorkerPorts)
       /\ (o.name = "extra" => o.ports[x[2]] = 0)
  /\ x[1] \in TeardownVerbs \cup {"check", "uncap"} => o.name \in {"disable", "removeVpn"}
  /\ x[1] \in RemoveVerbs /\ x[2] \in Ids =>
       o.name \in {"disable", "removeVpn", "remove", "uninstall"}
  /\ x = <<"stop", Main>> => o.name = "control"
  /\ x[1] = "start" => o.name \in {"enable", "extra", "control"}
  /\ x[1] = "start" /\ o.name \in {"enable", "extra"} => x[2] \in Ids
  /\ x[1] \in {"restart", "confirm"} =>
       o.name \in {"limit", "unlimit", "multilogin", "port", "control", "guard", "unguard"}
  /\ x[1] \in {"wipe"} => o.name = "removeVpn"
  /\ x[1] = "halt" => o.name \in {"removeVpn", "uninstall"}
  /\ x[1] = "disable" => o.name = "uninstall"
  /\ x[1] = "cap" => o.value \in Mbps
  /\ x[1] = "port" => o.value \in PublicPorts /\ o.name = "port"
  /\ o.name \in {"apply", "port"} => x[1] \in ApplyVerbs \cup {"port", "restart"}

Ports == UNION {[D -> WorkerPorts \cup {0}] : D \in SUBSET Ids}
Ops == [name : Names, for : Procs, ports : Ports, value : Mbps \cup PublicPorts \cup {0, 1},
        was : Mbps, failed : BOOLEAN, todo : Seq(Steps)]

Goes(s) ==
  /\ s \in Seq(Steps)
  /\ \A j, k \in 1..Len(s) : j < k => InOrder(s[j], s[k])

Fits(o) == o \in Ops /\ Goes(o.todo) /\ \A x \in StepsIn(o.todo) : Belongs(o, x)
PlanOK == Fits(op) /\ (op.todo = <<>> => op = Idle)

\* The workers that will not be removed.
Staying == {w \in Workers : ~Has("drop", w)}
Sharing == IF jumps = {} THEN {} ELSE nat
Certain == "rules" \notin doubt
Sound == "procs" \notin doubt

Typed ==
  /\ TypeOK
  /\ \A i \in Ids : /\ conf[i].port \in WorkerPorts \cup {0} /\ proc[i].port \in WorkerPorts \cup {0}
                    /\ port[i] # 0 <=> i \in Workers
  /\ \A p \in due : proc[p] = Absent
  /\ conf[Main].port \in PublicPorts \/ conf[Main] = Absent
  /\ conf[Main] = Absent =>
       unit[Main] = "none" /\ Workers = {} /\ op.name \notin {"enable", "port", "apply"}
  /\ "wipe" \in {x[1] : x \in Left} => Has("halt", Main) \/ unit[Main] = "none"

\* Which steps an operation takes together.
Together ==
  /\ \A x \in Left : x[1] \in ApplyVerbs => Has("line", Main)
  /\ Has("line", Main) => Workers # {} \/ (op.name = "enable" /\ Does("save"))
  /\ \A x \in Left : (op.name = "enable" /\ Phase(x[1]) < 16) \/ (x[1] = "port" /\ Workers # {}) =>
       \A v \in ApplyVerbs : Has(v, Main)
  /\ Has("oldJumps", Main) => Has("jump", Main)
  /\ \A i \in Ids :
       /\ (\E v \in AddVerbs : Has(v, i)) => Has("save", i)
       /\ Has("save", i) => registry[i] = "none"
       /\ op.name = "enable" /\ Has("save", i) =>
            /\ Has("want", Main) /\ Has("await", i)
            /\ op.ports[i] \notin PortsOf(Workers)
            /\ \A j \in Ids : Has("save", j) /\ op.ports[j] = op.ports[i] => i = j
            /\ Has("conf", i) \/ conf[i].port = op.ports[i]
            /\ Has("unit", i) \/ unit[i] = "partOf"
       /\ (\E v \in RemoveVerbs : Has(v, i)) => Has("drop", i)
       /\ Has("drop", i) /\ op.name \in {"remove", "uninstall"} => i \notin Workers
       /\ Has("start", i) \/ Has("restart", i) => Has("save", i) \/ registry[i] # "none"
  /\ \A x \in Left : x[1] \in TeardownVerbs \cup {"check"} \/ (x[1] = "wipe" /\ Certain) => Staying = {}

\* The rules, but for what is still to do.
RulesOK ==
  /\ Certain \/ Has("line", Main) =>
       /\ nat = PortsOf(Staying) \/ Has("nat", Main) \/ Has("noNat", Main)
       /\ input = PortsOf(Staying) \/ Has("input", Main) \/ Has("noInput", Main)
       /\ \/ /\ jumps = IF Staying = {} THEN {} ELSE {conf[Main].port}
             /\ guarded = (Staying # {})
          \/ Has("jump", Main) \/ Has("unjump", Main)
       /\ Has("jump", Main) => (jumps = {} /\ guarded = FALSE) \/ Has("oldJumps", Main)
       /\ wants = Staying \/ Has("dropIn", Main) \/ Has("noDropIn", Main)
       /\ line = (Staying # {}) \/ Has("line", Main) \/ Has("noLine", Main)
  /\ Certain /\ Has("port", Main) =>
       /\ nat = PortsOf(Workers) /\ input = nat
       /\ jumps = (IF Workers = {} THEN {} ELSE {conf[Main].port})
       /\ wants = Workers
       /\ guarded = (Workers # {}) /\ line = (Workers # {})

\* Connections are shared with registered workers, and with none once workers go.
Going == Does("wipe") \/ \E w \in Workers : Has("drop", w)
SharesOK ==
  /\ Sharing \subseteq PortsOf(Workers)
  /\ Going => jumps = {} \/ (Has("check", Main) /\ (Has("unjump", Main) \/ op.failed))
  /\ op.name = "enable" /\ Has("nat", Main) => Sharing = {}

\* A worker is as the registry says; it runs.
Fixed(w) ==
  /\ conf[w].port = port[w] /\ unit[w] = "partOf"
  /\ proc[w] # Absent => proc[w].port = port[w]

WorkersOK ==
  /\ op.name = "enable" => \A w \in Workers : Has("await", w) \/ proc[w] # Absent
  /\ Sound =>
       /\ \A w \in Workers : Fixed(w) \/ (Has("drop", w) /\ ~Has("check", Main))
       /\ \A w \in Workers : w \in wants \/ (op.name = "enable" /\ Has("want", Main)) \/ Has("drop", w)
       /\ wants \subseteq Workers
       /\ Going => wants = {} \/ (Has("check", Main) /\ (Has("noDropIn", Main) \/ op.failed))
       /\ Running(Main) =>
            \A w \in Workers :
              \/ Running(w)
              \/ op.name = "enable" /\ Has("await", w)
              \/ Has("drop", w) /\ Sharing = {}
       /\ \A i \in Ids :
            /\ registry[i] = "none" => ~Running(i)
            /\ Does("wipe") => registry[i] = "none" \/ Has("drop", i)
            /\ Has("drop", i) => Has("stop", i) \/ ~Running(i)

IInv == Typed /\ PlanOK /\ Together /\ RulesOK /\ SharesOK /\ WorkersOK

-----------------------------------------------------------------------------
(* Lists of steps.                                                          *)

\* What is left of a list in order once its first step is done.
LEMMA Rest ==
  ASSUME NEW s, Goes(s), s # <<>>
  PROVE  /\ Goes(Tail(s)) /\ Head(s) \in Steps
         /\ StepsIn(s) = StepsIn(Tail(s)) \cup {Head(s)}
         /\ Head(s) \notin StepsIn(Tail(s))
         /\ \A y \in StepsIn(Tail(s)) : InOrder(Head(s), y)
<1> DEFINE t == Tail(s)
<1>1. /\ s \in Seq(Steps) /\ Len(s) \in Nat /\ Len(s) > 0 /\ Head(s) = s[1]
      /\ \A j, k \in 1..Len(s) : j < k => InOrder(s[j], s[k])
  BY EmptySeq DEF Goes
<1>2. t \in Seq(Steps) /\ Len(t) = Len(s) - 1 /\ \A k \in 1..Len(t) : t[k] = s[k + 1]
  BY <1>1
<1> HIDE DEF t
<1>3. \A k \in 1..Len(t) : k + 1 \in 1..Len(s)
  BY <1>1, <1>2
<1>4. \A j, k \in 1..Len(t) : j < k => InOrder(t[j], t[k])
  BY <1>1, <1>2, <1>3
<1>5. ASSUME NEW y \in StepsIn(t) PROVE InOrder(Head(s), y) /\ y \in StepsIn(s)
  <2>1. PICK k \in 1..Len(t) : y = t[k]  BY DEF StepsIn
  <2>2. k + 1 \in 1..Len(s) /\ 1 \in 1..Len(s) /\ 1 < k + 1  BY <1>1, <1>3
  <2> QED  BY <2>1, <2>2, <1>1, <1>2 DEF StepsIn
<1>6. Head(s) \in StepsIn(s)
  BY <1>1 DEF StepsIn
<1>7. ASSUME NEW y \in StepsIn(s), y # Head(s) PROVE y \in StepsIn(t)
  <2>1. PICK k \in 1..Len(s) : y = s[k]  BY DEF StepsIn
  <2>2. k # 1  BY <2>1, <1>1, <1>7
  <2>3. k - 1 \in 1..Len(t) /\ (k - 1) + 1 = k  BY <2>2, <1>1, <1>2
  <2>4. t[k - 1] = s[k]  BY <2>3, <1>2
  <2> QED  BY <2>1, <2>3, <2>4 DEF StepsIn
<1>8. Head(s) \notin StepsIn(t)
  BY <1>5 DEF InOrder
<1>9. Goes(t)
  BY <1>2, <1>4 DEF Goes
<1> QED  BY <1>1, <1>5, <1>6, <1>7, <1>8, <1>9 DEF t

\* Two lists, one behind the other.
LEMMA Joined ==
  ASSUME NEW s, NEW t, Goes(s), Goes(t),
         \A x \in StepsIn(s), y \in StepsIn(t) : InOrder(x, y)
  PROVE  Goes(s \o t) /\ StepsIn(s \o t) = StepsIn(s) \cup StepsIn(t)
<1> DEFINE u == s \o t
<1>1. /\ s \in Seq(Steps) /\ t \in Seq(Steps) /\ Len(s) \in Nat /\ Len(t) \in Nat
      /\ \A j, k \in 1..Len(s) : j < k => InOrder(s[j], s[k])
      /\ \A j, k \in 1..Len(t) : j < k => InOrder(t[j], t[k])
  BY DEF Goes
<1>2. /\ u \in Seq(Steps) /\ Len(u) = Len(s) + Len(t)
      /\ \A k \in 1..Len(u) : u[k] = IF k <= Len(s) THEN s[k] ELSE t[k - Len(s)]
  BY <1>1
<1> HIDE DEF u
<1>3. ASSUME NEW j \in 1..Len(u), NEW k \in 1..Len(u), j < k PROVE InOrder(u[j], u[k])
  <2>1. CASE k <= Len(s)
    <3>1. u[j] = s[j] /\ u[k] = s[k] /\ j \in 1..Len(s) /\ k \in 1..Len(s)
      BY <1>1, <1>2, <1>3, <2>1
    <3> QED  BY <3>1, <1>1, <1>3
  <2>2. CASE j <= Len(s) /\ ~(k <= Len(s))
    <3>1. u[j] = s[j] /\ u[k] = t[k - Len(s)] /\ j \in 1..Len(s) /\ k - Len(s) \in 1..Len(t)
      BY <1>1, <1>2, <1>3, <2>2
    <3> QED  BY <3>1 DEF StepsIn
  <2>3. CASE ~(j <= Len(s))
    <3>1. u[j] = t[j - Len(s)] /\ u[k] = t[k - Len(s)] /\ j - Len(s) \in 1..Len(t)
          /\ k - Len(s) \in 1..Len(t) /\ j - Len(s) < k - Len(s)
      BY <1>1, <1>2, <1>3, <2>3
    <3> QED  BY <3>1, <1>1
  <2> QED  BY <2>1, <2>2, <2>3, <1>1, <1>3
<1>4. StepsIn(u) = StepsIn(s) \cup StepsIn(t)
  <2>1. ASSUME NEW k \in 1..Len(u) PROVE u[k] \in StepsIn(s) \cup StepsIn(t)
    <3>1. CASE k <= Len(s)
      BY <1>1, <1>2, <3>1 DEF StepsIn
    <3>2. CASE ~(k <= Len(s))
      <4>1. u[k] = t[k - Len(s)] /\ k - Len(s) \in 1..Len(t)  BY <1>1, <1>2, <3>2
      <4> QED  BY <4>1 DEF StepsIn
    <3> QED  BY <3>1, <3>2
  <2>2. ASSUME NEW k \in 1..Len(s) PROVE s[k] \in StepsIn(u)
    <3>1. k \in 1..Len(u) /\ u[k] = s[k]  BY <1>1, <1>2
    <3> QED  BY <3>1 DEF StepsIn
  <2>3. ASSUME NEW k \in 1..Len(t) PROVE t[k] \in StepsIn(u)
    <3>1. k + Len(s) \in 1..Len(u) /\ ~(k + Len(s) <= Len(s)) /\ (k + Len(s)) - Len(s) = k
      BY <1>1, <1>2
    <3>2. u[k + Len(s)] = t[k]  BY <3>1, <1>2
    <3> QED  BY <3>1, <3>2 DEF StepsIn
  <2> QED  BY <2>1, <2>2, <2>3 DEF StepsIn
<1> QED  BY <1>2, <1>3, <1>4 DEF Goes, u

LEMMA NoSteps == Goes(<<>>) /\ StepsIn(<<>>) = {}
<1>1. <<>> \in Seq(Steps) /\ Len(<<>>) = 0
  OBVIOUS
<1> QED  BY <1>1 DEF Goes, StepsIn

\* A list without steps is empty.
LEMMA SomeSteps ==
  ASSUME NEW s, Goes(s)
  PROVE  StepsIn(s) = {} <=> s = <<>>
<1>1. s \in Seq(Steps)
  BY DEF Goes
<1>2. s # <<>> => 1 \in 1..Len(s)
  BY <1>1, EmptySeq
<1> QED  BY <1>2, NoSteps DEF StepsIn

-----------------------------------------------------------------------------
(* Identifiers in ascending order: what ForEach makes of them.              *)

LEMMA IdsFinite == IsFiniteSet(Ids) /\ IsFiniteSet(Procs) /\ Ids \subseteq Nat /\ Procs \subseteq Nat
                   /\ Main \notin Ids /\ Main \in Procs /\ Ids \subseteq Procs
<1>1. 2 \in Int /\ MaxId \in Int
  BY ParametersOK
<1>2. IsFiniteSet(Ids)
  BY <1>1, FS_Interval DEF Ids
<1>3. Procs = Ids \cup {Main}
  BY DEF Procs
<1>4. IsFiniteSet(Procs)
  BY <1>2, <1>3, FS_AddElement
<1> QED  BY <1>1, <1>2, <1>4, ParametersOK DEF Ids, Procs, Main

\* A property that no smallest finite set lacks, none lacks.
LEMMA Smallest ==
  ASSUME NEW S, NEW Family \in SUBSET SUBSET S, IsFiniteSet(S), Family # {}
  PROVE  \E T \in Family : \A U \in Family : ~(U \subseteq T /\ U # T)
<1>1. IsWellFoundedOn(StrictSubsetOrdering(S), FiniteSubsetsOf(S))
  BY FS_StrictSubsetOrderingWellFounded
<1>2. FiniteSubsetsOf(S) = SUBSET S
  BY FS_FiniteSubsetsOfFinite
<1>3. PICK T \in Family : \A U \in Family : ~(<<U, T>> \in StrictSubsetOrdering(S))
  BY <1>1, <1>2, WFMin
<1>4. ASSUME NEW U \in Family, U \subseteq T, U # T PROVE FALSE
  <2>1. <<U, T>> \in StrictSubsetOrdering(S)
    BY <1>4 DEF StrictSubsetOrdering
  <2> QED  BY <2>1, <1>3
<1> QED  BY <1>4

LEMMA Largest ==
  ASSUME NEW T \in SUBSET Procs, T # {}
  PROVE  \E m \in T : \A y \in T : y <= m
<1> DEFINE Bad == {U \in SUBSET Procs : U # {} /\ ~\E m \in U : \A y \in U : y <= m}
<1>1. SUFFICES ASSUME Bad # {} PROVE FALSE
  OBVIOUS
<1>2. PICK U \in Bad : \A V \in Bad : ~(V \subseteq U /\ V # U)
  <2>1. Bad \in SUBSET SUBSET Procs /\ IsFiniteSet(Procs)
    BY IdsFinite
  <2> HIDE DEF Bad
  <2>2. \A B \in SUBSET SUBSET Procs :
          B # {} => \E U \in B : \A V \in B : ~(V \subseteq U /\ V # U)
    BY <2>1, Smallest
  <2>3. Bad # {}
    BY <1>1
  <2> QED  BY <2>1, <2>2, <2>3
<1>3. PICK x \in U : TRUE
  BY <1>2
<1>4. U \ {x} \notin Bad
  BY <1>2, <1>3
<1>5. CASE U = {x}
  BY <1>2, <1>3, <1>5, IdsFinite
<1>6. CASE U # {x}
  <2>1. PICK m \in U \ {x} : \A y \in U \ {x} : y <= m
    BY <1>4, <1>6, <1>3, <1>2
  <2>2. x \in Nat /\ m \in Nat /\ \A y \in U : y \in Nat
    BY <1>2, <1>3, <2>1, IdsFinite
  <2>3. CASE x <= m
    <3>1. \A y \in U : y <= m
      BY <2>1, <2>3
    <3> QED  BY <3>1, <2>1, <1>2
  <2>4. CASE m <= x
    <3>1. \A y \in U : y <= x
      BY <2>1, <2>2, <2>4
    <3> QED  BY <3>1, <1>3, <1>2
  <2> QED  BY <2>2, <2>3, <2>4
<1> QED  BY <1>5, <1>6

\* f is ids in ascending order.
Lists(f, ids) ==
  /\ f \in [1..Cardinality(ids) -> ids]
  /\ \A j, k \in 1..Cardinality(ids) : j < k => f[j] < f[k]

LEMMA SomeOrder ==
  ASSUME NEW ids \in SUBSET Procs
  PROVE  \E f : Lists(f, ids)
<1> DEFINE Bad == {U \in SUBSET Procs : ~\E f : Lists(f, U)}
<1>1. SUFFICES ASSUME Bad # {} PROVE FALSE
  OBVIOUS
<1>2. PICK U \in Bad : \A V \in Bad : ~(V \subseteq U /\ V # U)
  <2>1. Bad \in SUBSET SUBSET Procs /\ IsFiniteSet(Procs)
    BY IdsFinite
  <2> HIDE DEF Bad
  <2>2. \A B \in SUBSET SUBSET Procs :
          B # {} => \E U \in B : \A V \in B : ~(V \subseteq U /\ V # U)
    BY <2>1, Smallest
  <2>3. Bad # {}
    BY <1>1
  <2> QED  BY <2>1, <2>2, <2>3
<1>3. CASE U = {}
  <2>1. Cardinality(U) = 0
    BY <1>3, FS_EmptySet
  <2>2. <<>> \in [1..0 -> U] /\ 1..0 = {}
    OBVIOUS
  <2>3. Lists(<<>>, U)
    BY <2>1, <2>2 DEF Lists
  <2> QED  BY <2>3, <1>2
<1>4. CASE U # {}
  <2>1. PICK m \in U : \A y \in U : y <= m
    BY <1>2, <1>4, Largest
  <2>2. IsFiniteSet(U)
    BY <1>2, IdsFinite, FS_Subset
  <2>3. Cardinality(U) \in Nat /\ Cardinality(U) > 0 /\ Cardinality(U \ {m}) = Cardinality(U) - 1
    BY <2>1, <2>2, FS_RemoveElement, FS_CardinalityType, FS_EmptySet
  <2>4. U \ {m} \notin Bad
    BY <1>2, <2>1
  <2>5. PICK f : Lists(f, U \ {m})
    BY <2>4, <1>2
  <2> DEFINE n == Cardinality(U)
             g == [k \in 1..n |-> IF k = n THEN m ELSE f[k]]
  <2>6. n \in Nat /\ n > 0 /\ f \in [1..(n - 1) -> U \ {m}]
        /\ \A j, k \in 1..(n - 1) : j < k => f[j] < f[k]
    BY <2>3, <2>5 DEF Lists
  <2>7. \A y \in U \ {m} : y < m
    BY <2>1, <1>2, IdsFinite
  <2> HIDE DEF n
  <2>8. g \in [1..n -> U]
    BY <2>1, <2>6
  <2>9. ASSUME NEW j \in 1..n, NEW k \in 1..n, j < k PROVE g[j] < g[k]
    <3>1. j \in 1..(n - 1) /\ g[j] = f[j]
      BY <2>6, <2>9
    <3>2. CASE k = n
      BY <3>1, <3>2, <2>6, <2>7
    <3>3. CASE k # n
      <4>1. k \in 1..(n - 1) /\ g[k] = f[k]
        BY <2>6, <3>3
      <4> QED  BY <3>1, <4>1, <2>6, <2>9
    <3> QED  BY <3>2, <3>3
  <2>10. Lists(g, U)
    BY <2>8, <2>9 DEF Lists, n
  <2> QED  BY <2>10, <1>2
<1> QED  BY <1>3, <1>4

\* Ascending(ids) has all of them, and each once.
LEMMA InAscendingOrder ==
  ASSUME NEW ids \in SUBSET Procs
  PROVE  /\ Cardinality(ids) \in Nat
         /\ Ascending(ids) \in [1..Cardinality(ids) -> ids]
         /\ \A j, k \in 1..Cardinality(ids) : j < k => Ascending(ids)[j] < Ascending(ids)[k]
         /\ \A i \in ids : \E k \in 1..Cardinality(ids) : Ascending(ids)[k] = i
<1> DEFINE n == Cardinality(ids)
           f == Ascending(ids)
<1>1. IsFiniteSet(ids) /\ n \in Nat /\ \A i \in ids : i \in Nat
  BY IdsFinite, FS_Subset, FS_CardinalityType
<1>2. f \in [1..n -> ids] /\ \A j, k \in 1..n : j < k => f[j] < f[k]
  <2>1. \E g \in [1..n -> ids] : \A j, k \in 1..n : j < k => g[j] < g[k]
    BY SomeOrder DEF Lists
  <2> QED  BY <2>1 DEF Ascending
<1> HIDE DEF f, n
<1>3. ASSUME NEW j \in 1..n, NEW k \in 1..n, f[j] = f[k] PROVE j = k
  <2>1. f[j] \in Nat /\ f[k] \in Nat
    BY <1>1, <1>2
  <2> QED  BY <2>1, <1>1, <1>2, <1>3
<1>4. f \in Injection(1..n, ids)
  BY <1>2, <1>3 DEF Injection, IsInjective
<1>5. IsFiniteSet(1..n) /\ Cardinality(1..n) = n
  BY <1>1, FS_Interval
<1>6. f \in Surjection(1..n, ids)
  BY <1>1, <1>4, <1>5, FS_Injection DEF n
<1>7. \A i \in ids : \E k \in 1..n : f[k] = i
  BY <1>6 DEF Surjection
<1> QED  BY <1>1, <1>2, <1>7 DEF f, n

\* A step for each of them.
LEMMA ForEachOne ==
  ASSUME NEW ids \in SUBSET Procs, NEW v \in Verbs, Turn(v) \in Int, Phase(v) \in Int
  PROVE  Goes(Each(ids, v)) /\ StepsIn(Each(ids, v)) = {<<v, i>> : i \in ids}
<1> DEFINE n == Cardinality(ids)
           f == Ascending(ids)
           s == Each(ids, v)
<1>1. /\ n \in Nat /\ f \in [1..n -> ids]
      /\ \A j, k \in 1..n : j < k => f[j] < f[k]
      /\ \A i \in ids : \E k \in 1..n : f[k] = i
  BY InAscendingOrder
<1>2. s = [k \in 1..n |-> <<v, f[k]>>]
  BY DEF Each
<1> HIDE DEF n, f, s
<1>3. \A k \in 1..n : <<v, f[k]>> \in Steps
  BY <1>1 DEF Steps
<1>4. s \in Seq(Steps) /\ Len(s) = n
  BY <1>1, <1>2, <1>3
<1>5. ASSUME NEW j \in 1..n, NEW k \in 1..n, j < k PROVE InOrder(s[j], s[k])
  <2>1. f[j] \in Nat /\ f[k] \in Nat /\ f[j] < f[k]
    BY <1>1, <1>5, IdsFinite
  <2>2. s[j] = <<v, f[j]>> /\ s[k] = <<v, f[k]>>
    BY <1>2
  <2> QED  BY <2>1, <2>2 DEF InOrder
<1>6. StepsIn(s) = {<<v, i>> : i \in ids}
  <2>1. ASSUME NEW x \in StepsIn(s) PROVE x \in {<<v, i>> : i \in ids}
    BY <1>1, <1>2, <1>4 DEF StepsIn
  <2>2. ASSUME NEW i \in ids PROVE <<v, i>> \in StepsIn(s)
    <3>1. PICK k \in 1..n : f[k] = i
      BY <1>1
    <3>2. s[k] = <<v, i>>
      BY <3>1, <1>2
    <3> QED  BY <3>2, <1>4 DEF StepsIn
  <2> QED  BY <2>1, <2>2
<1> QED  BY <1>4, <1>5, <1>6 DEF Goes, s

\* Where the k-th of n times m steps is.
LEMMA Rows ==
  ASSUME NEW m \in Nat, m > 0, NEW n \in Nat
  PROVE  /\ \A k \in 1..(m * n) : (k - 1) % m \in 0..(m - 1) /\ (k - 1) \div m \in 0..(n - 1)
                                /\ k - 1 = m * ((k - 1) \div m) + ((k - 1) % m)
         /\ \A a \in 0..(m - 1), b \in 0..(n - 1) :
              \E k \in 1..(m * n) : (k - 1) % m = a /\ (k - 1) \div m = b
<1>1. ASSUME NEW k \in 1..(m * n)
      PROVE  /\ (k - 1) % m \in 0..(m - 1)
             /\ (k - 1) \div m \in 0..(n - 1)
             /\ k - 1 = m * ((k - 1) \div m) + ((k - 1) % m)
  OBVIOUS
<1>2. ASSUME NEW a \in 0..(m - 1), NEW b \in 0..(n - 1)
      PROVE  \E k \in 1..(m * n) : (k - 1) % m = a /\ (k - 1) \div m = b
  <2> DEFINE k == m * b + a + 1
  <2>1. k \in 1..(m * n)
    OBVIOUS
  <2>2. (k - 1) % m = a /\ (k - 1) \div m = b
    OBVIOUS
  <2> QED  BY <2>1, <2>2
<1> QED  BY <1>1, <1>2

-----------------------------------------------------------------------------
(* The lists of the operations: in order, and which steps.                  *)

LEMMA PhasesAreNumbers == \A v : Phase(v) \in Int /\ Turn(v) \in Int
BY DEF Phase, Turn

LEMMA PhaseValues ==
  /\ \A v \in RemoveVerbs : Phase(v) = 7
  /\ \A v \in AddVerbs : Phase(v) = 11
  /\ \A v \in {"cap", "restore", "dup", "manage", "unmanage"} : Phase(v) = 11
  /\ \A v \in GuardParts : Phase(v) = 13
BY DEF Phase, Turn, RemoveVerbs, AddVerbs, GuardParts

LEMMA MorePhases ==
  /\ Phase("noCaps") = 0 /\ Phase("unjump") = 1 /\ Phase("noNat") = 2 /\ Phase("noInput") = 3
  /\ Phase("noLine") = 4 /\ Phase("noDropIn") = 5 /\ Phase("check") = 6 /\ Phase("halt") = 8
  /\ Phase("noGuard") = 9 /\ Phase("port") = 10 /\ Phase("follow") = 12 /\ Phase("inject") = 12
  /\ Phase("want") = 13 /\ Phase("start") = 14 /\ Phase("await") = 15 /\ Phase("nat") = 16
  /\ Phase("input") = 17 /\ Phase("oldJumps") = 18 /\ Phase("jump") = 19 /\ Phase("dropIn") = 20
  /\ Phase("line") = 21 /\ Phase("restart") = 22 /\ Phase("confirm") = 22 /\ Phase("wipe") = 23
  /\ Phase("disable") = 23
BY DEF Phase, RemoveVerbs, AddVerbs, GuardParts

LEMMA Turns ==
  /\ Turn("conf") = 1 /\ Turn("stop") = 1 /\ Turn("unit") = 2 /\ Turn("noUnit") = 2
  /\ Turn("save") = 3 /\ Turn("noConf") = 3 /\ Turn("forget") = 4 /\ Turn("drop") = 5
  /\ Turn("uncap") = 0 /\ Turn("clear") = 0
BY DEF Turn

\* The verbs of a list of names.
VerbsOf(names) == {names[k] : k \in 1..Len(names)}

LEMMA OneAfterAnother ==
  ASSUME NEW names \in Seq(Verbs), NEW p \in Procs,
         \A a, b \in 1..Len(names) : a < b =>
           \/ Phase(names[a]) < Phase(names[b])
           \/ /\ names[a] # names[b] /\ Phase(names[a]) = Phase(names[b])
              /\ Turn(names[a]) <= Turn(names[b])
  PROVE  Goes(On(p, names)) /\ StepsIn(On(p, names)) = VerbsOf(names) \X {p}
<1> DEFINE s == On(p, names)
<1>1. s = [k \in 1..Len(names) |-> <<names[k], p>>]
  BY DEF On
<1>2. Len(names) \in Nat /\ \A k \in 1..Len(names) : <<names[k], p>> \in Steps
  BY DEF Steps
<1> HIDE DEF s
<1>3. s \in Seq(Steps) /\ Len(s) = Len(names)
  BY <1>1, <1>2
<1>4. ASSUME NEW j \in 1..Len(s), NEW k \in 1..Len(s), j < k PROVE InOrder(s[j], s[k])
  <2>1. s[j] = <<names[j], p>> /\ s[k] = <<names[k], p>> /\ j \in 1..Len(names)
        /\ k \in 1..Len(names)
    BY <1>1, <1>3
  <2>2. Phase(names[j]) \in Int /\ Phase(names[k]) \in Int
    BY PhasesAreNumbers
  <2>3. names[j] # names[k] /\ Phase(names[j]) <= Phase(names[k])
        /\ (Phase(names[j]) = Phase(names[k]) => Turn(names[j]) <= Turn(names[k]))
    BY <2>1, <2>2, <1>4, <1>3
  <2> QED  BY <2>1, <2>3 DEF InOrder
<1>5. StepsIn(s) = VerbsOf(names) \X {p}
  BY <1>1, <1>3 DEF StepsIn, VerbsOf
<1> QED  BY <1>3, <1>4, <1>5 DEF Goes, s

LEMMA AllForEach ==
  ASSUME NEW names \in Seq(Verbs), names # <<>>, NEW ids \in SUBSET Procs,
         \A a, b \in 1..Len(names) : Phase(names[a]) = Phase(names[b]),
         \A a, b \in 1..Len(names) : a < b =>
           names[a] # names[b] /\ Turn(names[a]) <= Turn(names[b])
  PROVE  Goes(ForEach(ids, names)) /\ StepsIn(ForEach(ids, names)) = VerbsOf(names) \X ids
<1> DEFINE n == Cardinality(ids)
           m == Len(names)
           f == Ascending(ids)
           s == ForEach(ids, names)
           Row(k) == (k - 1) \div m
           Col(k) == (k - 1) % m
<1>1. /\ n \in Nat /\ f \in [1..n -> ids]
      /\ \A j, k \in 1..n : j < k => f[j] < f[k]
      /\ \A i \in ids : \E k \in 1..n : f[k] = i
  BY InAscendingOrder
<1>2. s = [k \in 1..(m * n) |-> <<names[1 + Col(k)], f[1 + Row(k)]>>]
  BY DEF ForEach
<1>3. m \in Nat /\ m > 0
  BY EmptySeq
<1> HIDE DEF n, f, s, m
<1>4. /\ \A k \in 1..(m * n) : Col(k) \in 0..(m - 1) /\ Row(k) \in 0..(n - 1)
                               /\ k - 1 = m * Row(k) + Col(k)
      /\ \A a \in 0..(m - 1), b \in 0..(n - 1) : \E k \in 1..(m * n) : Col(k) = a /\ Row(k) = b
  BY <1>1, <1>3, Rows
<1>5. \A a \in 1..m : names[a] \in Verbs
  BY DEF m
<1>6. ASSUME NEW j \in 1..(m * n), NEW k \in 1..(m * n), j < k
      PROVE  Row(j) < Row(k) \/ (Row(j) = Row(k) /\ Col(j) < Col(k))
  <2>1. /\ Row(j) \in Int /\ Row(k) \in Int /\ Col(j) \in 0..(m - 1) /\ Col(k) \in 0..(m - 1)
        /\ j - 1 = m * Row(j) + Col(j) /\ k - 1 = m * Row(k) + Col(k)
    BY <1>1, <1>3, <1>4
  <2> HIDE DEF Row, Col
  <2>2. ASSUME Row(k) < Row(j) PROVE FALSE
    <3>1. m * (Row(k) + 1) <= m * Row(j)
      <4>1. \A a, b \in Int : a <= b => m * a <= m * b
        BY <1>3
      <4> QED  BY <4>1, <2>1, <2>2
    <3>2. m * (Row(k) + 1) = m * Row(k) + m
      BY <2>1, <1>3
    <3> QED  BY <3>1, <3>2, <2>1, <1>3, <1>6
  <2>3. CASE Row(j) = Row(k)
    <3>1. m * Row(j) \in Int /\ m * Row(j) = m * Row(k)
      BY <2>1, <2>3, <1>3
    <3> QED  BY <3>1, <2>1, <2>3, <1>6
  <2> QED  BY <2>1, <2>2, <2>3
<1> DEFINE g == [k \in 1..(m * n) |-> Row(k)]
           h == [k \in 1..(m * n) |-> Col(k)]
           all == m * n
<1>7. /\ s = [k \in 1..all |-> <<names[1 + h[k]], f[1 + g[k]]>>]
      /\ \A k \in 1..all : h[k] \in 0..(m - 1) /\ g[k] \in 0..(n - 1)
      /\ \A a \in 0..(m - 1), b \in 0..(n - 1) : \E k \in 1..all : h[k] = a /\ g[k] = b
      /\ \A j, k \in 1..all : j < k => g[j] < g[k] \/ (g[j] = g[k] /\ h[j] < h[k])
  BY <1>2, <1>4, <1>6
<1>8. all \in Nat
  BY <1>1, <1>3
<1> HIDE DEF g, h, Row, Col, all
<1>9. ASSUME NEW k \in 1..all
      PROVE  /\ 1 + h[k] \in 1..m /\ 1 + g[k] \in 1..n /\ h[k] \in Int /\ g[k] \in Int
             /\ names[1 + h[k]] \in Verbs /\ f[1 + g[k]] \in ids
  <2>1. h[k] \in 0..(m - 1) /\ g[k] \in 0..(n - 1)
    BY <1>7
  <2>2. 1 + h[k] \in 1..m /\ 1 + g[k] \in 1..n
    BY <2>1, <1>1, <1>3
  <2> QED  BY <2>1, <2>2, <1>1, <1>5
<1>10. s \in Seq(Steps) /\ Len(s) = all
  <2>1. \A k \in 1..all : <<names[1 + h[k]], f[1 + g[k]]>> \in Steps
    BY <1>9 DEF Steps
  <2> QED  BY <2>1, <1>7, <1>8
<1>11. ASSUME NEW j \in 1..all, NEW k \in 1..all, j < k PROVE InOrder(s[j], s[k])
  <2>1. s[j] = <<names[1 + h[j]], f[1 + g[j]]>> /\ s[k] = <<names[1 + h[k]], f[1 + g[k]]>>
    BY <1>7
  <2>2. /\ 1 + h[j] \in 1..m /\ 1 + h[k] \in 1..m /\ 1 + g[j] \in 1..n /\ 1 + g[k] \in 1..n
        /\ g[j] < g[k] \/ (g[j] = g[k] /\ h[j] < h[k])
    BY <1>7, <1>9, <1>11
  <2>3. Phase(names[1 + h[j]]) = Phase(names[1 + h[k]])
    BY <2>2 DEF m
  <2>4. CASE g[j] < g[k]
    <3>1. 1 + g[j] < 1 + g[k]
      BY <2>4, <1>9
    <3>2. f[1 + g[j]] < f[1 + g[k]] /\ f[1 + g[j]] \in Nat /\ f[1 + g[k]] \in Nat
      BY <3>1, <2>2, <1>1, IdsFinite
    <3>3. f[1 + g[j]] # f[1 + g[k]]
      BY <3>2
    <3>4. Phase(names[1 + h[j]]) <= Phase(names[1 + h[k]])
      BY <2>3, PhasesAreNumbers
    <3> QED  BY <2>1, <3>3, <3>4 DEF InOrder
  <2>5. CASE g[j] = g[k] /\ h[j] < h[k]
    <3>1. 1 + h[j] < 1 + h[k]
      BY <2>5, <1>9
    <3>2. names[1 + h[j]] # names[1 + h[k]] /\ Turn(names[1 + h[j]]) <= Turn(names[1 + h[k]])
      BY <3>1, <2>2 DEF m
    <3>3. Phase(names[1 + h[j]]) <= Phase(names[1 + h[k]])
      BY <2>3, PhasesAreNumbers
    <3> QED  BY <2>1, <3>2, <3>3 DEF InOrder
  <2> QED  BY <2>2, <2>4, <2>5
<1>12. ASSUME NEW x \in StepsIn(s) PROVE x \in VerbsOf(names) \X ids
  <2>1. PICK k \in 1..all : x = s[k]
    BY <1>10 DEF StepsIn
  <2>2. 1 + h[k] \in 1..m
    BY <1>9
  <2> QED  BY <2>1, <2>2, <1>7, <1>9 DEF VerbsOf, m
<1>13. ASSUME NEW x \in VerbsOf(names) \X ids PROVE x \in StepsIn(s)
  <2>1. PICK a \in 1..m : x[1] = names[a]
    BY DEF VerbsOf, m
  <2>2. PICK b \in 1..n : x[2] = f[b]
    BY <1>1
  <2>3. a - 1 \in 0..(m - 1) /\ b - 1 \in 0..(n - 1) /\ 1 + (a - 1) = a /\ 1 + (b - 1) = b
    BY <1>1, <1>3
  <2>4. PICK k \in 1..all : h[k] = a - 1 /\ g[k] = b - 1
    BY <2>3, <1>7
  <2>5. s[k] = <<names[a], f[b]>>
    BY <2>3, <2>4, <1>7
  <2>6. x = s[k]
    BY <2>1, <2>2, <2>5
  <2> QED  BY <2>6, <1>10 DEF StepsIn
<1> QED  BY <1>10, <1>11, <1>12, <1>13 DEF Goes, s

\* Two lists of which the second belongs to later phases.
LEMMA Behind ==
  ASSUME NEW s, NEW t, Goes(s), Goes(t),
         \A x \in StepsIn(s), y \in StepsIn(t) : Phase(x[1]) < Phase(y[1])
  PROVE  Goes(s \o t) /\ StepsIn(s \o t) = StepsIn(s) \cup StepsIn(t)
<1>1. \A x \in StepsIn(s), y \in StepsIn(t) : InOrder(x, y)
  BY PhasesAreNumbers DEF InOrder
<1> QED  BY <1>1, Joined

\* The steps of each operation.
LEMMA Alone ==
  ASSUME NEW v \in Verbs, NEW p \in Procs
  PROVE  Goes(On(p, <<v>>)) /\ StepsIn(On(p, <<v>>)) = {v} \X {p}
<1> DEFINE names == <<v>>
<1>1. names \in Seq(Verbs) /\ Len(names) = 1 /\ names[1] = v
  OBVIOUS
<1>2. VerbsOf(names) = {v}
  BY <1>1 DEF VerbsOf
<1> HIDE DEF names
<1>3. Goes(On(p, names)) /\ StepsIn(On(p, names)) = VerbsOf(names) \X {p}
  BY <1>1, OneAfterAnother
<1> QED  BY <1>2, <1>3 DEF names

LEMMA Two ==
  ASSUME NEW v \in Verbs, NEW w \in Verbs, NEW p \in Procs, v # w,
         Phase(v) < Phase(w) \/ (Phase(v) = Phase(w) /\ Turn(v) <= Turn(w))
  PROVE  Goes(On(p, <<v, w>>)) /\ StepsIn(On(p, <<v, w>>)) = {v, w} \X {p}
<1> DEFINE names == <<v, w>>
<1>1. names \in Seq(Verbs) /\ Len(names) = 2 /\ names[1] = v /\ names[2] = w
  OBVIOUS
<1>2. VerbsOf(names) = {v, w}
  BY <1>1 DEF VerbsOf
<1> HIDE DEF names
<1>3. Goes(On(p, names)) /\ StepsIn(On(p, names)) = VerbsOf(names) \X {p}
  BY <1>1, OneAfterAnother
<1> QED  BY <1>2, <1>3 DEF names

LEMMA Three ==
  ASSUME NEW u \in Verbs, NEW v \in Verbs, NEW w \in Verbs, NEW p \in Procs,
         u # v, v # w, u # w,
         Phase(u) < Phase(v) \/ (Phase(u) = Phase(v) /\ Turn(u) <= Turn(v)),
         Phase(u) < Phase(w) \/ (Phase(u) = Phase(w) /\ Turn(u) <= Turn(w)),
         Phase(v) < Phase(w) \/ (Phase(v) = Phase(w) /\ Turn(v) <= Turn(w))
  PROVE  Goes(On(p, <<u, v, w>>)) /\ StepsIn(On(p, <<u, v, w>>)) = {u, v, w} \X {p}
<1> DEFINE names == <<u, v, w>>
<1>1. names \in Seq(Verbs) /\ Len(names) = 3 /\ names[1] = u /\ names[2] = v /\ names[3] = w
  OBVIOUS
<1>2. VerbsOf(names) = {u, v, w}
  BY <1>1 DEF VerbsOf
<1> HIDE DEF names
<1>3. Goes(On(p, names)) /\ StepsIn(On(p, names)) = VerbsOf(names) \X {p}
  BY <1>1, OneAfterAnother
<1> QED  BY <1>2, <1>3 DEF names

LEMMA OneEach ==
  ASSUME NEW ids \in SUBSET Procs, NEW v \in Verbs
  PROVE  Goes(Each(ids, v)) /\ StepsIn(Each(ids, v)) = {v} \X ids
<1>1. Goes(Each(ids, v)) /\ StepsIn(Each(ids, v)) = {<<v, i>> : i \in ids}
  BY ForEachOne, PhasesAreNumbers
<1> QED  BY <1>1

LEMMA ApplySteps == Goes(Apply) /\ StepsIn(Apply) = ApplyVerbs \X {Main}
<1> DEFINE names == <<"nat", "input", "oldJumps", "jump", "dropIn", "line">>
<1>1. /\ names \in Seq(Verbs) /\ Len(names) = 6
      /\ names[1] = "nat" /\ names[2] = "input" /\ names[3] = "oldJumps" /\ names[4] = "jump"
      /\ names[5] = "dropIn" /\ names[6] = "line"
  BY DEF Verbs, MainVerbs, ApplyVerbs
<1>2. VerbsOf(names) = ApplyVerbs
  BY <1>1 DEF VerbsOf, ApplyVerbs
<1>3. \A a \in 1..6 : Phase(names[a]) = 15 + a
  BY <1>1, MorePhases
<1> HIDE DEF names
<1>4. \A a, b \in 1..Len(names) : a < b => Phase(names[a]) < Phase(names[b])
  BY <1>1, <1>3
<1>5. Goes(On(Main, names)) /\ StepsIn(On(Main, names)) = VerbsOf(names) \X {Main}
  BY <1>1, <1>4, IdsFinite, OneAfterAnother
<1> QED  BY <1>2, <1>5 DEF names, Apply

LEMMA TeardownSteps == Goes(Teardown) /\ StepsIn(Teardown) = TeardownVerbs \X {Main}
<1> DEFINE names == <<"unjump", "noNat", "noInput", "noLine", "noDropIn">>
<1>1. /\ names \in Seq(Verbs) /\ Len(names) = 5
      /\ names[1] = "unjump" /\ names[2] = "noNat" /\ names[3] = "noInput"
      /\ names[4] = "noLine" /\ names[5] = "noDropIn"
  BY DEF Verbs, MainVerbs, TeardownVerbs
<1>2. VerbsOf(names) = TeardownVerbs
  BY <1>1 DEF VerbsOf, TeardownVerbs
<1>3. \A a \in 1..5 : Phase(names[a]) = a
  BY <1>1, MorePhases
<1> HIDE DEF names
<1>4. \A a, b \in 1..Len(names) : a < b => Phase(names[a]) < Phase(names[b])
  BY <1>1, <1>3
<1>5. Goes(On(Main, names)) /\ StepsIn(On(Main, names)) = VerbsOf(names) \X {Main}
  BY <1>1, <1>4, IdsFinite, OneAfterAnother
<1> QED  BY <1>2, <1>5 DEF names, Teardown

LEMMA AddWorkerSteps ==
  ASSUME NEW ids \in SUBSET Ids
  PROVE  Goes(AddWorker(ids)) /\ StepsIn(AddWorker(ids)) = AddVerbs \X ids
<1> DEFINE names == <<"clear", "conf", "unit", "save">>
<1>1. /\ names \in Seq(Verbs) /\ Len(names) = 4 /\ names # <<>>
      /\ names[1] = "clear" /\ names[2] = "conf" /\ names[3] = "unit" /\ names[4] = "save"
  BY DEF Verbs, IdVerbs, AddVerbs
<1>2. VerbsOf(names) = AddVerbs
  BY <1>1 DEF VerbsOf, AddVerbs
<1>3. \A a \in 1..4 : Phase(names[a]) = 11 /\ Turn(names[a]) = a - 1
  BY <1>1, PhaseValues, Turns DEF AddVerbs
<1> HIDE DEF names
<1>4. /\ \A a, b \in 1..Len(names) : Phase(names[a]) = Phase(names[b])
      /\ \A a, b \in 1..Len(names) : a < b =>
           names[a] # names[b] /\ Turn(names[a]) <= Turn(names[b])
  BY <1>1, <1>3
<1>5. Goes(ForEach(ids, names)) /\ StepsIn(ForEach(ids, names)) = VerbsOf(names) \X ids
  BY <1>1, <1>4, IdsFinite, AllForEach
<1> QED  BY <1>2, <1>5 DEF names, AddWorker

LEMMA RemoveInstancesSteps ==
  ASSUME NEW ids \in SUBSET Ids
  PROVE  /\ Goes(RemoveInstances(ids))
         /\ StepsIn(RemoveInstances(ids)) = (RemoveVerbs \ {"uncap"}) \X ids
<1> DEFINE names == <<"stop", "noUnit", "noConf", "forget", "drop">>
<1>1. /\ names \in Seq(Verbs) /\ Len(names) = 5 /\ names # <<>>
      /\ names[1] = "stop" /\ names[2] = "noUnit" /\ names[3] = "noConf" /\ names[4] = "forget"
      /\ names[5] = "drop"
  BY DEF Verbs, IdVerbs, RemoveVerbs
<1>2. VerbsOf(names) = RemoveVerbs \ {"uncap"}
  BY <1>1 DEF VerbsOf, RemoveVerbs
<1>3. \A a \in 1..5 : Phase(names[a]) = 7 /\ Turn(names[a]) = a
  BY <1>1, PhaseValues, Turns DEF RemoveVerbs
<1> HIDE DEF names
<1>4. /\ \A a, b \in 1..Len(names) : Phase(names[a]) = Phase(names[b])
      /\ \A a, b \in 1..Len(names) : a < b =>
           names[a] # names[b] /\ Turn(names[a]) <= Turn(names[b])
  BY <1>1, <1>3
<1>5. Goes(ForEach(ids, names)) /\ StepsIn(ForEach(ids, names)) = VerbsOf(names) \X ids
  BY <1>1, <1>4, IdsFinite, AllForEach
<1> QED  BY <1>2, <1>5 DEF names, RemoveInstances

LEMMA RemoveWorkersSteps ==
  ASSUME NEW ws \in SUBSET Ids
  PROVE  Goes(RemoveWorkers(ws)) /\ StepsIn(RemoveWorkers(ws)) = RemoveVerbs \X ws
<1> DEFINE names == <<"uncap", "stop", "noUnit", "noConf", "forget", "drop">>
<1>1. /\ names \in Seq(Verbs) /\ Len(names) = 6 /\ names # <<>>
      /\ names[1] = "uncap" /\ names[2] = "stop" /\ names[3] = "noUnit" /\ names[4] = "noConf"
      /\ names[5] = "forget" /\ names[6] = "drop"
  BY DEF Verbs, IdVerbs, RemoveVerbs
<1>2. VerbsOf(names) = RemoveVerbs
  BY <1>1 DEF VerbsOf, RemoveVerbs
<1>3. \A a \in 1..6 : Phase(names[a]) = 7 /\ Turn(names[a]) = a - 1
  BY <1>1, PhaseValues, Turns DEF RemoveVerbs
<1> HIDE DEF names
<1>4. /\ \A a, b \in 1..Len(names) : Phase(names[a]) = Phase(names[b])
      /\ \A a, b \in 1..Len(names) : a < b =>
           names[a] # names[b] /\ Turn(names[a]) <= Turn(names[b])
  BY <1>1, <1>3
<1>5. Goes(ForEach(ws, names)) /\ StepsIn(ForEach(ws, names)) = VerbsOf(names) \X ws
  BY <1>1, <1>4, IdsFinite, AllForEach
<1> QED  BY <1>2, <1>5 DEF names, RemoveWorkers

LEMMA EnableSteps ==
  ASSUME NEW ids \in SUBSET Ids
  PROVE  /\ Goes(Enable(ids))
         /\ StepsIn(Enable(ids)) = ((AddVerbs \cup {"follow", "start", "await"}) \X ids)
                                     \cup (({"want"} \cup ApplyVerbs) \X {Main})
<1>1. Goes(AddWorker(ids)) /\ StepsIn(AddWorker(ids)) = AddVerbs \X ids
  BY AddWorkerSteps
<1>2. Goes(Sync(ids)) /\ StepsIn(Sync(ids)) = {"follow"} \X ids
  BY IdsFinite, OneEach DEF Sync, Verbs, IdVerbs
<1>3. Goes(On(Main, <<"want">>)) /\ StepsIn(On(Main, <<"want">>)) = {"want"} \X {Main}
  BY IdsFinite, Alone DEF Verbs, MainVerbs
<1>4. Goes(Each(ids, "start")) /\ StepsIn(Each(ids, "start")) = {"start"} \X ids
  BY IdsFinite, OneEach DEF Verbs
<1>5. Goes(Each(ids, "await")) /\ StepsIn(Each(ids, "await")) = {"await"} \X ids
  BY IdsFinite, OneEach DEF Verbs, IdVerbs
<1> DEFINE s2 == AddWorker(ids) \o Sync(ids)
           s3 == s2 \o On(Main, <<"want">>)
           s4 == s3 \o Each(ids, "start")
           s5 == s4 \o Each(ids, "await")
<1>6. Goes(s2) /\ StepsIn(s2) = (AddVerbs \X ids) \cup ({"follow"} \X ids)
  <2>1. \A x \in StepsIn(AddWorker(ids)), y \in StepsIn(Sync(ids)) : Phase(x[1]) < Phase(y[1])
    BY <1>1, <1>2, PhaseValues, MorePhases
  <2> QED  BY <1>1, <1>2, <2>1, Behind
<1> HIDE DEF s2
<1>7. Goes(s3) /\ StepsIn(s3) = StepsIn(s2) \cup ({"want"} \X {Main})
  <2>1. \A x \in StepsIn(s2), y \in {"want"} \X {Main} : Phase(x[1]) < Phase(y[1])
    BY <1>6, PhaseValues, MorePhases
  <2> QED  BY <1>6, <1>3, <2>1, Behind
<1> HIDE DEF s3
<1>8. Goes(s4) /\ StepsIn(s4) = StepsIn(s3) \cup ({"start"} \X ids)
  <2>1. \A x \in StepsIn(s3), y \in {"start"} \X ids : Phase(x[1]) < Phase(y[1])
    BY <1>6, <1>7, PhaseValues, MorePhases
  <2> QED  BY <1>7, <1>4, <2>1, Behind
<1> HIDE DEF s4
<1>9. Goes(s5) /\ StepsIn(s5) = StepsIn(s4) \cup ({"await"} \X ids)
  <2>1. \A x \in StepsIn(s4), y \in {"await"} \X ids : Phase(x[1]) < Phase(y[1])
    BY <1>6, <1>7, <1>8, PhaseValues, MorePhases
  <2> QED  BY <1>8, <1>5, <2>1, Behind
<1> HIDE DEF s5
<1>10. Goes(s5 \o Apply) /\ StepsIn(s5 \o Apply) = StepsIn(s5) \cup (ApplyVerbs \X {Main})
  <2>1. \A v \in ApplyVerbs : Phase(v) > 15
    BY MorePhases DEF ApplyVerbs
  <2>2. \A x \in StepsIn(s5) : Phase(x[1]) <= 15
    BY <1>6, <1>7, <1>8, <1>9, PhaseValues, MorePhases
  <2>3. \A x \in StepsIn(s5), y \in ApplyVerbs \X {Main} : Phase(x[1]) < Phase(y[1])
    BY <2>1, <2>2, PhasesAreNumbers
  <2> QED  BY <1>9, ApplySteps, <2>3, Behind
<1>11. Enable(ids) = s5 \o Apply
  BY DEF Enable, s5, s4, s3, s2
<1> QED  BY <1>6, <1>7, <1>8, <1>9, <1>10, <1>11

LEMMA DisableSteps ==
  ASSUME NEW ws \in SUBSET Ids
  PROVE  /\ Goes(Disable(ws))
         /\ StepsIn(Disable(ws)) = ((TeardownVerbs \cup {"check"}) \X {Main}) \cup (RemoveVerbs \X ws)
<1> DEFINE s1 == On(Main, <<"check">>)
           s2 == Teardown \o s1
<1>1. Goes(s1) /\ StepsIn(s1) = {"check"} \X {Main}
  BY IdsFinite, Alone DEF Verbs, MainVerbs
<1> HIDE DEF s1
<1>2. Goes(s2) /\ StepsIn(s2) = (TeardownVerbs \cup {"check"}) \X {Main}
  <2>1. \A x \in StepsIn(Teardown), y \in StepsIn(s1) : Phase(x[1]) < Phase(y[1])
    BY <1>1, TeardownSteps, MorePhases DEF TeardownVerbs
  <2>2. Goes(s2) /\ StepsIn(s2) = StepsIn(Teardown) \cup StepsIn(s1)
    BY <1>1, <2>1, TeardownSteps, Behind
  <2> QED  BY <1>1, <2>2, TeardownSteps
<1> HIDE DEF s2
<1>3. \A x \in StepsIn(s2), y \in StepsIn(RemoveWorkers(ws)) : Phase(x[1]) < Phase(y[1])
  BY <1>2, RemoveWorkersSteps, PhaseValues, MorePhases DEF TeardownVerbs
<1> QED  BY <1>2, <1>3, RemoveWorkersSteps, Behind DEF Disable, s1, s2

LEMMA AddExtraSteps ==
  ASSUME NEW i \in Ids
  PROVE  /\ Goes(AddExtra(i))
         /\ StepsIn(AddExtra(i)) = (AddVerbs \cup {"inject", "start"}) \X {i}
<1> DEFINE s1 == On(i, <<"inject", "start">>)
<1>1. Goes(s1) /\ StepsIn(s1) = {"inject", "start"} \X {i}
  BY IdsFinite, Two, MorePhases DEF Verbs, IdVerbs
<1> HIDE DEF s1
<1>2. Goes(AddWorker({i})) /\ StepsIn(AddWorker({i})) = AddVerbs \X {i}
  BY AddWorkerSteps
<1>3. \A x \in StepsIn(AddWorker({i})), y \in StepsIn(s1) : Phase(x[1]) < Phase(y[1])
  <2>1. \A x \in StepsIn(AddWorker({i})) : Phase(x[1]) = 11
    BY <1>2, PhaseValues
  <2>2. \A y \in StepsIn(s1) : Phase(y[1]) > 11
    BY <1>1, MorePhases
  <2> QED  BY <2>1, <2>2
<1>4. Goes(AddWorker({i}) \o s1)
      /\ StepsIn(AddWorker({i}) \o s1) = StepsIn(AddWorker({i})) \cup StepsIn(s1)
  BY <1>1, <1>2, <1>3, Behind
<1> QED  BY <1>1, <1>2, <1>4 DEF AddExtra, s1

LEMMA RemoveVpnSteps ==
  ASSUME NEW ids \in SUBSET Ids
  PROVE  /\ Goes(RemoveVpn(ids))
         /\ StepsIn(RemoveVpn(ids)) =
              (({"noCaps", "check", "halt", "wipe"} \cup TeardownVerbs
                  \cup (IF GuardOn THEN {"noGuard"} ELSE {})) \X {Main})
                \cup ((RemoveVerbs \ {"uncap"}) \X ids)
<1> DEFINE s0 == On(Main, <<"noCaps">>)
           s1 == On(Main, <<"check">>)
           s2 == s0 \o Teardown
           s3 == s2 \o s1
           s4 == s3 \o RemoveInstances(ids)
           s5 == On(Main, IF GuardOn THEN <<"halt", "noGuard", "wipe">> ELSE <<"halt", "wipe">>)
<1>1. Goes(s0) /\ StepsIn(s0) = {"noCaps"} \X {Main}
  BY IdsFinite, Alone DEF Verbs, MainVerbs
<1>2. Goes(s1) /\ StepsIn(s1) = {"check"} \X {Main}
  BY IdsFinite, Alone DEF Verbs, MainVerbs
<1>3. Goes(s5) /\ StepsIn(s5) =
        ({"halt", "wipe"} \cup (IF GuardOn THEN {"noGuard"} ELSE {})) \X {Main}
  <2>1. CASE GuardOn
    <3>2. /\ Goes(On(Main, <<"halt", "noGuard", "wipe">>))
          /\ StepsIn(On(Main, <<"halt", "noGuard", "wipe">>)) = {"halt", "noGuard", "wipe"} \X {Main}
      <4>1. {"halt", "noGuard", "wipe"} \subseteq Verbs /\ Main \in Procs
        BY IdsFinite DEF Verbs, MainVerbs
      <4>2. Phase("halt") < Phase("noGuard") /\ Phase("halt") < Phase("wipe")
            /\ Phase("noGuard") < Phase("wipe")
        BY MorePhases
      <4> QED  BY ONLY <4>1, <4>2, Three
    <3> QED  BY <2>1, <3>2
  <2>2. CASE ~GuardOn
    <3>2. /\ Goes(On(Main, <<"halt", "wipe">>))
          /\ StepsIn(On(Main, <<"halt", "wipe">>)) = {"halt", "wipe"} \X {Main}
      BY IdsFinite, Two, MorePhases DEF Verbs, MainVerbs
    <3> QED  BY <2>2, <3>2
  <2> QED  BY <2>1, <2>2
<1> HIDE DEF s0, s1, s5
<1>4. Goes(s2) /\ StepsIn(s2) = ({"noCaps"} \cup TeardownVerbs) \X {Main}
  <2>1. \A x \in StepsIn(s0), y \in StepsIn(Teardown) : Phase(x[1]) < Phase(y[1])
    BY <1>1, TeardownSteps, MorePhases DEF TeardownVerbs
  <2>2. Goes(s2) /\ StepsIn(s2) = StepsIn(s0) \cup StepsIn(Teardown)
    BY <1>1, <2>1, TeardownSteps, Behind
  <2> QED  BY <1>1, <2>2, TeardownSteps
<1> HIDE DEF s2
<1>5. Goes(s3) /\ StepsIn(s3) = ({"noCaps", "check"} \cup TeardownVerbs) \X {Main}
  <2>1. \A x \in StepsIn(s2), y \in StepsIn(s1) : Phase(x[1]) < Phase(y[1])
    BY <1>2, <1>4, MorePhases DEF TeardownVerbs
  <2>2. Goes(s3) /\ StepsIn(s3) = StepsIn(s2) \cup StepsIn(s1)
    BY <1>2, <1>4, <2>1, Behind
  <2> QED  BY <1>2, <1>4, <2>2
<1> HIDE DEF s3
<1>6. Goes(s4) /\ StepsIn(s4) = StepsIn(s3) \cup ((RemoveVerbs \ {"uncap"}) \X ids)
  <2>1. \A x \in StepsIn(s3), y \in StepsIn(RemoveInstances(ids)) : Phase(x[1]) < Phase(y[1])
    BY <1>5, RemoveInstancesSteps, PhaseValues, MorePhases DEF TeardownVerbs
  <2> QED  BY <1>5, <2>1, RemoveInstancesSteps, Behind
<1> HIDE DEF s4
<1>7. Goes(s4 \o s5) /\ StepsIn(s4 \o s5) = StepsIn(s4) \cup StepsIn(s5)
  <2>1. \A x \in StepsIn(s4) : Phase(x[1]) <= 7
    BY <1>5, <1>6, PhaseValues, MorePhases DEF TeardownVerbs
  <2>2. \A y \in StepsIn(s5) : Phase(y[1]) > 7
    BY <1>3, MorePhases
  <2>3. \A x \in StepsIn(s4), y \in StepsIn(s5) : Phase(x[1]) < Phase(y[1])
    BY <2>1, <2>2, PhasesAreNumbers
  <2> QED  BY <1>3, <1>6, <2>3, Behind
<1>8. RemoveVpn(ids) = s4 \o s5
  BY DEF RemoveVpn, s0, s1, s2, s3, s4, s5
<1> QED  BY <1>3, <1>5, <1>6, <1>7, <1>8

LEMMA UninstallSteps ==
  ASSUME NEW ids \in SUBSET Ids
  PROVE  /\ Goes(Uninstall(ids))
         /\ StepsIn(Uninstall(ids)) = ({"noCaps", "halt", "noGuard", "disable"} \X {Main})
                                        \cup ((RemoveVerbs \ {"uncap"}) \X ids)
<1> DEFINE s0 == On(Main, <<"noCaps">>)
           s1 == s0 \o RemoveInstances(ids)
           s2 == On(Main, <<"halt", "noGuard", "disable">>)
<1>1. Goes(s0) /\ StepsIn(s0) = {"noCaps"} \X {Main}
  BY IdsFinite, Alone DEF Verbs, MainVerbs
<1>2. Goes(s2) /\ StepsIn(s2) = {"halt", "noGuard", "disable"} \X {Main}
  <2>1. {"halt", "noGuard", "disable"} \subseteq Verbs /\ Main \in Procs
    BY IdsFinite DEF Verbs, MainVerbs
  <2>2. Phase("halt") < Phase("noGuard") /\ Phase("halt") < Phase("disable")
        /\ Phase("noGuard") < Phase("disable")
    BY MorePhases
  <2> QED  BY ONLY <2>1, <2>2, Three
<1> HIDE DEF s0, s2
<1>3. Goes(s1) /\ StepsIn(s1) = StepsIn(s0) \cup ((RemoveVerbs \ {"uncap"}) \X ids)
  <2>1. \A x \in StepsIn(s0), y \in StepsIn(RemoveInstances(ids)) : Phase(x[1]) < Phase(y[1])
    BY <1>1, RemoveInstancesSteps, PhaseValues, MorePhases
  <2> QED  BY <1>1, <2>1, RemoveInstancesSteps, Behind
<1> HIDE DEF s1
<1>4. Goes(s1 \o s2) /\ StepsIn(s1 \o s2) = StepsIn(s1) \cup StepsIn(s2)
  <2>1. \A x \in StepsIn(s1), y \in StepsIn(s2) : Phase(x[1]) < Phase(y[1])
    BY <1>1, <1>2, <1>3, PhaseValues, MorePhases
  <2> QED  BY <1>2, <1>3, <2>1, Behind
<1> QED  BY <1>1, <1>2, <1>3, <1>4 DEF Uninstall, s0, s1, s2

LEMMA RestoreSteps ==
  ASSUME NEW p \in Procs, NEW ws \in SUBSET Ids
  PROVE  /\ Goes(Restore(p, ws))
         /\ StepsIn(Restore(p, ws)) = ({"restore"} \X {p})
                                        \cup (IF p = Main THEN {"follow"} \X ws ELSE {})
<1> DEFINE s1 == On(p, <<"restore">>)
           s2 == IF p = Main THEN Sync(ws) ELSE <<>>
<1>1. Goes(s1) /\ StepsIn(s1) = {"restore"} \X {p}
  BY Alone DEF Verbs
<1>2. Goes(Sync(ws)) /\ StepsIn(Sync(ws)) = {"follow"} \X ws
  BY IdsFinite, OneEach DEF Sync, Verbs, IdVerbs
<1>3. Goes(s2) /\ StepsIn(s2) = IF p = Main THEN {"follow"} \X ws ELSE {}
  BY <1>2, NoSteps
<1> HIDE DEF s1, s2
<1>4. \A x \in StepsIn(s1), y \in StepsIn(s2) : Phase(x[1]) < Phase(y[1])
  BY <1>1, <1>3, PhaseValues, MorePhases
<1>5. Goes(s1 \o s2) /\ StepsIn(s1 \o s2) = StepsIn(s1) \cup StepsIn(s2)
  BY <1>1, <1>3, <1>4, Behind
<1> QED  BY <1>1, <1>3, <1>5 DEF Restore, s1, s2

LEMMA SetKeySteps ==
  ASSUME NEW p \in Procs, NEW ws \in SUBSET Ids
  PROVE  /\ Goes(SetKey(p, ws))
         /\ StepsIn(SetKey(p, ws)) = ({"cap", "restart"} \X {p})
              \cup (IF p = Main THEN ({"follow"} \X ws) \cup ({"confirm"} \X {Main}) ELSE {})
<1>1. CASE p # Main
  <2>1. /\ Goes(On(p, <<"cap", "restart">>))
        /\ StepsIn(On(p, <<"cap", "restart">>)) = {"cap", "restart"} \X {p}
    BY Two, PhaseValues, MorePhases DEF Verbs
  <2> QED  BY <1>1, <2>1 DEF SetKey
<1>2. CASE p = Main
  <2> DEFINE s1 == On(p, <<"cap">>)
             s2 == s1 \o Sync(ws)
             s3 == On(p, <<"confirm", "restart">>)
  <2>1. Goes(s1) /\ StepsIn(s1) = {"cap"} \X {p}
    BY Alone DEF Verbs
  <2>2. Goes(Sync(ws)) /\ StepsIn(Sync(ws)) = {"follow"} \X ws
    BY IdsFinite, OneEach DEF Sync, Verbs, IdVerbs
  <2>3. Goes(s3) /\ StepsIn(s3) = {"confirm", "restart"} \X {p}
    BY Two, MorePhases, Turn("confirm") = 0, Turn("restart") = 0 DEF Verbs, MainVerbs, Turn
  <2> HIDE DEF s1, s3
  <2>4. Goes(s2) /\ StepsIn(s2) = StepsIn(s1) \cup StepsIn(Sync(ws))
    <3>1. \A x \in StepsIn(s1), y \in StepsIn(Sync(ws)) : Phase(x[1]) < Phase(y[1])
      BY <2>1, <2>2, PhaseValues, MorePhases
    <3> QED  BY <2>1, <2>2, <3>1, Behind
  <2> HIDE DEF s2
  <2>5. \A x \in StepsIn(s2), y \in StepsIn(s3) : Phase(x[1]) < Phase(y[1])
    BY <2>1, <2>2, <2>3, <2>4, PhaseValues, MorePhases
  <2>6. Goes(s2 \o s3) /\ StepsIn(s2 \o s3) = StepsIn(s2) \cup StepsIn(s3)
    BY <2>3, <2>4, <2>5, Behind
  <2>7. SetKey(p, ws) = s2 \o s3
    BY <1>2 DEF SetKey, s1, s2, s3
  <2> QED  BY <1>2, <2>1, <2>2, <2>3, <2>4, <2>6, <2>7
<1> QED  BY <1>1, <1>2

LEMMA MultiloginSteps ==
  ASSUME NEW ws \in SUBSET Ids
  PROVE  /\ Goes(Multilogin(ws))
         /\ StepsIn(Multilogin(ws)) = ({"dup"} \X ({Main} \cup ws)) \cup ({"restart"} \X {Main})
<1> DEFINE s1 == On(Main, <<"dup">>)
           s2 == s1 \o Each(ws, "dup")
           s3 == On(Main, <<"restart">>)
<1>1. Goes(s1) /\ StepsIn(s1) = {"dup"} \X {Main}
  BY IdsFinite, Alone DEF Verbs
<1>2. Goes(Each(ws, "dup")) /\ StepsIn(Each(ws, "dup")) = {"dup"} \X ws
  BY IdsFinite, OneEach DEF Verbs
<1>3. Goes(s3) /\ StepsIn(s3) = {"restart"} \X {Main}
  BY IdsFinite, Alone DEF Verbs
<1> HIDE DEF s1, s3
<1>4. Goes(s2) /\ StepsIn(s2) = {"dup"} \X ({Main} \cup ws)
  <2>1. \A x \in StepsIn(s1), y \in StepsIn(Each(ws, "dup")) : InOrder(x, y)
    BY <1>1, <1>2, IdsFinite, PhasesAreNumbers DEF InOrder
  <2>2. Goes(s2) /\ StepsIn(s2) = StepsIn(s1) \cup StepsIn(Each(ws, "dup"))
    BY <1>1, <1>2, <2>1, Joined
  <2> QED  BY <1>1, <1>2, <2>2
<1> HIDE DEF s2
<1>5. \A x \in StepsIn(s2), y \in StepsIn(s3) : Phase(x[1]) < Phase(y[1])
  BY <1>3, <1>4, PhaseValues, MorePhases
<1>6. Goes(s2 \o s3) /\ StepsIn(s2 \o s3) = StepsIn(s2) \cup StepsIn(s3)
  BY <1>3, <1>4, <1>5, Behind
<1> QED  BY <1>3, <1>4, <1>6 DEF Multilogin, s1, s2, s3

LEMMA ChangePortSteps ==
  ASSUME NEW ws
  PROVE  /\ Goes(ChangePort(ws))
         /\ StepsIn(ChangePort(ws)) = ({"port", "restart"} \X {Main})
                                        \cup (IF ws = {} THEN {} ELSE ApplyVerbs \X {Main})
<1> DEFINE s1 == On(Main, <<"port">>)
           s2 == IF ws = {} THEN <<>> ELSE Apply
           s3 == s1 \o s2
           s4 == On(Main, <<"restart">>)
<1>1. Goes(s1) /\ StepsIn(s1) = {"port"} \X {Main}
  BY IdsFinite, Alone DEF Verbs, MainVerbs
<1>2. Goes(s2) /\ StepsIn(s2) = IF ws = {} THEN {} ELSE ApplyVerbs \X {Main}
  BY NoSteps, ApplySteps
<1>3. Goes(s4) /\ StepsIn(s4) = {"restart"} \X {Main}
  BY IdsFinite, Alone DEF Verbs
<1> HIDE DEF s1, s2, s4
<1>4. \A x \in StepsIn(s2) : Phase(x[1]) > 10 /\ Phase(x[1]) < 22
  BY <1>2, MorePhases DEF ApplyVerbs
<1>5. Goes(s3) /\ StepsIn(s3) = StepsIn(s1) \cup StepsIn(s2)
  <2>1. \A x \in StepsIn(s1), y \in StepsIn(s2) : Phase(x[1]) < Phase(y[1])
    BY <1>1, <1>4, MorePhases
  <2> QED  BY <1>1, <1>2, <2>1, Behind
<1> HIDE DEF s3
<1>6. \A x \in StepsIn(s3), y \in StepsIn(s4) : Phase(x[1]) < Phase(y[1])
  BY <1>1, <1>3, <1>4, <1>5, MorePhases
<1>7. Goes(s3 \o s4) /\ StepsIn(s3 \o s4) = StepsIn(s3) \cup StepsIn(s4)
  BY <1>3, <1>5, <1>6, Behind
<1> QED  BY <1>1, <1>2, <1>3, <1>5, <1>7 DEF ChangePort, s1, s2, s3, s4

LEMMA RestartAllSteps ==
  ASSUME NEW es \in SUBSET Ids
  PROVE  Goes(RestartAll(es)) /\ StepsIn(RestartAll(es)) = {"restart"} \X ({Main} \cup es)
<1> DEFINE s1 == On(Main, <<"restart">>)
<1>1. Goes(s1) /\ StepsIn(s1) = {"restart"} \X {Main}
  BY IdsFinite, Alone DEF Verbs
<1>2. Goes(Each(es, "restart")) /\ StepsIn(Each(es, "restart")) = {"restart"} \X es
  BY IdsFinite, OneEach DEF Verbs
<1> HIDE DEF s1
<1>3. \A x \in StepsIn(s1), y \in StepsIn(Each(es, "restart")) : InOrder(x, y)
  BY <1>1, <1>2, IdsFinite, PhasesAreNumbers DEF InOrder
<1>4. /\ Goes(s1 \o Each(es, "restart"))
      /\ StepsIn(s1 \o Each(es, "restart")) = StepsIn(s1) \cup StepsIn(Each(es, "restart"))
  BY <1>1, <1>2, <1>3, Joined
<1> QED  BY <1>1, <1>2, <1>4 DEF RestartAll, s1

LEMMA EnableGuardSteps ==
  ASSUME NEW confs \in SUBSET Procs, NEW es \in SUBSET Ids
  PROVE  /\ Goes(EnableGuard(confs, es))
         /\ StepsIn(EnableGuard(confs, es)) = ({"manage"} \X confs)
              \cup ((GuardParts \cup {"confirm"}) \X {Main}) \cup ({"restart"} \X ({Main} \cup es))
<1> DEFINE s1 == On(Main, <<"mark", "watchUnit", "watch">>)
           s2 == Each(confs, "manage") \o s1
           s3 == s2 \o RestartAll(es)
           s4 == On(Main, <<"confirm">>)
<1>1. Goes(s1) /\ StepsIn(s1) = GuardParts \X {Main}
  <2>1. Goes(s1) /\ StepsIn(s1) = {"mark", "watchUnit", "watch"} \X {Main}
    <3>1. Turn("mark") = 0 /\ Turn("watchUnit") = 0 /\ Turn("watch") = 0
      BY DEF Turn
    <3>2. Phase("mark") = 13 /\ Phase("watchUnit") = 13 /\ Phase("watch") = 13
      BY PhaseValues DEF GuardParts
    <3> QED  BY <3>1, <3>2, IdsFinite, Three DEF Verbs, MainVerbs, GuardParts
  <2> QED  BY <2>1 DEF GuardParts
<1>2. Goes(Each(confs, "manage")) /\ StepsIn(Each(confs, "manage")) = {"manage"} \X confs
  BY OneEach DEF Verbs
<1>3. Goes(s4) /\ StepsIn(s4) = {"confirm"} \X {Main}
  BY IdsFinite, Alone DEF Verbs, MainVerbs
<1> HIDE DEF s1, s4
<1>4. Goes(s2) /\ StepsIn(s2) = StepsIn(Each(confs, "manage")) \cup StepsIn(s1)
  <2>1. \A x \in StepsIn(Each(confs, "manage")), y \in StepsIn(s1) : Phase(x[1]) < Phase(y[1])
    BY <1>1, <1>2, PhaseValues
  <2> QED  BY <1>1, <1>2, <2>1, Behind
<1> HIDE DEF s2
<1>5. Goes(s3) /\ StepsIn(s3) = StepsIn(s2) \cup StepsIn(RestartAll(es))
  <2>1. \A x \in StepsIn(s2), y \in StepsIn(RestartAll(es)) : Phase(x[1]) < Phase(y[1])
    BY <1>1, <1>2, <1>4, RestartAllSteps, PhaseValues, MorePhases
  <2> QED  BY <1>4, RestartAllSteps, <2>1, Behind
<1> HIDE DEF s3
<1>6. \A x \in StepsIn(s3), y \in StepsIn(s4) : InOrder(x, y)
  <2>1. \A x \in StepsIn(s3) : Phase(x[1]) <= 22 /\ x[1] # "confirm"
    BY <1>1, <1>2, <1>4, <1>5, RestartAllSteps, PhaseValues, MorePhases DEF GuardParts
  <2>2. Turn("confirm") = 0 /\ \A v : Turn(v) <= 0 <=> Turn(v) = 0
    BY DEF Turn
  <2>3. \A x \in StepsIn(s3) : Turn(x[1]) = 0
    BY <1>1, <1>2, <1>4, <1>5, RestartAllSteps DEF GuardParts, Turn
  <2> QED  BY <1>3, <2>1, <2>2, <2>3, MorePhases DEF InOrder
<1>7. Goes(s3 \o s4) /\ StepsIn(s3 \o s4) = StepsIn(s3) \cup StepsIn(s4)
  BY <1>3, <1>5, <1>6, Joined
<1> QED  BY <1>1, <1>2, <1>3, <1>4, <1>5, <1>7, RestartAllSteps DEF EnableGuard, s1, s2, s3, s4

LEMMA DisableGuardSteps ==
  ASSUME NEW confs \in SUBSET Procs, NEW es \in SUBSET Ids
  PROVE  /\ Goes(DisableGuard(confs, es))
         /\ StepsIn(DisableGuard(confs, es)) = ({"noGuard"} \X {Main})
              \cup ({"unmanage"} \X confs) \cup ({"restart"} \X ({Main} \cup es))
<1> DEFINE s1 == On(Main, <<"noGuard">>)
           s2 == s1 \o Each(confs, "unmanage")
<1>1. Goes(s1) /\ StepsIn(s1) = {"noGuard"} \X {Main}
  BY IdsFinite, Alone DEF Verbs, MainVerbs
<1>2. Goes(Each(confs, "unmanage")) /\ StepsIn(Each(confs, "unmanage")) = {"unmanage"} \X confs
  BY OneEach DEF Verbs
<1> HIDE DEF s1
<1>3. Goes(s2) /\ StepsIn(s2) = StepsIn(s1) \cup StepsIn(Each(confs, "unmanage"))
  <2>1. \A x \in StepsIn(s1), y \in StepsIn(Each(confs, "unmanage")) : Phase(x[1]) < Phase(y[1])
    BY <1>1, <1>2, PhaseValues, MorePhases
  <2> QED  BY <1>1, <1>2, <2>1, Behind
<1> HIDE DEF s2
<1>4. \A x \in StepsIn(s2), y \in StepsIn(RestartAll(es)) : Phase(x[1]) < Phase(y[1])
  BY <1>1, <1>2, <1>3, RestartAllSteps, PhaseValues, MorePhases
<1>5. Goes(s2 \o RestartAll(es))
      /\ StepsIn(s2 \o RestartAll(es)) = StepsIn(s2) \cup StepsIn(RestartAll(es))
  BY <1>3, RestartAllSteps, <1>4, Behind
<1> QED  BY <1>1, <1>2, <1>3, <1>5, RestartAllSteps DEF DisableGuard, s1, s2

-----------------------------------------------------------------------------
(* An operation goes on, or another one takes its place.                    *)

\* Step <<v, p>> is over, what was behind it is left.
GoesOn(v, p) ==
  /\ v \in Verbs /\ p \in Procs /\ Belongs(op, <<v, p>>)
  /\ Left = Left' \cup {<<v, p>>} /\ <<v, p>> \notin Left'
  /\ \A y \in Left' : InOrder(<<v, p>>, y) /\ y \in Steps /\ Belongs(op, y)
  /\ \/ Left' = {} /\ op' = Idle
     \/ /\ op'.name = op.name /\ op'.ports = op.ports /\ op'.value = op.value
        /\ op'.for = op.for /\ op'.was = op.was /\ op'.failed \in {op.failed, TRUE}

LEMMA IdleFits == Fits(Idle) /\ StepsIn(Idle.todo) = {}
<1>1. <<>> \in [{} -> WorkerPorts \cup {0}]
  OBVIOUS
<1>2. <<>> \in Ports
  BY <1>1 DEF Ports
<1>3. Goes(<<>>) /\ StepsIn(<<>>) = {}
  BY NoSteps
<1>4. <<>> \in Seq(Steps)
  OBVIOUS
<1>5. Idle.todo = <<>>
  BY DEF Idle
<1>6. Idle \in Ops
  BY <1>2, <1>4, ParametersOK, IdsFinite DEF Idle, Ops, Names
<1> QED  BY <1>3, <1>5, <1>6 DEF Fits

LEMMA IdleName == Idle.name = "idle" /\ Idle.todo = <<>> /\ Idle.failed = FALSE
BY DEF Idle

LEMMA Replanned ==
  ASSUME NEW o \in Ops, NEW list, Goes(list), \A x \in StepsIn(list) : Belongs(o, x),
         op' = Then(o, list)
  PROVE  /\ PlanOK' /\ Left' = StepsIn(list)
         /\ \/ list = <<>> /\ Left' = {} /\ op' = Idle
            \/ /\ list # <<>> /\ op' = [o EXCEPT !.todo = list] /\ op'.name = o.name
               /\ op'.ports = o.ports /\ op'.value = o.value /\ op'.for = o.for
               /\ op'.was = o.was /\ op'.failed = o.failed
<1>1. CASE list = <<>>
  <2>1. op' = Idle
    BY <1>1 DEF Then
  <2>2. Fits(op') /\ StepsIn(op'.todo) = {}
    BY <2>1, IdleFits
  <2> QED  BY <1>1, <2>1, <2>2, NoSteps DEF PlanOK, Fits, Left
<1>2. CASE list # <<>>
  <2>1. op' = [o EXCEPT !.todo = list]
    BY <1>2 DEF Then
  <2>2. list \in Seq(Steps)
    BY DEF Goes
  <2>3. op' \in Ops /\ op'.todo = list
    BY <2>1, <2>2 DEF Ops
  <2>4. /\ op'.name = o.name /\ op'.ports = o.ports /\ op'.value = o.value
        /\ op'.for = o.for /\ op'.was = o.was /\ op'.failed = o.failed
    BY <2>1 DEF Ops
  <2>5. \A x \in StepsIn(list) : Belongs(op', x)
    BY <2>4 DEF Belongs
  <2>6. Fits(op')
    BY <2>3, <2>5 DEF Fits
  <2> QED  BY <1>2, <2>1, <2>3, <2>4, <2>6 DEF PlanOK, Fits, Left
<1> QED  BY <1>1, <1>2

LEMMA Continues ==
  ASSUME PlanOK, op.todo # <<>>, NEW b \in {op.failed, TRUE},
         op' = Then([op EXCEPT !.failed = b], Tail(op.todo))
  PROVE  PlanOK' /\ GoesOn(Head(op.todo)[1], Head(op.todo)[2])
<1> DEFINE o == [op EXCEPT !.failed = b]
           h == Head(op.todo)
           t == Tail(op.todo)
<1>1. op \in Ops /\ Goes(op.todo) /\ \A x \in Left : Belongs(op, x)
  BY DEF PlanOK, Fits, Left
<1>2. /\ Goes(t) /\ h \in Steps /\ Left = StepsIn(t) \cup {h} /\ h \notin StepsIn(t)
      /\ \A y \in StepsIn(t) : InOrder(h, y)
  BY <1>1, Rest DEF Left
<1>3. b \in BOOLEAN
  BY <1>1 DEF Ops
<1>4. o \in Ops
  BY <1>1, <1>3 DEF Ops
<1>5. /\ o.name = op.name /\ o.ports = op.ports /\ o.value = op.value /\ o.for = op.for
      /\ o.was = op.was /\ o.failed = b
  BY <1>1 DEF Ops
<1>6. \A x \in StepsIn(t) : Belongs(o, x)
  BY <1>1, <1>2, <1>5 DEF Belongs
<1>7. h = <<h[1], h[2]>> /\ h[1] \in Verbs /\ h[2] \in Procs
  BY <1>2 DEF Steps
<1>8. \A y \in StepsIn(t) : y \in Steps
  BY <1>2 DEF Goes, StepsIn
<1> HIDE DEF o, h, t
<1>9. op' = Then(o, t)
  BY DEF o, t
<1>10. /\ PlanOK' /\ Left' = StepsIn(t)
       /\ \/ Left' = {} /\ op' = Idle
          \/ /\ op'.name = o.name
             /\ op'.ports = o.ports /\ op'.value = o.value /\ op'.for = o.for
             /\ op'.was = o.was /\ op'.failed = o.failed
  BY <1>2, <1>4, <1>6, <1>9, Replanned
<1>11. GoesOn(h[1], h[2])
  BY <1>1, <1>2, <1>5, <1>7, <1>8, <1>10 DEF GoesOn
<1> QED  BY <1>10, <1>11 DEF h

LEMMA Proceeds ==
  ASSUME PlanOK, NEW v, NEW p, At(v, p), Proceed
  PROVE  PlanOK' /\ GoesOn(v, p) /\ (op' = Idle \/ op'.failed = op.failed)
<1>1. op \in Ops
  BY DEF PlanOK, Fits
<1>2. op = [op EXCEPT !.failed = op.failed]
  BY <1>1 DEF Ops
<1>3. op' = Then([op EXCEPT !.failed = op.failed], Tail(op.todo))
  BY <1>2 DEF Proceed
<1>4. op.todo # <<>> /\ Head(op.todo) = <<v, p>>
  BY DEF At
<1>5. PlanOK' /\ GoesOn(Head(op.todo)[1], Head(op.todo)[2])
  BY <1>3, <1>4, Continues
<1>6. op' = Idle \/ op'.failed = op.failed
  BY <1>1 DEF Proceed, Then, Ops
<1> QED  BY <1>4, <1>5, <1>6

\* What the order says of what is left.
LEMMA Later ==
  ASSUME NEW v, NEW p, GoesOn(v, p)
  PROVE  /\ \A w, q : Has(w, q)' => /\ Has(w, q) /\ ~(w = v /\ q = p) /\ w \in Verbs /\ q \in Procs
                                    /\ Phase(v) <= Phase(w)
                                    /\ (q = p /\ Phase(v) = Phase(w)) => Turn(v) <= Turn(w)
                                    /\ op'.name = op.name /\ op'.ports = op.ports
                                    /\ op' # Idle
         /\ \A w, q : Has(w, q) => Has(w, q)' \/ (w = v /\ q = p)
         /\ Has(v, p) /\ ~Has(v, p)'
<1>1. StepsIn(Idle.todo) = {}
  BY IdleFits
<1>2. op' = Idle => Left' = {}
  BY <1>1 DEF Left
<1> QED  BY <1>2 DEF GoesOn, Has, InOrder, Steps

-----------------------------------------------------------------------------
(* The parts of the invariant that a step does not concern.                 *)

\* The variables that Together reads, but for the plan.
LEMMA KeepsTogether ==
  ASSUME Together, PlanOK, NEW v, NEW p, GoesOn(v, p), UNCHANGED <<registry, port>>,
         \A i \in Ids : op.name = "enable" /\ Has("save", i) =>
           /\ \/ conf'[i].port = conf[i].port /\ (v # "conf" \/ p # i)
              \/ conf'[i].port = op.ports[i]
           /\ \/ unit'[i] = unit[i] /\ (v # "unit" \/ p # i)
              \/ unit'[i] = "partOf",
         Certain' => Certain \/ v = "line", v \notin {"save", "drop"}
  PROVE  Together'
<1>1. /\ \A w, q : Has(w, q)' => /\ Has(w, q) /\ ~(w = v /\ q = p) /\ w \in Verbs /\ q \in Procs
                                 /\ Phase(v) <= Phase(w)
                                 /\ (q = p /\ Phase(v) = Phase(w)) => Turn(v) <= Turn(w)
                                 /\ op'.name = op.name /\ op'.ports = op.ports
      /\ \A w, q : Has(w, q) => Has(w, q)' \/ (w = v /\ q = p)
  BY Later
<1>2. Workers' = Workers /\ PortsOf(Workers)' = PortsOf(Workers) /\ registry' = registry
  BY DEF Workers, PortsOf
<1>3. Staying' = Staying
  BY <1>1, <1>2 DEF Staying
<1>4. \A x \in Left' : x[1] \in ApplyVerbs => Has("line", Main)'
  <2> SUFFICES ASSUME NEW x \in Left', x[1] \in ApplyVerbs PROVE Has("line", Main)'
    OBVIOUS
  <2>1. x \in Steps /\ x = <<x[1], x[2]>> /\ Has(x[1], x[2])'
    BY DEF GoesOn, Steps, Has
  <2>2. Has("line", Main)
    <3>1. x \in Left
      BY DEF GoesOn
    <3> QED  BY <3>1 DEF Together
  <2>3. v = "line" => Phase(x[1]) >= 21
    BY <1>1, <2>1, MorePhases, PhasesAreNumbers
  <2>4. v = "line" => x = <<"line", Main>>
    BY <2>1, <2>3, <1>1, MorePhases DEF ApplyVerbs, Belongs, Has, GoesOn, MainVerbs
  <2> QED  BY <1>1, <2>1, <2>2, <2>4
<1>5. Has("line", Main)' => (Workers # {} \/ (op.name = "enable" /\ Does("save")))'
  <2> SUFFICES ASSUME Has("line", Main)', Workers = {} PROVE op'.name = "enable" /\ Does("save")'
    BY <1>2
  <2>1. op.name = "enable" /\ Does("save") /\ op'.name = op.name
    BY <1>1, <1>2 DEF Together
  <2> QED  BY <2>1, <1>1 DEF Does
<1>6. ASSUME NEW x \in Left',
             (op'.name = "enable" /\ Phase(x[1]) < 16) \/ (x[1] = "port" /\ Workers' # {}),
             NEW w \in ApplyVerbs
      PROVE  Has(w, Main)'
  <2>1. x \in Steps /\ x = <<x[1], x[2]>> /\ Has(x[1], x[2])'
    BY DEF GoesOn, Steps, Has
  <2>2. x \in Left /\ op'.name = op.name /\ Phase(v) < 16
    BY <1>6, <2>1, <1>1, PhasesAreNumbers, MorePhases DEF Has
  <2>3. v \notin ApplyVerbs
    BY <2>2, MorePhases DEF ApplyVerbs
  <2>4. Has(w, Main)
    BY <1>2, <1>6, <2>2 DEF Together
  <2> QED  BY <2>3, <2>4, <1>1
<1>7. ASSUME NEW i \in Ids
      PROVE  /\ (\E w \in AddVerbs : Has(w, i)') => Has("save", i)'
             /\ Has("save", i)' => registry'[i] = "none"
             /\ (\E w \in RemoveVerbs : Has(w, i)') => Has("drop", i)'
             /\ Has("drop", i)' /\ op'.name \in {"remove", "uninstall"} => i \notin Workers'
             /\ Has("start", i)' \/ Has("restart", i)' => Has("save", i)' \/ registry'[i] # "none"
  BY <1>1, <1>2 DEF Together
<1>8. ASSUME NEW i \in Ids, op'.name = "enable", Has("save", i)'
      PROVE  /\ Has("want", Main)' /\ Has("await", i)'
             /\ op'.ports[i] \notin PortsOf(Workers)'
             /\ \A j \in Ids : Has("save", j)' /\ op'.ports[j] = op'.ports[i] => i = j
             /\ Has("conf", i)' \/ conf'[i].port = op'.ports[i]
             /\ Has("unit", i)' \/ unit'[i] = "partOf"
  <2>1. Has("save", i) /\ op.name = "enable" /\ op'.ports = op.ports
    BY <1>1, <1>8
  <2>2. Phase(v) <= 11
    BY <1>1, <1>8, PhaseValues DEF AddVerbs
  <2>3. v \notin {"want", "await"}
    BY <2>2, MorePhases
  <2> QED  BY <2>1, <2>3, <1>1, <1>2, IdsFinite DEF Together
<1>9. \A x \in Left' :
        x[1] \in TeardownVerbs \cup {"check"} \/ (x[1] = "wipe" /\ Certain') => Staying' = {}
  <2> SUFFICES ASSUME NEW x \in Left',
                      x[1] \in TeardownVerbs \cup {"check"} \/ (x[1] = "wipe" /\ Certain')
               PROVE  Staying = {}
    BY <1>3
  <2>1. x \in Left /\ Belongs(op, x)
    BY DEF GoesOn
  <2>2. x[1] = "wipe" => v # "line"
    BY <2>1 DEF GoesOn, Belongs, ApplyVerbs
  <2> QED  BY <2>1, <2>2 DEF Together
<1>10. Has("oldJumps", Main)' => Has("jump", Main)'
  <2> SUFFICES ASSUME Has("oldJumps", Main)' PROVE Has("jump", Main)'
    OBVIOUS
  <2>1. Has("jump", Main) /\ Phase(v) <= Phase("oldJumps")
    BY <1>1 DEF Together
  <2>2. v # "jump"
    BY <2>1, MorePhases
  <2> QED  BY <1>1, <2>1, <2>2
<1> QED  BY <1>4, <1>5, <1>6, <1>7, <1>8, <1>9, <1>10 DEF Together

\* The verbs that change rules, or the workers rules are for.
RuleVerbs == ApplyVerbs \cup TeardownVerbs

LEMMA KeepsRules ==
  ASSUME RulesOK, PlanOK, NEW v, NEW p, GoesOn(v, p), UNCHANGED <<registry, port, rules>>,
         conf'[Main].port = conf[Main].port, Certain' => Certain,
         v \notin RuleVerbs \cup {"save", "drop"}
  PROVE  RulesOK'
<1>1. /\ \A w, q : Has(w, q)' => Has(w, q)
      /\ \A w, q : Has(w, q) => Has(w, q)' \/ (w = v /\ q = p)
  BY Later
<1>2. \A w \in RuleVerbs : Has(w, Main)' = Has(w, Main)
  BY <1>1 DEF Has
<1>3. Workers' = Workers /\ PortsOf(Workers)' = PortsOf(Workers) /\ registry' = registry
  BY DEF Workers, PortsOf
<1>4. Staying' = Staying
  BY <1>1, <1>3 DEF Staying
<1>5. PortsOf(Staying)' = PortsOf(Staying)
  BY <1>4 DEF PortsOf
<1>6. nat' = nat /\ input' = input /\ jumps' = jumps /\ guarded' = guarded /\ wants' = wants /\ line' = line
  BY DEF rules
<1>7. Certain' \/ Has("line", Main)' => Certain \/ Has("line", Main)
  BY <1>1
<1>8. /\ Has("nat", Main)' = Has("nat", Main) /\ Has("noNat", Main)' = Has("noNat", Main)
      /\ Has("input", Main)' = Has("input", Main) /\ Has("noInput", Main)' = Has("noInput", Main)
      /\ Has("jump", Main)' = Has("jump", Main) /\ Has("unjump", Main)' = Has("unjump", Main)
      /\ Has("dropIn", Main)' = Has("dropIn", Main) /\ Has("noDropIn", Main)' = Has("noDropIn", Main)
      /\ Has("line", Main)' = Has("line", Main) /\ Has("noLine", Main)' = Has("noLine", Main)
      /\ Has("oldJumps", Main)' = Has("oldJumps", Main)
  BY <1>2 DEF RuleVerbs, ApplyVerbs, TeardownVerbs
<1>9. Has("port", Main)' => Has("port", Main)
  BY <1>1
<1> QED  BY <1>3, <1>4, <1>5, <1>6, <1>7, <1>8, <1>9 DEF RulesOK

LEMMA KeepsShares ==
  ASSUME SharesOK, PlanOK, NEW v, NEW p, GoesOn(v, p), UNCHANGED <<registry, port>>,
         Sharing' \subseteq Sharing, jumps' \subseteq jumps,
         v \notin {"nat", "unjump", "check", "save", "drop"}
  PROVE  SharesOK'
<1>1. /\ \A w, q : Has(w, q)' => Has(w, q) /\ op'.name = op.name /\ op' # Idle
      /\ \A w, q : Has(w, q) => Has(w, q)' \/ (w = v /\ q = p)
  BY Later
<1>2. Workers' = Workers /\ PortsOf(Workers)' = PortsOf(Workers)
  BY DEF Workers, PortsOf
<1>3. Going' => Going /\ op' # Idle
  BY <1>1, <1>2 DEF Going, Does
<1>4. op' # Idle => (op.failed => op'.failed)
  BY DEF GoesOn
<1> QED  BY <1>1, <1>2, <1>3, <1>4 DEF SharesOK

LEMMA KeepsWorkers ==
  ASSUME WorkersOK, PlanOK, NEW v, NEW p, GoesOn(v, p),
         UNCHANGED <<registry, port, proc, due, wants>>, Sound' => Sound,
         (\E w \in Workers : Has("drop", w)) /\ Sharing = {} => Sharing' = {},
         \A w \in Workers : Fixed(w) => Fixed(w)' \/ (Has("drop", w)' /\ ~Has("check", Main)'),
         v = "await" => proc[p] # Absent,
         v \notin {"want", "check", "noDropIn", "stop", "drop", "save"}
  PROVE  WorkersOK'
<1>1. /\ \A w, q : Has(w, q)' => Has(w, q) /\ op'.name = op.name /\ op' # Idle
      /\ \A w, q : Has(w, q) => Has(w, q)' \/ (w = v /\ q = p)
  BY Later
<1>2. /\ registry' = registry /\ port' = port /\ proc' = proc /\ due' = due /\ wants' = wants
      /\ Workers' = Workers
  BY DEF Workers
<1>3. Going' => Going /\ op' # Idle
  BY <1>1, <1>2 DEF Going, Does
<1>4. op' # Idle => (op.failed => op'.failed) /\ op'.name = op.name
  BY DEF GoesOn, Idle
<1>5. \A i \in Procs : Running(i)' = Running(i)
  BY <1>2 DEF Running
<1>7. \A w \in Workers : w \in Ids /\ w \in Procs
  BY IdsFinite DEF Workers
<1>8. \A w \in Ids : /\ Has("drop", w) => Has("drop", w)'
                     /\ Has("drop", w)' => Has("drop", w)
                     /\ Has("await", w) => Has("await", w)' \/ proc[w] # Absent
  BY <1>1
<1>9. /\ Has("check", Main)' = Has("check", Main) /\ Has("want", Main)' = Has("want", Main)
      /\ Has("noDropIn", Main)' = Has("noDropIn", Main)
  BY <1>1 DEF Has
<1>10. (op.name = "enable")' => \A w \in Workers : Has("await", w)' \/ proc'[w] # Absent
  <2> SUFFICES ASSUME op'.name = "enable", NEW w \in Workers PROVE Has("await", w)' \/ proc'[w] # Absent
    BY <1>2
  <2>1. op.name = "enable"
    BY <1>4, IdleName
  <2>2. Has("await", w) \/ proc[w] # Absent
    BY <2>1 DEF WorkersOK
  <2>3. w \in Ids /\ proc'[w] = proc[w]
    BY <1>2, <1>7
  <2>4. Has("await", w) => Has("await", w)' \/ proc[w] # Absent
    BY <2>3, <1>1
  <2> QED  BY <2>2, <2>3, <2>4
<1>11. ASSUME Sound'
       PROVE  /\ \A w \in Workers : Fixed(w)' \/ (Has("drop", w)' /\ ~Has("check", Main)')
              /\ \A w \in Workers : w \in wants' \/ (op'.name = "enable" /\ Has("want", Main)')
                                    \/ Has("drop", w)'
              /\ wants' \subseteq Workers
  BY <1>1, <1>2, <1>7, <1>8, <1>9, <1>11 DEF WorkersOK
<1>12. ASSUME Sound'
       PROVE  Going' => wants' = {} \/ (Has("check", Main)' /\ (Has("noDropIn", Main)' \/ op'.failed))
  BY <1>2, <1>3, <1>4, <1>9, <1>12 DEF WorkersOK
<1>13. ASSUME Sound', Running(Main)', NEW w \in Workers
       PROVE  \/ Running(w)'
              \/ op'.name = "enable" /\ Has("await", w)'
              \/ Has("drop", w)' /\ Sharing' = {}
  <2>1. Running(Main)
    BY <1>5, <1>13, IdsFinite
  <2>2. \/ Running(w)
        \/ op.name = "enable" /\ Has("await", w)
        \/ Has("drop", w) /\ Sharing = {}
    BY <2>1, <1>2, <1>13 DEF WorkersOK
  <2>3. proc[w] # Absent => Running(w)
    BY DEF Running
  <2>4. Has("await", w)' => op'.name = op.name
    BY <1>1
  <2>5. w \in Ids /\ (Running(w)' = Running(w)) /\ (Has("drop", w) /\ Sharing = {} => Sharing' = {})
    BY <1>2, <1>5, <1>7
  <2>6. /\ Has("await", w) => Has("await", w)' \/ proc[w] # Absent
        /\ Has("drop", w) => Has("drop", w)'
    BY <2>5, <1>1
  <2>7. Running(w) => Running(w)'
    BY <2>5
  <2> QED  BY <2>2, <2>3, <2>4, <2>5, <2>6, <2>7
<1>14. ASSUME Sound', NEW i \in Ids
       PROVE  /\ registry'[i] = "none" => ~Running(i)'
              /\ Does("wipe")' => registry'[i] = "none" \/ Has("drop", i)'
              /\ Has("drop", i)' => Has("stop", i)' \/ ~Running(i)'
  <2>1. Does("wipe")' => Does("wipe")
    BY <1>1 DEF Does
  <2> QED  BY <1>1, <1>2, <1>5, <1>14, <2>1, IdsFinite DEF WorkersOK
<1> QED
  BY <1>2, <1>10, <1>11, <1>12, <1>13, <1>14 DEF WorkersOK

-----------------------------------------------------------------------------
(* Values.                                                                  *)

\* The type invariant, but for what PlanOK says of the operation.
Values ==
  /\ registry \in [Ids -> {"none", "worker", "extra"}]
  /\ port \in [Ids -> WorkerPorts \cup {0}]
  /\ conf \in [Procs -> Confs] /\ proc \in [Procs -> Confs]
  /\ unit \in [Procs -> {"none", "plain", "partOf"}] /\ due \subseteq Procs
  /\ cap \in [Procs -> Mbps] /\ guard \subseteq GuardParts
  /\ nat \subseteq WorkerPorts /\ input \subseteq WorkerPorts /\ jumps \subseteq PublicPorts
  /\ guarded \in BOOLEAN /\ wants \subseteq Ids /\ line \in BOOLEAN
  /\ doubt \subseteq Doubts /\ spent \in 0..MaxSpent

Instances ==
  /\ \A i, j \in Workers : port[i] = port[j] => i = j
  /\ \A i \in Ids : port[i] # 0 <=> i \in Workers
  /\ \A i \in Ids : conf[i].port \in WorkerPorts \cup {0} /\ proc[i].port \in WorkerPorts \cup {0}
  /\ \A p \in due : proc[p] = Absent

Primary ==
  /\ conf[Main].port \in PublicPorts \/ conf[Main] = Absent
  /\ conf[Main] = Absent =>
       unit[Main] = "none" /\ Workers = {} /\ op.name \notin {"enable", "port", "apply"}
  /\ "wipe" \in {x[1] : x \in Left} => Has("halt", Main) \/ unit[Main] = "none"

LEMMA TypedParts == ASSUME PlanOK PROVE Typed <=> Values /\ Instances /\ Primary
<1>1. op.name \in Names /\ op.for \in Procs /\ op.value \in Mbps \cup PublicPorts \cup {0, 1}
      /\ op.failed \in BOOLEAN
  BY DEF PlanOK, Fits, Ops
<1> QED  BY <1>1 DEF Typed, TypeOK, Values, Instances, Primary

LEMMA TypedNext == ASSUME PlanOK', Values', Instances', Primary' PROVE Typed'
<1>1. op'.name \in Names /\ op'.for \in Procs /\ op'.value \in Mbps \cup PublicPorts \cup {0, 1}
      /\ op'.failed \in BOOLEAN
  BY DEF PlanOK, Fits, Ops
<1> QED  BY <1>1 DEF Typed, TypeOK, Values, Instances, Primary

LEMMA AbsentPort == Absent \in Confs /\ Absent.port = 0 /\ 0 \notin PublicPorts /\ 0 \notin WorkerPorts
BY ParametersOK DEF Absent, Confs

\* A step that leaves the primary's file and unit where they are.
LEMMA KeepsPrimary ==
  ASSUME Primary, PlanOK, NEW v, NEW p, GoesOn(v, p), v # "halt",
         unit'[Main] = unit[Main], conf[Main] \in Confs, conf'[Main] \in Confs,
         conf'[Main].port = conf[Main].port, conf[Main] = Absent => conf'[Main] = Absent,
         Workers = {} => Workers' = {}
  PROVE  Primary'
<1>1. /\ \A w, q : Has(w, q)' => Has(w, q)
      /\ \A w, q : Has(w, q) => Has(w, q)' \/ (w = v /\ q = p)
  BY Later
<1>2. conf[Main] # Absent => conf[Main].port \in PublicPorts /\ conf'[Main].port \in PublicPorts
  BY DEF Primary
<1>3. conf'[Main].port \in PublicPorts => conf'[Main] # Absent
  BY AbsentPort
<1>4. conf[Main] = Absent => op'.name \notin {"enable", "port", "apply"} /\ unit'[Main] = "none"
                             /\ Workers' = {}
  BY IdleName DEF Primary, GoesOn
<1>5. "wipe" \in {x[1] : x \in Left'} => Has("halt", Main)' \/ unit'[Main] = "none"
  BY <1>1 DEF Primary, GoesOn
<1> QED  BY <1>2, <1>3, <1>4, <1>5 DEF Primary

-----------------------------------------------------------------------------
(* The steps.                                                               *)

QuietVerbs == CapSteps \cup {"confirm", "inject", "noCaps", "dup", "manage", "unmanage", "noGuard"} \cup GuardParts

LEMMA QuietStep ==
  ASSUME IInv, PlanOK', NEW v \in QuietVerbs, NEW p, GoesOn(v, p),
         UNCHANGED <<instances, processes, rules, doubt, spent>>,
         conf' \in [Procs -> Confs], \A q \in Procs : conf'[q].port = conf[q].port,
         \A q \in Procs : conf[q] = Absent => conf'[q] = Absent,
         cap' \in [Procs -> Mbps], guard' \subseteq GuardParts
  PROVE  IInv'
<1>1. PlanOK /\ Typed /\ Together /\ RulesOK /\ SharesOK /\ WorkersOK /\ Values /\ Instances /\ Primary
  BY TypedParts DEF IInv
<1>2. /\ registry' = registry /\ port' = port /\ unit' = unit /\ proc' = proc /\ due' = due
      /\ doubt' = doubt /\ spent' = spent /\ nat' = nat /\ input' = input /\ jumps' = jumps
      /\ guarded' = guarded /\ wants' = wants /\ line' = line
  BY DEF instances, processes, rules
<1>3. Workers' = Workers /\ Certain' = Certain /\ Sound' = Sound
  BY <1>2 DEF Workers, Certain, Sound
<1>4. Values'
  BY <1>1, <1>2 DEF Values
<1>5. Instances'
  BY <1>1, <1>2, <1>3, IdsFinite DEF Instances
<1>6. Primary'
  BY <1>1, <1>2, <1>3, IdsFinite, KeepsPrimary DEF Values, QuietVerbs, CapSteps, GuardParts
<1>7. Together'
  BY <1>1, <1>2, <1>3, IdsFinite, KeepsTogether DEF QuietVerbs, CapSteps, GuardParts
<1>8. RulesOK'
  BY <1>1, <1>2, <1>3, IdsFinite, KeepsRules
     DEF QuietVerbs, CapSteps, GuardParts, RuleVerbs, ApplyVerbs, TeardownVerbs, rules
<1>9. Sharing' = Sharing
  BY <1>2 DEF Sharing
<1>12. SharesOK'
  BY <1>1, <1>2, <1>9, KeepsShares DEF QuietVerbs, CapSteps, GuardParts
<1>10. WorkersOK'
  <2>1. \A w \in Workers : Fixed(w) => Fixed(w)'
    BY <1>2, IdsFinite DEF Fixed, Workers
  <2> QED  BY <1>1, <1>2, <1>3, <1>9, <2>1, KeepsWorkers DEF QuietVerbs, CapSteps, GuardParts
<1>11. Typed'
  BY <1>4, <1>5, <1>6, TypedNext
<1> QED  BY <1>7, <1>8, <1>10, <1>11, <1>12 DEF IInv

\* What the hooks of the caps leave as it is.
LEMMA HookedConfs ==
  ASSUME conf \in [Procs -> Confs], NEW caps
  PROVE  /\ Hooked(caps) \in [Procs -> Confs]
         /\ \A q \in Procs : Hooked(caps)[q].port = conf[q].port
         /\ \A q \in Procs : conf[q] = Absent => Hooked(caps)[q] = Absent
BY AbsentPort DEF Hooked, Confs

LEMMA CappedTyped ==
  ASSUME IInv, NEW v, NEW p, At(v, p), v \in CapSteps, p \in Procs
  PROVE  Capped(p) \in Mbps
<1>1. op \in Ops /\ cap \in [Procs -> Mbps] /\ cap[Main] \in Mbps /\ op.was \in Mbps
  BY TypedParts, IdsFinite DEF IInv, Values, PlanOK, Fits, Ops
<1>2. op.todo # <<>> /\ Head(op.todo) = <<v, p>>
  BY DEF At
<1>3. Head(op.todo) \in Left /\ \A x \in Left : Belongs(op, x)
  BY <1>2, Rest DEF IInv, PlanOK, Fits, Left
<1>4. v = "cap" => op.value \in Mbps
  BY <1>2, <1>3 DEF Belongs
<1> QED  BY <1>1, <1>2, <1>4, ParametersOK DEF Capped, At

LEMMA SetLimitOK ==
  ASSUME IInv, NEW p \in Procs, SetLimit(p)
  PROVE  IInv'
<1>1. PICK v \in CapSteps : At(v, p)
  BY DEF SetLimit
<1>2. PlanOK' /\ GoesOn(v, p)
  BY <1>1, Proceeds DEF SetLimit, IInv
<1>3. Values
  BY TypedParts DEF IInv
<1>4. Capped(p) \in Mbps
  BY <1>1, CappedTyped
<1>5. cap' \in [Procs -> Mbps] /\ guard' \subseteq GuardParts
  BY <1>3, <1>4 DEF SetLimit, Values
<1>6. /\ conf' \in [Procs -> Confs] /\ \A q \in Procs : conf'[q].port = conf[q].port
      /\ \A q \in Procs : conf[q] = Absent => conf'[q] = Absent
  BY <1>3, HookedConfs DEF SetLimit, Values
<1>7. UNCHANGED <<instances, processes, rules, doubt, spent>>
  BY DEF SetLimit, Same
<1> QED  BY <1>2, <1>5, <1>6, <1>7, QuietStep DEF QuietVerbs

LEMMA InjectOK ==
  ASSUME IInv, NEW p \in Procs, Inject(p)
  PROVE  IInv'
<1>1. PlanOK' /\ GoesOn("inject", p)
  BY Proceeds DEF Inject, IInv
<1>2. Values
  BY TypedParts DEF IInv
<1>3. /\ conf' \in [Procs -> Confs] /\ \A q \in Procs : conf'[q].port = conf[q].port
      /\ \A q \in Procs : conf[q] = Absent => conf'[q] = Absent
  BY <1>2, HookedConfs DEF Inject, Values
<1>4. /\ UNCHANGED <<instances, processes, rules, doubt, spent>>
      /\ cap' \in [Procs -> Mbps] /\ guard' \subseteq GuardParts
  BY <1>2 DEF Inject, Same, settings, Values
<1> QED  BY <1>1, <1>3, <1>4, QuietStep DEF QuietVerbs

LEMMA NoCapsOK ==
  ASSUME IInv, NoCaps
  PROVE  IInv'
<1>1. PlanOK' /\ GoesOn("noCaps", Main)
  BY Proceeds DEF NoCaps, IInv
<1>2. Values
  BY TypedParts DEF IInv
<1>3. /\ conf' \in [Procs -> Confs] /\ \A q \in Procs : conf'[q].port = conf[q].port
      /\ \A q \in Procs : conf[q] = Absent => conf'[q] = Absent
  BY <1>2, HookedConfs, AbsentPort DEF NoCaps, Values
<1>4. /\ UNCHANGED <<instances, processes, rules, doubt, spent>>
      /\ cap' \in [Procs -> Mbps] /\ guard' \subseteq GuardParts
  BY <1>2, ParametersOK DEF NoCaps, Same, settings, Values
<1> QED  BY <1>1, <1>3, <1>4, QuietStep DEF QuietVerbs

LEMMA SetDuplicateCNOK ==
  ASSUME IInv, NEW p \in Procs, SetDuplicateCN(p)
  PROVE  IInv'
<1>1. PlanOK' /\ GoesOn("dup", p)
  BY Proceeds DEF SetDuplicateCN, IInv
<1>2. Values
  BY TypedParts DEF IInv
<1>3. /\ conf' \in [Procs -> Confs] /\ \A q \in Procs : conf'[q].port = conf[q].port
      /\ \A q \in Procs : conf[q] = Absent => conf'[q] = Absent
  <2>1. PICK b \in BOOLEAN : conf' = IF conf[p] = Absent THEN conf ELSE [conf EXCEPT ![p].dup = b]
    BY DEF SetDuplicateCN
  <2>2. CASE conf[p] = Absent
    BY <1>2, <2>1, <2>2 DEF Values
  <2>3. CASE conf[p] # Absent
    <3>1. conf' = [conf EXCEPT ![p].dup = b]
      BY <2>1, <2>3
    <3>2. conf \in [Procs -> Confs]
      BY <1>2 DEF Values
    <3>3. \A q \in Procs : conf[q] = Absent => q # p
      BY <2>3
    <3>4. /\ conf' \in [Procs -> Confs] /\ \A q \in Procs : conf'[q].port = conf[q].port
          /\ \A q \in Procs \ {p} : conf'[q] = conf[q]
      BY <3>1, <3>2 DEF Confs
    <3> QED  BY <3>3, <3>4
  <2> QED  BY <2>2, <2>3
<1>4. /\ UNCHANGED <<instances, processes, rules, doubt, spent>>
      /\ cap' \in [Procs -> Mbps] /\ guard' \subseteq GuardParts
  BY <1>2 DEF SetDuplicateCN, Same, settings, Values
<1> QED  BY <1>1, <1>3, <1>4, QuietStep DEF QuietVerbs

LEMMA ManageConfOK ==
  ASSUME IInv, NEW p \in Procs, ManageConf(p)
  PROVE  IInv'
<1>1. PICK v \in {"manage", "unmanage"} : At(v, p)
  BY DEF ManageConf
<1>2. PlanOK' /\ GoesOn(v, p)
  BY <1>1, Proceeds DEF ManageConf, IInv
<1>3. Values
  BY TypedParts DEF IInv
<1>4. /\ conf' \in [Procs -> Confs] /\ \A q \in Procs : conf'[q].port = conf[q].port
      /\ \A q \in Procs : conf[q] = Absent => conf'[q] = Absent
  <2>1. At("manage", p) \in BOOLEAN
    BY DEF At
  <2>2. PICK b \in BOOLEAN :
          conf' = IF conf[p] = Absent THEN conf ELSE [conf EXCEPT ![p].managed = b]
    BY <2>1 DEF ManageConf
  <2>3. CASE conf[p] = Absent
    BY <1>3, <2>2, <2>3 DEF Values
  <2>4. CASE conf[p] # Absent
    <3>1. conf' = [conf EXCEPT ![p].managed = b]
      BY <2>2, <2>4
    <3>2. conf \in [Procs -> Confs]
      BY <1>3 DEF Values
    <3>3. \A q \in Procs : conf[q] = Absent => q # p
      BY <2>4
    <3>4. /\ conf' \in [Procs -> Confs] /\ \A q \in Procs : conf'[q].port = conf[q].port
          /\ \A q \in Procs \ {p} : conf'[q] = conf[q]
      BY <3>1, <3>2 DEF Confs
    <3> QED  BY <3>3, <3>4
  <2> QED  BY <2>3, <2>4
<1>5. /\ UNCHANGED <<instances, processes, rules, doubt, spent>>
      /\ cap' \in [Procs -> Mbps] /\ guard' \subseteq GuardParts
  BY <1>3 DEF ManageConf, Same, settings, Values
<1> QED  BY <1>2, <1>4, <1>5, QuietStep DEF QuietVerbs

LEMMA SwitchOK ==
  ASSUME IInv, SwitchOn \/ SwitchOff
  PROVE  IInv'
<1>1. PICK v \in GuardParts \cup {"noGuard"} : At(v, Main) /\ guard' \subseteq guard \cup (GuardParts \cap {v})
  BY DEF SwitchOn, SwitchOff
<1>2. Proceed /\ Same /\ UNCHANGED <<instances, conf, processes, cap, rules>>
  BY DEF SwitchOn, SwitchOff
<1>3. PlanOK' /\ GoesOn(v, Main)
  BY <1>1, <1>2, Proceeds DEF IInv
<1>4. Values
  BY TypedParts DEF IInv
<1>5. /\ conf' \in [Procs -> Confs] /\ \A q \in Procs : conf'[q].port = conf[q].port
      /\ \A q \in Procs : conf[q] = Absent => conf'[q] = Absent
  BY <1>2, <1>4 DEF Values
<1>6. /\ UNCHANGED <<instances, processes, rules, doubt, spent>>
      /\ cap' \in [Procs -> Mbps] /\ guard' \subseteq GuardParts
  BY <1>1, <1>2, <1>4 DEF Same, Values
<1> QED  BY <1>3, <1>5, <1>6, QuietStep DEF QuietVerbs

\* The processes that start with p, and those that stop with it.
With(p) == {p} \cup (IF p = Main THEN Wanted ELSE {})

LEMMA StartedOK ==
  ASSUME IInv, NEW v \in {"start", "restart"}, NEW p \in Procs, GoesOn(v, p),
         UNCHANGED <<instances, wants, nat, jumps, doubt, conf>>,
         NEW group \in SUBSET Procs, With(p) \subseteq group,
         \A i \in group : i \in With(p) \/ Running(i),
         \A q \in Procs : /\ Running(q)' <=> Running(q) \/ q \in group
                          /\ proc'[q] = proc[q] \/ (proc'[q] = Absent /\ v = "restart")
  PROVE  WorkersOK'
<1>1. /\ \A w, q : Has(w, q)' => Has(w, q) /\ op'.name = op.name /\ op' # Idle /\ Phase(v) <= Phase(w)
      /\ \A w, q : Has(w, q) => Has(w, q)' \/ (w = v /\ q = p)
      /\ Has(v, p)
  BY Later
<1>2. /\ registry' = registry /\ port' = port /\ unit' = unit /\ conf' = conf /\ wants' = wants
      /\ Workers' = Workers /\ Sharing' = Sharing /\ Sound' = Sound
  BY DEF instances, Workers, Sharing, Sound
<1>3. Workers \subseteq Ids /\ Ids \subseteq Procs /\ Main \in Procs
  BY IdsFinite DEF Workers
<1>4. \A q : ~Has("drop", q)
  <2>1. \A x \in Left : Belongs(op, x)
    BY DEF GoesOn
  <2>2. op.name \in {"enable", "extra", "control", "limit", "unlimit", "multilogin", "port", "guard", "unguard"}
    BY DEF GoesOn, Belongs
  <2>3. ASSUME NEW q, Has("drop", q) PROVE FALSE
    BY <2>1, <2>2, <2>3 DEF Has, Belongs, RemoveVerbs, IdVerbs
  <2> QED  BY <2>3
<1>5. ~Has("save", p)
  <2>1. Has("save", p) => Has("save", p)'
    BY <1>1
  <2>2. Has("save", p)' => Phase(v) <= 11
    BY <1>1, PhaseValues DEF AddVerbs
  <2> QED  BY <2>1, <2>2, MorePhases
<1>6. p \in Ids => registry[p] # "none"
  BY <1>1, <1>5 DEF IInv, Together
<1>7. Going' => Going /\ op' # Idle
  BY <1>1, <1>2 DEF Going, Does
<1>8. (op.name = "enable")' => op.name = "enable" /\ v = "start"
  BY IdleName DEF GoesOn, Belongs
<1>9. \A w \in Workers : Fixed(w) => Fixed(w)'
  BY <1>2, <1>3 DEF Fixed
<1>10. (op.name = "enable")' => \A w \in Workers : Has("await", w)' \/ proc'[w] # Absent
  <2> SUFFICES ASSUME op'.name = "enable", NEW w \in Workers PROVE Has("await", w)' \/ proc'[w] # Absent
    BY <1>2
  <2>1. Has("await", w) \/ proc[w] # Absent
    BY <1>8 DEF IInv, WorkersOK
  <2>2. proc'[w] = proc[w]
    BY <1>3, <1>8
  <2> QED  BY <2>1, <2>2, <1>1
<1>11. ASSUME Sound', NEW w \in Workers
       PROVE  /\ Fixed(w)' \/ (Has("drop", w)' /\ ~Has("check", Main)')
              /\ w \in wants' \/ (op'.name = "enable" /\ Has("want", Main)') \/ Has("drop", w)'
  <2>1. Fixed(w) /\ (w \in wants \/ (op.name = "enable" /\ Has("want", Main)))
    BY <1>2, <1>4, <1>11 DEF IInv, WorkersOK
  <2>2. Has("want", Main) => Has("want", Main)' /\ op'.name = op.name
    BY <1>1
  <2> QED  BY <2>1, <2>2, <1>2, <1>9
<1>12. ASSUME Sound' PROVE wants' \subseteq Workers
  BY <1>2, <1>12 DEF IInv, WorkersOK
<1>13. ASSUME Sound', Going'
       PROVE  wants' = {} \/ (Has("check", Main)' /\ (Has("noDropIn", Main)' \/ op'.failed))
  <2>1. wants = {} \/ (Has("check", Main) /\ (Has("noDropIn", Main) \/ op.failed))
    BY <1>2, <1>7, <1>13 DEF IInv, WorkersOK
  <2>2. op.failed => op'.failed
    BY <1>7, <1>13 DEF GoesOn
  <2> QED  BY <2>1, <2>2, <1>1, <1>2
<1>14. ASSUME Sound', Running(Main)', NEW w \in Workers
       PROVE  \/ Running(w)'
              \/ op'.name = "enable" /\ Has("await", w)'
  <2>1. CASE p = Main
    <3>1. op.name # "enable"
      BY <2>1, IdsFinite DEF GoesOn, Belongs
    <3>2. w \in wants /\ Fixed(w)
      BY <1>2, <1>4, <1>14, <3>1 DEF IInv, WorkersOK
    <3>3. w \in With(p)
      BY <2>1, <3>2, <1>3 DEF With, Wanted, Fixed
    <3> QED  BY <3>3, <1>3
  <2>2. CASE p # Main
    <3>1. Running(Main)
      BY <1>3, <1>14, <2>2 DEF With
    <3>2. Running(w) \/ (op.name = "enable" /\ Has("await", w))
      BY <1>2, <1>4, <1>14, <3>1 DEF IInv, WorkersOK
    <3>3. Has("await", w) => Has("await", w)' /\ op'.name = op.name
      BY <1>1
    <3> QED  BY <3>2, <3>3, <1>3
  <2> QED  BY <2>1, <2>2
<1>15. ASSUME Sound', NEW i \in Ids
       PROVE  /\ registry'[i] = "none" => ~Running(i)'
              /\ Does("wipe")' => registry'[i] = "none" \/ Has("drop", i)'
              /\ Has("drop", i)' => Has("stop", i)' \/ ~Running(i)'
  <2>1. ~Has("drop", i)'
    BY <1>1, <1>4
  <2>2. ASSUME registry[i] = "none" PROVE ~Running(i) /\ i \notin group
    <3>1. ~Running(i)
      BY <2>2, <1>2, <1>15 DEF IInv, WorkersOK
    <3>2. i \in With(p) => i = p \/ i \in wants
      BY DEF With, Wanted
    <3>3. wants \subseteq Workers
      BY <1>2, <1>15 DEF IInv, WorkersOK
    <3> QED  BY <3>1, <3>2, <3>3, <1>6, <2>2 DEF Workers
  <2>3. ~Does("wipe")'
    <3>1. \A x \in Left : Belongs(op, x)
      BY DEF GoesOn
    <3>2. op.name # "removeVpn"
      BY DEF GoesOn, Belongs
    <3>3. ~Does("wipe")
      BY <3>1, <3>2 DEF Does, Has, Belongs
    <3> QED  BY <3>3, <1>1 DEF Does
  <2> QED  BY <2>1, <2>2, <2>3, <1>2, <1>3
<1> QED
  BY <1>2, <1>10, <1>11, <1>12, <1>13, <1>14, <1>15 DEF WorkersOK

LEMMA StoppedOK ==
  ASSUME IInv, NEW v \in {"stop", "halt"}, NEW p \in Procs, GoesOn(v, p),
         UNCHANGED <<registry, port, wants, nat, jumps, doubt, conf>>,
         \A i \in Ids : unit'[i] = unit[i],
         NEW group \in SUBSET Procs, p \in group, p # Main => group = {p},
         \A q \in Procs : /\ Running(q)' <=> Running(q) /\ q \notin group
                          /\ proc'[q] = proc[q] \/ proc'[q] = Absent
  PROVE  WorkersOK'
<1>1. /\ \A w, q : Has(w, q)' => Has(w, q) /\ op'.name = op.name /\ op' # Idle /\ Phase(v) <= Phase(w)
      /\ \A w, q : Has(w, q) => Has(w, q)' \/ (w = v /\ q = p)
      /\ Has(v, p)
  BY Later
<1>2. /\ registry' = registry /\ port' = port /\ conf' = conf /\ wants' = wants
      /\ Workers' = Workers /\ Sharing' = Sharing /\ Sound' = Sound
  BY DEF Workers, Sharing, Sound
<1>3. Workers \subseteq Ids /\ Ids \subseteq Procs /\ Main \in Procs /\ Main \notin Ids
  BY IdsFinite DEF Workers
<1>4. op.name \in {"control", "disable", "removeVpn", "remove", "uninstall"}
  <2>1. v = "stop" /\ p \in Ids => op.name \in {"disable", "removeVpn", "remove", "uninstall"}
    BY DEF GoesOn, Belongs, RemoveVerbs
  <2>2. v = "stop" /\ p = Main => op.name = "control"
    BY DEF GoesOn, Belongs
  <2>3. v = "halt" => op.name \in {"removeVpn", "uninstall"}
    BY DEF GoesOn, Belongs
  <2> QED  BY <2>1, <2>2, <2>3 DEF Procs
<1>5. v = "halt" => p = Main
  BY DEF GoesOn, Belongs, MainVerbs
<1>6. op'.name # "enable" /\ op.name # "enable"
  BY <1>4, IdleName DEF GoesOn
<1>7. Going' => Going /\ op' # Idle
  BY <1>1, <1>2 DEF Going, Does
<1>8. \A w \in Workers : Fixed(w) => Fixed(w)'
  BY <1>2, <1>3 DEF Fixed
<1>9. p \in Workers => Has("drop", p) /\ Has("drop", p)' /\ Sharing = {}
  <2> SUFFICES ASSUME p \in Workers PROVE Has("drop", p) /\ Has("drop", p)' /\ Sharing = {}
    OBVIOUS
  <2>1. v = "stop" /\ Has("drop", p)
    BY <1>1, <1>3, <1>5 DEF IInv, Together, RemoveVerbs
  <2>2. Going
    BY <2>1 DEF Going
  <2>3. ~Has("check", Main)
    <3>1. Has("check", Main) => Has("check", Main)'
      BY <1>1, <2>1
    <3>2. Has("check", Main)' => Phase("stop") <= Phase("check")
      BY <1>1, <2>1
    <3> QED  BY <3>1, <3>2, PhaseValues, MorePhases DEF RemoveVerbs
  <2> QED  BY <1>1, <2>1, <2>2, <2>3 DEF IInv, SharesOK, Sharing
<1>10. ASSUME Sound', NEW w \in Workers
       PROVE  /\ Fixed(w)' \/ (Has("drop", w)' /\ ~Has("check", Main)')
              /\ w \in wants' \/ Has("drop", w)'
  <2>1. /\ Fixed(w) \/ (Has("drop", w) /\ ~Has("check", Main))
        /\ w \in wants \/ Has("drop", w)
    BY <1>2, <1>6, <1>10 DEF IInv, WorkersOK
  <2>2. Has("drop", w) => Has("drop", w)'
    BY <1>1
  <2> QED  BY <2>1, <2>2, <1>1, <1>2, <1>8
<1>11. ASSUME Sound' PROVE wants' \subseteq Workers
  BY <1>2, <1>11 DEF IInv, WorkersOK
<1>12. ASSUME Sound', Going'
       PROVE  wants' = {} \/ (Has("check", Main)' /\ (Has("noDropIn", Main)' \/ op'.failed))
  <2>1. wants = {} \/ (Has("check", Main) /\ (Has("noDropIn", Main) \/ op.failed))
    BY <1>2, <1>7, <1>12 DEF IInv, WorkersOK
  <2>2. op.failed => op'.failed
    BY <1>7, <1>12 DEF GoesOn
  <2> QED  BY <2>1, <2>2, <1>1, <1>2
<1>13. ASSUME Sound', Running(Main)', NEW w \in Workers
       PROVE  Running(w)' \/ (Has("drop", w)' /\ Sharing' = {})
  <2>1. p # Main /\ group = {p} /\ Running(Main)
    BY <1>3, <1>13
  <2>2. Running(w) \/ (Has("drop", w) /\ Sharing = {})
    BY <1>2, <1>6, <1>13, <2>1 DEF IInv, WorkersOK
  <2>3. Has("drop", w) => Has("drop", w)'
    BY <1>1
  <2> QED  BY <2>1, <2>2, <2>3, <1>2, <1>3, <1>9
<1>14. ASSUME Sound', NEW i \in Ids
       PROVE  /\ registry'[i] = "none" => ~Running(i)'
              /\ Does("wipe")' => registry'[i] = "none" \/ Has("drop", i)'
              /\ Has("drop", i)' => Has("stop", i)' \/ ~Running(i)'
  <2>1. /\ registry[i] = "none" => ~Running(i)
        /\ Has("drop", i) => Has("stop", i) \/ ~Running(i)
    BY <1>2, <1>14 DEF IInv, WorkersOK
  <2>2. Has("stop", i) => Has("stop", i)' \/ i = p
    BY <1>1
  <2>3. Does("wipe")' => registry[i] = "none" \/ Has("drop", i)
    BY <1>1, <1>2, <1>14 DEF IInv, WorkersOK, Does
  <2> QED  BY <2>1, <2>2, <2>3, <1>1, <1>2, <1>3
<1> QED
  BY <1>2, <1>6, <1>10, <1>11, <1>12, <1>13, <1>14 DEF WorkersOK

LEMMA ProcessStep ==
  ASSUME IInv, PlanOK', NEW v \in {"start", "restart", "stop", "halt"}, NEW p \in Procs,
         GoesOn(v, p), WorkersOK',
         UNCHANGED <<registry, port, conf, settings, rules, doubt, spent>>,
         unit' = IF v = "halt" THEN [unit EXCEPT ![Main] = "none"] ELSE unit,
         proc' \in [Procs -> Confs], \A q \in Procs : proc'[q] = proc[q] \/ proc'[q] = Absent,
         due' \subseteq Procs, \A q \in due' : proc'[q] = Absent
  PROVE  IInv'
<1>1. PlanOK /\ Typed /\ Together /\ RulesOK /\ SharesOK /\ WorkersOK /\ Values /\ Instances /\ Primary
  BY TypedParts DEF IInv
<1>2. /\ registry' = registry /\ port' = port /\ conf' = conf /\ cap' = cap /\ guard' = guard
      /\ doubt' = doubt /\ spent' = spent /\ nat' = nat /\ input' = input /\ jumps' = jumps
      /\ guarded' = guarded /\ wants' = wants /\ line' = line
  BY DEF settings, rules
<1>3. Workers' = Workers /\ Certain' = Certain
  BY <1>2 DEF Workers, Certain
<1>4. /\ unit' \in [Procs -> {"none", "plain", "partOf"}]
      /\ \A i \in Ids : unit'[i] = unit[i]
  BY <1>1, IdsFinite DEF Values
<1>5. Values'
  BY <1>1, <1>2, <1>4 DEF Values
<1>6. Instances'
  BY <1>1, <1>2, <1>3, IdsFinite, AbsentPort DEF Instances
<1>7. Primary'
  <2>1. CASE v # "halt"
    BY <1>1, <1>2, <1>3, <2>1, IdsFinite, KeepsPrimary DEF Values
  <2>2. CASE v = "halt"
    <3>1. unit'[Main] = "none"
      BY <1>1, <2>2, IdsFinite DEF Values
    <3>2. op'.name \notin {"enable", "port", "apply"}
      BY <2>2, IdleName DEF GoesOn, Belongs
    <3> QED  BY <1>1, <1>2, <1>3, <3>1, <3>2 DEF Primary
  <2> QED  BY <2>1, <2>2
<1>8. Together'
  BY <1>1, <1>2, <1>3, <1>4, IdsFinite, KeepsTogether
<1>9. RulesOK'
  BY <1>1, <1>2, <1>3, KeepsRules DEF RuleVerbs, ApplyVerbs, TeardownVerbs, rules
<1>10. SharesOK'
  <2>1. Sharing' = Sharing
    BY <1>2 DEF Sharing
  <2> QED  BY <1>1, <1>2, <2>1, KeepsShares
<1>11. Typed'
  BY <1>5, <1>6, <1>7, TypedNext
<1> QED  BY <1>8, <1>9, <1>10, <1>11 DEF IInv

LEMMA StartOK ==
  ASSUME IInv, NEW p \in Procs, Start(p)
  PROVE  IInv'
<1> DEFINE group == {q \in With(p) : proc[q] = Absent}
<1>1. PlanOK' /\ GoesOn("start", p)
  BY Proceeds DEF Start, IInv
<1>2. Values /\ Instances
  BY TypedParts DEF IInv
<1>3. /\ UNCHANGED <<instances, conf, proc, settings, rules, doubt, spent>>
      /\ due' = due \cup group
  BY DEF Start, Same, With
<1>4. With(p) \subseteq Procs
  BY <1>2, IdsFinite DEF With, Wanted, Values
<1>5. /\ \A i \in With(p) : i \in group \/ Running(i)
      /\ \A q \in Procs : Running(q)' <=> Running(q) \/ q \in With(p)
  BY <1>2, <1>3 DEF Running
<1>6. WorkersOK'
  <2>1. UNCHANGED <<instances, wants, nat, jumps, doubt, conf>>
    BY <1>3 DEF rules
  <2> QED  BY <1>1, <1>3, <1>4, <1>5, <2>1, StartedOK
<1>7. /\ proc' \in [Procs -> Confs] /\ due' \subseteq Procs /\ \A q \in due' : proc'[q] = Absent
      /\ \A q \in Procs : proc'[q] = proc[q]
  BY <1>2, <1>3, <1>4 DEF Values, Instances
<1>8. UNCHANGED <<registry, port, conf, settings, rules, doubt, spent>> /\ unit' = unit
  BY <1>3 DEF instances
<1> QED  BY <1>1, <1>6, <1>7, <1>8, ProcessStep

LEMMA RestartOK ==
  ASSUME IInv, NEW p \in Procs, Restart(p)
  PROVE  IInv'
<1> DEFINE group == {p} \cup (IF p = Main THEN PartOf \cup Wanted ELSE {})
<1>1. PlanOK' /\ GoesOn("restart", p)
  BY Proceeds DEF Restart, IInv
<1>2. Values /\ Instances
  BY TypedParts DEF IInv
<1>3. /\ UNCHANGED <<instances, conf, settings, rules, doubt, spent>>
      /\ proc' = Down(group) /\ due' = due \cup group
  BY DEF Restart, Same
<1>4. /\ group \subseteq Procs /\ With(p) \subseteq group
      /\ \A i \in group : i \in With(p) \/ Running(i)
  BY <1>2, IdsFinite DEF With, Wanted, PartOf, Values
<1> HIDE DEF group
<1>5. /\ proc' \in [Procs -> Confs]
      /\ \A q \in Procs : /\ Running(q)' <=> Running(q) \/ q \in group
                          /\ proc'[q] = proc[q] \/ proc'[q] = Absent
                          /\ q \in group => proc'[q] = Absent
                          /\ q \notin group => proc'[q] = proc[q]
  BY <1>2, <1>3, AbsentPort DEF Running, Down, Values
<1>6. WorkersOK'
  <2>1. UNCHANGED <<instances, wants, nat, jumps, doubt, conf>>
    BY <1>3 DEF rules
  <2> QED  BY <1>1, <1>4, <1>5, <2>1, StartedOK
<1>7. due' \subseteq Procs /\ \A q \in due' : proc'[q] = Absent
  BY <1>2, <1>3, <1>4, <1>5 DEF Values, Instances
<1>8. UNCHANGED <<registry, port, conf, settings, rules, doubt, spent>> /\ unit' = unit
  BY <1>3 DEF instances
<1> QED  BY <1>1, <1>5, <1>6, <1>7, <1>8, ProcessStep

LEMMA StopOK ==
  ASSUME IInv, NEW p \in Procs, Stop(p)
  PROVE  IInv'
<1> DEFINE group == {p} \cup (IF p = Main THEN PartOf ELSE {})
<1>1. PICK v \in {"stop", "halt"} : At(v, p)
  BY DEF Stop
<1>2. PlanOK' /\ GoesOn(v, p)
  BY <1>1, Proceeds DEF Stop, IInv
<1>3. Values /\ Instances
  BY TypedParts DEF IInv
<1>4. /\ UNCHANGED <<registry, port, conf, settings, rules, doubt, spent>>
      /\ proc' = Down(group) /\ due' = due \ group
      /\ unit' = IF v = "halt" THEN [unit EXCEPT ![p] = "none"] ELSE unit
  BY <1>1 DEF Stop, Same, At
<1>5. /\ group \subseteq Procs /\ p \in group /\ (p # Main => group = {p})
  BY <1>3, IdsFinite DEF PartOf, Values
<1> HIDE DEF group
<1>6. /\ proc' \in [Procs -> Confs]
      /\ \A q \in Procs : /\ Running(q)' <=> Running(q) /\ q \notin group
                          /\ proc'[q] = proc[q] \/ proc'[q] = Absent
                          /\ q \in group => proc'[q] = Absent
                          /\ q \notin group => proc'[q] = proc[q]
  BY <1>3, <1>4, AbsentPort DEF Running, Down, Values
<1>7. v = "halt" => p = Main
  BY <1>2 DEF GoesOn, Belongs, MainVerbs
<1>8. \A i \in Ids : unit'[i] = unit[i]
  BY <1>3, <1>4, <1>7, IdsFinite DEF Values
<1>9. WorkersOK'
  <2>1. UNCHANGED <<registry, port, wants, nat, jumps, doubt, conf>>
    BY <1>4 DEF rules
  <2> QED  BY <1>2, <1>5, <1>6, <1>8, <2>1, StoppedOK
<1>10. due' \subseteq Procs /\ \A q \in due' : proc'[q] = Absent
  BY <1>3, <1>4, <1>6 DEF Values, Instances
<1>11. unit' = IF v = "halt" THEN [unit EXCEPT ![Main] = "none"] ELSE unit
  BY <1>4, <1>7
<1> QED  BY <1>2, <1>4, <1>6, <1>9, <1>10, <1>11, ProcessStep

\* A step that concerns one instance's file or unit, or waits for it.
LEMMA InstanceStep ==
  ASSUME IInv, PlanOK', NEW v \in {"await", "conf", "noConf", "unit", "noUnit"}, NEW p \in Ids,
         GoesOn(v, p), UNCHANGED <<registry, port, processes, settings, rules, doubt, spent>>,
         conf' \in [Procs -> Confs], unit' \in [Procs -> {"none", "plain", "partOf"}],
         conf'[Main] = conf[Main], unit'[Main] = unit[Main],
         conf'[p].port \in WorkerPorts \cup {0},
         \A i \in Ids \ {p} : conf'[i] = conf[i] /\ unit'[i] = unit[i],
         v \notin {"conf", "noConf"} => conf'[p] = conf[p],
         v \notin {"unit", "noUnit"} => unit'[p] = unit[p],
         v = "conf" => conf'[p].port = op.ports[p],
         v = "unit" /\ op.name = "enable" => unit'[p] = "partOf",
         v = "await" => proc[p] # Absent
  PROVE  IInv'
<1>1. PlanOK /\ Typed /\ Together /\ RulesOK /\ SharesOK /\ WorkersOK /\ Values /\ Instances /\ Primary
  BY TypedParts DEF IInv
<1>2. /\ registry' = registry /\ port' = port /\ proc' = proc /\ due' = due /\ cap' = cap
      /\ guard' = guard /\ doubt' = doubt /\ spent' = spent /\ nat' = nat /\ input' = input
      /\ jumps' = jumps /\ guarded' = guarded /\ wants' = wants /\ line' = line
  BY DEF processes, settings, rules
<1>3. Workers' = Workers /\ Certain' = Certain /\ Sound' = Sound
  BY <1>2 DEF Workers, Certain, Sound
<1>4. Has(v, p) /\ \A w, q : Has(w, q) => Has(w, q)' \/ (w = v /\ q = p)
  BY Later
<1>5. v \in {"noConf", "noUnit"} => Has("drop", p)' /\ ~Has("check", Main)' /\ op.name # "enable"
  <2> SUFFICES ASSUME v \in {"noConf", "noUnit"}
               PROVE  Has("drop", p)' /\ ~Has("check", Main)' /\ op.name # "enable"
    OBVIOUS
  <2>1. Has("drop", p)
    BY <1>1, <1>4 DEF Together, RemoveVerbs
  <2>2. Has("check", Main)' => Phase(v) <= Phase("check")
    BY Later
  <2>3. Phase(v) = 7 /\ Phase("check") = 6
    BY PhaseValues, MorePhases DEF RemoveVerbs
  <2>4. op.name # "enable"
    BY DEF GoesOn, Belongs, RemoveVerbs
  <2> QED  BY <1>4, <2>1, <2>2, <2>3, <2>4
<1>6. v \in {"conf", "unit"} => p \notin Workers
  BY <1>1, <1>4 DEF Together, AddVerbs, Workers
<1>7. Values'
  BY <1>1, <1>2 DEF Values
<1>8. Instances'
  <2>1. \A i \in Ids : conf'[i].port \in WorkerPorts \cup {0}
    BY <1>1 DEF Instances
  <2> QED  BY <1>1, <1>2, <1>3, <2>1, IdsFinite DEF Instances
<1>9. Primary'
  BY <1>1, <1>3, <1>7, IdsFinite, KeepsPrimary DEF Values
<1>10. Together'
  <2>1. \A i \in Ids : op.name = "enable" /\ Has("save", i) =>
           /\ \/ conf'[i].port = conf[i].port /\ (v # "conf" \/ p # i)
              \/ conf'[i].port = op.ports[i]
           /\ \/ unit'[i] = unit[i] /\ (v # "unit" \/ p # i)
              \/ unit'[i] = "partOf"
    BY <1>5
  <2> QED  BY <1>1, <1>2, <1>3, <2>1, KeepsTogether
<1>11. RulesOK'
  BY <1>1, <1>2, <1>3, KeepsRules DEF RuleVerbs, ApplyVerbs, TeardownVerbs, rules
<1>12. SharesOK' /\ Sharing' = Sharing
  <2>1. Sharing' = Sharing
    BY <1>2 DEF Sharing
  <2> QED  BY <1>1, <1>2, <2>1, KeepsShares
<1>13. WorkersOK'
  <2>1. \A w \in Workers : Fixed(w) => Fixed(w)' \/ (Has("drop", w)' /\ ~Has("check", Main)')
    <3> SUFFICES ASSUME NEW w \in Workers, Fixed(w)
                 PROVE  Fixed(w)' \/ (Has("drop", w)' /\ ~Has("check", Main)')
      OBVIOUS
    <3>1. CASE w = p
      BY <1>2, <1>5, <1>6, <3>1 DEF Fixed
    <3>2. CASE w # p
      <4>1. conf'[w] = conf[w] /\ unit'[w] = unit[w]
        BY <3>2 DEF Workers
      <4> QED  BY <1>2, <4>1 DEF Fixed
    <3> QED  BY <3>1, <3>2
  <2> QED  BY <1>1, <1>2, <1>3, <1>12, <2>1, KeepsWorkers
<1>14. Typed'
  BY <1>7, <1>8, <1>9, TypedNext
<1> QED  BY <1>10, <1>11, <1>12, <1>13, <1>14 DEF IInv

LEMMA AwaitOK ==
  ASSUME IInv, NEW i \in Ids, Await(i)
  PROVE  IInv'
<1>1. PlanOK' /\ GoesOn("await", i)
  BY Proceeds DEF Await, IInv
<1>2. Values /\ Instances
  BY TypedParts DEF IInv
<1>3. UNCHANGED <<registry, port, unit, conf, processes, settings, rules, doubt, spent>> /\ proc[i] # Absent
  BY DEF Await, Same, instances
<1> QED  BY <1>1, <1>2, <1>3, InstanceStep DEF Values, Instances

LEMMA WriteConfOK ==
  ASSUME IInv, NEW i \in Ids, WriteConf(i)
  PROVE  IInv'
<1>1. PlanOK' /\ GoesOn("conf", i)
  BY Proceeds DEF WriteConf, IInv
<1>2. Values /\ Instances /\ op \in Ops
  BY TypedParts DEF IInv, PlanOK, Fits
<1>3. op.ports[i] \in WorkerPorts \cup {0}
  BY <1>1, <1>2 DEF GoesOn, Belongs, Ops, Ports, AddVerbs
<1>4. PICK b \in BOOLEAN, d \in BOOLEAN :
        conf' = [conf EXCEPT ![i] = [port |-> op.ports[i], hook |-> FALSE, managed |-> b, dup |-> d]]
  <2>1. GuardOn \in BOOLEAN /\ CopiedDup \in BOOLEAN
    BY DEF GuardOn, CopiedDup
  <2> QED  BY <2>1 DEF WriteConf, NewConf
<1>5. /\ conf' \in [Procs -> Confs] /\ conf'[Main] = conf[Main]
      /\ conf'[i].port = op.ports[i] /\ \A j \in Ids \ {i} : conf'[j] = conf[j]
  BY <1>2, <1>3, <1>4, IdsFinite DEF Values, Confs
<1>6. UNCHANGED <<registry, port, unit, processes, settings, rules, doubt, spent>>
  BY DEF WriteConf, Same, instances
<1> QED  BY <1>1, <1>2, <1>3, <1>5, <1>6, InstanceStep DEF Values

LEMMA RemoveConfOK ==
  ASSUME IInv, NEW i \in Ids, RemoveConf(i)
  PROVE  IInv'
<1>1. PlanOK' /\ GoesOn("noConf", i)
  BY Proceeds DEF RemoveConf, IInv
<1>2. Values
  BY TypedParts DEF IInv
<1>3. /\ conf' \in [Procs -> Confs] /\ conf'[Main] = conf[Main] /\ conf'[i].port = 0
      /\ \A j \in Ids \ {i} : conf'[j] = conf[j]
  BY <1>2, AbsentPort, IdsFinite DEF RemoveConf, Values
<1>4. UNCHANGED <<registry, port, unit, processes, settings, rules, doubt, spent>>
  BY DEF RemoveConf, Same, instances
<1> QED  BY <1>1, <1>2, <1>3, <1>4, InstanceStep DEF Values

LEMMA WriteUnitOK ==
  ASSUME IInv, NEW i \in Ids, WriteUnit(i)
  PROVE  IInv'
<1>1. PICK v \in {"unit", "noUnit"} : At(v, i)
  BY DEF WriteUnit
<1>2. PlanOK' /\ GoesOn(v, i)
  BY <1>1, Proceeds DEF WriteUnit, IInv
<1>3. Values /\ Instances
  BY TypedParts DEF IInv
<1>4. PICK u \in {"none", "plain", "partOf"} :
        unit' = [unit EXCEPT ![i] = u] /\ (v = "unit" /\ op.name = "enable" => u = "partOf")
  <2>1. At("noUnit", i) => v # "unit"
    BY <1>1 DEF At
  <2>2. unit' = [unit EXCEPT ![i] = IF At("noUnit", i) THEN "none"
                                    ELSE IF op.name = "enable" THEN "partOf" ELSE "plain"]
    BY DEF WriteUnit
  <2>3. CASE At("noUnit", i)
    BY <2>1, <2>2, <2>3
  <2>4. CASE ~At("noUnit", i) /\ op.name = "enable"
    BY <2>2, <2>4
  <2>5. CASE ~At("noUnit", i) /\ op.name # "enable"
    BY <2>2, <2>5
  <2> QED  BY <2>3, <2>4, <2>5
<1>5. /\ unit' \in [Procs -> {"none", "plain", "partOf"}] /\ unit'[Main] = unit[Main]
      /\ unit'[i] = u /\ \A j \in Ids \ {i} : unit'[j] = unit[j]
  BY <1>3, <1>4, IdsFinite DEF Values
<1>6. UNCHANGED <<registry, port, conf, processes, settings, rules, doubt, spent>>
  BY DEF WriteUnit, Same
<1>7. conf' \in [Procs -> Confs] /\ conf'[i].port \in WorkerPorts \cup {0}
  BY <1>3, <1>6 DEF Values, Instances
<1> QED  BY <1>2, <1>4, <1>5, <1>6, <1>7, InstanceStep

LEMMA RewritePortOK ==
  ASSUME IInv, RewritePort
  PROVE  IInv'
<1>1. PlanOK' /\ GoesOn("port", Main)
  BY Proceeds DEF RewritePort, IInv
<1>2. PlanOK /\ Typed /\ Together /\ RulesOK /\ SharesOK /\ WorkersOK /\ Values /\ Instances /\ Primary
  BY TypedParts DEF IInv
<1>3. /\ registry' = registry /\ port' = port /\ unit' = unit /\ proc' = proc /\ due' = due
      /\ cap' = cap /\ guard' = guard /\ doubt' = doubt /\ spent' = spent /\ nat' = nat
      /\ input' = input /\ jumps' = jumps /\ guarded' = guarded /\ wants' = wants /\ line' = line
  BY DEF RewritePort, Same, instances, processes, settings, rules
<1>4. Workers' = Workers /\ Certain' = Certain /\ Sound' = Sound
  BY <1>3 DEF Workers, Certain, Sound
<1>5. op.value \in PublicPorts /\ op.name = "port"
  BY <1>1 DEF GoesOn, Belongs
<1>6. /\ conf' \in [Procs -> Confs] /\ conf'[Main].port = op.value
      /\ \A i \in Ids : conf'[i] = conf[i]
  <2>1. conf \in [Procs -> Confs] /\ conf' = [conf EXCEPT ![Main].port = op.value]
    BY <1>2 DEF RewritePort, Values
  <2> QED  BY <1>5, <2>1, IdsFinite DEF Confs
<1>7. /\ \A w, q : Has(w, q)' => /\ Has(w, q) /\ op'.name = op.name
                                 /\ w \in Verbs /\ Phase("port") <= Phase(w)
      /\ \A w, q : Has(w, q) => Has(w, q)' \/ (w = "port" /\ q = Main)
      /\ Has("port", Main) /\ ~Has("port", Main)'
  BY <1>1, Later
<1>8. Values'
  BY <1>2, <1>3, <1>6 DEF Values
<1>9. Instances'
  BY <1>2, <1>3, <1>4, <1>6 DEF Instances
<1>10. Primary'
  <2>1. conf[Main] # Absent
    BY <1>2, <1>5 DEF Primary
  <2>2. conf'[Main] # Absent
    BY <1>5, <1>6, AbsentPort
  <2>3. "wipe" \in {x[1] : x \in Left'} => Has("halt", Main)' \/ unit'[Main] = "none"
    BY <1>1, <1>2, <1>3, <1>7 DEF Primary, GoesOn
  <2> QED  BY <1>5, <1>6, <2>2, <2>3 DEF Primary
<1>11. Together'
  BY <1>1, <1>2, <1>3, <1>4, <1>6, KeepsTogether
<1>12. RulesOK'
  <2>1. ~(Has("port", Main)')
    BY <1>7
  <2>2. CASE Workers # {}
    <3>1. \A v \in ApplyVerbs : Has(v, Main)
      <4>1. <<"port", Main>> \in Left
        BY <1>7 DEF Has
      <4>2. \A x \in Left : x[1] = "port" /\ Workers # {} => \A v \in ApplyVerbs : Has(v, Main)
        BY <1>2 DEF Together
      <4> QED  BY <2>2, <4>1, <4>2
    <3>2. \A v \in ApplyVerbs : Has(v, Main)'
      BY <3>1, <1>7 DEF ApplyVerbs
    <3>3. /\ Has("nat", Main)' /\ Has("input", Main)' /\ Has("oldJumps", Main)' /\ Has("jump", Main)'
          /\ Has("dropIn", Main)' /\ Has("line", Main)'
      BY <3>2 DEF ApplyVerbs
    <3> QED  BY <2>1, <3>3 DEF RulesOK
  <2>3. CASE Workers = {}
    <3>1. ~(Has("line", Main)')
      BY <1>2, <1>5, <1>7, <2>3 DEF Together
    <3>2. ~(Has("jump", Main)')
      BY <1>2, <1>5, <1>7, <2>3, <3>1 DEF Together, ApplyVerbs, Has
    <3>3. Staying' = {} /\ PortsOf(Staying)' = {} /\ PortsOf(Workers) = {}
      BY <1>4, <2>3 DEF Staying, PortsOf
    <3>4. Certain =>
            /\ nat = {} /\ input = {} /\ jumps = {} /\ wants = {} /\ guarded = FALSE /\ line = FALSE
      BY <1>2, <1>7, <2>3, <3>3 DEF RulesOK
    <3> QED  BY <1>3, <1>4, <2>1, <3>1, <3>2, <3>3, <3>4 DEF RulesOK
  <2> QED  BY <2>2, <2>3
<1>13. SharesOK' /\ Sharing' = Sharing
  <2>1. Sharing' = Sharing
    BY <1>3 DEF Sharing
  <2> QED  BY <1>1, <1>2, <1>3, <2>1, KeepsShares
<1>14. WorkersOK'
  <2>1. \A w \in Workers : Fixed(w) => Fixed(w)'
    BY <1>3, <1>6 DEF Fixed, Workers
  <2> QED  BY <1>1, <1>2, <1>3, <1>4, <1>13, <2>1, KeepsWorkers
<1>15. Typed'
  BY <1>1, <1>8, <1>9, <1>10, TypedNext
<1> QED  BY <1>1, <1>11, <1>12, <1>13, <1>14, <1>15 DEF IInv

\* No operation, no step left.
LEMMA NothingLeft ==
  ASSUME op' = Idle
  PROVE  /\ PlanOK' /\ Left' = {} /\ Together' /\ \A v, p : ~(Has(v, p)')
         /\ op'.name = "idle" /\ \A v : ~(Does(v)')
<1>1. Left' = {} /\ PlanOK'
  BY IdleFits DEF Left, PlanOK
<1>2. \A v, p : ~(Has(v, p)')
  BY <1>1 DEF Has
<1>3. \A v : ~(Does(v)')
  BY <1>2 DEF Does
<1>4. op'.name = "idle"
  BY IdleName
<1> QED  BY <1>1, <1>2, <1>3, <1>4 DEF Together

LEMMA LastPhase == \A v \in Verbs : Phase(v) >= 23 => v \in {"wipe", "disable"}
BY DEF Verbs, MainVerbs, IdVerbs, ApplyVerbs, TeardownVerbs, AddVerbs, RemoveVerbs, GuardParts, Phase

LEMMA WipeOK ==
  ASSUME IInv, Wipe
  PROVE  IInv'
<1>1. PlanOK' /\ GoesOn("wipe", Main)
  BY Proceeds DEF Wipe, IInv
<1>2. PlanOK /\ Typed /\ Together /\ RulesOK /\ SharesOK /\ WorkersOK /\ Values /\ Instances /\ Primary
  BY TypedParts DEF IInv
<1>3. /\ unit' = unit /\ proc' = proc /\ due' = due /\ guard' = guard /\ doubt' = doubt
      /\ spent' = spent /\ nat' = nat /\ input' = input /\ jumps' = jumps /\ guarded' = guarded
      /\ wants' = wants /\ line' = line
      /\ conf' = [p \in Procs |-> Absent] /\ registry' = [i \in Ids |-> "none"]
      /\ port' = [i \in Ids |-> 0] /\ cap' = [p \in Procs |-> 0]
  BY DEF Wipe, Same, processes, rules
<1>4. Workers' = {} /\ Certain' = Certain /\ Sound' = Sound
  BY <1>3 DEF Workers, Certain, Sound
<1>5. op.name = "removeVpn" /\ Has("wipe", Main) /\ Does("wipe")
  <2>1. Has("wipe", Main) /\ Main \in Procs
    BY <1>1, Later DEF GoesOn
  <2> QED  BY <1>1, <2>1 DEF GoesOn, Belongs, Does
<1>6. \A w, q : Has(w, q) => (w = "wipe" /\ q = Main) \/ w \in {"wipe", "disable"}
  <2> SUFFICES ASSUME NEW w, NEW q, Has(w, q), ~(w = "wipe" /\ q = Main)
               PROVE  w \in {"wipe", "disable"}
    OBVIOUS
  <2>1. Has(w, q)' /\ w \in Verbs /\ Phase("wipe") <= Phase(w)
    BY <1>1, Later
  <2>2. Phase(w) >= 23
    BY <2>1, MorePhases, PhasesAreNumbers
  <2> QED  BY <2>1, <2>2, LastPhase
<1>7. \A v, q : Has(v, q) => v = "wipe"
  <2>1. \A x \in Left : x[1] # "disable"
    BY <1>1, <1>5 DEF GoesOn, Belongs
  <2> QED  BY <1>6, <2>1 DEF Has
<1>8. op' = Idle
  <2>1. \A y \in Left' : FALSE
    <3> SUFFICES ASSUME NEW y \in Left' PROVE FALSE
      OBVIOUS
    <3>1. y \in Left /\ y = <<y[1], y[2]>> /\ Belongs(op, y) /\ y # <<"wipe", Main>>
      BY <1>1 DEF GoesOn, Steps
    <3>2. y[1] = "wipe"
      BY <1>7, <3>1 DEF Has
    <3>3. y[2] = Main
      BY <3>1, <3>2 DEF Belongs, MainVerbs
    <3> QED  BY <3>1, <3>2, <3>3
  <2>2. op' # Idle => op'.todo # <<>> /\ Goes(op'.todo)
    BY <1>1 DEF PlanOK, Fits
  <2>3. op' # Idle => op'.todo[1] \in Left'
    BY <2>2 DEF Left, StepsIn, Goes
  <2> QED  BY <2>1, <2>3
<1>9. /\ Together' /\ \A v, p : ~(Has(v, p)')
      /\ op'.name = "idle" /\ \A v : ~(Does(v)')
  BY <1>8, NothingLeft
<1>10. Going /\ Sharing = {} /\ jumps = {} /\ (Sound => wants = {})
  <2>1. Going
    BY <1>5 DEF Going
  <2>2. ~Has("check", Main)
    BY <1>7
  <2> QED  BY <1>2, <2>1, <2>2 DEF SharesOK, Sharing, WorkersOK
<1>11. Values'
  BY <1>2, <1>3, AbsentPort, ParametersOK DEF Values
<1>12. Instances'
  BY <1>2, <1>3, <1>4, AbsentPort, IdsFinite DEF Instances
<1>13. Primary'
  <2>1. unit[Main] = "none"
    <3>1. "wipe" \in {x[1] : x \in Left}
      BY <1>5 DEF Has
    <3> QED  BY <1>2, <1>7, <3>1 DEF Primary
  <2> QED  BY <1>3, <1>4, <1>9, <2>1, IdsFinite DEF Primary
<1>14. RulesOK'
  <2>1. Staying' = {} /\ PortsOf(Staying)' = {}
    BY <1>4 DEF Staying, PortsOf
  <2>2. Certain => Staying = {}
    BY <1>2, <1>5 DEF Together, Has
  <2>3. Certain => /\ nat = {} /\ input = {} /\ jumps = {} /\ wants = {} /\ guarded = FALSE
                   /\ line = FALSE
    BY <1>2, <1>7, <2>2 DEF RulesOK, PortsOf
  <2> QED  BY <1>3, <1>4, <1>9, <2>1, <2>3 DEF RulesOK
<1>15. SharesOK'
  BY <1>3, <1>4, <1>9, <1>10 DEF SharesOK, Sharing, Going
<1>16. WorkersOK'
  <2>1. ASSUME Sound', NEW i \in Ids PROVE ~(Running(i)')
    <3>1. registry[i] = "none"
      BY <1>2, <1>4, <1>5, <1>7, <2>1 DEF WorkersOK
    <3> QED  BY <1>2, <1>3, <1>4, <2>1, <3>1 DEF WorkersOK, Running
  <2>2. \A i \in Ids : registry'[i] = "none"
    BY <1>3
  <2> QED  BY <1>3, <1>4, <1>9, <1>10, <2>1, <2>2 DEF WorkersOK, Going
<1>17. Typed'
  BY <1>1, <1>11, <1>12, <1>13, TypedNext
<1> QED  BY <1>1, <1>9, <1>14, <1>15, <1>16, <1>17 DEF IInv

\* Registering an instance: its steps are behind, it is no one yet.
LEMMA SaveOK ==
  ASSUME IInv, NEW i \in Ids, At("save", i), SaveRegistry(i)
  PROVE  IInv'
<1>1. PlanOK' /\ GoesOn("save", i)
  BY Proceeds DEF SaveRegistry, IInv
<1>2. PlanOK /\ Typed /\ Together /\ RulesOK /\ SharesOK /\ WorkersOK /\ Values /\ Instances /\ Primary
  BY TypedParts DEF IInv
<1>3. /\ unit' = unit /\ conf' = conf /\ proc' = proc /\ due' = due
      /\ cap' = cap /\ guard' = guard /\ doubt' = doubt /\ spent' = spent /\ nat' = nat
      /\ input' = input /\ jumps' = jumps /\ guarded' = guarded /\ wants' = wants /\ line' = line
  BY DEF SaveRegistry, Same, processes, settings, rules
<1>4. /\ registry' = [registry EXCEPT ![i] = IF op.name = "enable" THEN "worker" ELSE "extra"]
      /\ port' = [port EXCEPT ![i] = op.ports[i]]
  <2>1. ~At("drop", i)
    BY DEF At
  <2> QED  BY <2>1 DEF SaveRegistry
<1>5. /\ op.name \in {"enable", "extra"} /\ op.ports[i] \in WorkerPorts \cup {0}
      /\ op.name = "enable" => op.ports[i] \in WorkerPorts
      /\ op.name = "extra" => op.ports[i] = 0
  <2>1. op \in Ops
    BY <1>2 DEF PlanOK, Fits
  <2>2. op.name \in {"enable", "extra"} /\ i \in DOMAIN op.ports
    BY <1>1 DEF GoesOn, Belongs, AddVerbs
  <2>3. op.ports[i] \in WorkerPorts \cup {0}
    BY <2>1, <2>2 DEF Ops, Ports
  <2> QED  BY <1>1, <2>2, <2>3 DEF GoesOn, Belongs, AddVerbs
<1>6. /\ \A w, q : Has(w, q)' => /\ Has(w, q) /\ ~(w = "save" /\ q = i) /\ w \in Verbs
                                 /\ op'.name = op.name /\ op'.ports = op.ports /\ Phase("save") <= Phase(w)
                                 /\ (q = i /\ Phase("save") = Phase(w)) => Turn("save") <= Turn(w)
      /\ \A w, q : Has(w, q) => Has(w, q)' \/ (w = "save" /\ q = i)
      /\ Has("save", i) /\ ~(Has("save", i)')
  BY <1>1, Later
<1>7. registry[i] = "none" /\ i \notin Workers /\ port[i] = 0
  BY <1>2, <1>6 DEF Together, Workers, Instances
<1>8. /\ Workers' = Workers \cup {j \in {i} : op.name = "enable"}
      /\ registry'[i] # "none" /\ \A j \in Ids \ {i} : registry'[j] = registry[j]
      /\ port'[i] = op.ports[i] /\ \A j \in Ids \ {i} : port'[j] = port[j]
      /\ Certain' = Certain /\ Sound' = Sound
  BY <1>2, <1>3, <1>4, <1>5, <1>7 DEF Values, Workers, Certain, Sound
<1>9. Workers \subseteq Ids \ {i} /\ Workers' \subseteq Ids
  BY <1>7 DEF Workers
<1>10. /\ PortsOf(Workers)' = PortsOf(Workers) \cup {op.ports[j] : j \in {k \in {i} : op.name = "enable"}}
  <2>1. PortsOf(Workers)' = {port'[j] : j \in Workers'} /\ PortsOf(Workers) = {port[j] : j \in Workers}
    BY DEF PortsOf
  <2> QED  BY <1>8, <1>9, <2>1
<1>11. \A j : ~Has("drop", j)
  <2>1. ASSUME NEW j, Has("drop", j) PROVE FALSE
    <3>1. <<"drop", j>> \in Left /\ \A x \in Left : Belongs(op, x)
      BY <1>1, <2>1 DEF Has, GoesOn
    <3>2. j \in Ids
      BY <3>1 DEF Belongs, IdVerbs, RemoveVerbs
    <3> QED  BY <1>5, <3>1, <3>2 DEF Belongs, RemoveVerbs
  <2> QED  BY <2>1
<1>12. \A x \in Left' : /\ Belongs(op, x) /\ x \in Left /\ x \in Steps
                        /\ x[1] \notin TeardownVerbs \cup {"check", "wipe", "port"}
  BY <1>1, <1>5 DEF GoesOn, Belongs
<1>13. \A v \in AddVerbs : ~(Has(v, i)')
  <2> SUFFICES ASSUME NEW v \in AddVerbs, Has(v, i)' PROVE FALSE
    OBVIOUS
  <2>1. v # "save" /\ Turn("save") <= Turn(v)
    BY <1>6, PhaseValues DEF AddVerbs
  <2> QED  BY <2>1, Turns DEF AddVerbs
<1>14. op.name = "enable" => \A v \in ApplyVerbs : Has(v, Main)' /\ op'.name = "enable"
  <2> SUFFICES ASSUME op.name = "enable", NEW v \in ApplyVerbs PROVE Has(v, Main)' /\ op'.name = "enable"
    OBVIOUS
  <2>1. <<"save", i>> \in Left /\ Phase("save") < 16
    BY <1>6, PhaseValues DEF Has, AddVerbs
  <2>2. \A x \in Left : op.name = "enable" /\ Phase(x[1]) < 16 => Has(v, Main)
    BY <1>2 DEF Together
  <2>3. Has(v, Main)
    BY <2>1, <2>2
  <2> QED  BY <2>3, <1>6 DEF ApplyVerbs
<1>15. Values'
  <2>1. /\ registry' \in [Ids -> {"none", "worker", "extra"}]
        /\ port' \in [Ids -> WorkerPorts \cup {0}]
    BY <1>2, <1>4, <1>5 DEF Values
  <2> QED  BY <1>2, <1>3, <2>1 DEF Values
<1>16. Together'
  <2>1. \A x \in Left' : x[1] \in ApplyVerbs => Has("line", Main)'
    <3>1. \A x \in Left : x[1] \in ApplyVerbs => Has("line", Main)
      BY <1>2 DEF Together
    <3> QED  BY <3>1, <1>6, <1>12
  <2>2. Has("line", Main)' => (Workers # {} \/ (op.name = "enable" /\ Does("save")))'
    <3> SUFFICES ASSUME Has("line", Main)' PROVE Workers' # {}
      OBVIOUS
    <3>1. Has("line", Main)
      BY <1>6
    <3>2. op.name = "enable"
      BY <1>5, <1>1, <3>1 DEF GoesOn, Belongs, Has, ApplyVerbs
    <3> QED  BY <1>8, <3>2
  <2>3. ASSUME NEW x \in Left',
               (op'.name = "enable" /\ Phase(x[1]) < 16) \/ (x[1] = "port" /\ Workers' # {}),
               NEW w \in ApplyVerbs
        PROVE  Has(w, Main)'
    <3>1. op'.name = op.name
      BY <1>6, <1>12 DEF Has, Steps
    <3> QED  BY <1>12, <1>14, <2>3, <3>1
  <2>4. ASSUME NEW j \in Ids
        PROVE  /\ (\E w \in AddVerbs : Has(w, j)') => Has("save", j)'
               /\ Has("save", j)' => registry'[j] = "none"
               /\ (\E w \in RemoveVerbs : Has(w, j)') => Has("drop", j)'
               /\ Has("drop", j)' /\ op'.name \in {"remove", "uninstall"} => j \notin Workers'
               /\ Has("start", j)' \/ Has("restart", j)' => Has("save", j)' \/ registry'[j] # "none"
    <3>1. CASE j = i
      <4>1. ~(\E w \in RemoveVerbs : Has(w, j)')
        BY <1>2, <1>6, <1>11 DEF Together
      <4> QED  BY <3>1, <4>1, <1>6, <1>8, <1>11, <1>13
    <3>2. CASE j # i
      BY <3>2, <1>2, <1>6, <1>8, <1>11 DEF Together
    <3> QED  BY <3>1, <3>2
  <2>5. ASSUME NEW j \in Ids, op'.name = "enable", Has("save", j)'
        PROVE  /\ Has("want", Main)' /\ Has("await", j)'
               /\ op'.ports[j] \notin PortsOf(Workers)'
               /\ \A k \in Ids : Has("save", k)' /\ op'.ports[k] = op'.ports[j] => j = k
               /\ Has("conf", j)' \/ conf'[j].port = op'.ports[j]
               /\ Has("unit", j)' \/ unit'[j] = "partOf"
    <3>1. Has("save", j) /\ op.name = "enable" /\ op'.ports = op.ports /\ j # i
      BY <1>6, <2>5
    <3>2. /\ Has("want", Main) /\ Has("await", j)
          /\ op.ports[j] \notin PortsOf(Workers)
          /\ \A k \in Ids : Has("save", k) /\ op.ports[k] = op.ports[j] => j = k
          /\ Has("conf", j) \/ conf[j].port = op.ports[j]
          /\ Has("unit", j) \/ unit[j] = "partOf"
      BY <1>2, <3>1 DEF Together
    <3>3. op.ports[j] # op.ports[i]
      BY <3>1, <3>2, <1>6
    <3> QED  BY <1>3, <1>6, <1>10, <3>1, <3>2, <3>3
  <2>6. \A x \in Left' :
          x[1] \in TeardownVerbs \cup {"check"} \/ (x[1] = "wipe" /\ Certain') => Staying' = {}
    BY <1>12
  <2>7. Has("oldJumps", Main)' => Has("jump", Main)'
    BY <1>2, <1>6 DEF Together
  <2> QED  BY <2>1, <2>2, <2>3, <2>4, <2>5, <2>6, <2>7 DEF Together
<1>17. Instances'
  <2>1. \A j, k \in Workers' : port'[j] = port'[k] => j = k
    <3>1. op.name = "enable" => op.ports[i] \notin PortsOf(Workers)
      BY <1>2, <1>6 DEF Together
    <3>2. op.name = "enable" => \A j \in Workers : port[j] # op.ports[i]
      BY <3>1 DEF PortsOf
    <3> QED  BY <1>2, <1>8, <1>9, <3>2 DEF Instances
  <2>2. \A j \in Ids : port'[j] # 0 <=> j \in Workers'
    BY <1>2, <1>5, <1>7, <1>8, <1>9, AbsentPort DEF Instances
  <2> QED  BY <1>2, <1>3, <2>1, <2>2 DEF Instances
<1>18. Primary'
  <2>1. op'.name = op.name \/ op' = Idle
    BY <1>1 DEF GoesOn
  <2>2. conf[Main] = Absent =>
          unit[Main] = "none" /\ Workers' = {} /\ op'.name \notin {"enable", "port", "apply"}
    BY <1>2, <1>8, <2>1, IdleName DEF Primary
  <2>3. "wipe" \notin {x[1] : x \in Left'}
    BY <1>12
  <2> QED  BY <1>2, <1>3, <2>2, <2>3 DEF Primary
<1>19. ~(Has("port", Main)')
  BY <1>12 DEF Has
<1>20. RulesOK'
  <2>1. CASE op.name = "enable"
    <3>1. /\ Has("nat", Main)' /\ Has("input", Main)' /\ Has("oldJumps", Main)' /\ Has("jump", Main)'
          /\ Has("dropIn", Main)' /\ Has("line", Main)'
      BY <1>14, <2>1 DEF ApplyVerbs
    <3> QED  BY <1>19, <3>1 DEF RulesOK
  <2>2. CASE op.name # "enable"
    <3>1. Workers' = Workers /\ \A j \in Workers : port'[j] = port[j]
      BY <1>8, <1>9, <2>2
    <3>2. Staying = Workers /\ Staying' = Workers /\ PortsOf(Staying)' = PortsOf(Staying)
      <4>1. Staying = Workers /\ Staying' = Workers
        BY <1>6, <1>11, <3>1 DEF Staying
      <4> QED  BY <3>1, <4>1 DEF PortsOf
    <3>3. \A v \in RuleVerbs : Has(v, Main)' = Has(v, Main)
      BY <1>6 DEF Has, RuleVerbs, ApplyVerbs, TeardownVerbs
    <3>4. /\ Has("nat", Main)' = Has("nat", Main) /\ Has("noNat", Main)' = Has("noNat", Main)
          /\ Has("input", Main)' = Has("input", Main) /\ Has("noInput", Main)' = Has("noInput", Main)
          /\ Has("jump", Main)' = Has("jump", Main) /\ Has("unjump", Main)' = Has("unjump", Main)
          /\ Has("dropIn", Main)' = Has("dropIn", Main) /\ Has("noDropIn", Main)' = Has("noDropIn", Main)
          /\ Has("line", Main)' = Has("line", Main) /\ Has("noLine", Main)' = Has("noLine", Main)
          /\ Has("oldJumps", Main)' = Has("oldJumps", Main)
      BY <3>3 DEF RuleVerbs, ApplyVerbs, TeardownVerbs
    <3> QED  BY <1>2, <1>3, <1>8, <1>19, <3>2, <3>4 DEF RulesOK
  <2> QED  BY <2>1, <2>2
<1>21. ~(Going') /\ Sharing' = Sharing /\ ~(Does("wipe")')
  <2>1. ~(Does("wipe")')
    BY <1>12 DEF Does, Has
  <2> QED  BY <1>3, <1>6, <1>11, <2>1 DEF Going, Sharing
<1>22. SharesOK'
  <2>1. op'.name = "enable" => op.name = "enable"
    BY <1>1, IdleName DEF GoesOn
  <2> QED  BY <1>2, <1>6, <1>10, <1>21, <2>1 DEF SharesOK
<1>23. WorkersOK'
  <2>1. op'.name = "enable" => op.name = "enable"
    BY <1>1, IdleName DEF GoesOn
  <2>2. op.name = "enable" =>
          /\ Has("want", Main)' /\ Has("await", i)' /\ op'.name = "enable"
          /\ conf[i].port = op.ports[i] /\ unit[i] = "partOf"
    <3> SUFFICES ASSUME op.name = "enable"
                 PROVE  /\ Has("want", Main)' /\ Has("await", i)' /\ op'.name = "enable"
                        /\ conf[i].port = op.ports[i] /\ unit[i] = "partOf"
      OBVIOUS
    <3>1. /\ Has("want", Main) /\ Has("await", i)
          /\ Has("conf", i) \/ conf[i].port = op.ports[i]
          /\ Has("unit", i) \/ unit[i] = "partOf"
      BY <1>2, <1>6 DEF Together
    <3>2. ~Has("conf", i) /\ ~Has("unit", i)
      BY <1>6, <1>13 DEF AddVerbs
    <3> QED  BY <1>6, <3>1, <3>2
  <2>3. op'.name = "enable" => \A w \in Workers' : Has("await", w)' \/ proc'[w] # Absent
    <3> SUFFICES ASSUME op'.name = "enable", NEW w \in Workers' PROVE Has("await", w)' \/ proc[w] # Absent
      BY <1>3
    <3>1. w \in Workers \/ w = i
      BY <1>8
    <3>2. w \in Workers => Has("await", w) \/ proc[w] # Absent
      BY <1>2, <2>1 DEF WorkersOK
    <3> QED  BY <1>6, <2>1, <2>2, <3>1, <3>2
  <2>4. ASSUME Sound, NEW w \in Workers'
        PROVE  /\ Fixed(w)'
               /\ w \in wants \/ (op'.name = "enable" /\ Has("want", Main)')
               /\ Running(Main)' => Running(w)' \/ (op'.name = "enable" /\ Has("await", w)')
    <3>1. CASE w \in Workers
      <4>1. w # i /\ port'[w] = port[w]
        BY <1>8, <1>9, <3>1
      <4>2. Fixed(w) /\ (w \in wants \/ (op.name = "enable" /\ Has("want", Main)))
        BY <1>2, <1>11, <2>4, <3>1 DEF WorkersOK
      <4>3. Running(Main) => Running(w) \/ (op.name = "enable" /\ Has("await", w))
        BY <1>2, <1>11, <2>4, <3>1 DEF WorkersOK
      <4> QED  BY <1>3, <1>6, <2>2, <4>1, <4>2, <4>3 DEF Fixed, Running
    <3>2. CASE w = i /\ op.name = "enable"
      <4>1. proc[i] = Absent
        BY <1>2, <1>7, <2>4 DEF WorkersOK, Running
      <4> QED  BY <1>3, <1>8, <2>2, <3>2, <4>1 DEF Fixed
    <3> QED  BY <1>8, <3>1, <3>2
  <2>5. ASSUME Sound, NEW j \in Ids PROVE registry'[j] = "none" => ~(Running(j)')
    BY <1>2, <1>3, <1>8, <2>5 DEF WorkersOK, Running
  <2>6. Sound => wants \subseteq Workers'
    BY <1>2, <1>8 DEF WorkersOK
  <2>7. \A j : ~(Has("drop", j)')
    BY <1>6, <1>11
  <2> QED  BY <1>3, <1>8, <1>21, <2>3, <2>4, <2>5, <2>6, <2>7 DEF WorkersOK
<1>24. Typed'
  BY <1>1, <1>15, <1>17, <1>18, TypedNext
<1> QED  BY <1>1, <1>16, <1>20, <1>22, <1>23, <1>24 DEF IInv

\* Taking an instance off the registry: nothing of it runs or is redirected to.
LEMMA DropOK ==
  ASSUME IInv, NEW i \in Ids, At("drop", i), SaveRegistry(i)
  PROVE  IInv'
<1>1. PlanOK' /\ GoesOn("drop", i)
  BY Proceeds DEF SaveRegistry, IInv
<1>2. PlanOK /\ Typed /\ Together /\ RulesOK /\ SharesOK /\ WorkersOK /\ Values /\ Instances /\ Primary
  BY TypedParts DEF IInv
<1>3. /\ unit' = unit /\ conf' = conf /\ proc' = proc /\ due' = due
      /\ cap' = cap /\ guard' = guard /\ doubt' = doubt /\ spent' = spent /\ nat' = nat
      /\ input' = input /\ jumps' = jumps /\ guarded' = guarded /\ wants' = wants /\ line' = line
  BY DEF SaveRegistry, Same, processes, settings, rules
<1>4. registry' = [registry EXCEPT ![i] = "none"] /\ port' = [port EXCEPT ![i] = 0]
  BY DEF SaveRegistry
<1>5. op.name \in {"disable", "removeVpn", "remove", "uninstall"}
  BY <1>1 DEF GoesOn, Belongs, RemoveVerbs
<1>6. /\ \A w, q : Has(w, q)' => /\ Has(w, q) /\ ~(w = "drop" /\ q = i) /\ w \in Verbs
                                 /\ op'.name = op.name /\ Phase("drop") <= Phase(w)
                                 /\ (q = i /\ Phase("drop") = Phase(w)) => Turn("drop") <= Turn(w)
      /\ \A w, q : Has(w, q) => Has(w, q)' \/ (w = "drop" /\ q = i)
      /\ Has("drop", i) /\ ~(Has("drop", i)')
  BY <1>1, Later
<1>7. /\ Workers' = Workers \ {i}
      /\ registry'[i] = "none" /\ \A j \in Ids \ {i} : registry'[j] = registry[j]
      /\ port'[i] = 0 /\ \A j \in Ids \ {i} : port'[j] = port[j]
      /\ Certain' = Certain /\ Sound' = Sound
  BY <1>2, <1>3, <1>4 DEF Values, Workers, Certain, Sound
<1>8. Workers \subseteq Ids /\ Workers' \subseteq Ids
  BY DEF Workers
<1>9. /\ Staying' = Staying /\ PortsOf(Staying)' = PortsOf(Staying)
  <2>1. Staying' = Staying
    BY <1>6, <1>7 DEF Staying
  <2>2. \A j \in Staying : port'[j] = port[j]
    BY <1>6, <1>7, <1>8 DEF Staying
  <2> QED  BY <2>1, <2>2 DEF PortsOf
<1>10. \A x \in Left' : /\ Belongs(op, x) /\ x \in Left /\ x \in Steps
                        /\ x[1] \notin AddVerbs \cup ApplyVerbs \cup {"port", "want", "await", "start", "restart"}
  BY <1>1, <1>5 DEF GoesOn, Belongs
<1>11. \A v \in TeardownVerbs \cup {"check"}, q \in Procs : ~(Has(v, q)') /\ ~Has(v, q)
  <2> SUFFICES ASSUME NEW v \in TeardownVerbs \cup {"check"}, NEW q \in Procs, Has(v, q) PROVE FALSE
    BY <1>6
  <2>1. v # "drop"
    BY DEF TeardownVerbs
  <2>2. Phase("drop") <= Phase(v)
    BY <1>6, <2>1
  <2> QED  BY <2>2, PhaseValues, MorePhases DEF RemoveVerbs, TeardownVerbs
<1>12. \A v \in RemoveVerbs : ~(Has(v, i)')
  <2> SUFFICES ASSUME NEW v \in RemoveVerbs, Has(v, i)' PROVE FALSE
    OBVIOUS
  <2>1. v # "drop" /\ Turn("drop") <= Turn(v)
    BY <1>6, PhaseValues DEF RemoveVerbs
  <2> QED  BY <2>1, Turns DEF RemoveVerbs
<1>13. /\ \A v, q : Has(v, q)' => v \notin AddVerbs \cup ApplyVerbs \cup {"port", "want", "await", "start", "restart"}
       /\ op'.name # "enable"
  <2>1. op'.name # "enable"
    BY <1>1, <1>5, IdleName DEF GoesOn
  <2> QED  BY <1>10, <2>1 DEF Has
<1>14. Values'
  <2>1. registry' \in [Ids -> {"none", "worker", "extra"}] /\ port' \in [Ids -> WorkerPorts \cup {0}]
    BY <1>2, <1>4 DEF Values
  <2> QED  BY <1>2, <1>3, <2>1 DEF Values
<1>15. Instances'
  BY <1>2, <1>3, <1>7, <1>8 DEF Instances
<1>16. Primary'
  BY <1>1, <1>2, <1>3, <1>7, IdsFinite, KeepsPrimary DEF Values
<1>17. Together'
  <2>1. \A x \in Left' : x[1] \in ApplyVerbs => Has("line", Main)'
    BY <1>10
  <2>2. ~(Has("line", Main)')
    BY <1>13 DEF ApplyVerbs
  <2>3. \A x \in Left' : ~((op'.name = "enable" /\ Phase(x[1]) < 16) \/ (x[1] = "port" /\ Workers' # {}))
    BY <1>10, <1>13
  <2>4. ASSUME NEW j \in Ids
        PROVE  /\ ~(\E w \in AddVerbs : Has(w, j)')
               /\ ~(Has("save", j)')
               /\ (\E w \in RemoveVerbs : Has(w, j)') => Has("drop", j)'
               /\ Has("drop", j)' /\ op'.name \in {"remove", "uninstall"} => j \notin Workers'
               /\ ~(Has("start", j)' \/ Has("restart", j)')
    <3>1. ~(\E w \in AddVerbs : Has(w, j)') /\ ~(Has("save", j)') /\ ~(Has("start", j)' \/ Has("restart", j)')
      BY <1>13 DEF AddVerbs
    <3>2. CASE j = i
      BY <1>6, <1>12, <3>1, <3>2
    <3>3. CASE j # i
      BY <1>2, <1>6, <1>7, <3>1, <3>3 DEF Together
    <3> QED  BY <3>2, <3>3
  <2>5. \A x \in Left' :
          x[1] \in TeardownVerbs \cup {"check"} \/ (x[1] = "wipe" /\ Certain') => Staying' = {}
    BY <1>2, <1>7, <1>9, <1>10 DEF Together
  <2>6. ~(Has("oldJumps", Main)')
    BY <1>13 DEF ApplyVerbs
  <2> QED  BY <1>13, <2>1, <2>2, <2>3, <2>4, <2>5, <2>6 DEF Together
<1>18. RulesOK'
  <2>1. \A v \in RuleVerbs : Has(v, Main)' = Has(v, Main)
    BY <1>6 DEF Has, RuleVerbs, ApplyVerbs, TeardownVerbs
  <2>2. /\ Has("nat", Main)' = Has("nat", Main) /\ Has("noNat", Main)' = Has("noNat", Main)
        /\ Has("input", Main)' = Has("input", Main) /\ Has("noInput", Main)' = Has("noInput", Main)
        /\ Has("jump", Main)' = Has("jump", Main) /\ Has("unjump", Main)' = Has("unjump", Main)
        /\ Has("dropIn", Main)' = Has("dropIn", Main) /\ Has("noDropIn", Main)' = Has("noDropIn", Main)
        /\ Has("line", Main)' = Has("line", Main) /\ Has("noLine", Main)' = Has("noLine", Main)
        /\ Has("oldJumps", Main)' = Has("oldJumps", Main)
    BY <2>1 DEF RuleVerbs, ApplyVerbs, TeardownVerbs
  <2>3. ~(Has("port", Main)')
    BY <1>13
  <2> QED  BY <1>2, <1>3, <1>7, <1>9, <2>2, <2>3 DEF RulesOK
<1>19. Going' => Going
  BY <1>6, <1>7 DEF Going, Does
<1>20. i \in Workers => Going
  BY <1>6 DEF Going
<1>21. Going => jumps = {} /\ (Sound => wants = {})
  BY <1>2, <1>11, IdsFinite DEF SharesOK, WorkersOK
<1>22. SharesOK'
  <2>1. Sharing' = Sharing
    BY <1>3 DEF Sharing
  <2>2. Sharing \subseteq PortsOf(Workers)'
    <3>1. CASE i \in Workers
      BY <1>20, <1>21, <3>1 DEF Sharing
    <3>2. CASE i \notin Workers
      <4>1. Workers' = Workers /\ \A j \in Workers : port'[j] = port[j]
        BY <1>7, <1>8, <3>2
      <4> QED  BY <1>2, <4>1 DEF SharesOK, PortsOf
    <3> QED  BY <3>1, <3>2
  <2> QED  BY <1>3, <1>13, <1>19, <1>21, <2>1, <2>2 DEF SharesOK
<1>23. WorkersOK'
  <2>1. ASSUME Sound, NEW w \in Workers'
        PROVE  /\ Fixed(w)' \/ (Has("drop", w)' /\ ~(Has("check", Main)'))
               /\ w \in wants \/ Has("drop", w)'
               /\ Running(Main)' => Running(w)' \/ (Has("drop", w)' /\ Sharing' = {})
    <3>1. w \in Workers /\ w # i /\ port'[w] = port[w]
      BY <1>7, <1>8
    <3>2. /\ Fixed(w) \/ Has("drop", w)
          /\ w \in wants \/ Has("drop", w)
          /\ Running(Main) => Running(w) \/ (Has("drop", w) /\ Sharing = {})
      BY <1>2, <1>5, <2>1, <3>1 DEF WorkersOK
    <3>3. ~(Has("check", Main)')
      BY <1>11, IdsFinite
    <3>4. Has("drop", w) => Has("drop", w)'
      BY <1>6, <3>1
    <3> QED  BY <1>3, <3>1, <3>2, <3>3, <3>4 DEF Fixed, Running, Sharing
  <2>2. Sound => wants \subseteq Workers'
    BY <1>2, <1>7, <1>20, <1>21 DEF WorkersOK
  <2>3. ASSUME Sound, NEW j \in Ids
        PROVE  /\ registry'[j] = "none" => ~(Running(j)')
               /\ Does("wipe")' => registry'[j] = "none" \/ Has("drop", j)'
               /\ Has("drop", j)' => Has("stop", j)' \/ ~(Running(j)')
    <3>1. /\ registry[j] = "none" => ~Running(j)
          /\ Does("wipe") => registry[j] = "none" \/ Has("drop", j)
          /\ Has("drop", j) => Has("stop", j) \/ ~Running(j)
      BY <1>2, <2>3 DEF WorkersOK
    <3>2. Does("wipe")' => Does("wipe")
      BY <1>6 DEF Does
    <3>3. Running(j)' => Running(j)
      BY <1>3 DEF Running
    <3>4. CASE j = i
      <4>1. ~Has("stop", i)
        BY <1>6, <1>12 DEF RemoveVerbs
      <4> QED  BY <1>6, <1>7, <3>1, <3>3, <3>4, <4>1
    <3>5. CASE j # i
      BY <1>6, <1>7, <3>1, <3>2, <3>3, <3>5
    <3> QED  BY <3>4, <3>5
  <2> QED  BY <1>3, <1>7, <1>13, <1>19, <1>21, <2>1, <2>2, <2>3 DEF WorkersOK
<1>24. Typed'
  BY <1>1, <1>14, <1>15, <1>16, TypedNext
<1> QED  BY <1>1, <1>17, <1>18, <1>22, <1>23, <1>24 DEF IInv

-----------------------------------------------------------------------------
(* The steps on the rules, the drop-in and the boot line.                   *)

\* What such a step finds, and what it leaves alone.
LEMMA RuleStep ==
  ASSUME IInv, PlanOK', NEW v \in RuleVerbs \cup {"want"}, GoesOn(v, Main),
         UNCHANGED <<instances, conf, processes, settings, spent>>,
         nat' \subseteq WorkerPorts, input' \subseteq WorkerPorts, jumps' \subseteq PublicPorts,
         guarded' \in BOOLEAN, wants' \subseteq Ids, line' \in BOOLEAN, doubt' \subseteq doubt,
         Sound' => Sound, Certain' => Certain \/ v = "line"
  PROVE  /\ Typed' /\ Together'
         /\ Workers' = Workers /\ Staying' = Staying
         /\ PortsOf(Workers)' = PortsOf(Workers) /\ PortsOf(Staying)' = PortsOf(Staying)
         /\ ~(Has("port", Main)')
         /\ \A w \in RuleVerbs \ {v} : Has(w, Main)' = Has(w, Main)
         /\ ~(Has(v, Main)')
         /\ v \in ApplyVerbs \cup {"want"} =>
              /\ Staying = Workers /\ ~Going /\ ~(Going')
              /\ (\A q : ~Has("drop", q) /\ ~(Has("drop", q)'))
         /\ v \in ApplyVerbs => Has("line", Main) /\ Workers # {}
         /\ v \in TeardownVerbs => Staying = {}
         /\ \A w \in RuleVerbs : Phase(w) < Phase(v) => ~Has(w, Main)
<1>1. PlanOK /\ Typed /\ Together /\ RulesOK /\ SharesOK /\ WorkersOK /\ Values /\ Instances /\ Primary
  BY TypedParts DEF IInv
<1>2. /\ registry' = registry /\ port' = port /\ unit' = unit /\ conf' = conf /\ proc' = proc
      /\ due' = due /\ cap' = cap /\ guard' = guard /\ spent' = spent
  BY DEF instances, processes, settings
<1>3. Workers' = Workers /\ PortsOf(Workers)' = PortsOf(Workers)
  BY <1>2 DEF Workers, PortsOf
<1>4. /\ \A w, q : Has(w, q)' => /\ Has(w, q) /\ ~(w = v /\ q = Main) /\ w \in Verbs
                                 /\ op'.name = op.name /\ Phase(v) <= Phase(w)
      /\ \A w, q : Has(w, q) => Has(w, q)' \/ (w = v /\ q = Main)
      /\ Has(v, Main) /\ ~(Has(v, Main)')
  BY Later
<1>5. <<v, Main>> \in Left /\ v \in Verbs /\ Belongs(op, <<v, Main>>) /\ \A x \in Left : Belongs(op, x)
  BY <1>4 DEF GoesOn, Has
<1>6. /\ v \in ApplyVerbs \cup {"want"} => op.name \in {"enable", "apply", "port"} /\ Phase(v) > 10
      /\ v \in TeardownVerbs => op.name \in {"disable", "removeVpn"}
  BY <1>5, MorePhases DEF Belongs, ApplyVerbs
<1>7. Values'
  BY <1>1, <1>2 DEF Values
<1>8. Instances'
  BY <1>1, <1>2, <1>3 DEF Instances
<1>9. Primary'
  BY <1>1, <1>2, <1>3, IdsFinite, KeepsPrimary DEF Values, RuleVerbs, ApplyVerbs, TeardownVerbs
<1>10. Together'
  BY <1>1, <1>2, <1>3, KeepsTogether DEF RuleVerbs, ApplyVerbs, TeardownVerbs
<1>11. Typed'
  BY <1>7, <1>8, <1>9, TypedNext
<1>12. \A q : Has("drop", q)' = Has("drop", q)
  BY <1>4 DEF Has, RuleVerbs, ApplyVerbs, TeardownVerbs
<1>13. Staying' = Staying
  BY <1>3, <1>12 DEF Staying
<1>14. PortsOf(Staying)' = PortsOf(Staying)
  BY <1>2, <1>13 DEF PortsOf
<1>15. ~(Has("port", Main)')
  <2> SUFFICES ASSUME Has("port", Main)' PROVE FALSE
    OBVIOUS
  <2>1. Has("port", Main) /\ Phase(v) <= 10
    BY <1>4, MorePhases
  <2>2. op.name = "port"
    BY <1>5, <2>1 DEF Has, Belongs
  <2> QED  BY <1>6, <2>1, <2>2, PhasesAreNumbers DEF RuleVerbs
<1>16. \A w \in RuleVerbs \ {v} : Has(w, Main)' = Has(w, Main)
  BY <1>4 DEF Has
<1>17. v \in ApplyVerbs \cup {"want"} =>
         /\ Staying = Workers /\ ~Going /\ ~(Going')
         /\ (\A q : ~Has("drop", q) /\ ~(Has("drop", q)'))
  <2> SUFFICES ASSUME v \in ApplyVerbs \cup {"want"}
               PROVE  /\ Staying = Workers /\ ~Going /\ ~(Going')
                      /\ (\A q : ~Has("drop", q) /\ ~(Has("drop", q)'))
    OBVIOUS
  <2>1. ASSUME NEW q, Has("drop", q) PROVE FALSE
    <3>1. <<"drop", q>> \in Left /\ Belongs(op, <<"drop", q>>)
      BY <1>5, <2>1 DEF Has
    <3>2. q \in Ids
      BY <3>1 DEF Belongs, IdVerbs, RemoveVerbs
    <3> QED  BY <1>6, <3>1, <3>2 DEF Belongs, RemoveVerbs
  <2>2. ~Does("wipe")
    BY <1>5, <1>6 DEF Does, Has, Belongs
  <2>3. ~(Does("wipe")')
    BY <1>4, <2>2 DEF Does
  <2> QED  BY <1>12, <2>1, <2>2, <2>3 DEF Staying, Going
<1>18. v \in ApplyVerbs => Has("line", Main) /\ Workers # {}
  <2> SUFFICES ASSUME v \in ApplyVerbs PROVE Has("line", Main) /\ Workers # {}
    OBVIOUS
  <2>1. Has("line", Main)
    BY <1>1, <1>5 DEF Together
  <2>2. Phase(v) > 11
    BY MorePhases DEF ApplyVerbs
  <2>3. ~Does("save")
    <3> SUFFICES ASSUME NEW q \in Procs, Has("save", q) PROVE FALSE
      BY DEF Does
    <3>1. Phase(v) <= Phase("save")
      BY <1>4 DEF ApplyVerbs
    <3> QED  BY <2>2, <3>1, PhaseValues, PhasesAreNumbers DEF AddVerbs
  <2> QED  BY <1>1, <2>1, <2>3 DEF Together
<1>19. v \in TeardownVerbs => Staying = {}
  BY <1>1, <1>5 DEF Together
<1>20. ASSUME NEW w \in RuleVerbs, Phase(w) < Phase(v), Has(w, Main) PROVE FALSE
  <2>1. w # v
    BY <1>20, PhasesAreNumbers
  <2>2. Phase(v) <= Phase(w)
    BY <1>4, <1>20, <2>1
  <2> QED  BY <1>20, <2>2, PhasesAreNumbers
<1> QED  BY <1>3, <1>4, <1>10, <1>11, <1>13, <1>14, <1>15, <1>16, <1>17, <1>18, <1>19, <1>20

\* The steps left on the rules, spelt out.
LEMMA OtherRules ==
  ASSUME NEW v, \A w \in RuleVerbs \ {v} : Has(w, Main)' = Has(w, Main)
  PROVE  /\ v # "nat" => Has("nat", Main)' = Has("nat", Main)
         /\ v # "input" => Has("input", Main)' = Has("input", Main)
         /\ v # "oldJumps" => Has("oldJumps", Main)' = Has("oldJumps", Main)
         /\ v # "jump" => Has("jump", Main)' = Has("jump", Main)
         /\ v # "dropIn" => Has("dropIn", Main)' = Has("dropIn", Main)
         /\ v # "line" => Has("line", Main)' = Has("line", Main)
         /\ v # "unjump" => Has("unjump", Main)' = Has("unjump", Main)
         /\ v # "noNat" => Has("noNat", Main)' = Has("noNat", Main)
         /\ v # "noInput" => Has("noInput", Main)' = Has("noInput", Main)
         /\ v # "noLine" => Has("noLine", Main)' = Has("noLine", Main)
         /\ v # "noDropIn" => Has("noDropIn", Main)' = Has("noDropIn", Main)
BY DEF RuleVerbs, ApplyVerbs, TeardownVerbs

LEMMA ChainsOK ==
  ASSUME IInv, Chains
  PROVE  IInv'
<1>1. PICK v \in {"nat", "input", "noNat", "noInput"} :
        /\ At(v, Main)
        /\ nat' = IF v = "nat" THEN PortsOf(Workers) ELSE IF v = "noNat" THEN {} ELSE nat
        /\ input' = IF v = "input" THEN PortsOf(Workers) ELSE IF v = "noInput" THEN {} ELSE input
  BY DEF Chains
<1>2. PlanOK' /\ GoesOn(v, Main)
  BY <1>1, Proceeds DEF Chains, IInv
<1>3. PlanOK /\ Typed /\ Together /\ RulesOK /\ SharesOK /\ WorkersOK /\ Values /\ Instances /\ Primary
  BY TypedParts DEF IInv
<1>4. /\ UNCHANGED <<instances, conf, processes, settings, spent>>
      /\ registry' = registry /\ port' = port /\ unit' = unit /\ conf' = conf /\ proc' = proc
      /\ due' = due /\ doubt' = doubt /\ jumps' = jumps
      /\ guarded' = guarded /\ wants' = wants /\ line' = line
  BY DEF Chains, Same, instances, processes, settings
<1>5. PortsOf(Workers) \subseteq WorkerPorts
  <2>1. \A i \in Workers : port[i] \in WorkerPorts \cup {0} /\ port[i] # 0
    BY <1>3 DEF Values, Instances, Workers
  <2> QED  BY <2>1 DEF PortsOf
<1>6. /\ nat' \subseteq WorkerPorts /\ input' \subseteq WorkerPorts /\ jumps' \subseteq PublicPorts
      /\ guarded' \in BOOLEAN /\ wants' \subseteq Ids /\ line' \in BOOLEAN
      /\ Sound' = Sound /\ Certain' = Certain
  BY <1>1, <1>3, <1>4, <1>5 DEF Values, Sound, Certain
<1>7. v \in RuleVerbs /\ (v \in {"nat", "input"} => v \in ApplyVerbs)
      /\ (v \in {"noNat", "noInput"} => v \in TeardownVerbs)
  BY DEF RuleVerbs, ApplyVerbs, TeardownVerbs
<1>8. /\ Typed' /\ Together'
      /\ Workers' = Workers /\ Staying' = Staying
      /\ PortsOf(Workers)' = PortsOf(Workers) /\ PortsOf(Staying)' = PortsOf(Staying)
      /\ ~(Has("port", Main)')
      /\ \A w \in RuleVerbs \ {v} : Has(w, Main)' = Has(w, Main)
      /\ ~(Has(v, Main)')
      /\ v \in ApplyVerbs =>
           /\ Staying = Workers /\ ~Going /\ ~(Going')
           /\ (\A q : ~Has("drop", q) /\ ~(Has("drop", q)'))
      /\ v \in TeardownVerbs => Staying = {}
  BY <1>2, <1>4, <1>6, <1>7, RuleStep
<1>9. RulesOK'
  <2>1. /\ v # "nat" => Has("nat", Main)' = Has("nat", Main)
        /\ v # "input" => Has("input", Main)' = Has("input", Main)
        /\ Has("oldJumps", Main)' = Has("oldJumps", Main)
        /\ Has("jump", Main)' = Has("jump", Main)
        /\ Has("dropIn", Main)' = Has("dropIn", Main)
        /\ Has("line", Main)' = Has("line", Main)
        /\ Has("unjump", Main)' = Has("unjump", Main)
        /\ v # "noNat" => Has("noNat", Main)' = Has("noNat", Main)
        /\ v # "noInput" => Has("noInput", Main)' = Has("noInput", Main)
        /\ Has("noLine", Main)' = Has("noLine", Main)
        /\ Has("noDropIn", Main)' = Has("noDropIn", Main)
    BY <1>8, OtherRules
  <2>2. Staying = {} => PortsOf(Staying) = {}
    BY DEF PortsOf
  <2>3. /\ v = "nat" => nat' = PortsOf(Staying)'
        /\ v = "noNat" => nat' = PortsOf(Staying)'
        /\ v = "input" => input' = PortsOf(Staying)'
        /\ v = "noInput" => input' = PortsOf(Staying)'
    BY <1>1, <1>7, <1>8, <2>2
  <2>4. Certain' \/ Has("line", Main)' =>
          /\ nat' = PortsOf(Staying)' \/ Has("nat", Main)' \/ Has("noNat", Main)'
          /\ input' = PortsOf(Staying)' \/ Has("input", Main)' \/ Has("noInput", Main)'
          /\ \/ /\ jumps' = IF Staying' = {} THEN {} ELSE {conf'[Main].port}
                /\ guarded' = (Staying' # {})
             \/ Has("jump", Main)' \/ Has("unjump", Main)'
          /\ Has("jump", Main)' => (jumps' = {} /\ guarded' = FALSE) \/ Has("oldJumps", Main)'
          /\ wants' = Staying' \/ Has("dropIn", Main)' \/ Has("noDropIn", Main)'
          /\ line' = (Staying' # {}) \/ Has("line", Main)' \/ Has("noLine", Main)'
    <3> SUFFICES ASSUME Certain \/ Has("line", Main)
                 PROVE
          /\ nat' = PortsOf(Staying)' \/ Has("nat", Main)' \/ Has("noNat", Main)'
          /\ input' = PortsOf(Staying)' \/ Has("input", Main)' \/ Has("noInput", Main)'
          /\ \/ /\ jumps' = IF Staying' = {} THEN {} ELSE {conf'[Main].port}
                /\ guarded' = (Staying' # {})
             \/ Has("jump", Main)' \/ Has("unjump", Main)'
          /\ Has("jump", Main)' => (jumps' = {} /\ guarded' = FALSE) \/ Has("oldJumps", Main)'
          /\ wants' = Staying' \/ Has("dropIn", Main)' \/ Has("noDropIn", Main)'
          /\ line' = (Staying' # {}) \/ Has("line", Main)' \/ Has("noLine", Main)'
      BY <1>6, <2>1
    <3>1. /\ nat = PortsOf(Staying) \/ Has("nat", Main) \/ Has("noNat", Main)
          /\ input = PortsOf(Staying) \/ Has("input", Main) \/ Has("noInput", Main)
          /\ \/ /\ jumps = IF Staying = {} THEN {} ELSE {conf[Main].port}
                /\ guarded = (Staying # {})
             \/ Has("jump", Main) \/ Has("unjump", Main)
          /\ Has("jump", Main) => (jumps = {} /\ guarded = FALSE) \/ Has("oldJumps", Main)
          /\ wants = Staying \/ Has("dropIn", Main) \/ Has("noDropIn", Main)
          /\ line = (Staying # {}) \/ Has("line", Main) \/ Has("noLine", Main)
      BY <1>3 DEF RulesOK
    <3>2. nat' = PortsOf(Staying)' \/ Has("nat", Main)' \/ Has("noNat", Main)'
      <4>1. v \notin {"nat", "noNat"} => nat' = nat
        BY <1>1
      <4> QED  BY <1>8, <2>1, <2>3, <3>1, <4>1
    <3>3. input' = PortsOf(Staying)' \/ Has("input", Main)' \/ Has("noInput", Main)'
      <4>1. v \notin {"input", "noInput"} => input' = input
        BY <1>1
      <4> QED  BY <1>8, <2>1, <2>3, <3>1, <4>1
    <3> QED  BY <1>4, <1>8, <2>1, <3>1, <3>2, <3>3
  <2> QED  BY <1>8, <2>4 DEF RulesOK
<1>10. SharesOK'
  <2>1. CASE v = "nat"
    <3>1. Sharing' \subseteq PortsOf(Workers)'
      BY <1>1, <1>8, <2>1 DEF Sharing
    <3> QED  BY <1>7, <1>8, <2>1, <3>1 DEF SharesOK
  <2>2. CASE v # "nat"
    <3>1. Sharing' \subseteq Sharing
      BY <1>1, <1>4, <2>2 DEF Sharing
    <3> QED  BY <1>2, <1>3, <1>4, <2>2, <3>1, KeepsShares
  <2> QED  BY <2>1, <2>2
<1>11. WorkersOK'
  <2>1. \A w \in Workers : Fixed(w) => Fixed(w)'
    BY <1>4 DEF Fixed
  <2>2. (\E w \in Workers : Has("drop", w)) /\ Sharing = {} => Sharing' = {}
    BY <1>1, <1>4, <1>7, <1>8 DEF Sharing
  <2> QED  BY <1>2, <1>3, <1>4, <1>6, <2>1, <2>2, KeepsWorkers
<1> QED  BY <1>2, <1>8, <1>9, <1>10, <1>11 DEF IInv

LEMMA JumpsOK ==
  ASSUME IInv, Jumps
  PROVE  IInv'
<1>1. PICK v \in {"unjump", "oldJumps", "jump"} :
        /\ At(v, Main)
        /\ jumps' = IF v = "jump" THEN jumps \cup {conf[Main].port} ELSE {}
        /\ guarded' = (v = "jump")
  <2>1. CASE At("jump", Main)
    BY <2>1 DEF Jumps, At
  <2>2. CASE ~At("jump", Main)
    BY <2>2 DEF Jumps
  <2> QED  BY <2>1, <2>2
<1>2. PlanOK' /\ GoesOn(v, Main)
  BY <1>1, Proceeds DEF Jumps, IInv
<1>3. PlanOK /\ Typed /\ Together /\ RulesOK /\ SharesOK /\ WorkersOK /\ Values /\ Instances /\ Primary
  BY TypedParts DEF IInv
<1>4. /\ UNCHANGED <<instances, conf, processes, settings, spent>>
      /\ registry' = registry /\ port' = port /\ unit' = unit /\ conf' = conf /\ proc' = proc
      /\ due' = due /\ doubt' = doubt /\ nat' = nat
      /\ input' = input /\ wants' = wants /\ line' = line
  BY DEF Jumps, Same, instances, processes, settings
<1>5. v \in RuleVerbs /\ (v # "unjump" => v \in ApplyVerbs) /\ (v = "unjump" => v \in TeardownVerbs)
  BY DEF RuleVerbs, ApplyVerbs, TeardownVerbs
<1>6. v = "jump" => conf[Main].port \in PublicPorts
  <2> SUFFICES ASSUME v = "jump" PROVE conf[Main].port \in PublicPorts
    OBVIOUS
  <2>1. op.name \in {"enable", "apply", "port"}
    BY <1>2, <1>5 DEF GoesOn, Belongs
  <2> QED  BY <1>3, <2>1 DEF Primary
<1>7. /\ nat' \subseteq WorkerPorts /\ input' \subseteq WorkerPorts /\ jumps' \subseteq PublicPorts
      /\ guarded' \in BOOLEAN /\ wants' \subseteq Ids /\ line' \in BOOLEAN
      /\ Sound' = Sound /\ Certain' = Certain
  BY <1>1, <1>3, <1>4, <1>6 DEF Values, Sound, Certain
<1>8. /\ Typed' /\ Together'
      /\ Workers' = Workers /\ Staying' = Staying
      /\ PortsOf(Workers)' = PortsOf(Workers) /\ PortsOf(Staying)' = PortsOf(Staying)
      /\ ~(Has("port", Main)')
      /\ \A w \in RuleVerbs \ {v} : Has(w, Main)' = Has(w, Main)
      /\ ~(Has(v, Main)')
      /\ v \in ApplyVerbs =>
           /\ Staying = Workers /\ ~Going /\ ~(Going')
           /\ (\A q : ~Has("drop", q) /\ ~(Has("drop", q)'))
           /\ Has("line", Main) /\ Workers # {}
      /\ v \in TeardownVerbs => Staying = {}
      /\ \A w \in RuleVerbs : Phase(w) < Phase(v) => ~Has(w, Main)
  BY <1>2, <1>4, <1>5, <1>7, RuleStep
<1>9. v = "jump" => /\ ~Has("oldJumps", Main) /\ ~Has("nat", Main) /\ ~Has("noNat", Main)
                    /\ ~Has("unjump", Main)
  <2>1. {"oldJumps", "nat", "noNat", "unjump"} \subseteq RuleVerbs
    BY DEF RuleVerbs, ApplyVerbs, TeardownVerbs
  <2> QED  BY <1>8, <2>1, MorePhases
<1>10. v = "jump" => jumps = {} /\ nat = PortsOf(Workers)
  BY <1>1, <1>2, <1>3, <1>5, <1>8, <1>9, Later DEF RulesOK
<1>11. RulesOK'
  <2>1. /\ Has("nat", Main)' = Has("nat", Main)
        /\ Has("input", Main)' = Has("input", Main)
        /\ v # "oldJumps" => Has("oldJumps", Main)' = Has("oldJumps", Main)
        /\ v # "jump" => Has("jump", Main)' = Has("jump", Main)
        /\ Has("dropIn", Main)' = Has("dropIn", Main)
        /\ Has("line", Main)' = Has("line", Main)
        /\ v # "unjump" => Has("unjump", Main)' = Has("unjump", Main)
        /\ Has("noNat", Main)' = Has("noNat", Main)
        /\ Has("noInput", Main)' = Has("noInput", Main)
        /\ Has("noLine", Main)' = Has("noLine", Main)
        /\ Has("noDropIn", Main)' = Has("noDropIn", Main)
    BY <1>8, OtherRules
  <2>2. \/ /\ jumps' = IF Staying' = {} THEN {} ELSE {conf'[Main].port}
           /\ guarded' = (Staying' # {})
        \/ Has("jump", Main)'
    <3>1. CASE v = "jump"
      BY <1>1, <1>4, <1>5, <1>8, <1>10, <3>1
    <3>2. CASE v = "oldJumps"
      <4>1. Has("oldJumps", Main)
        BY <1>2, <3>2, Later
      <4> QED  BY <1>3, <2>1, <3>2, <4>1 DEF Together
    <3>3. CASE v = "unjump"
      BY <1>1, <1>5, <1>8, <3>3
    <3> QED  BY <3>1, <3>2, <3>3
  <2>3. Has("jump", Main)' => jumps' = {} /\ guarded' = FALSE
    BY <1>1, <1>8
  <2> QED  BY <1>3, <1>4, <1>7, <1>8, <2>1, <2>2, <2>3 DEF RulesOK
<1>12. SharesOK'
  <2>1. CASE v = "jump"
    <3>1. Sharing' \subseteq PortsOf(Workers)'
      BY <1>4, <1>8, <1>10, <2>1 DEF Sharing
    <3>2. ~(Has("nat", Main)')
      BY <1>2, <1>9, <2>1, Later
    <3> QED  BY <1>5, <1>8, <2>1, <3>1, <3>2 DEF SharesOK
  <2>2. CASE v # "jump"
    <3>1. Sharing' = {} /\ jumps' = {}
      BY <1>1, <2>2 DEF Sharing
    <3> QED  BY <3>1 DEF SharesOK
  <2> QED  BY <2>1, <2>2
<1>13. WorkersOK'
  <2>1. \A w \in Workers : Fixed(w) => Fixed(w)'
    BY <1>4 DEF Fixed
  <2>2. (\E w \in Workers : Has("drop", w)) /\ Sharing = {} => Sharing' = {}
    BY <1>1, <1>5, <1>8 DEF Sharing
  <2> QED  BY <1>2, <1>3, <1>4, <1>7, <2>1, <2>2, KeepsWorkers
<1> QED  BY <1>2, <1>8, <1>11, <1>12, <1>13 DEF IInv

LEMMA DropInOK ==
  ASSUME IInv, DropIn
  PROVE  IInv'
<1>1. PICK v \in {"want", "dropIn", "noDropIn"} :
        At(v, Main) /\ wants' = IF v = "noDropIn" THEN {} ELSE Workers
  BY DEF DropIn
<1>2. PlanOK' /\ GoesOn(v, Main)
  BY <1>1, Proceeds DEF DropIn, IInv
<1>3. PlanOK /\ Typed /\ Together /\ RulesOK /\ SharesOK /\ WorkersOK /\ Values /\ Instances /\ Primary
  BY TypedParts DEF IInv
<1>4. /\ UNCHANGED <<instances, conf, processes, settings, spent>>
      /\ registry' = registry /\ port' = port /\ unit' = unit /\ conf' = conf /\ proc' = proc
      /\ due' = due /\ doubt' = doubt /\ nat' = nat
      /\ input' = input /\ jumps' = jumps /\ guarded' = guarded /\ line' = line
  BY DEF DropIn, Same, instances, processes, settings
<1>5. /\ v \in RuleVerbs \cup {"want"} /\ (v # "noDropIn" => v \in ApplyVerbs \cup {"want"})
      /\ (v = "noDropIn" => v \in TeardownVerbs)
  BY DEF RuleVerbs, ApplyVerbs, TeardownVerbs
<1>6. /\ nat' \subseteq WorkerPorts /\ input' \subseteq WorkerPorts /\ jumps' \subseteq PublicPorts
      /\ guarded' \in BOOLEAN /\ wants' \subseteq Ids /\ line' \in BOOLEAN
      /\ Sound' = Sound /\ Certain' = Certain /\ Sharing' = Sharing
  BY <1>1, <1>3, <1>4 DEF Values, Sound, Certain, Workers, Sharing
<1>7. /\ Typed' /\ Together'
      /\ Workers' = Workers /\ Staying' = Staying
      /\ PortsOf(Workers)' = PortsOf(Workers) /\ PortsOf(Staying)' = PortsOf(Staying)
      /\ ~(Has("port", Main)')
      /\ \A w \in RuleVerbs \ {v} : Has(w, Main)' = Has(w, Main)
      /\ ~(Has(v, Main)')
      /\ v \in ApplyVerbs \cup {"want"} =>
           /\ Staying = Workers /\ ~Going /\ ~(Going')
           /\ (\A q : ~Has("drop", q) /\ ~(Has("drop", q)'))
      /\ v \in TeardownVerbs => Staying = {}
  BY <1>2, <1>4, <1>5, <1>6, RuleStep
<1>8. wants' = Staying
  BY <1>1, <1>5, <1>7
<1>9. RulesOK'
  <2>1. /\ Has("nat", Main)' = Has("nat", Main)
        /\ Has("input", Main)' = Has("input", Main)
        /\ Has("oldJumps", Main)' = Has("oldJumps", Main)
        /\ Has("jump", Main)' = Has("jump", Main)
        /\ Has("line", Main)' = Has("line", Main)
        /\ Has("unjump", Main)' = Has("unjump", Main)
        /\ Has("noNat", Main)' = Has("noNat", Main)
        /\ Has("noInput", Main)' = Has("noInput", Main)
        /\ Has("noLine", Main)' = Has("noLine", Main)
    BY <1>7, OtherRules
  <2> QED  BY <1>3, <1>4, <1>6, <1>7, <1>8, <2>1 DEF RulesOK
<1>10. SharesOK'
  BY <1>2, <1>3, <1>4, <1>6, KeepsShares
<1>11. /\ \A w, q : Has(w, q)' => Has(w, q) /\ op'.name = op.name
       /\ \A w, q : Has(w, q) => Has(w, q)' \/ (w = v /\ q = Main)
  BY <1>2, Later
<1>12. WorkersOK'
  <2>1. op'.name = "enable" => op.name = "enable" /\ v # "noDropIn"
    BY <1>2, <1>5, IdleName DEF GoesOn, Belongs
  <2>2. op'.name = "enable" => \A w \in Workers : Has("await", w)' \/ proc[w] # Absent
    BY <1>3, <1>11, <2>1 DEF WorkersOK
  <2>3. ASSUME Sound, NEW w \in Workers
        PROVE  /\ Fixed(w)' \/ (Has("drop", w)' /\ ~(Has("check", Main)'))
               /\ w \in wants' \/ Has("drop", w)'
               /\ Running(Main)' => \/ Running(w)'
                                    \/ op'.name = "enable" /\ Has("await", w)'
                                    \/ Has("drop", w)' /\ Sharing' = {}
    <3>1. /\ Fixed(w) \/ (Has("drop", w) /\ ~Has("check", Main))
          /\ Running(Main) => \/ Running(w)
                              \/ op.name = "enable" /\ Has("await", w)
                              \/ Has("drop", w) /\ Sharing = {}
      BY <1>3, <2>3 DEF WorkersOK
    <3>2. w \in Staying \/ Has("drop", w)
      BY DEF Staying
    <3>3. /\ Has("drop", w) => Has("drop", w)'
          /\ Has("await", w) => Has("await", w)' /\ op'.name = op.name
          /\ Has("check", Main)' => Has("check", Main)
      BY <1>11
    <3>4. (Fixed(w) <=> Fixed(w)') /\ (Running(w) <=> Running(w)') /\ (Running(Main) <=> Running(Main)')
      BY <1>4 DEF Fixed, Running
    <3> QED  BY <1>6, <1>8, <3>1, <3>2, <3>3, <3>4
  <2>4. wants' \subseteq Workers
    BY <1>1
  <2>5. Going' => wants' = {}
    BY <1>1, <1>5, <1>7
  <2>6. ASSUME Sound, NEW i \in Ids
        PROVE  /\ registry[i] = "none" => ~(Running(i)')
               /\ Does("wipe")' => registry[i] = "none" \/ Has("drop", i)'
               /\ Has("drop", i)' => Has("stop", i)' \/ ~(Running(i)')
    <3>1. /\ registry[i] = "none" => ~Running(i)
          /\ Does("wipe") => registry[i] = "none" \/ Has("drop", i)
          /\ Has("drop", i) => Has("stop", i) \/ ~Running(i)
      BY <1>3, <2>6 DEF WorkersOK
    <3>2. Does("wipe")' => Does("wipe")
      BY <1>11 DEF Does
    <3>3. Running(i) <=> Running(i)'
      BY <1>4 DEF Running
    <3> QED  BY <1>11, <3>1, <3>2, <3>3
  <2> QED  BY <1>4, <1>6, <1>7, <2>2, <2>3, <2>4, <2>5, <2>6 DEF WorkersOK
<1> QED  BY <1>2, <1>7, <1>9, <1>10, <1>12 DEF IInv

LEMMA BootLineOK ==
  ASSUME IInv, BootLine
  PROVE  IInv'
<1>1. PICK v \in {"line", "noLine"} :
        /\ At(v, Main)
        /\ line' = (v = "line")
        /\ doubt' = IF v = "line" THEN doubt \ {"rules"} ELSE doubt
  BY DEF BootLine
<1>2. PlanOK' /\ GoesOn(v, Main)
  BY <1>1, Proceeds DEF BootLine, IInv
<1>3. PlanOK /\ Typed /\ Together /\ RulesOK /\ SharesOK /\ WorkersOK /\ Values /\ Instances /\ Primary
  BY TypedParts DEF IInv
<1>4. /\ UNCHANGED <<instances, conf, processes, settings, spent>>
      /\ registry' = registry /\ port' = port /\ unit' = unit /\ conf' = conf /\ proc' = proc
      /\ due' = due /\ nat' = nat
      /\ input' = input /\ jumps' = jumps /\ guarded' = guarded /\ wants' = wants
  BY DEF BootLine, instances, processes, settings
<1>5. v \in RuleVerbs /\ (v = "line" => v \in ApplyVerbs) /\ (v = "noLine" => v \in TeardownVerbs)
  BY DEF RuleVerbs, ApplyVerbs, TeardownVerbs
<1>6. /\ nat' \subseteq WorkerPorts /\ input' \subseteq WorkerPorts /\ jumps' \subseteq PublicPorts
      /\ guarded' \in BOOLEAN /\ wants' \subseteq Ids /\ line' \in BOOLEAN /\ doubt' \subseteq doubt
      /\ Sound' = Sound /\ (Certain' => Certain \/ v = "line") /\ Sharing' = Sharing
  BY <1>1, <1>3, <1>4 DEF Values, Sound, Certain, Sharing
<1>7. /\ Typed' /\ Together'
      /\ Workers' = Workers /\ Staying' = Staying
      /\ PortsOf(Workers)' = PortsOf(Workers) /\ PortsOf(Staying)' = PortsOf(Staying)
      /\ ~(Has("port", Main)')
      /\ \A w \in RuleVerbs \ {v} : Has(w, Main)' = Has(w, Main)
      /\ ~(Has(v, Main)')
      /\ v \in ApplyVerbs => Staying = Workers /\ Has("line", Main) /\ Workers # {}
      /\ v \in TeardownVerbs => Staying = {}
      /\ \A w \in RuleVerbs : Phase(w) < Phase(v) => ~Has(w, Main)
  BY <1>2, <1>4, <1>5, <1>6, RuleStep
<1>8. Has(v, Main)
  BY <1>2, Later
<1>9. RulesOK'
  <2>1. /\ Has("nat", Main)' = Has("nat", Main)
        /\ Has("input", Main)' = Has("input", Main)
        /\ Has("oldJumps", Main)' = Has("oldJumps", Main)
        /\ Has("jump", Main)' = Has("jump", Main)
        /\ Has("dropIn", Main)' = Has("dropIn", Main)
        /\ v # "line" => Has("line", Main)' = Has("line", Main)
        /\ Has("unjump", Main)' = Has("unjump", Main)
        /\ Has("noNat", Main)' = Has("noNat", Main)
        /\ Has("noInput", Main)' = Has("noInput", Main)
        /\ Has("noDropIn", Main)' = Has("noDropIn", Main)
    BY <1>7, OtherRules
  <2>2. line' = (Staying' # {})
    BY <1>1, <1>5, <1>7
  <2>3. Certain' \/ Has("line", Main)' => Certain \/ Has("line", Main)
    BY <1>6, <1>8, <2>1
  <2> QED  BY <1>3, <1>4, <1>7, <2>1, <2>2, <2>3 DEF RulesOK
<1>10. SharesOK'
  BY <1>2, <1>3, <1>4, <1>6, KeepsShares
<1>11. WorkersOK'
  <2>1. \A w \in Workers : Fixed(w) => Fixed(w)'
    BY <1>4 DEF Fixed
  <2> QED  BY <1>2, <1>3, <1>4, <1>6, <2>1, KeepsWorkers
<1> QED  BY <1>2, <1>7, <1>9, <1>10, <1>11 DEF IInv

-----------------------------------------------------------------------------
(* A new plan.                                                              *)

\* The rules are those of the workers, each worker is as it should be or will
\* be removed.
RulesRight ==
  /\ nat = PortsOf(Workers) /\ input = nat
  /\ jumps = (IF Workers = {} THEN {} ELSE {conf[Main].port})
  /\ wants = Workers
  /\ guarded = (Workers # {}) /\ line = (Workers # {})

WorkersRight ==
  /\ wants \subseteq Workers
  /\ \A w \in Workers :
       /\ Fixed(w)
       /\ w \in wants \/ Has("drop", w)
       /\ Running(Main) => Running(w) \/ (Has("drop", w) /\ Sharing = {})
  /\ \A i \in Ids : registry[i] = "none" => ~Running(i)

NoDrop == \A q : ~Has("drop", q)

LEMMA Settled ==
  ASSUME IInv
  PROVE  /\ Certain /\ NoDrop /\ (Has("port", Main) \/ \A v \in RuleVerbs : ~Has(v, Main)) => RulesRight
         /\ Sound /\ NoDrop /\ op.name # "enable" => WorkersRight
         /\ Sharing \subseteq PortsOf(Workers)
<1>1. ASSUME Certain, NoDrop, Has("port", Main) PROVE RulesRight
  BY <1>1 DEF IInv, RulesOK, RulesRight
<1>2. ASSUME Certain, NoDrop, \A v \in RuleVerbs : ~Has(v, Main) PROVE RulesRight
  <2>1. Staying = Workers
    BY <1>2 DEF Staying, NoDrop
  <2>2. /\ ~Has("nat", Main) /\ ~Has("noNat", Main) /\ ~Has("input", Main) /\ ~Has("noInput", Main)
        /\ ~Has("jump", Main) /\ ~Has("unjump", Main) /\ ~Has("dropIn", Main)
        /\ ~Has("noDropIn", Main) /\ ~Has("line", Main) /\ ~Has("noLine", Main)
    BY <1>2 DEF RuleVerbs, ApplyVerbs, TeardownVerbs
  <2> QED  BY <1>2, <2>1, <2>2 DEF IInv, RulesOK, RulesRight
<1>3. ASSUME Sound, NoDrop, op.name # "enable" PROVE WorkersRight
  BY <1>3 DEF IInv, WorkersOK, WorkersRight, NoDrop
<1> QED  BY <1>1, <1>2, <1>3 DEF IInv, SharesOK

\* What a plan other than Enable needs to be a sensible one.
LEMMA Starts ==
  ASSUME PlanOK', Values', Instances', Primary', op'.name # "enable",
         (Sharing \subseteq PortsOf(Workers))',
         Certain' => \/ RulesRight'
                     \/ \A v \in ApplyVerbs : Has(v, Main)'
                     \/ \A v \in TeardownVerbs : Has(v, Main)',
         Sound' => WorkersRight',
         Has("port", Main)' => (Certain' => RulesRight'),
         \A v \in ApplyVerbs : Has(v, Main)' =>
           Workers' # {} /\ (\A w \in ApplyVerbs : Has(w, Main)'),
         \A x \in Left' : x[1] = "port" /\ Workers' # {} => \A v \in ApplyVerbs : Has(v, Main)',
         \A x \in Left' : x[1] \in TeardownVerbs \cup {"check", "wipe"} =>
           Staying' = {} /\ (\A v \in TeardownVerbs : Has(v, Main)'),
         Going' => Has("check", Main)' /\ \A v \in TeardownVerbs : Has(v, Main)',
         \A i \in Ids :
           /\ (\E v \in AddVerbs : Has(v, i)') => Has("save", i)'
           /\ Has("save", i)' => registry'[i] = "none"
           /\ (\E v \in RemoveVerbs : Has(v, i)') => Has("drop", i)' /\ Has("stop", i)'
           /\ Has("drop", i)' /\ op'.name \in {"remove", "uninstall"} => i \notin Workers'
           /\ Has("start", i)' \/ Has("restart", i)' => Has("save", i)' \/ registry'[i] # "none"
           /\ Does("wipe")' => registry'[i] = "none" \/ Has("drop", i)'
  PROVE  IInv'
<1>1. Typed'
  BY TypedNext
<1>2. (\A v \in ApplyVerbs : ~(Has(v, Main)')) \/ (\A v \in ApplyVerbs : Has(v, Main)' /\ Workers' # {})
  OBVIOUS
<1>3. \A v, q : Has(v, q)' => /\ <<v, q>> \in Left'
                              /\ v \in MainVerbs => q = Main
  BY DEF Has, PlanOK, Fits, Belongs, Left
<1>4. \A v \in ApplyVerbs \cup TeardownVerbs \cup {"check", "wipe", "port"} : v \in MainVerbs
  BY DEF MainVerbs
<1>5. \A x \in Left' : x = <<x[1], x[2]>> /\ Has(x[1], x[2])' /\ (x[1] \in MainVerbs => x[2] = Main)
  <2> SUFFICES ASSUME NEW x \in Left' PROVE x = <<x[1], x[2]>> /\ Has(x[1], x[2])' /\ (x[1] \in MainVerbs => x[2] = Main)
    OBVIOUS
  <2>1. x \in Steps
    BY DEF PlanOK, Fits, Goes, Left, StepsIn
  <2>2. x = <<x[1], x[2]>>
    BY <2>1 DEF Steps
  <2> QED  BY <2>2, <1>3 DEF Has
<1>6. Together'
  <2>1. \A x \in Left' : x[1] \in ApplyVerbs => Has("line", Main)'
    BY <1>2, <1>4, <1>5 DEF ApplyVerbs
  <2>2. Has("line", Main)' => Workers' # {}
    BY DEF ApplyVerbs
  <2>3. Has("oldJumps", Main)' => Has("jump", Main)'
    BY DEF ApplyVerbs
  <2> QED  BY <2>1, <2>2, <2>3 DEF Together
<1>7. RulesOK'
  <2>1. Has("port", Main)' /\ Certain' => RulesRight'
    OBVIOUS
  <2>2. CASE \A v \in ApplyVerbs : Has(v, Main)'
    <3>1. /\ Has("nat", Main)' /\ Has("input", Main)' /\ Has("oldJumps", Main)' /\ Has("jump", Main)'
          /\ Has("dropIn", Main)' /\ Has("line", Main)'
      BY <2>2 DEF ApplyVerbs
    <3> QED  BY <2>1, <3>1 DEF RulesOK, RulesRight
  <2>3. CASE \A v \in ApplyVerbs : ~(Has(v, Main)')
    <3>1. /\ ~(Has("jump", Main)') /\ ~(Has("line", Main)')
      BY <2>3 DEF ApplyVerbs
    <3>2. CASE \A v \in TeardownVerbs : Has(v, Main)'
      <4>1. /\ Has("noNat", Main)' /\ Has("noInput", Main)' /\ Has("unjump", Main)'
            /\ Has("noDropIn", Main)' /\ Has("noLine", Main)'
        BY <3>2 DEF TeardownVerbs
      <4> QED  BY <2>1, <3>1, <4>1 DEF RulesOK, RulesRight
    <3>3. CASE ~\A v \in TeardownVerbs : Has(v, Main)'
      <4>1. Certain' => RulesRight'
        BY <2>3, <3>3 DEF ApplyVerbs
      <4>2. Staying' = Workers'
        BY <3>3 DEF Staying, Going
      <4>3. PortsOf(Staying)' = PortsOf(Workers)'
        BY <4>2 DEF PortsOf
      <4> QED  BY <2>1, <3>1, <4>1, <4>2, <4>3 DEF RulesOK, RulesRight
    <3> QED  BY <3>2, <3>3
  <2> QED  BY <1>2, <2>2, <2>3
<1>8. SharesOK'
  BY DEF SharesOK, TeardownVerbs
<1>9. WorkersOK'
  <2>1. Going' => Has("check", Main)' /\ Has("noDropIn", Main)'
    BY DEF TeardownVerbs
  <2>2. \A i \in Ids : Has("drop", i)' => Has("stop", i)'
    BY DEF RemoveVerbs
  <2> QED  BY <2>1, <2>2 DEF WorkersOK, WorkersRight
<1> QED  BY <1>1, <1>6, <1>7, <1>8, <1>9 DEF IInv

\* Steps on settings and processes only.
NeutralVerbs == {"cap", "follow", "restore", "confirm", "restart", "start", "dup", "manage",
                 "unmanage", "noGuard"} \cup GuardParts

LEMMA NeutralStart ==
  ASSUME PlanOK', Values', Instances', Primary', op'.name # "enable",
         (Sharing \subseteq PortsOf(Workers))', Certain' => RulesRight', Sound' => WorkersRight',
         \A x \in Left' : /\ x[1] \in NeutralVerbs \/ x = <<"stop", Main>>
                          /\ x[1] \in {"start", "restart"} /\ x[2] \in Ids => registry'[x[2]] # "none"
  PROVE  IInv'
<1>1. \A v, q : Has(v, q)' => v \in NeutralVerbs \/ (v = "stop" /\ q = Main)
  BY DEF Has
<1>2. \A v \in ApplyVerbs \cup TeardownVerbs \cup {"check", "wipe", "port"} \cup AddVerbs
                 \cup (RemoveVerbs \ {"stop"}) :
        v \notin NeutralVerbs /\ v # "stop"
  BY DEF ApplyVerbs, TeardownVerbs, AddVerbs, RemoveVerbs, NeutralVerbs, GuardParts
<1>3. \A q : \A v \in ApplyVerbs \cup TeardownVerbs \cup {"check", "wipe", "port"} \cup AddVerbs
                 \cup (RemoveVerbs \ {"stop"}) : ~(Has(v, q)')
  BY <1>1, <1>2
<1>4. \A i \in Ids : ~(Has("stop", i)')
  <2>1. "stop" \notin NeutralVerbs
    BY DEF NeutralVerbs, GuardParts
  <2> QED  BY <1>1, <2>1, IdsFinite
<1>5. \A i \in Ids : \A v \in RemoveVerbs : ~(Has(v, i)')
  BY <1>3, <1>4
<1>6. \A q : ~(Has("drop", q)') /\ ~(Has("wipe", q)')
  BY <1>3 DEF RemoveVerbs
<1>7. ~(Going') /\ ~(Does("wipe")')
  BY <1>6 DEF Going, Does
<1>8. \A x \in Left' : x[1] \notin ApplyVerbs \cup TeardownVerbs \cup {"check", "wipe", "port"}
  BY <1>2
<1>9. \A i \in Ids : Has("start", i)' \/ Has("restart", i)' => registry'[i] # "none"
  BY DEF Has
<1>10. \A i \in Ids : ~(Has("save", i)') /\ \A v \in AddVerbs : ~(Has(v, i)')
  BY <1>3 DEF AddVerbs
<1> QED  BY <1>3, <1>5, <1>6, <1>7, <1>8, <1>9, <1>10, Starts

\* What an operator finds, and what picking an operation leaves.
LEMMA Begun ==
  ASSUME IInv, NEW name \in Names, NEW for \in Procs, NEW value \in Mbps \cup PublicPorts \cup {0, 1},
         NEW ports \in Ports, NEW todo, Goes(todo), NEW x0, x0 \in StepsIn(todo),
         Begin(name, for, value, ports, todo), \A x \in StepsIn(todo) : Belongs(op', x)
  PROVE  /\ PlanOK' /\ Left' = StepsIn(todo) /\ op'.name = name /\ op'.ports = ports /\ op'.value = value
         /\ Values' /\ Instances' /\ Sharing \subseteq PortsOf(Workers)
         /\ Sharing' = Sharing /\ Workers' = Workers /\ Extras' = Extras
         /\ PortsOf(Workers)' = PortsOf(Workers)
         /\ (Sharing \subseteq PortsOf(Workers))'
         /\ Certain' => RulesRight'
         /\ Sound' => /\ WorkersRight' /\ WorkersRight
                      /\ \A w \in Workers : w \in wants /\ (Running(Main) => Running(w))
         /\ UNCHANGED <<instances, conf, processes, settings, rules, doubt>>
         /\ conf[Main].port \in PublicPorts \/ conf[Main] = Absent
         /\ conf[Main] = Absent => unit[Main] = "none" /\ Workers = {}
<1>1. PlanOK /\ Typed /\ Together /\ RulesOK /\ SharesOK /\ WorkersOK /\ Values /\ Instances /\ Primary
  BY TypedParts DEF IInv
<1>2. /\ UNCHANGED <<instances, conf, processes, settings, rules, doubt>>
      /\ op = Idle /\ spent < MaxSpent /\ spent' = spent + 1
      /\ op' = [name |-> name, for |-> for, ports |-> ports, value |-> value, was |-> cap[for],
                failed |-> FALSE, todo |-> todo]
  BY DEF Begin, Spend
<1>3. /\ registry' = registry /\ port' = port /\ unit' = unit /\ conf' = conf /\ proc' = proc
      /\ due' = due /\ cap' = cap /\ guard' = guard /\ doubt' = doubt /\ nat' = nat
      /\ input' = input /\ jumps' = jumps /\ guarded' = guarded /\ wants' = wants /\ line' = line
  BY <1>2 DEF instances, processes, settings, rules
<1>4. /\ op'.name = name /\ op'.ports = ports /\ op'.value = value /\ op'.for = for
      /\ op'.was = cap[for] /\ op'.failed = FALSE /\ op'.todo = todo
  BY <1>2
<1>5. PlanOK' /\ Left' = StepsIn(todo)
  <2>1. cap[for] \in Mbps
    BY <1>1 DEF Values
  <2>2. op' \in Ops
    BY <1>2, <2>1 DEF Ops, Goes
  <2>3. todo # <<>>
    BY NoSteps
  <2> QED  BY <1>4, <2>2, <2>3 DEF PlanOK, Fits, Left
<1>6. Workers' = Workers /\ PortsOf(Workers)' = PortsOf(Workers) /\ Sharing' = Sharing
      /\ Certain' = Certain /\ Sound' = Sound /\ Extras' = Extras
  BY <1>3 DEF Workers, PortsOf, Sharing, Certain, Sound, Extras
<1>7. Values'
  <2>1. spent' \in 0..MaxSpent
    BY <1>1, <1>2, ParametersOK DEF Values
  <2> QED  BY <1>1, <1>3, <2>1 DEF Values
<1>8. Instances'
  BY <1>1, <1>3, <1>6 DEF Instances
<1>9. NoDrop /\ (\A v \in RuleVerbs : ~Has(v, Main)) /\ op.name # "enable"
  BY <1>2, IdleFits, IdleName DEF NoDrop, Has, Left
<1>10. /\ Certain => RulesRight
       /\ Sound => WorkersRight
       /\ Sharing \subseteq PortsOf(Workers)
  BY <1>9, Settled
<1>11. Certain' => RulesRight'
  BY <1>3, <1>6, <1>10 DEF RulesRight
<1>12. Sound => \A w \in Workers : w \in wants /\ (Running(Main) => Running(w))
  BY <1>9, <1>10 DEF WorkersRight, NoDrop
<1>13. Sound' => WorkersRight'
  BY <1>3, <1>6, <1>10, <1>12 DEF WorkersRight, Fixed, Running
<1>14. /\ conf[Main].port \in PublicPorts \/ conf[Main] = Absent
       /\ conf[Main] = Absent => unit[Main] = "none" /\ Workers = {}
  BY <1>1 DEF Primary
<1> QED  BY <1>2, <1>4, <1>5, <1>6, <1>7, <1>8, <1>10, <1>11, <1>12, <1>13, <1>14

LEMMA NoPorts == <<>> \in Ports /\ \A i \in Ids : [j \in {i} |-> 0] \in Ports
<1>1. <<>> \in [{} -> WorkerPorts \cup {0}]
  OBVIOUS
<1>2. <<>> \in Ports
  BY <1>1 DEF Ports
<1>3. ASSUME NEW i \in Ids PROVE [j \in {i} |-> 0] \in Ports
  <2>1. [j \in {i} |-> 0] \in [{i} -> WorkerPorts \cup {0}] /\ {i} \in SUBSET Ids
    OBVIOUS
  <2> QED  BY <2>1 DEF Ports
<1> QED  BY <1>2, <1>3

\* A new operation on settings and processes.
LEMMA NeutralBegun ==
  ASSUME IInv, NEW name \in Names \ {"enable", "port", "apply"}, NEW for \in Procs,
         NEW value \in Mbps \cup PublicPorts \cup {0, 1},
         NEW todo, Goes(todo), NEW x0, x0 \in StepsIn(todo),
         Begin(name, for, value, <<>>, todo), \A x \in StepsIn(todo) : Belongs(op', x),
         \A x \in StepsIn(todo) :
           /\ x[1] \in NeutralVerbs \/ x = <<"stop", Main>>
           /\ x[1] \in {"start", "restart"} /\ x[2] \in Ids => registry[x[2]] # "none"
  PROVE  IInv'
<1>1. /\ PlanOK' /\ Left' = StepsIn(todo) /\ op'.name = name
      /\ Values' /\ Instances' /\ (Sharing \subseteq PortsOf(Workers))' /\ Workers' = Workers
      /\ Certain' => RulesRight'
      /\ Sound' => WorkersRight'
      /\ UNCHANGED <<instances, conf, processes, settings, rules, doubt>>
      /\ conf[Main].port \in PublicPorts \/ conf[Main] = Absent
      /\ conf[Main] = Absent => unit[Main] = "none" /\ Workers = {}
  BY Begun, NoPorts
<1>2. registry' = registry /\ unit' = unit /\ conf' = conf
  BY <1>1 DEF instances
<1>3. "wipe" \notin NeutralVerbs
  BY DEF NeutralVerbs, GuardParts
<1>4. Primary'
  BY <1>1, <1>2, <1>3 DEF Primary
<1> QED  BY <1>1, <1>2, <1>4, NeutralStart

LEMMA Identifiers ==
  /\ Workers \subseteq Ids /\ Extras \subseteq Ids /\ Extras \cap Workers = {}
  /\ \A i \in Extras \cup Workers : registry[i] # "none"
  /\ \A n : NextIds(n) \subseteq {i \in Ids : registry[i] = "none"}
  /\ ServerConfs \subseteq Procs
BY DEF Workers, Extras, NextIds, Lowest, ServerConfs

LEMMA SpeedLimitOK ==
  ASSUME IInv, SpeedLimit
  PROVE  IInv'
<1>1. PICK p \in {Main} \cup Extras, v \in Mbps, name \in {"limit", "unlimit"} :
        Begin(name, p, v, <<>>, SetKey(p, Workers))
  BY ParametersOK DEF SpeedLimit
<1>2. /\ Goes(SetKey(p, Workers))
      /\ StepsIn(SetKey(p, Workers)) = ({"cap", "restart"} \X {p})
              \cup (IF p = Main THEN ({"follow"} \X Workers) \cup ({"confirm"} \X {Main}) ELSE {})
  BY Identifiers, IdsFinite, SetKeySteps
<1>3. name \in Names \ {"enable", "port", "apply"} /\ p \in Procs
  BY Identifiers, IdsFinite DEF Names
<1>4. <<"cap", p>> \in StepsIn(SetKey(p, Workers))
  BY <1>2
<1>5. op'.name = name /\ op'.value = v
  BY <1>1 DEF Begin
<1>6. ASSUME NEW x \in StepsIn(SetKey(p, Workers))
      PROVE  /\ x[1] \in {"cap", "restart", "follow", "confirm"}
             /\ x[1] = "confirm" => x[2] = Main
             /\ x[1] = "follow" => x[2] \in Ids
             /\ x[1] = "restart" => x[2] = p
  BY <1>2, Identifiers
<1>7. \A x \in StepsIn(SetKey(p, Workers)) : Belongs(op', x)
  <2>1. \A v1 \in {"cap", "restart", "follow", "confirm"} :
          /\ v1 \notin ApplyVerbs \cup TeardownVerbs \cup AddVerbs \cup RemoveVerbs
          /\ v1 \in MainVerbs => v1 = "confirm"
          /\ v1 \in IdVerbs => v1 = "follow"
    BY DEF ApplyVerbs, TeardownVerbs, AddVerbs, RemoveVerbs, MainVerbs, IdVerbs, GuardParts
  <2> QED  BY <1>5, <1>6, <2>1 DEF Belongs
<1>8. \A x \in StepsIn(SetKey(p, Workers)) :
        /\ x[1] \in NeutralVerbs
        /\ x[1] \in {"start", "restart"} /\ x[2] \in Ids => registry[x[2]] # "none"
  <2>1. p \in Ids => registry[p] # "none"
    BY Identifiers, IdsFinite
  <2> QED  BY <1>6, <2>1 DEF NeutralVerbs
<1> QED  BY <1>1, <1>2, <1>3, <1>4, <1>7, <1>8, NeutralBegun

LEMMA ToggleMultiloginOK ==
  ASSUME IInv, ToggleMultilogin
  PROVE  IInv'
<1> DEFINE todo == Multilogin(Workers)
<1>1. PICK v \in {0, 1} : Begin("multilogin", Main, v, <<>>, todo)
  BY DEF ToggleMultilogin
<1>2. /\ Goes(todo)
      /\ StepsIn(todo) = ({"dup"} \X ({Main} \cup Workers)) \cup ({"restart"} \X {Main})
  BY Identifiers, MultiloginSteps
<1> HIDE DEF todo
<1>3. op'.name = "multilogin"
  BY <1>1 DEF Begin
<1>4. ASSUME NEW x \in StepsIn(todo)
      PROVE  x[1] \in {"dup", "restart"} /\ (x[1] = "restart" => x[2] = Main)
  BY <1>2
<1>5. \A x \in StepsIn(todo) : Belongs(op', x)
  <2>1. \A v1 \in {"dup", "restart"} :
          v1 \notin ApplyVerbs \cup TeardownVerbs \cup AddVerbs \cup RemoveVerbs \cup MainVerbs \cup IdVerbs
    BY DEF ApplyVerbs, TeardownVerbs, AddVerbs, RemoveVerbs, MainVerbs, IdVerbs, GuardParts
  <2> QED  BY <1>3, <1>4, <2>1 DEF Belongs
<1>6. \A x \in StepsIn(todo) :
        /\ x[1] \in NeutralVerbs
        /\ x[1] \in {"start", "restart"} /\ x[2] \in Ids => registry[x[2]] # "none"
  BY <1>4, IdsFinite DEF NeutralVerbs
<1>7. <<"restart", Main>> \in StepsIn(todo)
  BY <1>2
<1> QED  BY <1>1, <1>2, <1>5, <1>6, <1>7, IdsFinite, NeutralBegun DEF Names

\* The guard's restarts belong to either operation on it.
LEMMA GuardPlan ==
  ASSUME NEW todo, NEW o, o.name \in {"guard", "unguard"},
         \A x \in StepsIn(todo) :
           /\ x[1] \in GuardParts \cup {"manage", "unmanage", "noGuard", "confirm", "restart"}
           /\ x[1] \in GuardParts \cup {"noGuard", "confirm"} => x[2] = Main
           /\ x[1] = "restart" => x[2] \in {Main} \cup Extras
  PROVE  /\ \A x \in StepsIn(todo) : Belongs(o, x)
         /\ \A x \in StepsIn(todo) :
              /\ x[1] \in NeutralVerbs
              /\ x[1] \in {"start", "restart"} /\ x[2] \in Ids => registry[x[2]] # "none"
<1>1. \A v \in GuardParts \cup {"manage", "unmanage", "noGuard", "confirm", "restart"} :
        /\ v \notin ApplyVerbs \cup TeardownVerbs \cup AddVerbs \cup RemoveVerbs \cup IdVerbs
        /\ v \notin {"want", "await", "check", "uncap", "stop", "start", "wipe", "halt", "disable", "cap", "port"}
        /\ v \in MainVerbs => v \in GuardParts \cup {"noGuard", "confirm"}
  BY DEF ApplyVerbs, TeardownVerbs, AddVerbs, RemoveVerbs, MainVerbs, IdVerbs, GuardParts
<1>2. \A x \in StepsIn(todo) : Belongs(o, x)
  <2> SUFFICES ASSUME NEW x \in StepsIn(todo) PROVE Belongs(o, x)
    OBVIOUS
  <2>1. /\ x[1] \notin ApplyVerbs \cup TeardownVerbs \cup AddVerbs \cup RemoveVerbs \cup IdVerbs
        /\ x[1] \notin {"want", "await", "check", "uncap", "stop", "start", "wipe", "halt", "disable", "cap", "port"}
        /\ x[1] \in MainVerbs => x[2] = Main
    BY <1>1
  <2>2. x # <<"stop", Main>>
    BY <2>1
  <2> QED  BY <2>1, <2>2 DEF Belongs
<1>3. \A x \in StepsIn(todo) :
        /\ x[1] \in NeutralVerbs
        /\ x[1] \in {"start", "restart"} /\ x[2] \in Ids => registry[x[2]] # "none"
  <2> SUFFICES ASSUME NEW x \in StepsIn(todo)
               PROVE  /\ x[1] \in NeutralVerbs
                      /\ x[1] \in {"start", "restart"} /\ x[2] \in Ids => registry[x[2]] # "none"
    OBVIOUS
  <2>1. x[1] # "start"
    BY <1>1
  <2>2. x[1] = "restart" /\ x[2] \in Ids => registry[x[2]] # "none"
    BY Identifiers, IdsFinite
  <2> QED  BY <2>1, <2>2 DEF NeutralVerbs
<1> QED  BY <1>2, <1>3

LEMMA ToggleDeviceLimitOK ==
  ASSUME IInv, ToggleDeviceLimit
  PROVE  IInv'
<1>1. PICK name \in {"guard", "unguard"} :
        Begin(name, Main, 0, <<>>, IF name = "guard" THEN EnableGuard(ServerConfs, Extras)
                                   ELSE DisableGuard(ServerConfs, Extras))
  BY DEF ToggleDeviceLimit
<1> DEFINE todo == IF name = "guard" THEN EnableGuard(ServerConfs, Extras)
                   ELSE DisableGuard(ServerConfs, Extras)
<1>2. /\ Goes(todo) /\ <<"restart", Main>> \in StepsIn(todo)
      /\ \A x \in StepsIn(todo) :
           /\ x[1] \in GuardParts \cup {"manage", "unmanage", "noGuard", "confirm", "restart"}
           /\ x[1] \in GuardParts \cup {"noGuard", "confirm"} => x[2] = Main
           /\ x[1] = "restart" => x[2] \in {Main} \cup Extras
  <2>1. CASE name = "guard"
    <3>1. /\ Goes(todo)
          /\ StepsIn(todo) = ({"manage"} \X ServerConfs)
              \cup ((GuardParts \cup {"confirm"}) \X {Main}) \cup ({"restart"} \X ({Main} \cup Extras))
      BY <2>1, Identifiers, EnableGuardSteps
    <3> QED  BY <3>1 DEF GuardParts
  <2>2. CASE name = "unguard"
    <3>1. /\ Goes(todo)
          /\ StepsIn(todo) = ({"noGuard"} \X {Main})
              \cup ({"unmanage"} \X ServerConfs) \cup ({"restart"} \X ({Main} \cup Extras))
      BY <2>2, Identifiers, DisableGuardSteps
    <3> QED  BY <3>1 DEF GuardParts
  <2> QED  BY <2>1, <2>2
<1>3. Begin(name, Main, 0, <<>>, todo)
  BY <1>1
<1> HIDE DEF todo
<1>4. op'.name = name
  BY <1>3 DEF Begin
<1>5. /\ \A x \in StepsIn(todo) : Belongs(op', x)
      /\ \A x \in StepsIn(todo) :
           /\ x[1] \in NeutralVerbs
           /\ x[1] \in {"start", "restart"} /\ x[2] \in Ids => registry[x[2]] # "none"
  BY <1>2, <1>4, GuardPlan
<1> QED  BY <1>2, <1>3, <1>5, IdsFinite, NeutralBegun DEF Names

LEMMA ControlOK ==
  ASSUME IInv, Control
  PROVE  IInv'
<1>1. PICK verb \in {"start", "stop", "restart"} : Begin("control", Main, 0, <<>>, On(Main, <<verb>>))
  BY DEF Control
<1> DEFINE todo == On(Main, <<verb>>)
<1>2. Goes(todo) /\ StepsIn(todo) = {verb} \X {Main}
  BY IdsFinite, Alone DEF Verbs
<1>3. Begin("control", Main, 0, <<>>, todo)
  BY <1>1
<1> HIDE DEF todo
<1>4. StepsIn(todo) = {<<verb, Main>>}
  BY <1>2
<1>5. op'.name = "control"
  BY <1>3 DEF Begin
<1>6. Belongs(op', <<verb, Main>>)
  BY <1>5, IdsFinite
     DEF Belongs, ApplyVerbs, TeardownVerbs, AddVerbs, RemoveVerbs, MainVerbs, IdVerbs, GuardParts
<1>7. \A x \in StepsIn(todo) :
        /\ x[1] \in NeutralVerbs \/ x = <<"stop", Main>>
        /\ x[1] \in {"start", "restart"} /\ x[2] \in Ids => registry[x[2]] # "none"
  BY <1>4, IdsFinite DEF NeutralVerbs
<1> QED  BY <1>2, <1>3, <1>4, <1>6, <1>7, IdsFinite, NeutralBegun DEF Names

\* Plans of rules, ports and restarts of the primary.
LEMMA RulesStart ==
  ASSUME PlanOK', Values', Instances', Primary', op'.name # "enable",
         (Sharing \subseteq PortsOf(Workers))',
         Certain' => RulesRight' \/ \A v \in ApplyVerbs : Has(v, Main)',
         Has("port", Main)' => (Certain' => RulesRight'), Sound' => WorkersRight',
         \A x \in Left' : x[1] \in ApplyVerbs \cup {"port", "restart"} /\ x[2] = Main,
         \/ Workers' # {} /\ \A v \in ApplyVerbs : Has(v, Main)'
         \/ (\A v \in ApplyVerbs : ~(Has(v, Main)')) /\ (Has("port", Main)' => Workers' = {})
  PROVE  IInv'
<1>1. \A v, q : Has(v, q)' => v \in ApplyVerbs \cup {"port", "restart"} /\ q = Main
  BY DEF Has
<1>2. \A v \in TeardownVerbs \cup {"check", "wipe", "drop", "start", "save"} \cup AddVerbs \cup RemoveVerbs :
        v \notin ApplyVerbs \cup {"port", "restart"}
  BY DEF ApplyVerbs, TeardownVerbs, AddVerbs, RemoveVerbs
<1>3. \A q : \A v \in TeardownVerbs \cup {"check", "wipe", "drop", "start", "save"} \cup AddVerbs \cup RemoveVerbs :
        ~(Has(v, q)')
  BY <1>1, <1>2
<1>4. ~(Going') /\ ~(Does("wipe")')
  BY <1>3 DEF Going, Does
<1>5. \A x \in Left' : x[1] \notin TeardownVerbs \cup {"check", "wipe"}
  BY <1>2
<1>6. \A i \in Ids : ~(Has("start", i)') /\ ~(Has("restart", i)') /\ ~(Has("save", i)') /\ ~(Has("drop", i)')
  BY <1>1, <1>3, IdsFinite
<1>7. \A x \in Left' : x[1] = "port" => Has("port", Main)'
  <2>1. op'.todo \in Seq(Steps)
    BY DEF PlanOK, Fits, Goes
  <2>2. \A x \in Left' : x \in Steps
    BY <2>1 DEF Left, StepsIn
  <2>3. \A x \in Left' : x = <<x[1], x[2]>>
    BY <2>2 DEF Steps
  <2>4. \A x \in Left' : x[2] = Main
    OBVIOUS
  <2> QED  BY <2>3, <2>4 DEF Has
<1>8. \A x \in Left' : x[1] = "port" /\ Workers' # {} => \A v \in ApplyVerbs : Has(v, Main)'
  BY <1>7
<1> QED  BY <1>3, <1>4, <1>5, <1>6, <1>8, Starts

LEMMA ChangeServicePortOK ==
  ASSUME IInv, ChangeServicePort
  PROVE  IInv'
<1>1. PICK q \in PublicPorts : Begin("port", Main, q, <<>>, ChangePort(Workers)) /\ unit[Main] # "none"
  BY DEF ChangeServicePort
<1> DEFINE todo == ChangePort(Workers)
<1>2. /\ Goes(todo)
      /\ StepsIn(todo) = ({"port", "restart"} \X {Main})
                            \cup (IF Workers = {} THEN {} ELSE ApplyVerbs \X {Main})
  BY ChangePortSteps
<1>3. Begin("port", Main, q, <<>>, todo)
  BY <1>1
<1> HIDE DEF todo
<1>4. op'.name = "port" /\ op'.value = q
  BY <1>3 DEF Begin
<1>5. <<"port", Main>> \in StepsIn(todo)
      /\ \A x \in StepsIn(todo) : x[1] \in ApplyVerbs \cup {"port", "restart"} /\ x[2] = Main
  BY <1>2
<1>6. \A x \in StepsIn(todo) : Belongs(op', x)
  <2>1. \A v \in ApplyVerbs \cup {"port", "restart"} :
          /\ v \notin TeardownVerbs \cup AddVerbs \cup RemoveVerbs \cup IdVerbs
          /\ v \notin {"want", "await", "check", "uncap", "stop", "start", "wipe", "halt", "disable", "cap"}
    BY DEF ApplyVerbs, TeardownVerbs, AddVerbs, RemoveVerbs, IdVerbs
  <2> SUFFICES ASSUME NEW x \in StepsIn(todo) PROVE Belongs(op', x)
    OBVIOUS
  <2>2. /\ x[1] \notin TeardownVerbs \cup AddVerbs \cup RemoveVerbs \cup IdVerbs
        /\ x[1] \notin {"want", "await", "check", "uncap", "stop", "start", "wipe", "halt", "disable", "cap"}
        /\ x[2] = Main /\ x # <<"stop", Main>>
    BY <1>5, <2>1
  <2> QED  BY <1>4, <1>5, <2>2, IdsFinite DEF Belongs
<1>7. /\ PlanOK' /\ Left' = StepsIn(todo)
      /\ Values' /\ Instances' /\ (Sharing \subseteq PortsOf(Workers))' /\ Workers' = Workers
      /\ Certain' => RulesRight'
      /\ Sound' => WorkersRight'
      /\ UNCHANGED <<instances, conf, processes, settings, rules, doubt>>
      /\ conf[Main].port \in PublicPorts \/ conf[Main] = Absent
      /\ conf[Main] = Absent => unit[Main] = "none" /\ Workers = {}
  BY <1>2, <1>3, <1>5, <1>6, NoPorts, IdsFinite, Begun DEF Names
<1>8. Primary'
  <2>1. "wipe" \notin {x[1] : x \in StepsIn(todo)}
    BY <1>5 DEF ApplyVerbs
  <2> QED  BY <1>1, <1>7, <2>1 DEF Primary, instances
<1>9. \/ Workers' # {} /\ \A v \in ApplyVerbs : Has(v, Main)'
      \/ (\A v \in ApplyVerbs : ~(Has(v, Main)')) /\ (Has("port", Main)' => Workers' = {})
  <2>1. "port" \notin ApplyVerbs /\ "restart" \notin ApplyVerbs
    BY DEF ApplyVerbs
  <2> QED  BY <1>2, <1>7, <2>1 DEF Has
<1> QED  BY <1>4, <1>5, <1>7, <1>8, <1>9, RulesStart

LEMMA OpenMenuOK ==
  ASSUME IInv, OpenMenu
  PROVE  IInv'
<1>1. Begin("apply", Main, 0, <<>>, Apply) /\ Workers # {} /\ conf[Main] # Absent
  BY DEF OpenMenu
<1>2. Goes(Apply) /\ StepsIn(Apply) = ApplyVerbs \X {Main}
  BY ApplySteps
<1>3. op'.name = "apply"
  BY <1>1 DEF Begin
<1>4. \A x \in StepsIn(Apply) : Belongs(op', x)
  BY <1>2, <1>3, IdsFinite DEF Belongs, ApplyVerbs, TeardownVerbs, AddVerbs, RemoveVerbs, IdVerbs
<1>5. <<"line", Main>> \in StepsIn(Apply)
  BY <1>2 DEF ApplyVerbs
<1>6. /\ PlanOK' /\ Left' = StepsIn(Apply)
      /\ Values' /\ Instances' /\ (Sharing \subseteq PortsOf(Workers))' /\ Workers' = Workers
      /\ Certain' => RulesRight'
      /\ Sound' => WorkersRight'
      /\ UNCHANGED <<instances, conf, processes, settings, rules, doubt>>
      /\ conf[Main].port \in PublicPorts \/ conf[Main] = Absent
  BY <1>1, <1>2, <1>4, <1>5, NoPorts, IdsFinite, Begun DEF Names
<1>7. Primary'
  <2>1. "wipe" \notin {x[1] : x \in StepsIn(Apply)}
    BY <1>2 DEF ApplyVerbs
  <2> QED  BY <1>1, <1>6, <2>1 DEF Primary, instances
<1>8. Workers' # {} /\ \A v \in ApplyVerbs : Has(v, Main)'
  BY <1>1, <1>2, <1>6 DEF Has
<1>9. \A x \in Left' : x[1] \in ApplyVerbs \cup {"port", "restart"} /\ x[2] = Main
  BY <1>2, <1>6
<1> QED  BY <1>3, <1>6, <1>7, <1>8, <1>9, RulesStart

\* Plans that take things away.
TakingVerbs == TeardownVerbs \cup RemoveVerbs \cup {"noCaps", "check", "halt", "noGuard", "wipe", "disable"}

LEMMA RemovalStart ==
  ASSUME PlanOK', Values', Instances', Primary', op'.name # "enable",
         (Sharing \subseteq PortsOf(Workers))', Sound' => WorkersRight',
         Certain' => RulesRight' \/ \A v \in TeardownVerbs : Has(v, Main)',
         \A x \in Left' : x[1] \in TakingVerbs,
         \A x \in Left' : x[1] \in TeardownVerbs \cup {"check", "wipe"} =>
           Staying' = {} /\ (\A v \in TeardownVerbs : Has(v, Main)'),
         Going' => Has("check", Main)' /\ \A v \in TeardownVerbs : Has(v, Main)',
         \A i \in Ids :
           /\ (\E v \in RemoveVerbs : Has(v, i)') => Has("drop", i)' /\ Has("stop", i)'
           /\ Has("drop", i)' /\ op'.name \in {"remove", "uninstall"} => i \notin Workers'
           /\ Does("wipe")' => registry'[i] = "none" \/ Has("drop", i)'
  PROVE  IInv'
<1>1. \A v, q : Has(v, q)' => v \in TakingVerbs
  BY DEF Has
<1>2. \A v \in ApplyVerbs \cup AddVerbs \cup {"start", "restart", "port"} : v \notin TakingVerbs
  BY DEF ApplyVerbs, AddVerbs, TakingVerbs, TeardownVerbs, RemoveVerbs
<1>3. \A q : \A v \in ApplyVerbs \cup AddVerbs \cup {"start", "restart", "port"} : ~(Has(v, q)')
  BY <1>1, <1>2
<1>4. \A x \in Left' : x[1] # "port"
  BY <1>2
<1>5. \A i \in Ids : /\ ~(Has("start", i)') /\ ~(Has("restart", i)') /\ ~(Has("save", i)')
                     /\ \A v \in AddVerbs : ~(Has(v, i)')
  BY <1>3 DEF AddVerbs
<1> QED  BY <1>3, <1>4, <1>5, Starts

\* The workers' removal.
LEMMA DisableStart ==
  ASSUME PlanOK', Left' = StepsIn(Disable(Workers)), op'.name = "disable",
         Values', Instances', Primary', Workers' = Workers,
         (Sharing \subseteq PortsOf(Workers))', Sound' => WorkersRight'
  PROVE  IInv'
<1>1. Left' = ((TeardownVerbs \cup {"check"}) \X {Main}) \cup (RemoveVerbs \X Workers)
  BY Identifiers, DisableSteps
<1>2. \A v, q : Has(v, q)' <=> \/ v \in TeardownVerbs \cup {"check"} /\ q = Main
                               \/ v \in RemoveVerbs /\ q \in Workers
  BY <1>1 DEF Has
<1>3. /\ \A v \in TeardownVerbs : Has(v, Main)'
      /\ Has("check", Main)'
      /\ \A w \in Workers, v \in RemoveVerbs : Has(v, w)'
      /\ ~(Does("wipe")')
  BY <1>2 DEF Does, TeardownVerbs, RemoveVerbs
<1>4. {"drop", "stop"} \subseteq RemoveVerbs
  BY DEF RemoveVerbs
<1>5. Staying' = {}
  BY <1>3, <1>4 DEF Staying
<1>6. \A x \in Left' : x[1] \in TakingVerbs
  BY <1>1 DEF TakingVerbs
<1>7. \A i \in Ids : (\E v \in RemoveVerbs : Has(v, i)') => Has("drop", i)' /\ Has("stop", i)'
  <2>1. \A v \in RemoveVerbs : v \notin TeardownVerbs \cup {"check"}
    BY DEF RemoveVerbs, TeardownVerbs
  <2> QED  BY <1>2, <1>3, <1>4, <2>1
<1> QED  BY <1>3, <1>5, <1>6, <1>7, RemovalStart

LEMMA DisableBelongs ==
  ASSUME NEW o, o.name = "disable"
  PROVE  \A x \in StepsIn(Disable(Workers)) : Belongs(o, x)
<1> SUFFICES ASSUME NEW x \in StepsIn(Disable(Workers)) PROVE Belongs(o, x)
  OBVIOUS
<1>1. \/ x[1] \in TeardownVerbs \cup {"check"} /\ x[2] = Main
      \/ x[1] \in RemoveVerbs /\ x[2] \in Ids
  BY Identifiers, DisableSteps
<1>2. CASE x[1] \in TeardownVerbs \cup {"check"} /\ x[2] = Main
  BY <1>2, IdsFinite DEF Belongs, ApplyVerbs, TeardownVerbs, AddVerbs, RemoveVerbs, IdVerbs
<1>3. CASE x[1] \in RemoveVerbs /\ x[2] \in Ids
  BY <1>3, IdsFinite DEF Belongs, ApplyVerbs, TeardownVerbs, AddVerbs, RemoveVerbs, MainVerbs, GuardParts
<1> QED  BY <1>1, <1>2, <1>3

LEMMA DisableBegun ==
  ASSUME IInv, Begin("disable", Main, 0, <<>>, Disable(Workers))
  PROVE  IInv'
<1>1. /\ Goes(Disable(Workers))
      /\ StepsIn(Disable(Workers)) = ((TeardownVerbs \cup {"check"}) \X {Main}) \cup (RemoveVerbs \X Workers)
  BY Identifiers, DisableSteps
<1>2. <<"check", Main>> \in StepsIn(Disable(Workers))
  BY <1>1
<1>3. op'.name = "disable"
  BY DEF Begin
<1>4. \A x \in StepsIn(Disable(Workers)) : Belongs(op', x)
  BY <1>3, DisableBelongs
<1>5. /\ PlanOK' /\ Left' = StepsIn(Disable(Workers))
      /\ Values' /\ Instances' /\ (Sharing \subseteq PortsOf(Workers))' /\ Workers' = Workers
      /\ Sound' => WorkersRight'
      /\ UNCHANGED <<instances, conf, processes, settings, rules, doubt>>
      /\ conf[Main].port \in PublicPorts \/ conf[Main] = Absent
      /\ conf[Main] = Absent => unit[Main] = "none" /\ Workers = {}
  BY <1>1, <1>2, <1>4, NoPorts, IdsFinite, Begun DEF Names
<1>6. Primary'
  <2>1. "wipe" \notin {x[1] : x \in Left'}
    BY <1>1, <1>5 DEF TeardownVerbs, RemoveVerbs
  <2> QED  BY <1>3, <1>5, <2>1 DEF Primary, instances
<1> QED  BY <1>3, <1>5, <1>6, DisableStart

LEMMA ExtraBegun ==
  ASSUME IInv, NEW i \in NextIds(1), Begin("extra", i, 0, [j \in {i} |-> 0], AddExtra(i)),
         unit[Main] # "none"
  PROVE  IInv'
<1> DEFINE ports == [j \in {i} |-> 0]
           todo == AddExtra(i)
<1>1. i \in Ids /\ registry[i] = "none" /\ i # Main /\ i \in Procs
  BY Identifiers, IdsFinite
<1>2. Goes(todo) /\ StepsIn(todo) = (AddVerbs \cup {"inject", "start"}) \X {i}
  BY <1>1, AddExtraSteps
<1>3. Begin("extra", i, 0, ports, todo)
  OBVIOUS
<1>4. ports \in Ports /\ DOMAIN ports = {i} /\ ports[i] = 0
  BY <1>1, NoPorts
<1> HIDE DEF ports, todo
<1>5. op'.name = "extra" /\ op'.ports = ports
  BY <1>3 DEF Begin
<1>6. ASSUME NEW x \in StepsIn(todo)
      PROVE  Belongs(op', x)
  <2>1. x[1] \in AddVerbs \cup {"inject", "start"} /\ x[2] = i
    BY <1>2
  <2>2. \A v \in AddVerbs \cup {"inject", "start"} :
          v \notin ApplyVerbs \cup TeardownVerbs \cup RemoveVerbs \cup MainVerbs
    BY DEF ApplyVerbs, TeardownVerbs, AddVerbs, RemoveVerbs, MainVerbs, GuardParts
  <2>3. \A v \in AddVerbs \cup {"inject", "start"} :
          v \notin {"want", "await", "check", "uncap", "stop", "restart", "confirm", "wipe", "halt", "disable", "cap", "port"}
    BY DEF AddVerbs
  <2> QED  BY <1>1, <1>4, <1>5, <2>1, <2>2, <2>3 DEF Belongs
<1>7. <<"start", i>> \in StepsIn(todo)
  BY <1>2
<1>8. /\ PlanOK' /\ Left' = StepsIn(todo)
      /\ Values' /\ Instances' /\ (Sharing \subseteq PortsOf(Workers))' /\ Workers' = Workers
      /\ Certain' => RulesRight'
      /\ Sound' => WorkersRight'
      /\ UNCHANGED <<instances, conf, processes, settings, rules, doubt>>
      /\ conf[Main].port \in PublicPorts \/ conf[Main] = Absent
      /\ conf[Main] = Absent => unit[Main] = "none" /\ Workers = {}
  BY <1>1, <1>2, <1>3, <1>4, <1>6, <1>7, Begun DEF Names
<1>9. \A v, q : Has(v, q)' <=> v \in AddVerbs \cup {"inject", "start"} /\ q = i
  BY <1>2, <1>8 DEF Has
<1>10. registry' = registry /\ conf' = conf
  BY <1>8 DEF instances
<1>11. Primary'
  <2>1. "wipe" \notin {x[1] : x \in StepsIn(todo)}
    BY <1>2 DEF AddVerbs
  <2> QED  BY <1>5, <1>8, <1>10, <2>1 DEF Primary, instances
<1>12. \A v, q : Has(v, q)' => v \notin ApplyVerbs \cup TeardownVerbs \cup RemoveVerbs \cup {"port", "check", "wipe"}
  BY <1>9 DEF ApplyVerbs, TeardownVerbs, AddVerbs, RemoveVerbs
<1>13. \A x \in Left' : x[1] \notin ApplyVerbs \cup TeardownVerbs \cup RemoveVerbs \cup {"port", "check", "wipe"}
  BY <1>2, <1>8 DEF ApplyVerbs, TeardownVerbs, AddVerbs, RemoveVerbs
<1>14. ~(Going') /\ ~(Does("wipe")') /\ ~(Has("port", Main)')
  BY <1>12 DEF Going, Does, RemoveVerbs
<1>15. ASSUME NEW j \in Ids
       PROVE  /\ (\E v \in AddVerbs : Has(v, j)') => Has("save", j)'
              /\ Has("save", j)' => registry'[j] = "none"
              /\ ~(\E v \in RemoveVerbs : Has(v, j)') /\ ~(Has("drop", j)')
              /\ Has("start", j)' \/ Has("restart", j)' => Has("save", j)' \/ registry'[j] # "none"
  <2>1. (Has("start", j)' \/ Has("restart", j)' \/ \E v \in AddVerbs : Has(v, j)') => j = i
    BY <1>9
  <2>2. Has("save", i)'
    BY <1>9 DEF AddVerbs
  <2>3. ~(\E v \in RemoveVerbs : Has(v, j)') /\ ~(Has("drop", j)')
    BY <1>12 DEF RemoveVerbs
  <2>4. "save" \in AddVerbs
    BY DEF AddVerbs
  <2> QED  BY <1>1, <1>10, <2>1, <2>2, <2>3, <2>4
<1>16. \A v \in ApplyVerbs : ~(Has(v, Main)')
  BY <1>12
<1> QED  BY <1>5, <1>8, <1>11, <1>13, <1>14, <1>15, <1>16, Starts

\* Plans that take things away belong to operations that do.
LEMMA TakingBelongs ==
  ASSUME NEW x, x[1] \in TakingVerbs, op'.name \in {"removeVpn", "uninstall", "remove"},
         x[1] \in TeardownVerbs \cup {"check", "wipe"} => op'.name = "removeVpn",
         x[1] = "halt" => op'.name \in {"removeVpn", "uninstall"},
         x[1] = "disable" => op'.name = "uninstall", x[1] # "uncap",
         x[1] \in RemoveVerbs => x[2] \in Ids, x[1] \notin RemoveVerbs => x[2] = Main
  PROVE  Belongs(op', x)
<1>1. \A v \in TakingVerbs :
        /\ v \notin ApplyVerbs \cup AddVerbs
        /\ v \notin {"want", "await", "start", "restart", "confirm", "cap", "port"}
        /\ v \in MainVerbs => v \notin RemoveVerbs
        /\ v \in IdVerbs => v \in RemoveVerbs
  BY DEF ApplyVerbs, TeardownVerbs, AddVerbs, RemoveVerbs, IdVerbs, MainVerbs, GuardParts, TakingVerbs
<1>2. x = <<"stop", Main>> => FALSE
  BY IdsFinite DEF RemoveVerbs
<1> QED  BY <1>1, <1>2 DEF Belongs

LEMMA RemoveBegun ==
  ASSUME IInv, NEW i \in Extras, Begin("remove", i, 0, <<>>, RemoveInstances({i}))
  PROVE  IInv'
<1> DEFINE todo == RemoveInstances({i})
<1>1. i \in Ids /\ i \in Procs /\ i # Main /\ i \notin Workers
  BY Identifiers, IdsFinite
<1>2. Goes(todo) /\ StepsIn(todo) = (RemoveVerbs \ {"uncap"}) \X {i}
  BY <1>1, RemoveInstancesSteps
<1>3. Begin("remove", i, 0, <<>>, todo)
  OBVIOUS
<1> HIDE DEF todo
<1>4. op'.name = "remove"
  BY <1>3 DEF Begin
<1>5. \A x \in StepsIn(todo) : x[1] \in TakingVerbs
  BY <1>2 DEF TakingVerbs
<1>6. \A x \in StepsIn(todo) :
        /\ x[1] \in RemoveVerbs \ {"uncap"} /\ x[2] = i
        /\ x[1] \notin TeardownVerbs \cup {"check", "wipe", "halt", "disable"}
  BY <1>2 DEF RemoveVerbs, TeardownVerbs
<1>7. \A x \in StepsIn(todo) : Belongs(op', x)
  BY <1>1, <1>4, <1>5, <1>6, TakingBelongs
<1>8. <<"drop", i>> \in StepsIn(todo)
  BY <1>2 DEF RemoveVerbs
<1>9. /\ PlanOK' /\ Left' = StepsIn(todo)
      /\ Values' /\ Instances' /\ (Sharing \subseteq PortsOf(Workers))' /\ Workers' = Workers
      /\ Certain' => RulesRight'
      /\ Sound' => WorkersRight'
      /\ UNCHANGED <<instances, conf, processes, settings, rules, doubt>>
      /\ conf[Main].port \in PublicPorts \/ conf[Main] = Absent
      /\ conf[Main] = Absent => unit[Main] = "none" /\ Workers = {}
  BY <1>1, <1>2, <1>3, <1>7, <1>8, NoPorts, Begun DEF Names
<1>10. Primary'
  <2>1. "wipe" \notin {x[1] : x \in StepsIn(todo)}
    BY <1>6
  <2> QED  BY <1>4, <1>9, <2>1 DEF Primary, instances
<1>11. \A v, q : Has(v, q)' <=> v \in RemoveVerbs \ {"uncap"} /\ q = i
  BY <1>2, <1>9 DEF Has
<1>12. ~(Going') /\ ~(Does("wipe")')
  BY <1>1, <1>9, <1>11 DEF Going, Does, RemoveVerbs
<1>13. \A j \in Ids :
         /\ (\E v \in RemoveVerbs : Has(v, j)') => Has("drop", j)' /\ Has("stop", j)'
         /\ Has("drop", j)' => j \notin Workers'
  <2>1. Has("drop", i)' /\ Has("stop", i)'
    BY <1>11 DEF RemoveVerbs
  <2> QED  BY <1>1, <1>9, <1>11, <2>1
<1> QED  BY <1>4, <1>5, <1>6, <1>9, <1>10, <1>12, <1>13, RemovalStart

LEMMA ExtraPortsOK ==
  ASSUME IInv, ExtraPorts
  PROVE  IInv'
BY ExtraBegun, RemoveBegun DEF ExtraPorts

LEMMA UninstallBegun ==
  ASSUME IInv, Begin("uninstall", Main, 0, <<>>, Uninstall(Extras))
  PROVE  IInv'
<1> DEFINE todo == Uninstall(Extras)
<1>2. Goes(todo) /\ StepsIn(todo) = ({"noCaps", "halt", "noGuard", "disable"} \X {Main})
                                       \cup ((RemoveVerbs \ {"uncap"}) \X Extras)
  BY Identifiers, UninstallSteps
<1>3. Begin("uninstall", Main, 0, <<>>, todo)
  OBVIOUS
<1> HIDE DEF todo
<1>4. op'.name = "uninstall"
  BY <1>3 DEF Begin
<1>5. \A x \in StepsIn(todo) : x[1] \in TakingVerbs
  BY <1>2 DEF TakingVerbs
<1>6. \A x \in StepsIn(todo) :
        /\ x[1] \in RemoveVerbs => x[2] \in Extras
        /\ x[1] \notin RemoveVerbs => x[2] = Main
        /\ x[1] \notin TeardownVerbs \cup {"check", "wipe", "uncap"}
  BY <1>2 DEF RemoveVerbs, TeardownVerbs
<1>7. \A x \in StepsIn(todo) : Belongs(op', x)
  <2> SUFFICES ASSUME NEW x \in StepsIn(todo) PROVE Belongs(op', x)
    OBVIOUS
  <2>1. x[1] \in RemoveVerbs => x[2] \in Ids
    BY <1>6, Identifiers
  <2> QED  BY <1>4, <1>5, <1>6, <2>1, TakingBelongs
<1>8. <<"halt", Main>> \in StepsIn(todo)
  BY <1>2
<1>9. /\ PlanOK' /\ Left' = StepsIn(todo)
      /\ Values' /\ Instances' /\ (Sharing \subseteq PortsOf(Workers))' /\ Workers' = Workers
      /\ Certain' => RulesRight'
      /\ Sound' => WorkersRight'
      /\ UNCHANGED <<instances, conf, processes, settings, rules, doubt>>
      /\ conf[Main].port \in PublicPorts \/ conf[Main] = Absent
      /\ conf[Main] = Absent => unit[Main] = "none" /\ Workers = {}
  BY <1>2, <1>3, <1>7, <1>8, NoPorts, IdsFinite, Begun DEF Names
<1>10. Primary'
  <2>1. "wipe" \notin {x[1] : x \in StepsIn(todo)}
    BY <1>6
  <2> QED  BY <1>4, <1>9, <2>1 DEF Primary, instances
<1>11. \A v, q : Has(v, q)' <=> \/ v \in RemoveVerbs \ {"uncap"} /\ q \in Extras
                                \/ v \in {"noCaps", "halt", "noGuard", "disable"} /\ q = Main
  BY <1>2, <1>9 DEF Has
<1>12. ~(Going') /\ ~(Does("wipe")')
  BY <1>9, <1>11, Identifiers DEF Going, Does, RemoveVerbs
<1>13. \A j \in Ids :
         /\ (\E v \in RemoveVerbs : Has(v, j)') => Has("drop", j)' /\ Has("stop", j)'
         /\ Has("drop", j)' => j \notin Workers'
  <2>1. \A j \in Extras : Has("drop", j)' /\ Has("stop", j)'
    BY <1>11 DEF RemoveVerbs
  <2>2. \A j : \A v \in RemoveVerbs : Has(v, j)' => j \in Extras
    BY <1>11 DEF RemoveVerbs
  <2>3. "drop" \in RemoveVerbs
    BY DEF RemoveVerbs
  <2> QED  BY <1>9, <2>1, <2>2, <2>3, Identifiers
<1> QED  BY <1>4, <1>5, <1>6, <1>9, <1>10, <1>12, <1>13, RemovalStart

LEMMA RemoveVpnBegun ==
  ASSUME IInv, Begin("removeVpn", Main, 0, <<>>, RemoveVpn(Extras \cup Workers))
  PROVE  IInv'
<1> DEFINE todo == RemoveVpn(Extras \cup Workers)
           ids == Extras \cup Workers
           mains == {"noCaps", "check", "halt", "wipe"} \cup TeardownVerbs
                      \cup (IF GuardOn THEN {"noGuard"} ELSE {})
<1>1. ids \subseteq Ids
  BY Identifiers
<1>2. Goes(todo) /\ StepsIn(todo) = (mains \X {Main}) \cup ((RemoveVerbs \ {"uncap"}) \X ids)
  BY <1>1, RemoveVpnSteps
<1>3. Begin("removeVpn", Main, 0, <<>>, todo)
  OBVIOUS
<1>4. /\ mains \cap RemoveVerbs = {} /\ mains \subseteq TakingVerbs
      /\ {"check", "halt", "wipe"} \subseteq mains /\ TeardownVerbs \subseteq mains
      /\ "disable" \notin mains
  BY DEF TakingVerbs, TeardownVerbs, RemoveVerbs
<1> HIDE DEF todo, mains
<1>5. op'.name = "removeVpn"
  BY <1>3 DEF Begin
<1>6. \A x \in StepsIn(todo) : x[1] \in TakingVerbs
  BY <1>2, <1>4 DEF TakingVerbs
<1>7. \A x \in StepsIn(todo) : Belongs(op', x)
  <2> SUFFICES ASSUME NEW x \in StepsIn(todo) PROVE Belongs(op', x)
    OBVIOUS
  <2>1. /\ x[1] \in RemoveVerbs => x[2] \in Ids
        /\ x[1] \notin RemoveVerbs => x[2] = Main
        /\ x[1] \notin {"disable", "uncap"}
    BY <1>1, <1>2, <1>4 DEF RemoveVerbs
  <2> QED  BY <1>5, <1>6, <2>1, TakingBelongs
<1>8. <<"halt", Main>> \in StepsIn(todo)
  BY <1>2, <1>4
<1>9. /\ PlanOK' /\ Left' = StepsIn(todo)
      /\ Values' /\ Instances' /\ (Sharing \subseteq PortsOf(Workers))' /\ Workers' = Workers
      /\ Certain' => RulesRight'
      /\ Sound' => WorkersRight'
      /\ UNCHANGED <<instances, conf, processes, settings, rules, doubt>>
      /\ conf[Main].port \in PublicPorts \/ conf[Main] = Absent
      /\ conf[Main] = Absent => unit[Main] = "none" /\ Workers = {}
  BY <1>2, <1>3, <1>7, <1>8, NoPorts, IdsFinite, Begun DEF Names
<1>10. \A v, q : Has(v, q)' <=> \/ v \in RemoveVerbs \ {"uncap"} /\ q \in ids
                                \/ v \in mains /\ q = Main
  BY <1>2, <1>9 DEF Has
<1>11. Primary'
  <2>1. Has("halt", Main)'
    BY <1>4, <1>10
  <2> QED  BY <1>5, <1>9, <2>1 DEF Primary, instances
<1>12. /\ \A v \in TeardownVerbs : Has(v, Main)'
       /\ Has("check", Main)'
       /\ \A i \in ids : Has("drop", i)' /\ Has("stop", i)'
  BY <1>4, <1>10 DEF RemoveVerbs
<1>13. Staying' = {}
  BY <1>9, <1>12 DEF Staying
<1>14. \A j \in Ids :
         /\ (\E v \in RemoveVerbs : Has(v, j)') => Has("drop", j)' /\ Has("stop", j)'
         /\ registry'[j] = "none" \/ Has("drop", j)'
  <2>1. \A j : \A v \in RemoveVerbs : Has(v, j)' => j \in ids
    BY <1>4, <1>10
  <2>2. registry' = registry
    BY <1>9 DEF instances
  <2>3. \A j \in Ids : registry[j] = "none" \/ j \in ids
    <3>1. Values
      BY TypedParts DEF IInv
    <3> QED  BY <3>1 DEF Extras, Workers, Values
  <2> QED  BY <1>12, <2>1, <2>2, <2>3
<1>15. \A x \in Left' : x[1] \in TakingVerbs
  BY <1>6, <1>9
<1> HIDE DEF ids
<1> QED  BY <1>5, <1>9, <1>11, <1>12, <1>13, <1>14, <1>15, RemovalStart

LEMMA RemovalOK ==
  ASSUME IInv, Removal
  PROVE  IInv'
BY UninstallBegun, RemoveVpnBegun DEF Removal

LEMMA EnableBegun ==
  ASSUME IInv, Workers = {}, conf[Main] # Absent, NEW n \in 1..Cardinality(FreePorts),
         NEW ids, ids = NextIds(n), Cardinality(ids) = n, NEW ports \in PickPorts(ids),
         Begin("enable", Main, 0, ports, Enable(ids))
  PROVE  IInv'
<1> DEFINE todo == Enable(ids)
<1>1. ids \subseteq Ids /\ \A i \in ids : registry[i] = "none"
  BY Identifiers
<1>2. PICK i0 \in ids : TRUE
  <2>1. ids # {}
    BY FS_EmptySet
  <2> QED  BY <2>1
<1>3. /\ ports \in [ids -> WorkerPorts] /\ \A i, j \in ids : ports[i] = ports[j] => i = j
  <2>1. ports \in [ids -> FreePorts] /\ \A i, j \in ids : i < j => ports[i] < ports[j]
    BY DEF PickPorts, Rising
  <2>2. FreePorts \subseteq WorkerPorts
    BY DEF FreePorts
  <2>3. \A i \in ids : i \in Nat /\ ports[i] \in Nat
    BY <1>1, <2>1, <2>2, IdsFinite, ParametersOK
  <2> QED  BY <2>1, <2>2, <2>3
<1>4. ports \in Ports /\ DOMAIN ports = ids
  <2>1. ports \in [ids -> WorkerPorts \cup {0}] /\ ids \in SUBSET Ids
    BY <1>1, <1>3
  <2> QED  BY <2>1 DEF Ports
<1>5. /\ Goes(todo)
      /\ StepsIn(todo) = ((AddVerbs \cup {"follow", "start", "await"}) \X ids)
                           \cup (({"want"} \cup ApplyVerbs) \X {Main})
  BY <1>1, EnableSteps
<1>6. Begin("enable", Main, 0, ports, todo)
  OBVIOUS
<1> HIDE DEF todo
<1>7. op'.name = "enable" /\ op'.ports = ports
  BY <1>6 DEF Begin
<1>8. ASSUME NEW x \in StepsIn(todo) PROVE Belongs(op', x)
  <2>1. CASE x[1] \in AddVerbs \cup {"follow", "start", "await"} /\ x[2] \in ids
    <3>1. \A v \in AddVerbs \cup {"follow", "start", "await"} :
            /\ v \notin ApplyVerbs \cup TeardownVerbs \cup RemoveVerbs \cup MainVerbs
            /\ v \notin {"want", "check", "uncap", "stop", "restart", "confirm", "wipe", "halt", "disable", "cap", "port"}
      BY DEF ApplyVerbs, TeardownVerbs, AddVerbs, RemoveVerbs, MainVerbs, GuardParts
    <3>2. x[2] \in Ids /\ ports[x[2]] \in WorkerPorts
      BY <1>1, <1>3, <2>1
    <3> QED  BY <1>4, <1>7, <2>1, <3>1, <3>2 DEF Belongs
  <2>2. CASE x[1] \in {"want"} \cup ApplyVerbs /\ x[2] = Main
    <3>1. \A v \in {"want"} \cup ApplyVerbs :
            /\ v \notin AddVerbs \cup TeardownVerbs \cup RemoveVerbs \cup IdVerbs
            /\ v \notin {"await", "check", "uncap", "stop", "start", "restart", "confirm", "wipe", "halt", "disable", "cap", "port"}
      BY DEF ApplyVerbs, TeardownVerbs, AddVerbs, RemoveVerbs, IdVerbs
    <3>2. /\ x[1] \notin AddVerbs \cup TeardownVerbs \cup RemoveVerbs \cup IdVerbs
          /\ x[1] \notin {"await", "check", "uncap", "stop", "start", "restart", "confirm", "wipe", "halt", "disable", "cap", "port"}
      BY <2>2, <3>1
    <3>3. x # <<"stop", Main>>
      BY <3>2
    <3> QED  BY <1>7, <2>2, <3>2, <3>3 DEF Belongs
  <2> QED  BY <1>5, <2>1, <2>2
<1>9. <<"want", Main>> \in StepsIn(todo)
  BY <1>5
<1>10. /\ PlanOK' /\ Left' = StepsIn(todo)
       /\ Values' /\ Instances' /\ (Sharing \subseteq PortsOf(Workers))' /\ Workers' = Workers
       /\ Sharing \subseteq PortsOf(Workers) /\ Sharing' = Sharing
       /\ Sound' => WorkersRight'
       /\ UNCHANGED <<instances, conf, processes, settings, rules, doubt>>
       /\ conf[Main].port \in PublicPorts \/ conf[Main] = Absent
  BY <1>4, <1>5, <1>6, <1>8, <1>9, IdsFinite, ParametersOK, Begun DEF Names
<1>11. \A v, q : Has(v, q)' <=> \/ v \in AddVerbs \cup {"follow", "start", "await"} /\ q \in ids
                                \/ v \in {"want"} \cup ApplyVerbs /\ q = Main
  BY <1>5, <1>10 DEF Has
<1>12. \A x \in Left' : x[1] \in AddVerbs \cup ApplyVerbs \cup {"follow", "start", "await", "want"}
  BY <1>5, <1>10
<1>13. \A v \in AddVerbs \cup ApplyVerbs \cup {"follow", "start", "await", "want"} :
         v \notin TeardownVerbs \cup RemoveVerbs \cup {"check", "wipe", "port"}
  BY DEF ApplyVerbs, TeardownVerbs, AddVerbs, RemoveVerbs
<1>14. /\ \A q : \A v \in TeardownVerbs \cup RemoveVerbs \cup {"check", "wipe", "port"} : ~(Has(v, q)')
       /\ \A x \in Left' : x[1] \notin TeardownVerbs \cup RemoveVerbs \cup {"check", "wipe", "port"}
  BY <1>11, <1>12, <1>13
<1>15. ~(Going') /\ ~(Does("wipe")')
  BY <1>14 DEF Going, Does, RemoveVerbs
<1>16. /\ \A v \in ApplyVerbs \cup {"want"} : Has(v, Main)'
       /\ \A i \in ids : Has("save", i)' /\ Has("conf", i)' /\ Has("unit", i)' /\ Has("await", i)'
  BY <1>11 DEF AddVerbs
<1>17. \A i \in Ids : (Has("start", i)' \/ Has("restart", i)' \/ \E v \in AddVerbs : Has(v, i)') => i \in ids
  <2>1. \A v \in AddVerbs \cup {"start", "restart"} : v \notin {"want"} \cup ApplyVerbs
    BY DEF AddVerbs, ApplyVerbs
  <2> QED  BY <1>11, <2>1
<1>18. registry' = registry /\ Workers' = {} /\ PortsOf(Workers)' = {}
  BY <1>10 DEF instances, PortsOf
<1>19. Typed'
  <2>1. "wipe" \notin {x[1] : x \in Left'}
    BY <1>14
  <2>2. Primary'
    BY <1>10, <2>1 DEF Primary
  <2> QED  BY <1>10, <2>2, TypedNext
<1>20. Together'
  <2>1. {"line", "jump"} \subseteq ApplyVerbs /\ "save" \in AddVerbs
    BY DEF ApplyVerbs, AddVerbs
  <2>2. Does("save")'
    BY <1>1, <1>2, <1>16, IdsFinite DEF Does
  <2>3. ASSUME NEW i \in Ids, Has("save", i)'
        PROVE  /\ i \in ids /\ registry'[i] = "none"
               /\ Has("want", Main)' /\ Has("await", i)'
               /\ op'.ports[i] \notin PortsOf(Workers)'
               /\ \A j \in Ids : Has("save", j)' /\ op'.ports[j] = op'.ports[i] => i = j
               /\ Has("conf", i)' /\ Has("unit", i)'
    <3>1. \A j \in Ids : Has("save", j)' => j \in ids
      BY <1>17, <2>1
    <3> QED  BY <1>1, <1>3, <1>7, <1>16, <1>18, <2>3, <3>1
  <2>4. \A i \in Ids : (Has("start", i)' \/ Has("restart", i)' \/ \E v \in AddVerbs : Has(v, i)') => Has("save", i)'
    BY <1>16, <1>17
  <2>5. \A i \in Ids : ~(Has("drop", i)') /\ ~(\E v \in RemoveVerbs : Has(v, i)')
    BY <1>14 DEF RemoveVerbs
  <2> QED  BY <1>7, <1>14, <1>16, <2>1, <2>2, <2>3, <2>4, <2>5 DEF Together
<1>21. RulesOK'
  <2>1. /\ Has("nat", Main)' /\ Has("input", Main)' /\ Has("oldJumps", Main)' /\ Has("jump", Main)'
        /\ Has("dropIn", Main)' /\ Has("line", Main)' /\ ~(Has("port", Main)')
    BY <1>14, <1>16 DEF ApplyVerbs
  <2> QED  BY <2>1 DEF RulesOK
<1>22. SharesOK'
  <2>1. Sharing' = {}
    BY <1>10 DEF PortsOf
  <2> QED  BY <1>15, <2>1 DEF SharesOK
<1>23. WorkersOK'
  <2>1. \A i \in Ids : ~(Has("drop", i)')
    BY <1>14 DEF RemoveVerbs
  <2> QED  BY <1>10, <1>15, <1>18, <2>1 DEF WorkersOK, WorkersRight
<1> QED  BY <1>10, <1>19, <1>20, <1>21, <1>22, <1>23 DEF IInv

LEMMA ToggleSpreadOK ==
  ASSUME IInv, ToggleSpread
  PROVE  IInv'
BY EnableBegun, DisableBegun DEF ToggleSpread

LEMMA OperationOK ==
  ASSUME IInv, Operation
  PROVE  IInv'
BY ToggleSpreadOK, ExtraPortsOK, SpeedLimitOK, ToggleMultiloginOK, ToggleDeviceLimitOK,
   ChangeServicePortOK, RemovalOK, ControlOK, OpenMenuOK DEF Operation

-----------------------------------------------------------------------------
(* One plan takes the place of another, or none does.                       *)

\* An operation that goes on with steps on settings and processes only, or ends.
LEMMA TurnsNeutral ==
  ASSUME IInv, PlanOK', UNCHANGED <<instances, conf, processes>>, Values',
         op'.name \notin {"enable", "port", "apply"} \/ (op'.name = op.name /\ op'.name # "enable"),
         (Sharing \subseteq PortsOf(Workers))', Certain' => RulesRight', Sound' => WorkersRight',
         \A x \in Left' : /\ x[1] \in NeutralVerbs \/ x = <<"stop", Main>>
                          /\ x[1] \in {"start", "restart"} /\ x[2] \in Ids => registry'[x[2]] # "none"
  PROVE  IInv'
<1>1. Values /\ Instances /\ Primary
  BY TypedParts DEF IInv
<1>2. /\ registry' = registry /\ port' = port /\ unit' = unit /\ conf' = conf /\ proc' = proc
      /\ due' = due /\ Workers' = Workers
  BY DEF instances, processes, Workers
<1>3. Instances'
  BY <1>1, <1>2 DEF Instances
<1>4. Primary'
  <2>1. "wipe" \notin {x[1] : x \in Left'}
    BY DEF NeutralVerbs, GuardParts
  <2>2. conf[Main] = Absent => unit[Main] = "none" /\ Workers = {}
                               /\ op'.name \notin {"enable", "port", "apply"}
    BY <1>1 DEF Primary
  <2> QED  BY <1>1, <1>2, <2>1, <2>2 DEF Primary
<1>5. op'.name # "enable"
  OBVIOUS
<1> QED  BY <1>3, <1>4, <1>5, NeutralStart

LEMMA Ends ==
  ASSUME IInv, op' = Idle, UNCHANGED <<instances, conf, processes>>, Values',
         (Sharing \subseteq PortsOf(Workers))', Certain' => RulesRight', Sound' => WorkersRight'
  PROVE  IInv'
<1>1. PlanOK' /\ Left' = {} /\ op'.name = "idle"
  BY NothingLeft
<1> QED  BY <1>1, TurnsNeutral

\* What has not changed is still right.
LEMMA StillRight ==
  ASSUME UNCHANGED <<instances, conf, processes, nat, input, jumps, guarded, wants, line>>
  PROVE  /\ Workers' = Workers /\ PortsOf(Workers)' = PortsOf(Workers) /\ Sharing' = Sharing
         /\ RulesRight => RulesRight'
         /\ WorkersRight /\ NoDrop => WorkersRight'
         /\ (\A w \in Workers : Has("drop", w) => Has("drop", w)') /\ WorkersRight => WorkersRight'
<1>1. /\ registry' = registry /\ port' = port /\ unit' = unit /\ conf' = conf /\ proc' = proc
      /\ due' = due /\ nat' = nat /\ input' = input /\ jumps' = jumps /\ guarded' = guarded
      /\ wants' = wants /\ line' = line
  BY DEF instances, processes
<1>2. Workers' = Workers /\ PortsOf(Workers)' = PortsOf(Workers) /\ Sharing' = Sharing
  BY <1>1 DEF Workers, PortsOf, Sharing
<1>3. RulesRight => RulesRight'
  BY <1>1, <1>2 DEF RulesRight
<1>4. (\A w \in Workers : Has("drop", w) => Has("drop", w)') /\ WorkersRight => WorkersRight'
  BY <1>1, <1>2 DEF WorkersRight, Fixed, Running
<1> QED  BY <1>2, <1>3, <1>4 DEF NoDrop

\* The removal of the workers takes the place of an operation.
LEMMA DisableTakesOver ==
  ASSUME IInv, NEW o \in Ops, o.name = "disable", op' = Then(o, Disable(Workers)),
         UNCHANGED <<instances, processes, wants>>, Values',
         \A p \in {Main} \cup Workers : conf'[p] = conf[p],
         \A i \in Ids : conf'[i].port \in WorkerPorts \cup {0},
         (Sharing \subseteq PortsOf(Workers))', NoDrop \/ (\A w \in Workers : ~Has("drop", w)),
         Sound' => Sound,
         \A w \in Workers : op.name = "enable" /\ Has("await", w) => Sharing' = {}
  PROVE  IInv'
<1>1. PlanOK /\ Typed /\ Together /\ RulesOK /\ SharesOK /\ WorkersOK /\ Values /\ Instances /\ Primary
  BY TypedParts DEF IInv
<1>2. /\ registry' = registry /\ port' = port /\ unit' = unit /\ proc' = proc
      /\ due' = due /\ wants' = wants /\ Workers' = Workers
  BY DEF instances, processes, Workers
<1>3. /\ Goes(Disable(Workers))
      /\ StepsIn(Disable(Workers)) = ((TeardownVerbs \cup {"check"}) \X {Main}) \cup (RemoveVerbs \X Workers)
  BY Identifiers, DisableSteps
<1>4. Disable(Workers) # <<>>
  <2>1. <<"check", Main>> \in StepsIn(Disable(Workers))
    BY <1>3
  <2> QED  BY <2>1, NoSteps
<1>5. PlanOK' /\ Left' = StepsIn(Disable(Workers)) /\ op'.name = "disable"
  <2>1. \A x \in StepsIn(Disable(Workers)) : Belongs(o, x)
    BY DisableBelongs
  <2> QED  BY <1>3, <1>4, <2>1, Replanned
<1>6. Instances'
  BY <1>1, <1>2 DEF Instances
<1>7. Primary'
  <2>1. "wipe" \notin {x[1] : x \in Left'}
    BY <1>3, <1>5 DEF TeardownVerbs, RemoveVerbs
  <2> QED  BY <1>1, <1>2, <1>5, <2>1 DEF Primary
<1>8. \A w \in Workers : ~Has("drop", w) /\ Has("drop", w)'
  BY <1>3, <1>5 DEF NoDrop, Has, RemoveVerbs
<1>9. ASSUME Sound' PROVE WorkersRight'
  <2>1. Sound
    BY <1>9
  <2>2. ASSUME NEW w \in Workers
        PROVE  /\ Fixed(w)' /\ Has("drop", w)'
               /\ Running(Main)' => Running(w)' \/ (Has("drop", w)' /\ Sharing' = {})
    <3>1. Fixed(w)
      BY <1>1, <1>8, <2>1 DEF WorkersOK
    <3>2. Running(Main) => Running(w) \/ (op.name = "enable" /\ Has("await", w))
      BY <1>1, <1>8, <2>1 DEF WorkersOK
    <3> QED  BY <1>2, <1>8, <3>1, <3>2 DEF Fixed, Running
  <2>3. wants \subseteq Workers /\ \A i \in Ids : registry[i] = "none" => ~Running(i)
    BY <1>1, <2>1 DEF WorkersOK
  <2> QED  BY <1>2, <2>2, <2>3 DEF WorkersRight, Running
<1> QED  BY <1>2, <1>5, <1>6, <1>7, <1>9, DisableStart

LEMMA TurnsDisable ==
  ASSUME IInv, NEW o \in Ops, o.name = "disable", op' = Then(o, Disable(Workers)),
         UNCHANGED <<instances, conf, processes, wants>>, Values',
         (Sharing \subseteq PortsOf(Workers))', NoDrop \/ (\A w \in Workers : ~Has("drop", w)),
         Sound' => Sound,
         \A w \in Workers : op.name = "enable" /\ Has("await", w) => Sharing' = {}
  PROVE  IInv'
<1>1. \A i \in Ids : conf'[i].port \in WorkerPorts \cup {0}
  BY TypedParts DEF IInv, Instances
<1> QED  BY <1>1, DisableTakesOver

\* A worker that Enable waits for is not redirected to yet.
LEMMA Awaited ==
  ASSUME IInv, op.name = "enable", NEW w, Has("await", w)
  PROVE  Sharing = {}
<1>1. Phase("await") < 16
  BY MorePhases
<1>2. <<"await", w>> \in Left /\ <<"await", w>>[1] = "await"
  BY DEF Has
<1>3. \A v \in ApplyVerbs : Has(v, Main)
  BY <1>1, <1>2 DEF IInv, Together
<1>4. Has("nat", Main)
  BY <1>3 DEF ApplyVerbs
<1> QED  BY <1>4 DEF IInv, SharesOK

\* Enable removes nothing.
LEMMA EnableKeeps ==
  ASSUME IInv, op.name = "enable"
  PROVE  NoDrop
<1> SUFFICES ASSUME NEW q, Has("drop", q) PROVE FALSE
  BY DEF NoDrop
<1>1. <<"drop", q>> \in Left /\ Belongs(op, <<"drop", q>>)
  BY DEF IInv, PlanOK, Fits, Has, Left
<1>2. q \in Ids
  BY <1>1 DEF Belongs, IdVerbs, RemoveVerbs
<1> QED  BY <1>1, <1>2 DEF Belongs, RemoveVerbs

LEMMA AwaitTimeoutOK ==
  ASSUME IInv, NEW i \in Ids, AwaitTimeout(i)
  PROVE  IInv'
<1>1. Values
  BY TypedParts DEF IInv
<1>2. /\ UNCHANGED <<instances, conf, processes, settings, rules, doubt>>
      /\ op.todo # <<>> /\ Head(op.todo) = <<"await", i>>
  BY DEF AwaitTimeout, At
<1>3. op \in Ops /\ op.name = "enable"
  <2>1. Head(op.todo) \in StepsIn(op.todo)
    BY <1>2, Rest DEF IInv, PlanOK, Fits
  <2>2. Belongs(op, <<"await", i>>)
    BY <1>2, <2>1 DEF IInv, PlanOK, Fits
  <2> QED  BY <2>2 DEF IInv, PlanOK, Fits, Belongs
<1> DEFINE o == [op EXCEPT !.name = "disable", !.failed = FALSE]
<1>4. op' = Then(o, Disable(Workers))
  BY <1>2, <1>3 DEF AwaitTimeout, AfterFailure, Inherits
<1>5. o \in Ops /\ o.name = "disable"
  BY <1>3 DEF Ops, Names
<1> HIDE DEF o
<1>6. /\ cap' = cap /\ guard' = guard /\ nat' = nat /\ input' = input /\ jumps' = jumps
      /\ guarded' = guarded /\ wants' = wants /\ line' = line /\ doubt' = doubt
  BY <1>2 DEF settings, rules
<1>7. Values'
  <2>1. spent' \in 0..MaxSpent
    BY <1>1, ParametersOK DEF AwaitTimeout, Spend, Values
  <2> QED  BY <1>1, <1>2, <1>6, <2>1 DEF Values, instances, processes
<1>8. Sharing' = Sharing /\ (Sharing \subseteq PortsOf(Workers))' /\ Sound' = Sound
  BY <1>2, <1>6, Settled DEF Sharing, Workers, PortsOf, instances, Sound
<1>9. NoDrop
  BY <1>3, EnableKeeps
<1>10. \A w \in Workers : Has("await", w) => Sharing' = {}
  BY <1>3, <1>8, Awaited
<1> QED  BY <1>2, <1>4, <1>5, <1>6, <1>7, <1>8, <1>9, <1>10, TurnsDisable

LEMMA CallDisableOK ==
  ASSUME IInv, CallDisable
  PROVE  IInv'
<1>1. Values
  BY TypedParts DEF IInv
<1>2. /\ UNCHANGED <<instances, conf, processes, settings, rules, doubt, spent>>
      /\ op.todo # <<>> /\ Head(op.todo) = <<"disable", Main>>
  BY DEF CallDisable, At, Same
<1>3. op \in Ops /\ op.name = "uninstall"
  <2>1. Head(op.todo) \in StepsIn(op.todo)
    BY <1>2, Rest DEF IInv, PlanOK, Fits
  <2>2. Belongs(op, <<"disable", Main>>)
    BY <1>2, <2>1 DEF IInv, PlanOK, Fits
  <2> QED  BY <2>2 DEF IInv, PlanOK, Fits, Belongs
<1> DEFINE o == [op EXCEPT !.name = "disable", !.failed = FALSE]
<1>4. op' = Then(o, Disable(Workers))
  BY DEF CallDisable
<1>5. o \in Ops /\ o.name = "disable"
  BY <1>3 DEF Ops, Names
<1> HIDE DEF o
<1>6. /\ cap' = cap /\ guard' = guard /\ nat' = nat /\ input' = input /\ jumps' = jumps
      /\ guarded' = guarded /\ wants' = wants /\ line' = line /\ doubt' = doubt /\ spent' = spent
  BY <1>2 DEF settings, rules
<1>7. Values'
  BY <1>1, <1>2, <1>6 DEF Values, instances, processes
<1>8. Sharing' = Sharing /\ (Sharing \subseteq PortsOf(Workers))' /\ Sound' = Sound
  BY <1>2, <1>6, Settled DEF Sharing, Workers, PortsOf, instances, Sound
<1>9. \A w \in Workers : ~Has("drop", w)
  BY <1>3, Identifiers DEF IInv, Together
<1> QED  BY <1>2, <1>3, <1>4, <1>5, <1>6, <1>7, <1>8, <1>9, TurnsDisable

-----------------------------------------------------------------------------
(* Checks.                                                                  *)

LEMMA CheckFailedOK ==
  ASSUME IInv, Check, op.failed
  PROVE  IInv'
<1>1. Values
  BY TypedParts DEF IInv
<1>2. /\ UNCHANGED <<instances, conf, processes, settings, rules, spent>>
      /\ op' = Idle /\ doubt' = doubt \cup {"rules", "caps", "procs"}
  BY DEF Check
<1>3. /\ cap' = cap /\ guard' = guard /\ nat' = nat /\ input' = input /\ jumps' = jumps
      /\ guarded' = guarded /\ wants' = wants /\ line' = line /\ spent' = spent
  BY <1>2 DEF settings, rules
<1>4. Values'
  BY <1>1, <1>2, <1>3 DEF Values, instances, processes, Doubts
<1>5. ~(Certain') /\ ~(Sound')
  BY <1>2 DEF Certain, Sound
<1>6. (Sharing \subseteq PortsOf(Workers))'
  BY <1>2, <1>3, Settled, StillRight
<1> QED  BY <1>2, <1>4, <1>5, <1>6, Ends

LEMMA CheckPassedOK ==
  ASSUME IInv, Check, ~op.failed
  PROVE  IInv'
<1>1. PlanOK /\ Typed /\ Together /\ RulesOK /\ SharesOK /\ WorkersOK /\ Values /\ Instances /\ Primary
  BY TypedParts DEF IInv
<1>2. PlanOK' /\ GoesOn("check", Main)
  BY <1>1, Proceeds DEF Check, Proceed
<1>3. /\ UNCHANGED <<instances, conf, processes, settings, rules, doubt, spent>>
  BY DEF Check
<1>4. /\ registry' = registry /\ port' = port /\ unit' = unit /\ conf' = conf /\ proc' = proc
      /\ due' = due /\ doubt' = doubt /\ nat' = nat /\ input' = input /\ jumps' = jumps
      /\ guarded' = guarded /\ wants' = wants /\ line' = line /\ cap' = cap /\ guard' = guard
      /\ spent' = spent /\ Workers' = Workers /\ Sharing' = Sharing
      /\ PortsOf(Workers)' = PortsOf(Workers) /\ Certain' = Certain /\ Sound' = Sound
  BY <1>3 DEF instances, processes, settings, rules, Workers, Sharing, PortsOf, Certain, Sound
<1>5. /\ \A w, q : Has(w, q)' => /\ Has(w, q) /\ ~(w = "check" /\ q = Main)
                                 /\ Phase("check") <= Phase(w) /\ op'.name = op.name
      /\ \A w, q : Has(w, q) => Has(w, q)' \/ (w = "check" /\ q = Main)
      /\ Has("check", Main)
  BY <1>2, Later
<1>6. op'.name # "enable"
  BY <1>2, IdleName DEF GoesOn, Belongs
<1>7. Typed'
  <2>1. Values'
    BY <1>1, <1>4 DEF Values
  <2>2. Instances'
    BY <1>1, <1>4 DEF Instances
  <2>3. conf[Main] \in Confs
    BY <1>1, IdsFinite DEF Values
  <2>4. Primary'
    BY <1>1, <1>2, <1>4, <2>3, KeepsPrimary
  <2> QED  BY <1>2, <2>1, <2>2, <2>4, TypedNext
<1>8. Together'
  BY <1>1, <1>2, <1>4, KeepsTogether
<1>9. RulesOK'
  <2>1. "check" \notin RuleVerbs
    BY DEF RuleVerbs, ApplyVerbs, TeardownVerbs
  <2> QED  BY <1>1, <1>2, <1>4, <2>1, KeepsRules DEF rules
<1>11. ~Has("unjump", Main) /\ ~Has("noDropIn", Main)
  BY <1>5, MorePhases
<1>12. Going' => Going
  <2>1. Does("wipe")' => Does("wipe")
    BY <1>5 DEF Does
  <2> QED  BY <1>4, <1>5, <2>1 DEF Going
<1>13. SharesOK'
  BY <1>1, <1>4, <1>6, <1>11, <1>12 DEF SharesOK
<1>14. WorkersOK'
  <2>1. ASSUME Sound, NEW w \in Workers
        PROVE  /\ Fixed(w)' /\ (w \in wants' \/ Has("drop", w)')
               /\ Running(Main)' => Running(w)' \/ (Has("drop", w)' /\ Sharing' = {})
    <3>1. /\ Fixed(w) \/ (Has("drop", w) /\ ~Has("check", Main))
          /\ w \in wants \/ Has("drop", w) \/ op.name = "enable"
          /\ Running(Main) => \/ Running(w) \/ op.name = "enable"
                              \/ Has("drop", w) /\ Sharing = {}
      BY <1>1, <2>1 DEF WorkersOK
    <3>2. op.name # "enable"
      BY <1>2 DEF GoesOn, Belongs
    <3>3. Has("drop", w) => Has("drop", w)'
      BY <1>5
    <3>4. (Fixed(w) <=> Fixed(w)') /\ (Running(w) <=> Running(w)') /\ (Running(Main) <=> Running(Main)')
      BY <1>4 DEF Fixed, Running
    <3> QED  BY <1>4, <1>5, <3>1, <3>2, <3>3, <3>4
  <2>2. ASSUME Sound, NEW i \in Ids
        PROVE  /\ registry[i] = "none" => ~(Running(i)')
               /\ Does("wipe")' => registry[i] = "none" \/ Has("drop", i)'
               /\ Has("drop", i)' => Has("stop", i)' \/ ~(Running(i)')
    <3>1. /\ registry[i] = "none" => ~Running(i)
          /\ Does("wipe") => registry[i] = "none" \/ Has("drop", i)
          /\ Has("drop", i) => Has("stop", i) \/ ~Running(i)
      BY <1>1, <2>2 DEF WorkersOK
    <3>2. Does("wipe")' => Does("wipe")
      BY <1>5 DEF Does
    <3>3. Running(i) <=> Running(i)'
      BY <1>4 DEF Running
    <3> QED  BY <1>5, <3>1, <3>2, <3>3
  <2>3. Sound => wants' \subseteq Workers' /\ (Going' => wants' = {})
    BY <1>1, <1>4, <1>11, <1>12 DEF WorkersOK
  <2> QED  BY <1>4, <1>6, <2>1, <2>2, <2>3 DEF WorkersOK
<1> QED  BY <1>2, <1>7, <1>8, <1>9, <1>13, <1>14 DEF IInv

LEMMA CheckOK ==
  ASSUME IInv, Check
  PROVE  IInv'
BY CheckFailedOK, CheckPassedOK

\* Operations on settings and processes only: the rules and the workers are
\* as they should be while these work.
RuleOps == {"enable", "apply", "port", "disable", "removeVpn", "remove", "uninstall"}

LEMMA Harmless ==
  ASSUME IInv, op.name \notin RuleOps
  PROVE  /\ NoDrop /\ (Certain => RulesRight) /\ (Sound => WorkersRight)
         /\ \A v \in RuleVerbs : ~Has(v, Main)
<1>1. \A x \in Left : Belongs(op, x)
  BY DEF IInv, PlanOK, Fits, Left
<1>2. NoDrop
  <2> SUFFICES ASSUME NEW q, Has("drop", q) PROVE FALSE
    BY DEF NoDrop
  <2>1. Belongs(op, <<"drop", q>>)
    BY <1>1 DEF Has
  <2>2. q \in Ids
    BY <2>1 DEF Belongs, IdVerbs, RemoveVerbs
  <2> QED  BY <2>1, <2>2 DEF Belongs, RemoveVerbs, RuleOps
<1>3. ASSUME NEW v \in RuleVerbs, Has(v, Main) PROVE FALSE
  <2>1. Belongs(op, <<v, Main>>)
    BY <1>1, <1>3 DEF Has
  <2> QED  BY <2>1 DEF Belongs, RuleVerbs, RuleOps
<1>4. op.name # "enable"
  BY DEF RuleOps
<1> QED  BY <1>2, <1>3, <1>4, Settled

LEMMA TurnsHarmless ==
  ASSUME IInv, op.name \notin RuleOps, PlanOK', op'.name \notin RuleOps,
         UNCHANGED <<instances, conf, processes, nat, input, jumps, guarded, wants, line>>,
         doubt \subseteq doubt', Values',
         \A x \in Left' : /\ x[1] \in NeutralVerbs \/ x = <<"stop", Main>>
                          /\ x[1] \in {"start", "restart"} /\ x[2] \in Ids => registry[x[2]] # "none"
  PROVE  IInv'
<1>1. NoDrop /\ (Certain => RulesRight) /\ (Sound => WorkersRight)
  BY Harmless
<1>2. (Certain' => Certain) /\ (Sound' => Sound)
  BY DEF Certain, Sound
<1>3. (Certain' => RulesRight') /\ (Sound' => WorkersRight')
  BY <1>1, <1>2, StillRight
<1>4. (Sharing \subseteq PortsOf(Workers))'
  BY Settled, StillRight
<1>5. registry' = registry
  BY DEF instances
<1>6. op'.name \notin {"enable", "port", "apply"}
  BY DEF RuleOps
<1> QED  BY <1>3, <1>4, <1>5, <1>6, TurnsNeutral

LEMMA GuardTakenBack ==
  ASSUME IInv, op.name = "guard", op' = TakeGuardBack(op),
         UNCHANGED <<instances, conf, processes, nat, input, jumps, guarded, wants, line>>,
         doubt \subseteq doubt', Values'
  PROVE  IInv'
<1> DEFINE o == [op EXCEPT !.name = "unguard", !.failed = FALSE]
           list == DisableGuard(ServerConfs, Extras)
<1>1. op \in Ops
  BY DEF IInv, PlanOK, Fits
<1>2. o \in Ops /\ o.name = "unguard"
  BY <1>1 DEF Ops, Names
<1>3. /\ Goes(list)
      /\ StepsIn(list) = ({"noGuard"} \X {Main})
              \cup ({"unmanage"} \X ServerConfs) \cup ({"restart"} \X ({Main} \cup Extras))
  BY Identifiers, DisableGuardSteps
<1>4. op' = Then(o, list)
  BY DEF TakeGuardBack
<1> HIDE DEF o, list
<1>5. /\ \A x \in StepsIn(list) : Belongs(o, x)
      /\ \A x \in StepsIn(list) :
           /\ x[1] \in NeutralVerbs
           /\ x[1] \in {"start", "restart"} /\ x[2] \in Ids => registry[x[2]] # "none"
  <2>1. \A x \in StepsIn(list) :
           /\ x[1] \in GuardParts \cup {"manage", "unmanage", "noGuard", "confirm", "restart"}
           /\ x[1] \in GuardParts \cup {"noGuard", "confirm"} => x[2] = Main
           /\ x[1] = "restart" => x[2] \in {Main} \cup Extras
    BY <1>3 DEF GuardParts
  <2> QED  BY <1>2, <2>1, GuardPlan
<1>6. PlanOK' /\ Left' = StepsIn(list) /\ (op' = Idle \/ op'.name = "unguard")
  BY <1>2, <1>3, <1>4, <1>5, Replanned
<1>7. op.name \notin RuleOps /\ op'.name \notin RuleOps
  BY <1>6, IdleName DEF RuleOps
<1> QED  BY <1>5, <1>6, <1>7, TurnsHarmless

LEMMA CapTakenBack ==
  ASSUME IInv, op.name = "limit", NEW b \in BOOLEAN, NEW p \in Procs,
         op' = Then([op EXCEPT !.name = "restore", !.failed = b], Restore(p, Workers)),
         UNCHANGED <<instances, conf, processes, nat, input, jumps, guarded, wants, line>>,
         doubt \subseteq doubt', Values'
  PROVE  IInv'
<1> DEFINE o == [op EXCEPT !.name = "restore", !.failed = b]
           list == Restore(p, Workers)
<1>1. op \in Ops
  BY DEF IInv, PlanOK, Fits
<1>2. o \in Ops /\ o.name = "restore"
  BY <1>1 DEF Ops, Names
<1>3. /\ Goes(list)
      /\ StepsIn(list) = ({"restore"} \X {p}) \cup (IF p = Main THEN {"follow"} \X Workers ELSE {})
  BY Identifiers, RestoreSteps
<1>4. op' = Then(o, list)
  OBVIOUS
<1> HIDE DEF o, list
<1>5. ASSUME NEW x \in StepsIn(list)
      PROVE  /\ Belongs(o, x) /\ x[1] \in NeutralVerbs /\ x[1] \notin {"start", "restart"}
  <2>1. x[1] \in {"restore", "follow"} /\ (x[1] = "follow" => x[2] \in Ids)
    BY <1>3, Identifiers
  <2>2. \A v \in {"restore", "follow"} :
          /\ v \notin ApplyVerbs \cup TeardownVerbs \cup AddVerbs \cup RemoveVerbs \cup MainVerbs
          /\ v \in IdVerbs => v = "follow"
    BY DEF ApplyVerbs, TeardownVerbs, AddVerbs, RemoveVerbs, MainVerbs, IdVerbs, GuardParts
  <2>3. x # <<"stop", Main>>
    BY <2>1
  <2> QED  BY <1>2, <2>1, <2>2, <2>3 DEF Belongs, NeutralVerbs
<1>6. PlanOK' /\ Left' = StepsIn(list) /\ (op' = Idle \/ op'.name = "restore")
  BY <1>2, <1>3, <1>4, <1>5, Replanned
<1>7. op.name \notin RuleOps /\ op'.name \notin RuleOps
  BY <1>6, IdleName DEF RuleOps
<1> QED  BY <1>5, <1>6, <1>7, TurnsHarmless

LEMMA ConfirmOK ==
  ASSUME IInv, Confirm
  PROVE  IInv'
<1>1. PlanOK /\ Values
  BY TypedParts DEF IInv
<1>2. UNCHANGED <<instances, conf, processes, settings, rules, doubt, spent>>
  BY DEF Confirm, Same
<1>3. /\ cap' = cap /\ guard' = guard /\ nat' = nat /\ input' = input /\ jumps' = jumps
      /\ guarded' = guarded /\ wants' = wants /\ line' = line /\ doubt' = doubt /\ spent' = spent
  BY <1>2 DEF settings, rules
<1>4. Values'
  BY <1>1, <1>2, <1>3 DEF Values, instances, processes
<1>5. CASE ~op.failed
  <2>1. PlanOK' /\ GoesOn("confirm", Main)
    BY <1>1, <1>5, Proceeds DEF Confirm, Proceed
  <2> QED  BY <1>1, <1>2, <1>3, <2>1, QuietStep DEF QuietVerbs, Values
<1>6. CASE op.failed /\ op.name = "guard"
  <2>1. op' = TakeGuardBack(op)
    BY <1>6 DEF Confirm
  <2> QED  BY <1>2, <1>3, <1>4, <1>6, <2>1, GuardTakenBack
<1>7. CASE op.failed /\ op.name = "limit"
  <2>1. op' = Then([op EXCEPT !.name = "restore", !.failed = FALSE], Restore(Main, Workers))
    BY <1>7 DEF Confirm
  <2> QED  BY <1>2, <1>3, <1>4, <1>7, <2>1, IdsFinite, CapTakenBack
<1>8. CASE op.failed /\ op.name \notin {"guard", "limit"}
  <2>1. op' = Idle
    BY <1>8 DEF Confirm
  <2>2. Head(op.todo) = <<"confirm", Main>> /\ op.todo # <<>>
    BY DEF Confirm, At
  <2>3. \A x \in Left : Belongs(op, x) /\ Phase(x[1]) >= 22 /\ x[1] \in Verbs
    <3>1. Goes(op.todo) /\ op.todo # <<>> /\ \A x \in Left : Belongs(op, x)
      BY <1>1, <2>2 DEF PlanOK, Fits, Left
    <3>2. /\ StepsIn(op.todo) = StepsIn(Tail(op.todo)) \cup {<<"confirm", Main>>}
          /\ \A y \in StepsIn(Tail(op.todo)) : InOrder(<<"confirm", Main>>, y)
      BY <2>2, <3>1, Rest
    <3>3. \A x \in Left : x \in Steps
      BY <3>1 DEF Goes, Left, StepsIn
    <3>4. \A x \in Left : Phase(x[1]) \in Int
      BY PhasesAreNumbers
    <3> QED  BY <3>1, <3>2, <3>3, <3>4, MorePhases DEF InOrder, Left, Steps
  <2>4. Belongs(op, <<"confirm", Main>>)
    <3>1. Goes(op.todo) /\ op.todo # <<>> /\ \A x \in Left : Belongs(op, x)
      BY <1>1, <2>2 DEF PlanOK, Fits, Left
    <3> QED  BY <2>2, <3>1, Rest DEF Left
  <2>5. op.name # "enable"
    BY <2>4 DEF Belongs
  <2>6. \A v \in RuleVerbs \cup {"drop"} : Phase(v) < 22
    <3>1. "drop" \in RemoveVerbs
      BY DEF RemoveVerbs
    <3>2. Phase("drop") < 22
      BY <3>1, PhaseValues
    <3> QED  BY <3>2, MorePhases DEF RuleVerbs, ApplyVerbs, TeardownVerbs
  <2>7. \A v, q : Has(v, q) => v \notin RuleVerbs \cup {"drop"}
    <3> SUFFICES ASSUME NEW v \in RuleVerbs \cup {"drop"}, NEW q, Has(v, q) PROVE FALSE
      OBVIOUS
    <3>1. Phase(v) >= 22
      BY <2>3 DEF Has
    <3> QED  BY <2>6, <3>1, PhasesAreNumbers
  <2>8. NoDrop /\ \A v \in RuleVerbs : ~Has(v, Main)
    BY <2>7 DEF NoDrop
  <2>9. (Certain => RulesRight) /\ (Sound => WorkersRight)
    BY <2>5, <2>8, Settled
  <2>10. (Certain' => RulesRight') /\ (Sound' => WorkersRight') /\ (Sharing \subseteq PortsOf(Workers))'
    BY <1>2, <1>3, <2>8, <2>9, StillRight, Settled DEF Certain, Sound
  <2> QED  BY <1>2, <1>4, <2>1, <2>10, Ends
<1> QED  BY <1>5, <1>6, <1>7, <1>8

-----------------------------------------------------------------------------
(* Steps that fail.                                                         *)

\* The next step.
LEMMA Next1 ==
  ASSUME IInv, op.todo # <<>>
  PROVE  LET v == Head(op.todo)[1]
             p == Head(op.todo)[2]
         IN /\ v \in Verbs /\ p \in Procs /\ Head(op.todo) = <<v, p>> /\ At(v, p)
            /\ Has(v, p) /\ Belongs(op, <<v, p>>)
            /\ \A w, q : Has(w, q) => Phase(v) <= Phase(w) /\ Belongs(op, <<w, q>>)
            /\ v \in RuleVerbs => p = Main
<1> DEFINE h == Head(op.todo)
<1>1. Goes(op.todo) /\ \A x \in Left : Belongs(op, x)
  BY DEF IInv, PlanOK, Fits, Left
<1>2. /\ h \in Steps /\ StepsIn(op.todo) = StepsIn(Tail(op.todo)) \cup {h}
      /\ \A y \in StepsIn(Tail(op.todo)) : InOrder(h, y)
  BY <1>1, Rest
<1>3. h = <<h[1], h[2]>> /\ h[1] \in Verbs /\ h[2] \in Procs
  BY <1>2 DEF Steps
<1>4. h \in Left
  BY <1>2 DEF Left
<1>5. Belongs(op, h)
  BY <1>1, <1>4
<1> HIDE DEF h
<1>6. \A w, q : Has(w, q) => Phase(h[1]) <= Phase(w) /\ Belongs(op, <<w, q>>)
  <2>1. \A y \in Left : y = h \/ InOrder(h, y)
    BY <1>2 DEF Left
  <2>2. Phase(h[1]) <= Phase(h[1])
    BY PhasesAreNumbers
  <2> QED  BY <1>1, <2>1, <2>2 DEF Has, InOrder
<1>7. h[1] \in RuleVerbs => h[2] = Main
  BY <1>5 DEF Belongs, RuleVerbs, MainVerbs
<1> QED  BY <1>3, <1>4, <1>5, <1>6, <1>7 DEF Has, At, h

\* While the rules are being applied nothing is removed, and the chain of the
\* nat table is filled before connections are sent to it.
LEMMA WhileApplying ==
  ASSUME IInv, op.todo # <<>>, Head(op.todo)[1] \in ApplyVerbs
  PROVE  /\ op.name \in {"enable", "apply", "port"} /\ NoDrop /\ conf[Main].port \in PublicPorts
         /\ Head(op.todo)[1] = "jump" => nat \subseteq PortsOf(Workers)
<1> DEFINE v == Head(op.todo)[1]
<1>1. /\ Has(v, Main) /\ Belongs(op, <<v, Main>>)
      /\ \A w, q : Has(w, q) => Phase(v) <= Phase(w) /\ Belongs(op, <<w, q>>)
  BY Next1 DEF RuleVerbs
<1>2. op.name \in {"enable", "apply", "port"}
  BY <1>1 DEF Belongs
<1>3. NoDrop
  <2> SUFFICES ASSUME NEW q, Has("drop", q) PROVE FALSE
    BY DEF NoDrop
  <2>1. Belongs(op, <<"drop", q>>)
    BY <1>1
  <2>2. q \in Ids
    BY <2>1 DEF Belongs, IdVerbs, RemoveVerbs
  <2> QED  BY <1>2, <2>1, <2>2 DEF Belongs, RemoveVerbs
<1>4. conf[Main].port \in PublicPorts
  BY <1>2 DEF IInv, Typed
<1>5. ASSUME v = "jump" PROVE nat \subseteq PortsOf(Workers)
  <2>1. ~Has("nat", Main) /\ ~Has("noNat", Main)
    <3>1. \A q : ~Has("nat", q) /\ ~Has("noNat", q)
      <4>1. \A w, q : Has(w, q) => 19 <= Phase(w)
        BY <1>1, <1>5, MorePhases
      <4> QED  BY <4>1, MorePhases
    <3> QED  BY <3>1
  <2>2. <<v, Main>> \in Left /\ <<v, Main>>[1] \in ApplyVerbs
    BY <1>1 DEF Has
  <2>3. Has("line", Main)
    BY <2>2 DEF IInv, Together
  <2>4. nat = PortsOf(Staying)
    BY <2>1, <2>3 DEF IInv, RulesOK
  <2> QED  BY <2>4 DEF PortsOf, Staying
<1> QED  BY <1>2, <1>3, <1>4, <1>5

\* What a step that fails on its way may have done.
LEMMA PartsDone ==
  ASSUME IInv, op.todo # <<>>, Partly(Head(op.todo)[1], Head(op.todo)[2]),
         UNCHANGED <<instances, conf>>
  PROVE  LET v == Head(op.todo)[1]
         IN /\ cap' \in [Procs -> Mbps] /\ guard' \subseteq GuardParts
            /\ nat' \subseteq WorkerPorts /\ input' \subseteq WorkerPorts
            /\ jumps' \subseteq PublicPorts /\ guarded' \in BOOLEAN
            /\ v \notin RuleVerbs => UNCHANGED <<nat, input, jumps, guarded>>
            /\ v \notin {"nat", "jump"} => Sharing' \subseteq Sharing /\ jumps' \subseteq jumps
            /\ (Sharing \subseteq PortsOf(Workers))'
<1> DEFINE v == Head(op.todo)[1]
           p == Head(op.todo)[2]
<1>1. /\ v \in Verbs /\ p \in Procs /\ At(v, p) /\ Values
      /\ v \in ApplyVerbs =>
           /\ conf[Main].port \in PublicPorts
           /\ v = "jump" => nat \subseteq PortsOf(Workers)
  BY Next1, WhileApplying, TypedParts DEF IInv
<1> HIDE DEF v, p
<1> SUFFICES /\ cap' \in [Procs -> Mbps] /\ guard' \subseteq GuardParts
             /\ nat' \subseteq WorkerPorts /\ input' \subseteq WorkerPorts
             /\ jumps' \subseteq PublicPorts /\ guarded' \in BOOLEAN
             /\ v \notin RuleVerbs => UNCHANGED <<nat, input, jumps, guarded>>
             /\ v \notin {"nat", "jump"} => Sharing' \subseteq Sharing /\ jumps' \subseteq jumps
             /\ (Sharing \subseteq PortsOf(Workers))'
  BY DEF v
<1>2. \A k \in Procs : PortsOf({w \in Workers : w <= k}) \subseteq WorkerPorts \cap PortsOf(Workers)
  <2>1. \A i \in Workers : port[i] \in WorkerPorts
    <3>1. \A i \in Workers : port[i] # 0
      BY DEF IInv, Typed, Workers
    <3> QED  BY <1>1, <3>1 DEF Values, Workers
  <2> QED  BY <2>1 DEF PortsOf
<1>3. PortsOf(Workers)' = PortsOf(Workers)
  BY DEF PortsOf, Workers, instances
<1>4. Sharing \subseteq PortsOf(Workers)
  BY Settled
<1>5. Partly(v, p)
  BY DEF v, p
<1>6. CASE UNCHANGED <<settings, nat, input, jumps, guarded>>
  BY <1>1, <1>3, <1>4, <1>6 DEF Values, settings, Sharing
<1>7. CASE /\ v = "nat" /\ UNCHANGED <<settings, input, jumps, guarded>>
           /\ \E k \in Procs : nat' = PortsOf({w \in Workers : w <= k})
  <2>1. nat' \subseteq WorkerPorts \cap PortsOf(Workers)
    BY <1>2, <1>7
  <2>2. v \in RuleVerbs
    BY <1>7 DEF RuleVerbs, ApplyVerbs
  <2> QED  BY <1>1, <1>3, <1>7, <2>1, <2>2 DEF Values, settings, Sharing
<1>8. CASE /\ v = "input" /\ UNCHANGED <<settings, nat, jumps, guarded>>
           /\ \E k \in Procs : input' = PortsOf({w \in Workers : w <= k})
  <2>1. input' \subseteq WorkerPorts
    BY <1>2, <1>8
  <2>2. v \in RuleVerbs
    BY <1>8 DEF RuleVerbs, ApplyVerbs
  <2> QED  BY <1>1, <1>3, <1>4, <1>8, <2>1, <2>2 DEF Values, settings, Sharing
<1>9. CASE /\ v = "noNat" /\ nat' = {} /\ UNCHANGED <<settings, input, jumps, guarded>>
  <2>2. v \in RuleVerbs
    BY <1>9 DEF RuleVerbs, TeardownVerbs
  <2> QED  BY <1>1, <1>3, <1>9, <2>2 DEF Values, settings, Sharing
<1>10. CASE /\ v = "noInput" /\ input' = {} /\ UNCHANGED <<settings, nat, jumps, guarded>>
  <2>2. v \in RuleVerbs
    BY <1>10 DEF RuleVerbs, TeardownVerbs
  <2> QED  BY <1>1, <1>3, <1>4, <1>10, <2>2 DEF Values, settings, Sharing
<1>11. CASE /\ v \in {"unjump", "oldJumps"} /\ jumps' \in SUBSET jumps /\ guarded' \in {guarded, FALSE}
            /\ UNCHANGED <<settings, nat, input>>
  <2>2. v \in RuleVerbs
    BY <1>11 DEF RuleVerbs, TeardownVerbs, ApplyVerbs
  <2>3. Sharing' \subseteq Sharing
    BY <1>11 DEF Sharing
  <2> QED  BY <1>1, <1>3, <1>4, <1>11, <2>2, <2>3 DEF Values, settings
<1>12. CASE /\ v = "jump" /\ jumps' = jumps \cup {conf[Main].port}
            /\ UNCHANGED <<settings, nat, input, guarded>>
  <2>2. v \in RuleVerbs /\ v \in ApplyVerbs
    BY <1>12 DEF RuleVerbs, ApplyVerbs
  <2>3. Sharing' \subseteq PortsOf(Workers)
    BY <1>1, <1>12, <2>2 DEF Sharing
  <2> QED  BY <1>1, <1>3, <1>12, <2>2, <2>3 DEF Values, settings
<1>13. CASE /\ v \in CapSteps /\ cap' = [cap EXCEPT ![p] = Capped(p)]
            /\ UNCHANGED <<guard, nat, input, jumps, guarded>>
  <2>1. Capped(p) \in Mbps
    BY <1>1, <1>13, CappedTyped
  <2>2. cap' \in [Procs -> Mbps]
    BY <1>1, <1>13, <2>1 DEF Values
  <2> QED  BY <1>1, <1>3, <1>4, <1>13, <2>2 DEF Values, Sharing
<1>14. CASE v = "noGuard" /\ guard' \in SUBSET guard /\ UNCHANGED <<cap, nat, input, jumps, guarded>>
  BY <1>1, <1>3, <1>4, <1>14 DEF Values, Sharing
<1> QED
  BY <1>5, <1>6, <1>7, <1>8, <1>9, <1>10, <1>11, <1>12, <1>13, <1>14 DEF Partly

\* What a failed step leaves open, of the operations that go on.
LEMMA LeftOpen ==
  ASSUME op.todo # <<>>, op.name \in Names
  PROVE  LET v == Head(op.todo)[1]
         IN /\ Doubt(op) \subseteq Doubts
            /\ v \in RuleVerbs /\ op.name \in {"apply", "port", "disable", "removeVpn"} =>
                 "rules" \in Doubt(op)
            /\ v = "stop" /\ op.name \in {"disable", "removeVpn", "remove", "uninstall"} =>
                 "procs" \in Doubt(op)
            /\ v = "drop" /\ op.name \in {"disable", "removeVpn", "remove", "uninstall"} =>
                 {"rules", "procs"} \subseteq Doubt(op)
<1> DEFINE v == Head(op.todo)[1]
<1>1. Doubt(op) \subseteq Doubts
  BY DEF Doubt, Doubts
<1>2. v \in RuleVerbs /\ op.name \in {"apply", "port", "disable", "removeVpn"} => "rules" \in Doubt(op)
  BY DEF Doubt, RuleVerbs, ApplyVerbs, TeardownVerbs
<1>3. v = "stop" /\ op.name \in {"disable", "removeVpn", "remove", "uninstall"} => "procs" \in Doubt(op)
  BY DEF Doubt
<1>4. v = "drop" /\ op.name \in {"disable", "removeVpn", "remove", "uninstall"} =>
                 {"rules", "procs"} \subseteq Doubt(op)
  BY DEF Doubt
<1> QED  BY <1>1, <1>2, <1>3, <1>4

\* The step fails, the operation goes on: nothing else comes true.
LEMMA FailsTyped ==
  ASSUME IInv, PlanOK', NEW v, NEW p, GoesOn(v, p), UNCHANGED <<instances, conf, processes>>,
         Values', v = "halt" => op.name # "removeVpn"
  PROVE  Typed'
<1>1. Values /\ Instances /\ Primary /\ PlanOK
  BY TypedParts DEF IInv
<1>2. /\ registry' = registry /\ port' = port /\ unit' = unit /\ conf' = conf /\ proc' = proc
      /\ due' = due /\ Workers' = Workers
  BY DEF instances, processes, Workers
<1>3. Instances'
  BY <1>1, <1>2 DEF Instances
<1>4. Primary'
  <2>1. CASE v # "halt"
    <3>1. conf[Main] \in Confs
      BY <1>1, IdsFinite DEF Values
    <3> QED  BY <1>1, <1>2, <2>1, <3>1, KeepsPrimary
  <2>2. CASE v = "halt"
    <3>1. \A y \in Left' : y[1] # "wipe"
      BY <2>2 DEF GoesOn, Belongs
    <3>2. op'.name = "idle" \/ op'.name = op.name
      BY IdleName DEF GoesOn
    <3> QED  BY <1>1, <1>2, <3>1, <3>2 DEF Primary
  <2> QED  BY <2>1, <2>2
<1> QED  BY <1>3, <1>4, TypedNext

LEMMA FailsQuietly ==
  ASSUME IInv, PlanOK', NEW v, NEW p, GoesOn(v, p), Values', doubt \subseteq doubt',
         UNCHANGED <<instances, conf, processes, nat, input, jumps, guarded, wants, line>>,
         v = "halt" => op.name # "removeVpn",
         v \notin RuleVerbs \cup {"save", "drop", "want", "check", "await", "conf", "unit"},
         v = "stop" => op.name # "enable" /\ ~(Sound')
  PROVE  IInv'
<1>1. PlanOK /\ Typed /\ Together /\ RulesOK /\ SharesOK /\ WorkersOK
  BY DEF IInv
<1>2. /\ registry' = registry /\ port' = port /\ unit' = unit /\ conf' = conf /\ proc' = proc
      /\ due' = due /\ wants' = wants /\ jumps' = jumps /\ UNCHANGED rules
      /\ Workers' = Workers /\ Sharing' = Sharing
  BY DEF instances, processes, Workers, Sharing, rules
<1>3. (Certain' => Certain) /\ (Sound' => Sound)
  BY DEF Certain, Sound
<1>4. Typed'
  BY FailsTyped
<1>5. Together'
  BY <1>1, <1>2, <1>3, KeepsTogether
<1>6. RulesOK'
  BY <1>1, <1>2, <1>3, KeepsRules
<1>7. SharesOK'
  <2>1. v \notin {"nat", "unjump"}
    BY DEF RuleVerbs, ApplyVerbs, TeardownVerbs
  <2> QED  BY <1>1, <1>2, <2>1, KeepsShares
<1>8. WorkersOK'
  <2>1. CASE v = "stop"
    <3>1. op'.name # "enable"
      BY <2>1, IdleName DEF GoesOn
    <3> QED  BY <2>1, <3>1 DEF WorkersOK
  <2>2. CASE v # "stop"
    <3>1. v # "noDropIn"
      BY DEF RuleVerbs, TeardownVerbs
    <3>2. \A w \in Workers : Fixed(w) => Fixed(w)'
      BY <1>2 DEF Fixed
    <3> QED  BY <1>1, <1>2, <1>3, <2>2, <3>1, <3>2, KeepsWorkers
  <2> QED  BY <2>1, <2>2
<1> QED  BY <1>4, <1>5, <1>6, <1>7, <1>8 DEF IInv

LEMMA TeardownFails ==
  ASSUME IInv, PlanOK', NEW v \in TeardownVerbs, GoesOn(v, Main), Values', doubt \subseteq doubt',
         UNCHANGED <<instances, conf, processes, wants, line>>,
         ~(Certain'), op' = Idle \/ op'.failed, Sharing' \subseteq Sharing, jumps' \subseteq jumps
  PROVE  IInv'
<1>1. PlanOK /\ Typed /\ Together /\ RulesOK /\ SharesOK /\ WorkersOK
  BY DEF IInv
<1>2. /\ registry' = registry /\ port' = port /\ unit' = unit /\ conf' = conf /\ proc' = proc
      /\ due' = due /\ wants' = wants /\ Workers' = Workers
      /\ PortsOf(Workers)' = PortsOf(Workers)
  BY DEF instances, processes, Workers, PortsOf
<1>3. Sound' => Sound
  BY DEF Sound
<1>4. \A w \in {"halt", "save", "drop", "want", "check", "await", "conf", "unit", "stop"} : v # w
  BY DEF TeardownVerbs
<1>5. /\ op.name \in {"disable", "removeVpn"} /\ op'.name \in {"idle", "disable", "removeVpn"}
      /\ \A y \in Left' : Belongs(op, y)
  BY IdleName DEF GoesOn, Belongs
<1>6. /\ \A w, q : Has(w, q)' => Has(w, q) /\ op' # Idle
      /\ \A w, q : Has(w, q) => Has(w, q)' \/ (w = v /\ q = Main)
  BY Later
<1>7. Typed'
  BY <1>4, FailsTyped
<1>8. Together'
  <2>1. Certain' => Certain \/ v = "line"
    OBVIOUS
  <2> QED  BY <1>1, <1>2, <1>4, <2>1, KeepsTogether
<1>9. RulesOK'
  <2>1. ~(Has("line", Main)')
    BY <1>5 DEF Has, Belongs, ApplyVerbs
  <2> QED  BY <2>1 DEF RulesOK
<1>10. Going' => Going
  <2>1. Does("wipe")' => Does("wipe")
    BY <1>6 DEF Does
  <2> QED  BY <1>2, <1>6, <2>1 DEF Going
<1>11. Has("check", Main) => Has("check", Main)' /\ op'.failed
  BY <1>4, <1>6
<1>12. SharesOK'
  BY <1>1, <1>2, <1>5, <1>10, <1>11 DEF SharesOK
<1>13. WorkersOK'
  <2>1. ASSUME Sound, NEW w \in Workers
        PROVE  /\ Fixed(w)' \/ (Has("drop", w)' /\ ~(Has("check", Main)'))
               /\ (w \in wants' \/ Has("drop", w)')
               /\ Running(Main)' => Running(w)' \/ (Has("drop", w)' /\ Sharing' = {})
    <3>1. /\ Fixed(w) \/ (Has("drop", w) /\ ~Has("check", Main))
          /\ w \in wants \/ Has("drop", w)
          /\ Running(Main) => \/ Running(w)
                              \/ Has("drop", w) /\ Sharing = {}
      BY <1>1, <1>5, <2>1 DEF WorkersOK
    <3>2. /\ Has("drop", w) => Has("drop", w)'
          /\ Has("check", Main)' => Has("check", Main)
      BY <1>4, <1>6
    <3>3. (Fixed(w) <=> Fixed(w)') /\ (Running(w) <=> Running(w)') /\ (Running(Main) <=> Running(Main)')
      BY <1>2 DEF Fixed, Running
    <3> QED  BY <1>2, <3>1, <3>2, <3>3
  <2>2. ASSUME Sound, NEW i \in Ids
        PROVE  /\ registry[i] = "none" => ~(Running(i)')
               /\ Does("wipe")' => registry[i] = "none" \/ Has("drop", i)'
               /\ Has("drop", i)' => Has("stop", i)' \/ ~(Running(i)')
    <3>1. /\ registry[i] = "none" => ~Running(i)
          /\ Does("wipe") => registry[i] = "none" \/ Has("drop", i)
          /\ Has("drop", i) => Has("stop", i) \/ ~Running(i)
      BY <1>1, <2>2 DEF WorkersOK
    <3>2. Does("wipe")' => Does("wipe")
      BY <1>6 DEF Does
    <3>3. Running(i) <=> Running(i)'
      BY <1>2 DEF Running
    <3> QED  BY <1>4, <1>6, <3>1, <3>2, <3>3
  <2>3. Sound => /\ wants' \subseteq Workers'
                 /\ Going' => wants' = {} \/ (Has("check", Main)' /\ (Has("noDropIn", Main)' \/ op'.failed))
    BY <1>1, <1>2, <1>10, <1>11 DEF WorkersOK
  <2> QED  BY <1>2, <1>3, <1>5, <2>1, <2>2, <2>3 DEF WorkersOK
<1> QED  BY <1>7, <1>8, <1>9, <1>12, <1>13 DEF IInv

LEMMA DropFails ==
  ASSUME IInv, PlanOK', NEW i \in Ids, GoesOn("drop", i), Values',
         UNCHANGED <<instances, conf, processes, nat, input, jumps, guarded, wants, line>>,
         ~(Certain'), ~(Sound')
  PROVE  IInv'
<1>1. PlanOK /\ Typed /\ Together /\ RulesOK /\ SharesOK /\ WorkersOK
  BY DEF IInv
<1>2. /\ registry' = registry /\ jumps' = jumps /\ Workers' = Workers /\ Sharing' = Sharing
      /\ PortsOf(Workers)' = PortsOf(Workers)
  BY DEF instances, processes, Workers, Sharing, PortsOf
<1>3. "drop" \in RemoveVerbs
  BY DEF RemoveVerbs
<1>4. /\ op.name \in {"disable", "removeVpn", "remove", "uninstall"}
      /\ op'.name \in {"idle", "disable", "removeVpn", "remove", "uninstall"}
      /\ \A y \in Left' : Belongs(op, y)
  BY <1>3, IdleName DEF GoesOn, Belongs
<1>5. /\ \A w, q : Has(w, q)' => /\ Has(w, q) /\ ~(w = "drop" /\ q = i)
                                 /\ Phase("drop") <= Phase(w)
                                 /\ (q = i /\ Phase("drop") = Phase(w)) => Turn("drop") <= Turn(w)
                                 /\ op'.name = op.name
      /\ \A w, q : Has(w, q) => Has(w, q)' \/ (w = "drop" /\ q = i)
  BY Later
<1>6. Typed'
  BY FailsTyped
<1>7. /\ \A q : \A v \in ApplyVerbs \cup AddVerbs : ~(Has(v, q)')
      /\ \A x \in Left' : x[1] \notin ApplyVerbs \cup AddVerbs \cup {"port"}
  BY <1>4 DEF Has, Belongs
<1>8. \A w, q : Has(w, q)' => w \notin TeardownVerbs \cup {"check"}
  <2>1. Phase("drop") = 7
    BY <1>3, PhaseValues
  <2>2. \A v \in TeardownVerbs \cup {"check"} : Phase(v) \in Int /\ Phase(v) < 7
    BY MorePhases DEF TeardownVerbs
  <2> QED  BY <1>5, <2>1, <2>2
<1>9. Together'
  <2>1. ~(Has("line", Main)') /\ ~(Has("oldJumps", Main)') /\ \A j \in Ids : ~(Has("save", j)')
    BY <1>7 DEF ApplyVerbs, AddVerbs
  <2>2. ASSUME NEW j \in Ids, NEW v \in RemoveVerbs, Has(v, j)'
        PROVE  Has("drop", j)'
    <3>1. Has(v, j) /\ Has("drop", j)
      BY <1>1, <1>5, <2>2 DEF Together
    <3>2. j # i
      <4> SUFFICES ASSUME j = i PROVE FALSE
        OBVIOUS
      <4>1. Phase(v) = Phase("drop")
        BY <1>3, PhaseValues
      <4>2. v # "drop" /\ Turn("drop") <= Turn(v)
        BY <1>5, <2>2, <4>1
      <4>3. \A w \in RemoveVerbs \ {"drop"} : Turn(w) < 5
        BY Turns DEF RemoveVerbs
      <4> QED  BY <4>2, <4>3, Turns, PhasesAreNumbers
    <3> QED  BY <1>5, <3>1, <3>2
  <2>3. ASSUME NEW j \in Ids
        PROVE  /\ Has("drop", j)' /\ op'.name \in {"remove", "uninstall"} => j \notin Workers'
               /\ Has("start", j)' \/ Has("restart", j)' => registry'[j] # "none"
    <3>1. /\ Has("drop", j) /\ op.name \in {"remove", "uninstall"} => j \notin Workers
          /\ Has("start", j) \/ Has("restart", j) => Has("save", j) \/ registry[j] # "none"
      BY <1>1 DEF Together
    <3>2. ~Has("save", j)
      <4> SUFFICES ASSUME Has("save", j) PROVE FALSE
        OBVIOUS
      <4>1. Belongs(op, <<"save", j>>)
        BY <1>1 DEF PlanOK, Fits, Has, Left
      <4> QED  BY <1>4, <4>1 DEF Belongs, AddVerbs
    <3> QED  BY <1>2, <1>5, <3>1, <3>2
  <2>4. \A x \in Left' : x[1] \notin ApplyVerbs \cup TeardownVerbs \cup {"check", "port"}
    <3> SUFFICES ASSUME NEW x \in Left' PROVE x[1] \notin TeardownVerbs \cup {"check"}
      BY <1>7
    <3>1. x \in Steps
      BY DEF GoesOn
    <3>2. x = <<x[1], x[2]>>
      BY <3>1 DEF Steps
    <3>3. Has(x[1], x[2])'
      BY <3>2 DEF Has
    <3> QED  BY <1>8, <3>3
  <2>5. op'.name # "enable"
    BY <1>4
  <2>6. \A q : \A v \in AddVerbs : ~(Has(v, q)')
    BY <1>7
  <2> QED  BY <2>1, <2>2, <2>3, <2>4, <2>5, <2>6 DEF Together
<1>10. RulesOK'
  <2>1. ~(Has("line", Main)')
    BY <1>7 DEF ApplyVerbs
  <2> QED  BY <2>1 DEF RulesOK
<1>11. SharesOK'
  <2>1. Going' => Going
    <3>1. Does("wipe")' => Does("wipe")
      BY <1>5 DEF Does
    <3> QED  BY <1>2, <1>5, <3>1 DEF Going
  <2>2. ~Has("check", Main)
    <3>1. ~(Has("check", Main)')
      BY <1>8
    <3> QED  BY <1>5, <3>1
  <2> QED  BY <1>1, <1>2, <1>4, <2>1, <2>2 DEF SharesOK
<1>12. WorkersOK'
  BY <1>4 DEF WorkersOK
<1> QED  BY <1>6, <1>9, <1>10, <1>11, <1>12 DEF IInv

LEMMA StillWorkers ==
  ASSUME UNCHANGED <<instances, conf, processes, wants>>, NoDrop, WorkersRight
  PROVE  WorkersRight'
BY DEF instances, processes, WorkersRight, NoDrop, Workers, Fixed, Running

\* The operations that a failed step ends or that another step takes over.
LEMMA ApplyFails ==
  ASSUME IInv, op.todo # <<>>, op.name \in {"apply", "port"}, Head(op.todo)[1] \notin {"port", "restart"},
         UNCHANGED <<instances, conf, processes, wants, line>>, Values',
         (Sharing \subseteq PortsOf(Workers))', doubt' = doubt \cup Doubt(op),
         op' = Idle \/ (op.name = "port" /\ \E b \in BOOLEAN :
                          op' = Then([op EXCEPT !.failed = b], On(Main, <<"restart">>)))
  PROVE  IInv'
<1> DEFINE v == Head(op.todo)[1]
<1>1. op \in Ops
  BY DEF IInv, PlanOK, Fits
<1>2. v \in ApplyVerbs /\ v \in RuleVerbs
  <2>1. Belongs(op, <<v, Head(op.todo)[2]>>)
    BY Next1
  <2> QED  BY <2>1 DEF Belongs, RuleVerbs
<1>3. NoDrop
  BY <1>2, WhileApplying
<1>4. ~(Certain') /\ (Sound' => Sound)
  <2>1. op.name \in Names
    BY <1>1 DEF Ops
  <2>2. "rules" \in Doubt(op)
    BY <1>2, <2>1, LeftOpen
  <2> QED  BY <2>2 DEF Certain, Sound
<1>5. Sound' => WorkersRight'
  BY <1>3, <1>4, Settled, StillWorkers
<1>6. CASE op' = Idle
  BY <1>4, <1>5, <1>6, Ends
<1>7. CASE op.name = "port" /\ \E b \in BOOLEAN :
                          op' = Then([op EXCEPT !.failed = b], On(Main, <<"restart">>))
  <2>1. PICK b \in BOOLEAN : op' = Then([op EXCEPT !.failed = b], On(Main, <<"restart">>))
    BY <1>7
  <2> DEFINE o == [op EXCEPT !.failed = b]
             list == On(Main, <<"restart">>)
  <2>2. o \in Ops /\ o.name = "port"
    BY <1>1, <1>7 DEF Ops
  <2>3. Goes(list) /\ StepsIn(list) = {"restart"} \X {Main}
    BY IdsFinite, Alone DEF Verbs
  <2>4. op' = Then(o, list)
    BY <2>1
  <2> HIDE DEF o, list
  <2>5. Belongs(o, <<"restart", Main>>)
    BY <2>2, IdsFinite
       DEF Belongs, ApplyVerbs, TeardownVerbs, AddVerbs, RemoveVerbs, MainVerbs, IdVerbs, GuardParts
  <2>6. \A x \in StepsIn(list) : x = <<"restart", Main>>
    BY <2>3
  <2>7. \A x \in StepsIn(list) : Belongs(o, x)
    BY <2>5, <2>6
  <2>8. PlanOK' /\ Left' = StepsIn(list) /\ (op' = Idle \/ op'.name = "port")
    BY <2>2, <2>3, <2>4, <2>7, Replanned
  <2>9. op'.name \notin {"enable", "port", "apply"} \/ (op'.name = op.name /\ op'.name # "enable")
    BY <1>7, <2>8, IdleName
  <2>10. \A x \in Left' : /\ x[1] \in NeutralVerbs \/ x = <<"stop", Main>>
                          /\ x[1] \in {"start", "restart"} /\ x[2] \in Ids => registry'[x[2]] # "none"
    BY <2>6, <2>8, IdsFinite DEF NeutralVerbs
  <2> QED  BY <1>4, <1>5, <2>8, <2>9, <2>10, TurnsNeutral
<1> QED  BY <1>6, <1>7

LEMMA PortFails ==
  ASSUME IInv, op.todo # <<>>, op.name = "port", Head(op.todo)[1] = "port",
         UNCHANGED <<instances, conf, processes, nat, input, jumps, guarded, wants, line>>, Values',
         doubt \subseteq doubt', op' = Idle
  PROVE  IInv'
<1>1. Has("port", Main) /\ NoDrop
  <2>1. /\ Has("port", Head(op.todo)[2]) /\ Belongs(op, <<"port", Head(op.todo)[2]>>)
        /\ \A w, q : Has(w, q) => Belongs(op, <<w, q>>)
    BY Next1
  <2>2. \A q : Has("drop", q) => "drop" \in ApplyVerbs \cup {"port", "restart"}
    BY <2>1 DEF Belongs
  <2>3. NoDrop
    BY <2>2 DEF NoDrop, ApplyVerbs
  <2> QED  BY <2>1, <2>3 DEF Belongs, MainVerbs
<1>2. (Certain => RulesRight) /\ (Sound => WorkersRight) /\ Sharing \subseteq PortsOf(Workers)
  BY <1>1, Settled
<1>3. (Certain' => Certain) /\ (Sound' => Sound)
  BY DEF Certain, Sound
<1>4. (Certain' => RulesRight') /\ (Sound' => WorkersRight') /\ (Sharing \subseteq PortsOf(Workers))'
  BY <1>1, <1>2, <1>3, StillRight
<1> QED  BY <1>4, Ends

LEMMA HaltFails ==
  ASSUME IInv, op.todo # <<>>, op.name = "removeVpn", Head(op.todo)[1] = "halt",
         UNCHANGED <<instances, conf, processes, nat, input, jumps, guarded, wants, line>>, Values',
         doubt \subseteq doubt', op' = Idle
  PROVE  IInv'
<1>1. \A w, q : Has(w, q) => 8 <= Phase(w) /\ Belongs(op, <<w, q>>)
  BY Next1, MorePhases
<1>2. NoDrop
  <2>1. "drop" \in RemoveVerbs
    BY DEF RemoveVerbs
  <2>2. ~(8 <= Phase("drop"))
    BY <2>1, PhaseValues
  <2> QED  BY <1>1, <2>2 DEF NoDrop
<1>3. \A v \in RuleVerbs : ~Has(v, Main)
  <2>1. \A v \in TeardownVerbs : ~(8 <= Phase(v))
    BY MorePhases DEF TeardownVerbs
  <2>2. \A v \in ApplyVerbs : ~Belongs(op, <<v, Main>>)
    BY DEF Belongs
  <2> QED  BY <1>1, <2>1, <2>2 DEF RuleVerbs
<1>4. (Certain => RulesRight) /\ (Sound => WorkersRight) /\ Sharing \subseteq PortsOf(Workers)
  BY <1>2, <1>3, Settled
<1>5. (Certain' => Certain) /\ (Sound' => Sound)
  BY DEF Certain, Sound
<1>6. (Certain' => RulesRight') /\ (Sound' => WorkersRight') /\ (Sharing \subseteq PortsOf(Workers))'
  BY <1>2, <1>4, <1>5, StillRight
<1> QED  BY <1>6, Ends

LEMMA StepFailsOK ==
  ASSUME IInv, StepFails
  PROVE  IInv'
<1> DEFINE v == Head(op.todo)[1]
           p == Head(op.todo)[2]
           rest == Tail(op.todo)
           on == [op EXCEPT !.failed = @ \/ v \in Checked]
<1>1. /\ op.todo # <<>> /\ v \notin {"check", "confirm", "await", "disable"} /\ Partly(v, p)
      /\ op' = AfterFailure(op) /\ doubt' = doubt \cup Doubt(op)
      /\ UNCHANGED <<instances, conf, processes, wants, line>>
  BY DEF StepFails
<1>2. op \in Ops /\ op.name \in Names /\ op.for \in Procs /\ op.failed \in BOOLEAN /\ PlanOK
  BY DEF IInv, PlanOK, Fits, Ops
<1>3. /\ v \in Verbs /\ p \in Procs /\ Has(v, p) /\ Belongs(op, <<v, p>>)
      /\ \A w, q : Has(w, q) => Phase(v) <= Phase(w) /\ Belongs(op, <<w, q>>)
      /\ v \in RuleVerbs => p = Main
  BY <1>1, Next1
<1>4. /\ cap' \in [Procs -> Mbps] /\ guard' \subseteq GuardParts
      /\ nat' \subseteq WorkerPorts /\ input' \subseteq WorkerPorts
      /\ jumps' \subseteq PublicPorts /\ guarded' \in BOOLEAN
      /\ v \notin RuleVerbs => UNCHANGED <<nat, input, jumps, guarded>>
      /\ v \notin {"nat", "jump"} => Sharing' \subseteq Sharing /\ jumps' \subseteq jumps
      /\ (Sharing \subseteq PortsOf(Workers))'
  BY <1>1, PartsDone
<1>5. Values'
  <2>1. spent' \in 0..MaxSpent /\ Values
    BY TypedParts, ParametersOK DEF StepFails, Spend, Values, IInv
  <2>2. doubt' \subseteq Doubts
    BY <1>1, <1>2, <2>1, LeftOpen DEF Values
  <2> QED  BY <1>1, <1>4, <2>1, <2>2 DEF Values, instances, processes
<1>6. doubt \subseteq doubt' /\ (Sound' => Sound)
  BY <1>1 DEF Sound
<1> HIDE DEF v, p, rest, on
<1>7. CASE op.name = "enable" /\ v # "clear"
  <2> DEFINE o == [op EXCEPT !.name = "disable", !.failed = FALSE]
  <2>1. op' = Then(o, Disable(Workers))
    BY <1>1, <1>7 DEF AfterFailure, Inherits, v
  <2>2. o \in Ops /\ o.name = "disable"
    BY <1>2 DEF Ops, Names
  <2> HIDE DEF o
  <2>3. NoDrop
    BY <1>7, EnableKeeps
  <2>4. \A w \in Workers : Has("await", w) => Sharing' = {}
    <3> SUFFICES ASSUME NEW w \in Workers, Has("await", w) PROVE Sharing' = {}
      OBVIOUS
    <3>1. Sharing = {}
      BY <1>7, Awaited
    <3>2. Phase(v) <= Phase("await")
      BY <1>3
    <3>3. v # "nat"
      BY <3>2, MorePhases
    <3>4. v # "jump"
      BY <3>2, MorePhases
    <3> QED  BY <1>4, <3>1, <3>3, <3>4
  <2> QED  BY <1>1, <1>4, <1>5, <1>6, <2>1, <2>2, <2>3, <2>4, TurnsDisable
<1>8. CASE \/ op.name = "extra" /\ v # "clear"
           \/ op.name = "control"
           \/ op.name \in {"limit", "unlimit"} /\ v = "cap"
  <2>1. op' = Idle
    BY <1>1, <1>8 DEF AfterFailure, Inherits, v
  <2>2. op.name \notin RuleOps
    BY <1>8 DEF RuleOps
  <2>3. v \notin RuleVerbs
    BY <1>3, <2>2, Harmless
  <2>4. op'.name \notin RuleOps /\ PlanOK' /\ Left' = {}
    BY <2>1, NothingLeft DEF RuleOps
  <2> QED  BY <1>1, <1>4, <1>5, <1>6, <2>2, <2>3, <2>4, TurnsHarmless
<1>9. CASE op.name = "apply"
  <2>1. op' = Idle
    BY <1>1, <1>9 DEF AfterFailure, v
  <2>2. v \notin {"port", "restart"}
    BY <1>3, <1>9 DEF Belongs
  <2> QED  BY <1>1, <1>4, <1>5, <1>9, <2>1, <2>2, ApplyFails DEF v
<1>10. CASE op.name = "guard" /\ v # "restart"
  <2>1. op' = TakeGuardBack(op)
    BY <1>1, <1>10 DEF AfterFailure, v
  <2>2. v \notin RuleVerbs
    BY <1>3, <1>10, Harmless DEF RuleOps
  <2> QED  BY <1>1, <1>4, <1>5, <1>6, <1>10, <2>1, <2>2, GuardTakenBack
<1>11. CASE op.name = "limit" /\ v = "restart"
  <2>1. op' = Then([op EXCEPT !.name = "restore"], Restore(op.for, Workers))
    BY <1>1, <1>11 DEF AfterFailure, v
  <2>2. [op EXCEPT !.name = "restore"] = [op EXCEPT !.name = "restore", !.failed = op.failed]
    BY <1>2 DEF Ops
  <2>3. v \notin RuleVerbs
    BY <1>3, <1>11, Harmless DEF RuleOps
  <2> QED  BY <1>1, <1>2, <1>4, <1>5, <1>6, <1>11, <2>1, <2>2, <2>3, CapTakenBack
<1>12. CASE op.name = "port" /\ v = "port"
  <2>1. op' = Idle
    BY <1>1, <1>12 DEF AfterFailure, v
  <2>2. v \notin RuleVerbs
    BY <1>12 DEF RuleVerbs, ApplyVerbs, TeardownVerbs
  <2> QED  BY <1>1, <1>4, <1>5, <1>6, <1>12, <2>1, <2>2, PortFails DEF v
<1>13. CASE op.name = "port" /\ v \notin {"port", "restart"}
  <2>1. op' = Then(on, On(Main, <<"restart">>))
    BY <1>1, <1>13 DEF AfterFailure, v, on
  <2>2. on = [op EXCEPT !.failed = op.failed \/ v \in Checked]
    BY DEF on
  <2>3. (op.failed \/ v \in Checked) \in BOOLEAN
    OBVIOUS
  <2>4. \E b \in BOOLEAN : op' = Then([op EXCEPT !.failed = b], On(Main, <<"restart">>))
    BY <2>1, <2>2, <2>3
  <2> QED  BY <1>1, <1>4, <1>5, <1>13, <2>4, ApplyFails DEF v
<1>14. CASE op.name = "removeVpn" /\ v = "halt"
  <2>1. op' = Idle
    BY <1>1, <1>14 DEF AfterFailure, v
  <2>2. v \notin RuleVerbs
    BY <1>14 DEF RuleVerbs, ApplyVerbs, TeardownVerbs
  <2> QED  BY <1>1, <1>4, <1>5, <1>6, <1>14, <2>1, <2>2, HaltFails DEF v
<1>15. CASE /\ ~(op.name \in {"enable", "extra"} /\ v # "clear") /\ op.name \notin {"control", "apply"}
            /\ ~(op.name \in {"limit", "unlimit"} /\ v = "cap") /\ ~(op.name = "guard" /\ v # "restart")
            /\ ~(op.name = "limit" /\ v = "restart") /\ ~(op.name = "port" /\ v # "restart")
            /\ ~(op.name = "removeVpn" /\ v = "halt")
  <2> DEFINE b == op.failed \/ v \in Checked
  <2>1. op' = Then(on, rest)
    BY <1>1, <1>15 DEF AfterFailure, Inherits, v, on, rest
  <2>2. on = [op EXCEPT !.failed = b] /\ b \in {op.failed, TRUE}
    BY <1>2 DEF on
  <2>3. PlanOK' /\ GoesOn(v, p)
    <3>1. op' = Then([op EXCEPT !.failed = b], Tail(op.todo))
      BY <2>1, <2>2 DEF rest
    <3> HIDE DEF b
    <3> QED  BY <1>1, <1>2, <2>2, <3>1, Continues DEF v, p
  <2>4. CASE v \in TeardownVerbs
    <3>1. p = Main /\ op.name \in {"disable", "removeVpn"}
      BY <1>3, <2>4 DEF RuleVerbs, Belongs
    <3>2. ~(Certain')
      BY <1>1, <1>2, <2>4, <3>1, LeftOpen DEF RuleVerbs, Certain, v
    <3>3. op' = Idle \/ op'.failed
      <4>1. v \in Checked
        BY <2>4 DEF Checked, TeardownVerbs
      <4>2. on \in Ops /\ on.failed = TRUE
        BY <1>2, <2>2, <4>1 DEF Ops
      <4>3. op' = Idle \/ op' = [on EXCEPT !.todo = rest]
        BY <2>1 DEF Then
      <4>4. [on EXCEPT !.todo = rest].failed = TRUE
        BY <4>2 DEF Ops
      <4> QED  BY <4>3, <4>4
    <3>4. v \notin {"nat", "jump"}
      BY <2>4 DEF TeardownVerbs
    <3> QED  BY <1>1, <1>4, <1>5, <1>6, <2>3, <2>4, <3>1, <3>2, <3>3, <3>4, TeardownFails
  <2>5. CASE v = "drop"
    <3>1. p \in Ids /\ op.name \in {"disable", "removeVpn", "remove", "uninstall"}
      BY <1>3, <2>5 DEF Belongs, IdVerbs, RemoveVerbs
    <3>2. ~(Certain') /\ ~(Sound')
      BY <1>1, <1>2, <2>5, <3>1, LeftOpen DEF Certain, Sound, v
    <3>3. v \notin RuleVerbs
      BY <2>5 DEF RuleVerbs, ApplyVerbs, TeardownVerbs
    <3> QED  BY <1>1, <1>4, <1>5, <2>3, <2>5, <3>1, <3>2, <3>3, DropFails
  <2>6. CASE v \notin TeardownVerbs \cup {"drop"}
    <3>1. v \notin ApplyVerbs
      <4>1. \A w \in {"clear", "restart"} : w \notin ApplyVerbs
        BY DEF ApplyVerbs
      <4> QED  BY <1>3, <1>15, <4>1 DEF Belongs
    <3>2. v \notin AddVerbs \ {"clear"} /\ v # "want"
      BY <1>3, <1>15 DEF Belongs
    <3>3. v \notin {"save", "conf", "unit"}
      BY <3>2 DEF AddVerbs
    <3>4. v = "stop" => op.name # "enable" /\ ~(Sound')
      <4> SUFFICES ASSUME v = "stop" PROVE op.name # "enable" /\ ~(Sound')
        OBVIOUS
      <4>1. p # Main
        BY <1>3, <1>15 DEF Belongs
      <4>2. p \in Ids /\ "stop" \in RemoveVerbs
        BY <1>3, <4>1 DEF Procs, RemoveVerbs
      <4>3. op.name \in {"disable", "removeVpn", "remove", "uninstall"}
        BY <1>3, <4>2 DEF Belongs
      <4> QED  BY <1>1, <1>2, <4>3, LeftOpen DEF Sound, v
    <3>5. v \notin RuleVerbs \cup {"save", "drop", "want", "check", "await", "conf", "unit"}
      BY <1>1, <2>6, <3>1, <3>2, <3>3 DEF RuleVerbs, v
    <3>6. v = "halt" => op.name # "removeVpn"
      BY <1>15
    <3>7. UNCHANGED <<nat, input, jumps, guarded>>
      BY <1>4, <3>5
    <3> QED  BY <1>1, <1>5, <1>6, <2>3, <3>4, <3>5, <3>6, <3>7, FailsQuietly
  <2> QED  BY <2>4, <2>5, <2>6
<1> QED  BY <1>7, <1>8, <1>9, <1>10, <1>11, <1>12, <1>13, <1>14, <1>15

\* What is known of the step that comes next.
LEMMA AtNext ==
  ASSUME IInv, NEW v, NEW p, op.todo # <<>>, Head(op.todo) = <<v, p>>
  PROVE  Has(v, p) /\ Belongs(op, <<v, p>>) /\ \A w, q : Has(w, q) => Phase(v) <= Phase(w)
<1>1. Head(op.todo)[1] = v /\ Head(op.todo)[2] = p
  OBVIOUS
<1>2. /\ Has(Head(op.todo)[1], Head(op.todo)[2])
      /\ Belongs(op, <<Head(op.todo)[1], Head(op.todo)[2]>>)
      /\ \A w, q : Has(w, q) => Phase(Head(op.todo)[1]) <= Phase(w)
  BY Next1
<1> QED  BY <1>1, <1>2

\* A new worker's file that fails is in doubt from then on.
LEMMA LeftBehind ==
  ASSUME op.name \in {"enable", "extra"}, NEW i, Head(op.todo) = <<"conf", i>>
  PROVE  Doubt(op) = {"left"}
<1>1. Head(op.todo)[1] = "conf"
  OBVIOUS
<1>2. op.name \in {"enable", "extra"} /\ Head(op.todo)[1] \in {"conf", "unit", "save"}
  BY <1>1
<1> QED  BY ONLY <1>1, <1>2, SMTT(30) DEF Doubt

\* A file that is left without its settings is nobody's yet.
LEMMA ConfHalfDoneOK ==
  ASSUME IInv, NEW i \in Ids, ConfHalfDone(i)
  PROVE  IInv'
<1>1. /\ op.todo # <<>> /\ Head(op.todo) = <<"conf", i>>
      /\ op' = AfterFailure(op) /\ doubt' = doubt \cup Doubt(op) /\ Spend
      /\ UNCHANGED <<instances, processes, settings, rules>>
  BY DEF ConfHalfDone, At
<1>2. /\ PlanOK /\ Together /\ Values /\ Instances /\ Primary
      /\ op \in Ops
  BY TypedParts DEF IInv, PlanOK, Fits
<1>3. Has("conf", i) /\ Belongs(op, <<"conf", i>>) /\ \A w, q : Has(w, q) => Phase("conf") <= Phase(w)
  BY <1>1, AtNext
<1>4. op.name \in {"enable", "extra"} /\ op.ports[i] \in WorkerPorts \cup {0}
  BY <1>2, <1>3 DEF Belongs, AddVerbs, Ops, Ports
<1>5. i \notin Workers
  BY <1>2, <1>3 DEF Together, AddVerbs, Workers
<1>6. PICK d \in BOOLEAN :
        conf' = [conf EXCEPT ![i] = [port |-> op.ports[i], hook |-> FALSE, dup |-> d, managed |-> FALSE]]
  <2>1. CopiedDup \in BOOLEAN
    BY DEF CopiedDup
  <2> QED  BY <2>1 DEF ConfHalfDone, NewConf
<1>7. /\ conf' \in [Procs -> Confs] /\ conf'[Main] = conf[Main]
      /\ \A j \in Ids \ {i} : conf'[j] = conf[j]
      /\ \A j \in Ids : conf'[j].port \in WorkerPorts \cup {0}
  BY <1>2, <1>4, <1>6, IdsFinite DEF Values, Instances, Confs
<1>8. \A p \in {Main} \cup Workers : conf'[p] = conf[p]
  BY <1>5, <1>7, Identifiers
<1>9. /\ registry' = registry /\ port' = port /\ unit' = unit /\ proc' = proc /\ due' = due
      /\ cap' = cap /\ guard' = guard /\ nat' = nat /\ input' = input /\ jumps' = jumps
      /\ guarded' = guarded /\ wants' = wants /\ line' = line /\ Workers' = Workers
  BY <1>1 DEF instances, processes, settings, rules, Workers
<1>10. doubt' = doubt \cup {"left"}
  BY <1>1, <1>4, LeftBehind
<1>11. Certain' = Certain /\ Sound' = Sound
  BY <1>10 DEF Certain, Sound
<1>12. Values'
  <2>1. spent' \in 0..MaxSpent
    BY <1>1, <1>2, ParametersOK DEF Spend, Values
  <2>2. doubt' \subseteq Doubts
    BY <1>2, <1>10 DEF Values, Doubts
  <2> QED  BY <1>2, <1>7, <1>9, <2>1, <2>2 DEF Values
<1>13. Sharing' = Sharing /\ (Sharing \subseteq PortsOf(Workers))'
  BY <1>9, Settled DEF Sharing, PortsOf
<1>14. CASE op.name = "enable"
  <2> DEFINE o == [op EXCEPT !.name = "disable", !.failed = FALSE]
  <2>1. op' = Then(o, Disable(Workers))
    BY <1>1, <1>14 DEF AfterFailure, Inherits
  <2>2. o \in Ops /\ o.name = "disable"
    BY <1>2 DEF Ops, Names
  <2> HIDE DEF o
  <2>3. NoDrop
    BY <1>14, EnableKeeps
  <2>4. \A w \in Workers : Has("await", w) => Sharing' = {}
    BY <1>13, <1>14, Awaited
  <2> QED  BY <1>1, <1>7, <1>8, <1>9, <1>11, <1>12, <1>13, <2>1, <2>2, <2>3, <2>4, DisableTakesOver
<1>15. CASE op.name = "extra"
  <2>1. op' = Idle
    BY <1>1, <1>15 DEF AfterFailure, Inherits
  <2>2. NoDrop /\ (Certain => RulesRight) /\ (Sound => WorkersRight)
    BY <1>15, Harmless DEF RuleOps
  <2>3. PlanOK' /\ Left' = {} /\ op'.name = "idle"
    BY <2>1, NothingLeft
  <2>4. Certain' => RulesRight'
    BY <1>7, <1>9, <1>11, <2>2 DEF RulesRight, PortsOf
  <2>5. Sound' => WorkersRight'
    <3>1. \A w \in Workers : Fixed(w) => Fixed(w)'
      BY <1>8, <1>9 DEF Fixed
    <3>2. \A p \in Procs : Running(p)' = Running(p)
      BY <1>9 DEF Running
    <3> QED  BY <1>9, <1>11, <1>13, <2>2, <3>1, <3>2, IdsFinite, Identifiers DEF WorkersRight, NoDrop
  <2>6. Instances'
    BY <1>2, <1>7, <1>9 DEF Instances
  <2>7. Primary'
    BY <1>2, <1>7, <1>9, <2>3 DEF Primary
  <2> QED  BY <1>12, <1>13, <2>3, <2>4, <2>5, <2>6, <2>7, NeutralStart
<1> QED  BY <1>4, <1>14, <1>15

-----------------------------------------------------------------------------
(* Meanwhile.                                                               *)

\* While no step is taken the plan and the rules stand as they did.
LEMMA Stands ==
  ASSUME IInv, UNCHANGED <<op, registry, port, unit, conf, nat, input, jumps, guarded, wants, line>>,
         Certain' <=> Certain
  PROVE  /\ PlanOK' /\ Left' = Left /\ Together' /\ RulesOK' /\ SharesOK'
         /\ Workers' = Workers /\ Sharing' = Sharing
         /\ Going' <=> Going
         /\ \A v, q : Has(v, q)' <=> Has(v, q)
         /\ \A v : Does(v)' <=> Does(v)
<1>1. PlanOK /\ Together /\ RulesOK /\ SharesOK
  BY DEF IInv
<1>2. PlanOK' /\ Left' = Left
  BY <1>1 DEF PlanOK, Left
<1>3. \A v, q : Has(v, q)' <=> Has(v, q)
  BY <1>2 DEF Has
<1>4. \A v : Does(v)' <=> Does(v)
  BY <1>3 DEF Does
<1>5. Workers' = Workers /\ PortsOf(Workers)' = PortsOf(Workers) /\ Sharing' = Sharing
  BY DEF Workers, PortsOf, Sharing
<1>6. Staying' = Staying /\ PortsOf(Staying)' = PortsOf(Staying)
  BY <1>3, <1>5 DEF Staying, PortsOf
<1>7. Together'
  <2>1. \A x \in Left : x[1] \in ApplyVerbs => Has("line", Main)
    BY <1>1 DEF Together
  <2>2. /\ Has("line", Main) => Workers # {} \/ (op.name = "enable" /\ Does("save"))
        /\ \A x \in Left : (op.name = "enable" /\ Phase(x[1]) < 16) \/ (x[1] = "port" /\ Workers # {}) =>
             \A v \in ApplyVerbs : Has(v, Main)
        /\ Has("oldJumps", Main) => Has("jump", Main)
    BY <1>1 DEF Together
  <2>3. ASSUME NEW i \in Ids
        PROVE  /\ (\E v \in AddVerbs : Has(v, i)) => Has("save", i)
               /\ Has("save", i) => registry[i] = "none"
               /\ op.name = "enable" /\ Has("save", i) =>
                    /\ Has("want", Main) /\ Has("await", i)
                    /\ op.ports[i] \notin PortsOf(Workers)
                    /\ \A j \in Ids : Has("save", j) /\ op.ports[j] = op.ports[i] => i = j
                    /\ Has("conf", i) \/ conf[i].port = op.ports[i]
                    /\ Has("unit", i) \/ unit[i] = "partOf"
               /\ (\E v \in RemoveVerbs : Has(v, i)) => Has("drop", i)
               /\ Has("drop", i) /\ op.name \in {"remove", "uninstall"} => i \notin Workers
               /\ Has("start", i) \/ Has("restart", i) => Has("save", i) \/ registry[i] # "none"
    BY <1>1 DEF Together
  <2>4. \A x \in Left : x[1] \in TeardownVerbs \cup {"check"} \/ (x[1] = "wipe" /\ Certain) => Staying = {}
    BY <1>1 DEF Together
  <2> QED  BY <1>2, <1>3, <1>4, <1>5, <1>6, <2>1, <2>2, <2>3, <2>4 DEF Together
<1>8. RulesOK'
  <2>1. conf'[Main] = conf[Main]
    OBVIOUS
  <2>2. /\ Has("nat", Main)' <=> Has("nat", Main)
        /\ Has("noNat", Main)' <=> Has("noNat", Main)
        /\ Has("input", Main)' <=> Has("input", Main)
        /\ Has("noInput", Main)' <=> Has("noInput", Main)
        /\ Has("jump", Main)' <=> Has("jump", Main)
        /\ Has("unjump", Main)' <=> Has("unjump", Main)
        /\ Has("oldJumps", Main)' <=> Has("oldJumps", Main)
        /\ Has("dropIn", Main)' <=> Has("dropIn", Main)
        /\ Has("noDropIn", Main)' <=> Has("noDropIn", Main)
        /\ Has("line", Main)' <=> Has("line", Main)
        /\ Has("noLine", Main)' <=> Has("noLine", Main)
        /\ Has("port", Main)' <=> Has("port", Main)
    BY <1>3
  <2> QED  BY <1>1, <1>5, <1>6, <2>1, <2>2 DEF RulesOK
<1>9. Going' <=> Going
  BY <1>3, <1>4, <1>5 DEF Going
<1>10. SharesOK'
  BY <1>1, <1>3, <1>5, <1>9 DEF SharesOK
<1> QED  BY <1>2, <1>3, <1>4, <1>5, <1>7, <1>8, <1>9, <1>10

\* Processes come and go while no step is taken.
LEMMA ProcessesChange ==
  ASSUME IInv, UNCHANGED <<op, registry, port, unit, conf, cap, guard, nat, input, jumps, guarded,
                           wants, line>>,
         Certain' <=> Certain, Sound' => Sound, doubt' \subseteq Doubts, spent' \in 0..MaxSpent,
         proc' \in [Procs -> Confs], due' \subseteq Procs, \A p \in due' : proc'[p] = Absent,
         \A p \in Procs : proc'[p] = proc[p] \/ (proc'[p] = conf[p] /\ conf[p] # Absent),
         Sound' => \A p \in Procs :
                     \/ Running(p)' <=> Running(p)
                     \/ Running(p) /\ p \in Workers /\ op.name = "enable" /\ Has("await", p)
  PROVE  IInv'
<1>1. PlanOK /\ Typed /\ WorkersOK /\ Values /\ Instances /\ Primary
  BY TypedParts DEF IInv
<1>2. /\ PlanOK' /\ Left' = Left /\ Together' /\ RulesOK' /\ SharesOK'
      /\ Workers' = Workers /\ Sharing' = Sharing
      /\ Going' <=> Going
      /\ \A v, q : Has(v, q)' <=> Has(v, q)
      /\ \A v : Does(v)' <=> Does(v)
  BY Stands
<1>3. Typed'
  <2>1. Values'
    BY <1>1 DEF Values
  <2>2. Instances'
    BY <1>1, <1>2, IdsFinite DEF Instances
  <2>3. Primary'
    BY <1>1, <1>2 DEF Primary
  <2> QED  BY <1>2, <2>1, <2>2, <2>3, TypedNext
<1>4. WorkersOK'
  <2>1. op.name = "enable" => \A w \in Workers : Has("await", w)' \/ proc'[w] # Absent
    BY <1>1, <1>2, Identifiers, IdsFinite DEF WorkersOK
  <2>2. ASSUME Sound', NEW w \in Workers
        PROVE  /\ Fixed(w)' \/ (Has("drop", w)' /\ ~(Has("check", Main)'))
               /\ w \in wants' \/ (op'.name = "enable" /\ Has("want", Main)') \/ Has("drop", w)'
               /\ Running(Main)' =>
                   \/ Running(w)'
                   \/ op'.name = "enable" /\ Has("await", w)'
                   \/ Has("drop", w)' /\ Sharing' = {}
    <3>1. Sound /\ w \in Procs /\ Main \in Procs /\ Main \notin Workers
      BY <2>2, Identifiers, IdsFinite
    <3>2. /\ Fixed(w) \/ (Has("drop", w) /\ ~Has("check", Main))
          /\ w \in wants \/ (op.name = "enable" /\ Has("want", Main)) \/ Has("drop", w)
          /\ Running(Main) =>
              \/ Running(w)
              \/ op.name = "enable" /\ Has("await", w)
              \/ Has("drop", w) /\ Sharing = {}
      BY <1>1, <3>1 DEF WorkersOK
    <3>3. Fixed(w) => Fixed(w)'
      BY <3>1 DEF Fixed
    <3>4. /\ Running(Main)' <=> Running(Main)
          /\ \/ Running(w)' <=> Running(w)
             \/ op.name = "enable" /\ Has("await", w)
      BY <2>2, <3>1
    <3>5. /\ Has("drop", w)' <=> Has("drop", w)
          /\ Has("await", w)' <=> Has("await", w)
          /\ Has("want", Main)' <=> Has("want", Main)
          /\ Has("check", Main)' <=> Has("check", Main)
      BY <1>2
    <3> QED  BY <1>2, <3>2, <3>3, <3>4, <3>5
  <2>3. ASSUME Sound', NEW i \in Ids
        PROVE  /\ registry[i] = "none" => ~(Running(i)')
               /\ Does("wipe")' => registry[i] = "none" \/ Has("drop", i)'
               /\ Has("drop", i)' => Has("stop", i)' \/ ~(Running(i)')
    <3>1. /\ registry[i] = "none" => ~Running(i)
          /\ Does("wipe") => registry[i] = "none" \/ Has("drop", i)
          /\ Has("drop", i) => Has("stop", i) \/ ~Running(i)
      BY <1>1, <2>3 DEF WorkersOK
    <3>2. Running(i)' => Running(i)
      BY <2>3, IdsFinite
    <3>3. /\ Has("drop", i)' <=> Has("drop", i)
          /\ Has("stop", i)' <=> Has("stop", i)
          /\ Does("wipe")' <=> Does("wipe")
      BY <1>2
    <3> QED  BY <3>1, <3>2, <3>3
  <2>4. Sound' =>
          /\ wants' \subseteq Workers'
          /\ Going' => wants' = {} \/ (Has("check", Main)' /\ (Has("noDropIn", Main)' \/ op'.failed))
    BY <1>1, <1>2 DEF WorkersOK
  <2> QED  BY <1>2, <2>1, <2>2, <2>3, <2>4 DEF WorkersOK
<1> QED  BY <1>2, <1>3, <1>4 DEF IInv

LEMMA ComesOK ==
  ASSUME IInv, NEW p \in Procs, Comes(p)
  PROVE  IInv'
<1>1. Values /\ Instances
  BY TypedParts DEF IInv
<1>2. /\ p \in due /\ conf[p] # Absent
      /\ proc' = [proc EXCEPT ![p] = conf[p]] /\ due' = due \ {p}
      /\ UNCHANGED <<op, registry, port, unit, conf, cap, guard, nat, input, jumps, guarded,
                     wants, line, doubt, spent>>
  BY DEF Comes, CanRun, instances, settings, rules
<1>3. /\ proc' \in [Procs -> Confs] /\ proc'[p] = conf[p] /\ \A q \in Procs \ {p} : proc'[q] = proc[q]
  BY <1>1, <1>2 DEF Values
<1>4. \A q \in Procs : Running(q)' <=> Running(q)
  BY <1>2, <1>3 DEF Running
<1>5. due' \subseteq Procs /\ \A q \in due' : proc'[q] = Absent
  BY <1>1, <1>2, <1>3 DEF Values, Instances
<1>6. (Certain' <=> Certain) /\ (Sound' <=> Sound) /\ doubt' \subseteq Doubts /\ spent' \in 0..MaxSpent
  BY <1>1, <1>2 DEF Certain, Sound, Values
<1> QED  BY <1>2, <1>3, <1>4, <1>5, <1>6, ProcessesChange

LEMMA GivesUpOK ==
  ASSUME IInv, NEW p \in Procs, GivesUp(p)
  PROVE  IInv'
<1>1. Values /\ Instances /\ WorkersOK
  BY TypedParts DEF IInv
<1>2. /\ p \in due /\ due' = due \ {p}
      /\ doubt' = IF op.name = "enable" /\ p \in Workers THEN doubt ELSE doubt \cup {"procs"}
      /\ UNCHANGED <<op, registry, port, unit, conf, proc, cap, guard, nat, input, jumps, guarded,
                     wants, line>>
  BY DEF GivesUp, instances, settings, rules
<1>3. (Certain' <=> Certain) /\ (Sound' => Sound) /\ doubt' \subseteq Doubts
  BY <1>1, <1>2 DEF Certain, Sound, Values, Doubts
<1>4. spent' \in 0..MaxSpent
  BY <1>1, ParametersOK DEF GivesUp, Spend, Values
<1>5. \A q \in due' : proc'[q] = Absent
  BY <1>1, <1>2 DEF Instances
<1>6. due' \subseteq Procs /\ proc' \in [Procs -> Confs]
  BY <1>1, <1>2 DEF Values
<1>7. ASSUME Sound', NEW q \in Procs
      PROVE  \/ Running(q)' <=> Running(q)
             \/ Running(q) /\ q \in Workers /\ op.name = "enable" /\ Has("await", q)
  <2>1. op.name = "enable" /\ p \in Workers
    BY <1>2, <1>7 DEF Sound
  <2>2. proc[p] = Absent /\ Running(p)
    BY <1>1, <1>2 DEF Instances, Running
  <2>3. Has("await", p)
    BY <1>1, <2>1, <2>2 DEF WorkersOK
  <2>4. q # p => (Running(q)' <=> Running(q))
    BY <1>2 DEF Running
  <2> QED  BY <2>1, <2>2, <2>3, <2>4
<1> QED  BY <1>2, <1>3, <1>4, <1>5, <1>6, <1>7, ProcessesChange

LEMMA CrashOK ==
  ASSUME IInv, Crash
  PROVE  IInv'
<1>1. Values
  BY TypedParts DEF IInv
<1>2. /\ UNCHANGED <<instances, conf, processes>> /\ op' = Idle /\ doubt' = Doubts
      /\ UNCHANGED <<cap, guard, nat, input, jumps, guarded, wants, line>>
  BY DEF Crash, settings, rules
<1>3. ~(Certain') /\ ~(Sound')
  BY <1>2 DEF Certain, Sound, Doubts
<1>4. Values'
  <2>1. spent' \in 0..MaxSpent
    BY <1>1, ParametersOK DEF Crash, Spend, Values
  <2> QED  BY <1>1, <1>2, <2>1 DEF Values, instances, processes
<1>5. (Sharing \subseteq PortsOf(Workers))'
  BY <1>2, Settled, StillRight
<1> QED  BY <1>2, <1>3, <1>4, <1>5, Ends

\* Nothing but what changes, changes.
LEMMA Stutters ==
  ASSUME IInv, UNCHANGED vars
  PROVE  IInv'
<1>1. Values /\ Instances
  BY TypedParts DEF IInv
<1>2. /\ UNCHANGED <<op, registry, port, unit, conf, cap, guard, nat, input, jumps, guarded,
                     wants, line, proc, due, doubt, spent>>
  BY DEF vars
<1>3. (Certain' <=> Certain) /\ (Sound' => Sound)
  BY <1>2 DEF Certain, Sound
<1>4. doubt' \subseteq Doubts /\ spent' \in 0..MaxSpent /\ due' \subseteq Procs
      /\ proc' \in [Procs -> Confs] /\ \A p \in due' : proc'[p] = Absent
  BY <1>1, <1>2 DEF Values, Instances
<1>5. \A p \in Procs : Running(p)' <=> Running(p)
  BY <1>2 DEF Running
<1> QED  BY <1>2, <1>3, <1>4, <1>5, ProcessesChange

LEMMA RebootOK ==
  ASSUME IInv, Reboot
  PROVE  IInv'
<1> DEFINE roots == {p \in {Main} \cup Extras : unit[p] = "plain"}
           back == IF ~line THEN Idle
                   ELSE IF Workers = {} THEN [Idle EXCEPT !.name = "disable", !.todo = Teardown]
                   ELSE [Idle EXCEPT !.name = "apply", !.todo = Apply]
<1>1. PlanOK /\ Typed /\ Values /\ Instances /\ Primary
  BY TypedParts DEF IInv
<1>2. /\ registry' = registry /\ port' = port /\ unit' = unit /\ conf' = conf /\ cap' = cap
      /\ wants' = wants /\ line' = line /\ Workers' = Workers
      /\ nat' = {} /\ input' = {} /\ jumps' = {} /\ guarded' = FALSE /\ Sharing' = {}
      /\ proc' = [p \in Procs |-> Absent]
      /\ due' = roots \cup {i \in Wanted : Main \in roots}
      /\ doubt' = IF op = Idle THEN doubt ELSE Doubts
      /\ op' = back
      /\ guard' = (IF "watchUnit" \in guard THEN guard \cup {"watch"} ELSE guard \ {"watch"})
  BY DEF Reboot, instances, Workers, Sharing
<1> HIDE DEF roots, back
<1>3. due' \subseteq Procs
  BY <1>1, <1>2, Identifiers, IdsFinite DEF roots, Wanted, Values
<1>4. Values'
  <2>1. proc' \in [Procs -> Confs]
    BY <1>2, AbsentPort
  <2>2. spent' \in 0..MaxSpent
    BY <1>1, ParametersOK DEF Reboot, Spend, Values
  <2>3. guard' \subseteq GuardParts /\ doubt' \subseteq Doubts
    BY <1>1, <1>2 DEF Values, GuardParts
  <2> QED  BY <1>1, <1>2, <1>3, <2>1, <2>2, <2>3 DEF Values
<1>5. Instances'
  <2>1. \A i \in Ids : proc'[i].port = 0
    BY <1>2, IdsFinite, AbsentPort
  <2>2. \A q \in due' : proc'[q] = Absent
    BY <1>2, <1>3
  <2> QED  BY <1>1, <1>2, <2>1, <2>2 DEF Instances
<1>6. (Sharing \subseteq PortsOf(Workers))'
  BY <1>2
<1>7. op = Idle => NoDrop /\ (\A v \in RuleVerbs : ~Has(v, Main)) /\ op.name # "enable"
  BY IdleFits DEF NoDrop, Has, Left, Idle
<1>8. Certain' => op = Idle /\ Certain /\ RulesRight
  BY <1>2, <1>7, Settled DEF Certain, Doubts
<1>9. ASSUME Sound' PROVE WorkersRight'
  <2>1. op = Idle /\ WorkersRight /\ NoDrop
    BY <1>2, <1>7, <1>9, Settled DEF Sound, Doubts
  <2>2. ASSUME NEW w \in Workers
        PROVE  /\ Fixed(w)' /\ w \in wants'
               /\ Running(Main)' => Running(w)'
    <3>1. Fixed(w) /\ w \in wants /\ w \in Procs
      BY <2>1, Identifiers, IdsFinite DEF WorkersRight, NoDrop
    <3>2. Fixed(w)'
      BY <1>2, <3>1 DEF Fixed
    <3>3. w \in Wanted
      BY <3>1 DEF Wanted, Fixed
    <3>4. Running(Main)' => Main \in roots
      <4>1. Main \notin Wanted
        BY <1>1, IdsFinite DEF Wanted, Values
      <4> QED  BY <1>2, <4>1, IdsFinite DEF Running
    <3> QED  BY <1>2, <3>1, <3>2, <3>3, <3>4 DEF Running
  <2>3. ASSUME NEW i \in Ids, registry[i] = "none"
        PROVE  ~(Running(i)')
    <3>1. i \notin Workers /\ i \notin Extras /\ i # Main /\ i \in Procs
      BY <2>3, Identifiers, IdsFinite
    <3>2. i \notin Wanted
      BY <2>1, <3>1 DEF Wanted, WorkersRight
    <3> QED  BY <1>2, <3>1, <3>2 DEF Running, roots
  <2> QED  BY <1>2, <2>1, <2>2, <2>3 DEF WorkersRight
<1>10. CASE ~line
  <2>1. op' = Idle
    BY <1>2, <1>10 DEF back
  <2>2. PlanOK' /\ Left' = {} /\ op'.name = "idle"
    BY <2>1, NothingLeft
  <2>3. Primary'
    BY <1>1, <1>2, <2>2 DEF Primary
  <2>4. Certain' => RulesRight'
    <3> SUFFICES ASSUME Certain' PROVE RulesRight'
      OBVIOUS
    <3>1. RulesRight /\ Workers = {}
      BY <1>8, <1>10 DEF RulesRight
    <3>2. PortsOf(Workers)' = {}
      BY <1>2, <3>1 DEF PortsOf
    <3> QED  BY <1>2, <1>10, <3>1, <3>2 DEF RulesRight
  <2> QED  BY <1>4, <1>5, <1>6, <1>9, <2>2, <2>3, <2>4, NeutralStart
<1>11. CASE line /\ Workers = {}
  <2> DEFINE o == [Idle EXCEPT !.name = "disable"]
  <2>1. Idle \in Ops
    BY IdleFits DEF Fits
  <2>2. o \in Ops /\ o.name = "disable"
    BY <2>1 DEF Ops, Names
  <2>3. Goes(Teardown) /\ StepsIn(Teardown) = TeardownVerbs \X {Main}
    BY TeardownSteps
  <2>4. Teardown # <<>>
    <3>1. <<"unjump", Main>> \in StepsIn(Teardown)
      BY <2>3 DEF TeardownVerbs
    <3> QED  BY <3>1, NoSteps
  <2>5. op' = Then(o, Teardown)
    <3>1. [Idle EXCEPT !.name = "disable", !.todo = Teardown] = [o EXCEPT !.todo = Teardown]
      BY DEF Idle
    <3> QED  BY <1>2, <1>11, <2>4, <3>1 DEF Then, back
  <2> HIDE DEF o
  <2>6. \A x \in StepsIn(Teardown) : Belongs(o, x)
    BY <2>2, <2>3, IdsFinite DEF Belongs, ApplyVerbs, TeardownVerbs, AddVerbs, RemoveVerbs, IdVerbs
  <2>7. PlanOK' /\ Left' = StepsIn(Teardown) /\ op'.name = "disable"
    BY <2>2, <2>3, <2>4, <2>5, <2>6, Replanned
  <2>8. \A v, q : Has(v, q)' <=> v \in TeardownVerbs /\ q = Main
    BY <2>3, <2>7 DEF Has
  <2>9. /\ \A v \in TeardownVerbs : Has(v, Main)'
        /\ ~(Does("wipe")') /\ ~(Going') /\ Staying' = {}
    BY <1>2, <1>11, <2>8 DEF Does, Going, Staying, TeardownVerbs
  <2>10. Primary'
    <3>1. "wipe" \notin {x[1] : x \in Left'}
      BY <2>3, <2>7 DEF TeardownVerbs
    <3> QED  BY <1>1, <1>2, <2>7, <3>1 DEF Primary
  <2>11. \A x \in Left' : x[1] \in TakingVerbs
    BY <2>3, <2>7 DEF TakingVerbs
  <2>12. \A i \in Ids : ~(\E v \in RemoveVerbs : Has(v, i)') /\ ~(Has("drop", i)')
    BY <2>8, IdsFinite
  <2> QED  BY <1>4, <1>5, <1>6, <1>9, <2>7, <2>9, <2>10, <2>11, <2>12, RemovalStart
<1>12. CASE line /\ Workers # {}
  <2> DEFINE o == [Idle EXCEPT !.name = "apply"]
  <2>1. Idle \in Ops
    BY IdleFits DEF Fits
  <2>2. o \in Ops /\ o.name = "apply"
    BY <2>1 DEF Ops, Names
  <2>3. Goes(Apply) /\ StepsIn(Apply) = ApplyVerbs \X {Main}
    BY ApplySteps
  <2>4. Apply # <<>>
    <3>1. <<"line", Main>> \in StepsIn(Apply)
      BY <2>3 DEF ApplyVerbs
    <3> QED  BY <3>1, NoSteps
  <2>5. op' = Then(o, Apply)
    <3>1. [Idle EXCEPT !.name = "apply", !.todo = Apply] = [o EXCEPT !.todo = Apply]
      BY DEF Idle
    <3> QED  BY <1>2, <1>12, <2>4, <3>1 DEF Then, back
  <2> HIDE DEF o
  <2>6. \A x \in StepsIn(Apply) : Belongs(o, x)
    BY <2>2, <2>3, IdsFinite DEF Belongs, ApplyVerbs, TeardownVerbs, AddVerbs, RemoveVerbs, IdVerbs
  <2>7. PlanOK' /\ Left' = StepsIn(Apply) /\ op'.name = "apply"
    BY <2>2, <2>3, <2>4, <2>5, <2>6, Replanned
  <2>8. \A v \in ApplyVerbs : Has(v, Main)'
    BY <2>3, <2>7 DEF Has
  <2>9. ~(Has("port", Main)')
    BY <2>3, <2>7 DEF Has, ApplyVerbs
  <2>10. Primary'
    <3>1. "wipe" \notin {x[1] : x \in Left'}
      BY <2>3, <2>7 DEF ApplyVerbs
    <3> QED  BY <1>1, <1>2, <1>12, <2>7, <3>1 DEF Primary
  <2>11. \A x \in Left' : x[1] \in ApplyVerbs \cup {"port", "restart"} /\ x[2] = Main
    BY <2>3, <2>7
  <2> QED  BY <1>2, <1>4, <1>5, <1>6, <1>9, <1>12, <2>7, <2>8, <2>9, <2>10, <2>11, RulesStart
<1> QED  BY <1>10, <1>11, <1>12

-----------------------------------------------------------------------------
(* The invariant, and what follows from it.                                 *)

LEMMA OtherPort ==
  ASSUME NEW x \in Confs, NEW n \in {0} \cup PublicPorts \cup WorkerPorts
  PROVE  [x EXCEPT !.port = n] \in Confs /\ [x EXCEPT !.port = n].port = n
BY DEF Confs

LEMMA InitOK ==
  ASSUME Init
  PROVE  /\ IInv
         /\ conf[Main] # Absent /\ \A i \in Workers : conf[i].port = port[i] /\ conf[i] # Absent
         /\ \A i \in Ids \ Workers : conf[i].port = 0
<1>1. op = Idle /\ doubt = {} /\ spent = 0 /\ due = {} /\ Left = {} /\ PlanOK
  BY IdleFits DEF Init, Left, PlanOK
<1>2. PICK ports \in Rising(Workers, WorkerPorts) :
        port = [i \in Ids |-> IF i \in Workers THEN ports[i] ELSE 0]
  BY DEF Init
<1>3. /\ ports \in [Workers -> WorkerPorts]
      /\ \A i, j \in Workers : ports[i] = ports[j] => i = j
  <2>1. /\ ports \in [Workers -> WorkerPorts]
        /\ \A i, j \in Workers : i < j => ports[i] < ports[j]
    BY DEF Rising
  <2>2. \A i \in Workers : i \in Nat /\ ports[i] \in Nat
    BY <2>1, Identifiers, IdsFinite, ParametersOK
  <2> QED  BY <2>1, <2>2
<1>4. PICK q \in PublicPorts :
        LET hook == \E p \in Procs : cap[p] > 0
            main == [port |-> q, dup |-> TRUE, hook |-> hook, managed |-> GuardOn]
        IN conf = [p \in Procs |->
             IF p = Main THEN main
             ELSE IF p \in Workers THEN [main EXCEPT !.port = port[p]]
             ELSE IF p \in Extras THEN [main EXCEPT !.port = 0] ELSE Absent]
  BY DEF Init
<1>5. PICK main \in Confs :
        /\ main.port = q
        /\ conf = [p \in Procs |-> IF p = Main THEN main
                                 ELSE IF p \in Workers THEN [main EXCEPT !.port = port[p]]
                                 ELSE IF p \in Extras THEN [main EXCEPT !.port = 0] ELSE Absent]
  <2> DEFINE hook == \E p \in Procs : cap[p] > 0
             main == [port |-> q, dup |-> TRUE, hook |-> hook, managed |-> GuardOn]
  <2>1. hook \in BOOLEAN /\ GuardOn \in BOOLEAN
    BY DEF GuardOn
  <2>2. conf = [p \in Procs |->
             IF p = Main THEN main
             ELSE IF p \in Workers THEN [main EXCEPT !.port = port[p]]
             ELSE IF p \in Extras THEN [main EXCEPT !.port = 0] ELSE Absent]
    BY <1>4
  <2> HIDE DEF hook
  <2>3. main \in Confs /\ main.port = q
    BY <2>1 DEF Confs
  <2> HIDE DEF main
  <2> QED  BY <2>2, <2>3
<1>6. /\ registry \in [Ids -> {"none", "worker", "extra"}] /\ cap \in [Procs -> Mbps]
      /\ guard \in {{}, GuardParts}
      /\ unit = [p \in Procs |-> IF p \in Workers THEN "partOf"
                            ELSE IF p = Main \/ p \in Extras THEN "plain" ELSE "none"]
      /\ proc = conf
      /\ nat = PortsOf(Workers) /\ input = nat
      /\ jumps = {conf[p].port : p \in {r \in {Main} : Workers # {}}}
      /\ wants = Workers /\ guarded = (Workers # {}) /\ line = guarded
  BY DEF Init
<1>7. /\ \A i \in Workers : port[i] = ports[i] /\ port[i] \in WorkerPorts /\ port[i] # 0
      /\ \A i \in Ids : i \notin Workers => port[i] = 0
  BY <1>2, <1>3, Identifiers, AbsentPort
<1>8. /\ conf[Main].port = q /\ conf[Main] # Absent
      /\ \A i \in Workers : conf[i].port = port[i] /\ conf[i] # Absent
      /\ \A i \in Ids : conf[i].port \in WorkerPorts \cup {0}
      /\ conf \in [Procs -> Confs]
      /\ \A i \in Ids : registry[i] = "none" => conf[i] = Absent
      /\ \A i \in Ids \ Workers : conf[i].port = 0
  <2>1. conf[Main] = main
    BY <1>5, IdsFinite
  <2>2. \A i \in Workers : conf[i] = [main EXCEPT !.port = port[i]]
    BY <1>5, Identifiers, IdsFinite
  <2>3. \A i \in Extras : conf[i] = [main EXCEPT !.port = 0]
    BY <1>5, Identifiers, IdsFinite
  <2>4. \A i \in Ids : i \in Workers \/ i \in Extras \/ conf[i] = Absent
    BY <1>5, IdsFinite
  <2>5. ASSUME NEW i \in Workers PROVE conf[i] \in Confs /\ conf[i].port = port[i]
    <3>1. port[i] \in {0} \cup PublicPorts \cup WorkerPorts
      BY <1>7
    <3>2. [main EXCEPT !.port = port[i]] \in Confs /\ [main EXCEPT !.port = port[i]].port = port[i]
      BY ONLY <3>1, main \in Confs, OtherPort
    <3> QED  BY <2>2, <3>2
  <2>6. ASSUME NEW i \in Extras PROVE conf[i] \in Confs /\ conf[i].port = 0
    BY <2>3, OtherPort
  <2>7. conf \in [Procs -> Confs]
    <3>1. \A i \in Ids : conf[i] \in Confs
      BY <2>4, <2>5, <2>6, AbsentPort
    <3>2. \A p \in Procs : conf[p] \in Confs
      BY <2>1, <3>1 DEF Procs
    <3> QED  BY <1>5, <3>2
  <2>8. q # 0
    BY ParametersOK
  <2>9. \A i \in Ids : registry[i] = "none" => conf[i] = Absent
    BY <2>4, Identifiers
  <2>10. \A i \in Ids : conf[i].port \in WorkerPorts \cup {0}
    BY <1>7, <2>4, <2>5, <2>6, AbsentPort
  <2>11. \A i \in Workers : conf[i].port = port[i] /\ conf[i] # Absent
    BY <1>7, <2>5, AbsentPort
  <2>12. conf[Main].port = q /\ conf[Main] # Absent
    BY <1>5, <2>1, <2>8, AbsentPort
  <2>13. \A i \in Ids \ Workers : conf[i].port = 0
    BY <2>4, <2>6, AbsentPort
  <2> QED  BY <2>7, <2>9, <2>10, <2>11, <2>12, <2>13
<1>9. jumps = (IF Workers = {} THEN {} ELSE {conf[Main].port})
  BY <1>6
<1>10. Values
  <2>1. PortsOf(Workers) \subseteq WorkerPorts
    BY <1>7 DEF PortsOf
  <2>2. port \in [Ids -> WorkerPorts \cup {0}]
    BY <1>2, <1>7
  <2>3. unit \in [Procs -> {"none", "plain", "partOf"}]
    BY <1>6
  <2>4. spent \in 0..MaxSpent
    BY <1>1, ParametersOK
  <2> QED  BY <1>1, <1>6, <1>8, <1>9, <2>1, <2>2, <2>3, <2>4, Identifiers DEF Values
<1>11. Instances
  BY <1>1, <1>3, <1>6, <1>7, <1>8 DEF Instances
<1>12. Primary
  BY <1>1, <1>8 DEF Primary
<1>13. Typed
  BY <1>1, <1>10, <1>11, <1>12, TypedParts
<1>14. \A v, p : ~Has(v, p)
  BY <1>1 DEF Has
<1>15. op.name = "idle" /\ ~Going /\ Staying = Workers /\ \A v : ~Does(v)
  BY <1>1, <1>14, IdleName DEF Going, Does, Staying
<1>16. Together
  BY <1>1, <1>14, <1>15 DEF Together
<1>17. RulesOK
  BY <1>6, <1>9, <1>14, <1>15 DEF RulesOK
<1>18. SharesOK
  BY <1>6, <1>14, <1>15 DEF SharesOK, Sharing
<1>19. WorkersOK
  <2>1. ASSUME NEW w \in Workers PROVE Fixed(w) /\ Running(w)
    BY <1>6, <1>8, Identifiers, IdsFinite DEF Fixed, Running
  <2>2. ASSUME NEW i \in Ids, registry[i] = "none" PROVE ~Running(i)
    BY <1>1, <1>6, <1>8, <2>2 DEF Running
  <2> QED  BY <1>6, <1>14, <1>15, <2>1, <2>2 DEF WorkersOK
<1> QED  BY <1>1, <1>8, <1>13, <1>16, <1>17, <1>18, <1>19 DEF IInv

LEMMA StepOK ==
  ASSUME IInv, Step
  PROVE  IInv'
BY SetLimitOK, InjectOK, SetDuplicateCNOK, ManageConfOK, StartOK, RestartOK, StopOK, WriteConfOK,
   ConfHalfDoneOK, RemoveConfOK, WriteUnitOK, SaveOK, DropOK, AwaitOK, AwaitTimeoutOK, CheckOK, ConfirmOK,
   CallDisableOK, SwitchOK, NoCapsOK, RewritePortOK, WipeOK, ChainsOK, JumpsOK, DropInOK,
   BootLineOK, StepFailsOK DEF Step, SaveRegistry

LEMMA WorldOK ==
  ASSUME IInv, World
  PROVE  IInv'
BY ComesOK, GivesUpOK, CrashOK, RebootOK DEF World

-----------------------------------------------------------------------------
(* What holds of every behaviour.                                           *)

\* The invariant of the lists of steps, the rules, the shares and the workers
\* holds whatever operations begin, fail half-way, are taken back (Enable's
\* rollback), die with the menu or meet a reboot.
THEOREM Invariance == Spec => []IInv
<1>1. Init => IInv
  BY InitOK
<1>2. IInv /\ [Next]_vars => IInv'
  BY OperationOK, StepOK, WorldOK, Stutters DEF Next
<1> QED  BY <1>1, <1>2, PTL DEF Spec

\* Every variable has its type; the ports of registered workers are different
\* numbers from WorkerPortBase up (pickPorts).
THEOREM TypeCorrect == Spec => []TypeOK
<1>1. IInv => TypeOK
  BY DEF IInv, Typed
<1> QED  BY <1>1, Invariance, PTL

\* Between operations the redirections, the drop-in and the boot line are those
\* of the registered workers and of the primary's port (Apply, Disable, Enable's
\* rollback, changeServicePort, menu.Run).
THEOREM RulesKept == Spec => []RulesMatchWorkers
<1>1. IInv => RulesMatchWorkers
  <2> SUFFICES ASSUME IInv, op = Idle, Certain PROVE RulesRight
    BY DEF RulesMatchWorkers, RulesRight, Certain
  <2>1. NoDrop /\ \A v \in RuleVerbs : ~Has(v, Main)
    BY IdleFits DEF NoDrop, Has, Left
  <2> QED  BY <2>1, Settled
<1> QED  BY <1>1, Invariance, PTL

-----------------------------------------------------------------------------
(* The promise: connections are shared with workers that are registered and *)
(* run.                                                                     *)

Shared ==
  /\ PortsOf(Workers) \subseteq WorkerPorts /\ Serving \ {0} \subseteq WorkerPorts
  /\ Sharing \subseteq PortsOf(Workers)
  /\ Running(Main) \in BOOLEAN
  /\ Sound /\ Running(Main) => Sharing \subseteq Serving \ {0}

LEMMA SharedNow == IInv => Shared
<1> SUFFICES ASSUME IInv PROVE Shared
  OBVIOUS
<1>1. Values /\ Instances /\ WorkersOK /\ SharesOK
  BY TypedParts DEF IInv
<1>2. \A i \in Workers : port[i] \in WorkerPorts
  BY <1>1, Identifiers DEF Values, Instances
<1>3. PortsOf(Workers) \subseteq WorkerPorts
  BY <1>2 DEF PortsOf
<1>4. Serving \ {0} \subseteq WorkerPorts
  BY <1>1 DEF Instances, Serving
<1>5. Sharing \subseteq PortsOf(Workers)
  BY Settled
<1>6. ASSUME Sound, Running(Main), NEW w \in Workers, port[w] \in Sharing
      PROVE  port[w] \in Serving \ {0}
  <2>1. ~Has("drop", w) \/ Has("check", Main)
    BY <1>1, <1>6 DEF SharesOK, Going, Sharing
  <2>2. Fixed(w)
    BY <1>1, <1>6, <2>1 DEF WorkersOK
  <2>3. Running(w)
    BY <1>1, <1>6, Awaited DEF WorkersOK
  <2>4. (IF proc[w] # Absent THEN proc[w] ELSE conf[w]).port = port[w]
    BY <2>2 DEF Fixed
  <2>5. port[w] # 0
    BY <1>2, AbsentPort
  <2> QED  BY <2>3, <2>4, <2>5, Identifiers DEF Serving
<1>7. Sound /\ Running(Main) => Sharing \subseteq Serving \ {0}
  BY <1>5, <1>6 DEF PortsOf
<1>8. Running(Main) \in BOOLEAN
  BY DEF Running
<1> QED  BY <1>3, <1>4, <1>5, <1>7, <1>8 DEF Shared

LEMMA SharedNext == IInv' => Shared'
BY SharedNow, PTL

\* Processes start and stop.
LEMMA Runs ==
  ASSUME IInv, IInv', PortsOf(Workers)' = PortsOf(Workers), UNCHANGED <<nat, jumps>>,
         Sound' <=> Sound
  PROVE  Promise!Next
<1>1. Shared'
  BY SharedNext
<1>2. Sharing' = Sharing
  BY DEF Sharing
<1>3. Promise!Run
  BY <1>1, <1>2 DEF Promise!Run, Promise!Served, Shared, Sharing, Sound
<1> QED  BY <1>3 DEF Promise!Next

\* Connections are shared with other workers, or with none.
LEMMA Shares ==
  ASSUME IInv, IInv', UNCHANGED <<registry, port, unit, conf, proc, due>>, Sound' <=> Sound
  PROVE  Promise!Next
<1>1. Shared'
  BY SharedNext
<1>2. /\ PortsOf(Workers)' = PortsOf(Workers) /\ Serving' = Serving
      /\ Running(Main)' = Running(Main)
  BY DEF PortsOf, Workers, Serving, Running
<1>3. Promise!Share
  BY <1>1, <1>2 DEF Promise!Share, Promise!Served, Shared, Sharing, Sound
<1> QED  BY <1>3 DEF Promise!Next

\* Something fails that leaves a process in doubt.
LEMMA Faults ==
  ASSUME IInv, IInv', UNCHANGED <<registry, port>>, ~(Sound'),
         Sharing' \subseteq Sharing, Serving' \subseteq Serving
  PROVE  Promise!Next
<1>1. Shared'
  BY SharedNext
<1>2. PortsOf(Workers)' = PortsOf(Workers)
  BY DEF PortsOf, Workers
<1>3. Promise!Fault
  BY <1>1, <1>2 DEF Promise!Fault, Shared, Sharing, Sound
<1> QED  BY <1>3 DEF Promise!Next

\* Workers that get no connections leave.
LEMMA Leaves ==
  ASSUME IInv, IInv', UNCHANGED <<nat, jumps, proc, due>>, Sound' <=> Sound, Sharing = {},
         PortsOf(Workers)' \subseteq PortsOf(Workers), PortsOf(Workers)' # PortsOf(Workers),
         Serving' \ {0} \subseteq Serving
  PROVE  Promise!Next
<1>1. Shared'
  BY SharedNext
<1>2. Running(Main)' = Running(Main) /\ Sharing' = Sharing
  BY DEF Running, Sharing
<1>3. LET gone == PortsOf(Workers) \ PortsOf(Workers)'
      IN /\ gone \in SUBSET PortsOf(Workers) /\ gone # {} /\ gone \cap Sharing = {}
         /\ PortsOf(Workers)' = PortsOf(Workers) \ gone
  OBVIOUS
<1>4. Promise!Leave
  BY <1>1, <1>2, <1>3 DEF Promise!Leave, Promise!Served, Shared, Sharing, Sound
<1> QED  BY <1>4 DEF Promise!Next

\* Steps that leave alone what the promise speaks of, but for what runs.
LEMMA FramedOperations ==
  ASSUME Operation
  PROVE  UNCHANGED <<registry, port, nat, jumps, doubt>>
<1>1. \A name, for, value, ports, todo :
        Begin(name, for, value, ports, todo) => UNCHANGED <<registry, port, nat, jumps, doubt>>
  BY DEF Begin, instances, rules
<1> QED  BY <1>1 DEF Operation, ToggleSpread, ExtraPorts, SpeedLimit, ToggleMultilogin,
               ToggleDeviceLimit, ChangeServicePort, Removal, Control, OpenMenu

QuietAction ==
  \/ \E p \in Procs :
       \/ SetLimit(p) \/ Inject(p) \/ SetDuplicateCN(p) \/ ManageConf(p)
       \/ Start(p) \/ Restart(p) \/ Stop(p) \/ Comes(p)
  \/ \E i \in Ids : WriteConf(i) \/ RemoveConf(i) \/ WriteUnit(i) \/ Await(i) \/ AwaitTimeout(i)
  \/ Confirm \/ CallDisable \/ SwitchOn \/ SwitchOff \/ NoCaps \/ RewritePort \/ DropIn

LEMMA FramedSteps ==
  ASSUME QuietAction
  PROVE  UNCHANGED <<registry, port, nat, jumps, doubt>>
<1>1. ASSUME NEW p \in Procs, SetLimit(p) \/ Inject(p) \/ SetDuplicateCN(p) \/ ManageConf(p)
      PROVE  UNCHANGED <<registry, port, nat, jumps, doubt>>
  BY <1>1 DEF SetLimit, Inject, SetDuplicateCN, ManageConf, instances, rules, Same
<1>2. ASSUME NEW p \in Procs, Start(p) \/ Restart(p) \/ Stop(p) \/ Comes(p)
      PROVE  UNCHANGED <<registry, port, nat, jumps, doubt>>
  BY <1>2 DEF Start, Restart, Stop, Comes, instances, rules, Same
<1>3. ASSUME NEW i \in Ids,
             WriteConf(i) \/ RemoveConf(i) \/ WriteUnit(i) \/ Await(i) \/ AwaitTimeout(i)
      PROVE  UNCHANGED <<registry, port, nat, jumps, doubt>>
  BY <1>3 DEF WriteConf, RemoveConf, WriteUnit, Await, AwaitTimeout, instances, rules, Same
<1>4. ASSUME Confirm \/ CallDisable \/ SwitchOn \/ SwitchOff \/ NoCaps \/ RewritePort \/ DropIn
      PROVE  UNCHANGED <<registry, port, nat, jumps, doubt>>
  BY <1>4 DEF Confirm, CallDisable, SwitchOn, SwitchOff, NoCaps, RewritePort, DropIn, instances,
              rules, Same
<1> QED  BY <1>1, <1>2, <1>3, <1>4 DEF QuietAction

LEMMA FramedRuns ==
  ASSUME IInv, IInv', UNCHANGED <<registry, port, nat, jumps>>, Sound' <=> Sound
  PROVE  Promise!Next
BY Runs DEF PortsOf, Workers

LEMMA PromisedSave ==
  ASSUME IInv, IInv', NEW i \in Ids, At("save", i), SaveRegistry(i)
  PROVE  Promise!Next
<1>1. /\ Has("save", i) /\ Belongs(op, <<"save", i>>)
      /\ Together /\ Values /\ Instances /\ op.name \in {"enable", "extra"}
  <2>1. op.todo # <<>> /\ Head(op.todo) = <<"save", i>>
    BY DEF At
  <2>2. Has("save", i) /\ Belongs(op, <<"save", i>>)
    BY <2>1, AtNext
  <2> QED  BY <2>2, TypedParts DEF IInv, Belongs, AddVerbs
<1>2. /\ UNCHANGED <<unit, conf, proc, due, nat, jumps>> /\ (Sound' <=> Sound)
      /\ registry' = [registry EXCEPT ![i] = IF op.name = "enable" THEN "worker" ELSE "extra"]
      /\ port' = [port EXCEPT ![i] = op.ports[i]]
  BY DEF SaveRegistry, At, Same, processes, rules, Sound
<1>3. i \notin Workers
  BY <1>1 DEF Together, Workers
<1>4. \A j \in Ids \ {i} : registry'[j] = registry[j] /\ port'[j] = port[j]
  BY <1>1, <1>2 DEF Values
<1>5. CASE op.name = "enable"
  <2>1. Workers' = Workers \cup {i} /\ port'[i] = op.ports[i]
    BY <1>1, <1>2, <1>3, <1>4, <1>5 DEF Workers, Values
  <2>2. PortsOf(Workers)' = PortsOf(Workers) \cup {op.ports[i]}
    BY <1>3, <1>4, <2>1, Identifiers DEF PortsOf
  <2>3. op.ports[i] \in WorkerPorts \ PortsOf(Workers)
    BY <1>1, <1>5 DEF Belongs, AddVerbs, Together
  <2>4. Serving' = Serving /\ Running(Main)' = Running(Main) /\ Sharing' = Sharing
    BY <1>2 DEF Serving, Running, Sharing
  <2>5. Promise!Join
    BY <1>2, <2>2, <2>3, <2>4 DEF Promise!Join, Sharing, Sound
  <2> QED  BY <2>5 DEF Promise!Next
<1>6. CASE op.name = "extra"
  <2>1. Workers' = Workers
    BY <1>1, <1>2, <1>3, <1>4, <1>6 DEF Workers, Values
  <2>2. PortsOf(Workers)' = PortsOf(Workers)
    BY <1>3, <1>4, <2>1, Identifiers DEF PortsOf
  <2> QED  BY <1>2, <2>2, Runs
<1> QED  BY <1>1, <1>5, <1>6

LEMMA PromisedDrop ==
  ASSUME IInv, IInv', NEW i \in Ids, At("drop", i), SaveRegistry(i)
  PROVE  Promise!Next
<1>1. Has("drop", i) /\ ~Has("check", Main) /\ SharesOK /\ Values /\ Instances
  <2>1. op.todo # <<>> /\ Head(op.todo) = <<"drop", i>>
    BY DEF At
  <2>2. Has("drop", i) /\ \A w, q : Has(w, q) => Phase("drop") <= Phase(w)
    BY <2>1, AtNext
  <2>3. Phase("drop") = 7
    BY PhaseValues DEF RemoveVerbs
  <2> QED  BY <2>2, <2>3, MorePhases, TypedParts DEF IInv
<1>2. /\ UNCHANGED <<unit, conf, proc, due, nat, jumps>> /\ (Sound' <=> Sound)
      /\ registry' = [registry EXCEPT ![i] = "none"] /\ port' = [port EXCEPT ![i] = 0]
  BY DEF SaveRegistry, Same, processes, rules, Sound
<1>3. \A j \in Ids \ {i} : registry'[j] = registry[j] /\ port'[j] = port[j]
  BY <1>1, <1>2 DEF Values
<1>4. Workers' = Workers \ {i}
  BY <1>1, <1>2, <1>3 DEF Workers, Values
<1>5. PortsOf(Workers)' = PortsOf(Workers \ {i})
  BY <1>3, <1>4, Identifiers DEF PortsOf
<1>6. CASE i \in Workers
  <2>1. Sharing = {}
    BY <1>1, <1>6 DEF SharesOK, Going, Sharing
  <2>2. port[i] \in PortsOf(Workers) /\ port[i] \notin PortsOf(Workers \ {i})
    BY <1>1, <1>6 DEF PortsOf, Instances
  <2>3. PortsOf(Workers \ {i}) \subseteq PortsOf(Workers)
    BY DEF PortsOf
  <2>4. Serving' = Serving
    BY <1>2 DEF Serving, Running
  <2> QED  BY <1>2, <1>5, <2>1, <2>2, <2>3, <2>4, Leaves
<1>7. CASE i \notin Workers
  <2>1. Workers \ {i} = Workers
    BY <1>7
  <2> QED  BY <1>2, <1>5, <2>1, Runs
<1> QED  BY <1>6, <1>7

LEMMA PromisedWipe ==
  ASSUME IInv, IInv', Wipe
  PROVE  Promise!Next
<1>1. Does("wipe") /\ ~Has("check", Main) /\ SharesOK
  <2>1. op.todo # <<>> /\ Head(op.todo) = <<"wipe", Main>>
    BY DEF Wipe, At
  <2>2. Has("wipe", Main) /\ \A w, q : Has(w, q) => Phase("wipe") <= Phase(w)
    BY <2>1, AtNext
  <2> QED  BY <2>2, MorePhases, IdsFinite DEF IInv, Does
<1>2. /\ UNCHANGED <<proc, due, nat, jumps>> /\ (Sound' <=> Sound)
      /\ registry' = [i \in Ids |-> "none"] /\ conf' = [p \in Procs |-> Absent]
  BY DEF Wipe, Same, processes, rules, Sound
<1>3. Sharing = {}
  BY <1>1 DEF SharesOK, Going, Sharing
<1>4. PortsOf(Workers)' = {}
  BY <1>2 DEF PortsOf, Workers
<1>5. Serving' \ {0} \subseteq Serving
  <2>1. \A i \in Ids : conf'[i].port = 0
    BY <1>2, IdsFinite, AbsentPort
  <2> QED  BY <1>2, <2>1 DEF Serving, Running
<1> QED  BY <1>2, <1>3, <1>4, <1>5, Runs, Leaves

LEMMA PromisedFailure ==
  ASSUME IInv, IInv', StepFails
  PROVE  Promise!Next
<1> DEFINE v == Head(op.todo)[1]
<1>1. /\ op.todo # <<>> /\ Partly(v, Head(op.todo)[2]) /\ doubt' = doubt \cup Doubt(op)
      /\ UNCHANGED <<instances, conf, processes>>
      /\ UNCHANGED <<registry, port, unit, conf, proc, due>>
  BY DEF StepFails, instances, processes
<1>2. v \notin {"nat", "jump"} => Sharing' \subseteq Sharing
  BY <1>1, PartsDone
<1>3. CASE Sound' <=> Sound
  BY <1>1, <1>3, Shares
<1>4. CASE ~(Sound' <=> Sound)
  <2>1. ~(Sound') /\ "procs" \in Doubt(op)
    BY <1>1, <1>4 DEF Sound
  <2>2. v \notin {"nat", "jump"}
    BY <2>1 DEF Doubt
  <2>3. Serving' = Serving
    BY <1>1 DEF Serving, Running
  <2> QED  BY <1>1, <1>2, <2>1, <2>2, <2>3, Faults
<1> QED  BY <1>3, <1>4

LEMMA PromisedWorld ==
  ASSUME IInv, IInv', World
  PROVE  Promise!Next
<1>1. ASSUME NEW p \in Procs, Comes(p) PROVE Promise!Next
  BY <1>1, FramedSteps, FramedRuns DEF QuietAction, Sound
<1>2. ASSUME NEW p \in Procs, GivesUp(p) PROVE Promise!Next
  <2>1. UNCHANGED <<registry, port, conf, proc, nat, jumps>> /\ due' = due \ {p}
    BY <1>2 DEF GivesUp, instances, rules
  <2>2. CASE Sound' <=> Sound
    BY <2>1, <2>2, FramedRuns
  <2>3. CASE ~(Sound' <=> Sound)
    <3>1. ~(Sound')
      BY <1>2, <2>3 DEF GivesUp, Sound
    <3>2. Serving' \subseteq Serving /\ Sharing' = Sharing
      BY <2>1 DEF Serving, Running, Sharing
    <3> QED  BY <2>1, <3>1, <3>2, Faults
  <2> QED  BY <2>2, <2>3
<1>3. ASSUME Crash PROVE Promise!Next
  <2>1. UNCHANGED <<registry, port, conf, proc, due, nat, jumps>> /\ ~(Sound')
    BY <1>3 DEF Crash, instances, processes, rules, Sound, Doubts
  <2>2. Serving' = Serving /\ Sharing' = Sharing
    BY <2>1 DEF Serving, Running, Sharing
  <2> QED  BY <2>1, <2>2, Faults
<1>4. ASSUME Reboot PROVE Promise!Next
  <2>1. /\ UNCHANGED <<registry, port>> /\ jumps' = {}
        /\ doubt' = IF op = Idle THEN doubt ELSE Doubts
    BY <1>4 DEF Reboot, instances
  <2>2. PortsOf(Workers)' = PortsOf(Workers) /\ (Sound' => Sound)
    BY <2>1 DEF PortsOf, Workers, Sound, Doubts
  <2>3. Shared'
    BY SharedNext
  <2>4. Promise!Boot
    BY <2>1, <2>2, <2>3 DEF Promise!Boot, Shared, Sound
  <2> QED  BY <2>4 DEF Promise!Next
<1> QED  BY <1>1, <1>2, <1>3, <1>4 DEF World

LEMMA PromisedHalfDone ==
  ASSUME IInv, IInv', NEW i \in Ids, ConfHalfDone(i)
  PROVE  Promise!Next
<1>1. op.todo # <<>> /\ Head(op.todo) = <<"conf", i>> /\ Belongs(op, <<"conf", i>>)
  BY AtNext DEF ConfHalfDone, At
<1>2. op.name \in {"enable", "extra"}
  BY <1>1 DEF Belongs, AddVerbs
<1>3. doubt' = doubt \cup {"left"} /\ UNCHANGED <<registry, port, nat, jumps>>
  BY <1>1, <1>2, LeftBehind DEF ConfHalfDone, instances, rules
<1> QED  BY <1>3, FramedRuns DEF Sound

LEMMA PromisedStep ==
  ASSUME IInv, IInv', Step
  PROVE  Promise!Next
<1>1. CASE QuietAction
  BY <1>1, FramedSteps, FramedRuns DEF Sound
<1>2. ASSUME NEW i \in Ids, SaveRegistry(i) PROVE Promise!Next
  BY <1>2, PromisedSave, PromisedDrop DEF SaveRegistry
<1>3. CASE Check
  <2>1. UNCHANGED <<registry, port, conf, proc, due, nat, jumps>> /\ (Sound' => Sound)
    BY <1>3 DEF Check, instances, processes, rules, Sound
  <2>2. Serving' = Serving /\ Sharing' = Sharing
    BY <2>1 DEF Serving, Running, Sharing
  <2> QED  BY <2>1, <2>2, Faults, FramedRuns
<1>4. CASE Chains \/ Jumps
  BY <1>4, Shares DEF Chains, Jumps, Same, instances, processes, Sound
<1>5. CASE BootLine
  BY <1>5, FramedRuns DEF BootLine, instances, Sound
<1> QED  BY <1>1, <1>2, <1>3, <1>4, <1>5, PromisedWipe, PromisedFailure, PromisedHalfDone
         DEF Step, QuietAction

\* No operation, failure, crash or reboot hands a new connection to a port that
\* is not a registered worker's or, as long as no failure left a process behind,
\* on which nobody is about to serve (ovpnspread.Enable, Disable).
THEOREM Implemented == Spec => Implements
<1>1. Init => Promise!Init
  <2> SUFFICES ASSUME Init PROVE Promise!Init
    OBVIOUS
  <2>1. IInv /\ Shared
    BY InitOK, SharedNow
  <2>2. /\ nat = PortsOf(Workers) /\ proc = conf /\ doubt = {} /\ due = {}
        /\ jumps = {conf[p].port : p \in {r \in {Main} : Workers # {}}}
    BY DEF Init
  <2>3. Sharing = PortsOf(Workers)
    BY <2>2 DEF Sharing, PortsOf
  <2>4. Running(Main)
    BY <2>2, InitOK DEF Running
  <2>5. Serving = {conf[i].port : i \in {j \in Ids : conf[j] # Absent}}
    <3>1. \A i \in Ids : Running(i) <=> conf[i] # Absent
      BY <2>2 DEF Running
    <3> QED  BY <2>2, <3>1 DEF Serving
  <2>6. \A i \in Workers : i \in Ids /\ conf[i].port = port[i] /\ conf[i] # Absent /\ port[i] # 0
    <3>1. Values /\ Instances
      BY <2>1, TypedParts DEF IInv
    <3> QED  BY <3>1, InitOK, Identifiers DEF Instances
  <2>7. \A i \in Ids \ Workers : conf[i].port = 0
    BY InitOK
  <2>8. Serving \ {0} = PortsOf(Workers)
    BY <2>5, <2>6, <2>7 DEF PortsOf
  <2> QED  BY <2>1, <2>2, <2>3, <2>4, <2>8 DEF Promise!Init, Shared, Sharing, Sound
<1>2. IInv /\ IInv' /\ [Next]_vars => [Promise!Next]_(Promise!bvars)
  <2>1. ASSUME IInv, IInv', Operation PROVE Promise!Next
    BY <2>1, FramedOperations, FramedRuns DEF Sound
  <2>2. ASSUME IInv, IInv', UNCHANGED vars PROVE Promise!Next
    BY <2>2, FramedRuns DEF vars, Sound
  <2> QED  BY <2>1, <2>2, PromisedStep, PromisedWorld DEF Next
<1> QED  BY <1>1, <1>2, Invariance, PTL DEF Spec, Implements, Promise!Spec

-----------------------------------------------------------------------------
(* What the promise amounts to, whoever keeps it.  Balance's variables are  *)
(* declared here to instantiate it.                                         *)

VARIABLES members, running, primary, sharing, sound

Ideal == INSTANCE Balance

\* Connections are shared among members only and, while no failure left a
\* process behind and the primary runs, among those that run (Enable: "before
\* redirecting anything").
SharesAreServed == sharing \subseteq members /\ Ideal!Served(sharing, running, primary)

\* Whatever joins, leaves, restarts, boots or fails.
THEOREM NobodyIsSentAway == Ideal!Spec => []SharesAreServed
<1> USE DEF SharesAreServed, Ideal!Served
<1>1. Ideal!Init => SharesAreServed
  BY DEF Ideal!Init
<1>2. SharesAreServed /\ [Ideal!Next]_(Ideal!bvars) => SharesAreServed'
  <2> SUFFICES ASSUME SharesAreServed, [Ideal!Next]_(Ideal!bvars)
               PROVE  SharesAreServed'
    OBVIOUS
  <2>1. CASE Ideal!Join
    BY <2>1 DEF Ideal!Join
  <2>2. CASE Ideal!Leave
    BY <2>2 DEF Ideal!Leave
  <2>3. CASE Ideal!Share
    BY <2>3 DEF Ideal!Share
  <2>4. CASE Ideal!Withdraw
    BY <2>4 DEF Ideal!Withdraw
  <2>5. CASE Ideal!Run
    BY <2>5 DEF Ideal!Run
  <2>6. CASE Ideal!Boot
    BY <2>6 DEF Ideal!Boot
  <2>7. CASE Ideal!Fault
    BY <2>7 DEF Ideal!Fault
  <2>8. CASE UNCHANGED Ideal!bvars
    BY <2>8 DEF Ideal!bvars
  <2> QED
    BY <2>1, <2>2, <2>3, <2>4, <2>5, <2>6, <2>7, <2>8 DEF Ideal!Next
<1> QED
  BY <1>1, <1>2, PTL DEF Ideal!Spec

=============================================================================
