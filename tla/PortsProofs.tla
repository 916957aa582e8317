----------------------------- MODULE PortsProofs -----------------------------
(* The ports stay as the services claim them, for every set of ports,       *)
(* interfaces and bounds: proofs of all five properties that the run        *)
(* `Ports` checks.                                                          *)
(*                                                                          *)
(* An operation is a list of steps that is worked off from the front, any   *)
(* of which may fail and take others along.  The argument:                  *)
(*   1. Goes and Belongs say what the lists look like without naming them:  *)
(*      in which order steps come (Rank), which must follow each other      *)
(*      (Adjacent), and which operation they are of.  Every operation's     *)
(*      list is so, and what a step that went well or failed leaves of it   *)
(*      still is.                                                           *)
(*   2. The rest of the invariant is what holds between two operations,     *)
(*      each part of it with what the steps that are left will yet do:      *)
(*      a port that is not open is about to be opened (OpenOK), one that    *)
(*      nobody claims is about to be closed (Accounted, ShutOK, Wiping),    *)
(*      a process that is not as configured about to be restarted (UnitOK), *)
(*      a tunnel on OpenVPN's old port about to follow (FollowParts), a     *)
(*      FORWARD chain without its DROP about to get it (ChainOK).           *)
(*   3. A step keeps a part by doing its share.  One that is skipped after  *)
(*      a failure puts its service and its sockets in doubt (Shrinks), of   *)
(*      which the parts then claim nothing.                                 *)
(* The conjunction, IInv, is inductive.  With nothing left to do it is what *)
(* the properties say.                                                      *)
EXTENDS Ports, SequenceTheorems, TLAPS

-----------------------------------------------------------------------------
(* The inductive invariant.                                                 *)

\* The steps that operations are made of.
Verbs ==
  {"save", "forget", "wipe", "follow", "unit", "dropUnit", "enable", "disable", "start", "stop",
   "restart", "tryRestart", "binary", "openLive", "openLine", "closeLive", "closeLine",
   "masq", "masqLine", "unmasq", "unmasqLine", "mail", "unmail", "reply", "accept", "drop",
   "unforward", "forwardLines", "netLines", "closeConf", "sweepLive", "sweepLines", "dropLines",
   "await"}

Steps == Verbs \X Services

\* Steps that set up, and steps that take down.
Building ==
  {"save", "unit", "enable", "start", "restart", "tryRestart", "follow", "openLive", "openLine",
   "masq", "masqLine", "mail", "reply", "accept", "drop", "forwardLines", "netLines", "await"}

\* cleanupOpenVPN, and the removals.
Cleanup ==
  {"unforward", "closeConf", "sweepLive", "sweepLines", "unmail", "dropLines", "wipe"}

Demolition == Cleanup \cup {"dropUnit", "forget", "unmasq", "unmasqLine", "binary"}

\* The steps of a list, those left to do, and whether <<n, s>> is one of them.
StepsIn(s) == {s[i] : i \in 1..Len(s)}
Left == StepsIn(op.todo)
Has(n, s) == <<n, s>> \in Left

\* What the operator may be doing.
Wases == UNION {[D -> SUBSET Sockets] : D \in SUBSET Services}
Ops == [flow : Flows, new : SUBSET Sockets, to : Targets, was : Wases, todo : Seq(Steps)]

\* The order of the steps in any operation.
Rank(x) ==
  CASE x[2] = "extra" ->
         IF x[1] \in {"forget", "start", "enable", "restart"} THEN 2
         ELSE IF x[1] \in {"dropUnit", "unmasq", "unmasqLine", "closeLive", "closeLine"} THEN 1
              ELSE 0
    [] x[2] = "openvpn" ->
         IF x[1] \in {"unit", "save", "stop", "disable"} THEN 3
         ELSE IF x[1] \in {"netLines", "enable", "start", "restart", "await", "wipe"} THEN 5 ELSE 4
    [] x[2] = "squid" -> IF x[1] \in {"unit", "save", "stop", "disable"} THEN 6 ELSE 7
    [] x[2] = "dropbear" -> IF x[1] \in {"unit", "save", "stop", "disable"} THEN 8 ELSE 9
    [] x[2] = "ssltunnel" ->
         IF x[1] \in {"save", "stop", "disable", "follow", "tryRestart"} THEN 10
         ELSE IF x[1] \in {"unit", "dropUnit", "forget"} THEN 11 ELSE 16
    [] x[2] = "sslhmux" ->
         IF x[1] \in {"save", "stop", "disable"} THEN 12
         ELSE IF x[1] \in {"unit", "dropUnit", "forget"} THEN 13 ELSE 16
    [] x[2] = "proxy" ->
         IF x[1] \in {"save", "stop", "disable", "follow", "tryRestart"} THEN 14
         ELSE IF x[1] = "forget" THEN 15
         ELSE IF x[1] \in {"openLive", "openLine", "closeLive", "closeLine"} THEN 16
         ELSE IF x[1] = "unit" THEN 17 ELSE 18
    [] OTHER -> IF x[1] = "save" THEN 19 ELSE 20

\* x may come before y.
InOrder(x, y) ==
  /\ IF <<"dropUnit", "proxy">> \in {x, y} THEN y # <<"stop", "proxy">> ELSE Rank(x) <= Rank(y)
  /\ x[1] \in Cleanup => y[2] \in Vpns
  /\ y[1] \in Cleanup => x[2] \in Vpns
  /\ x[1] \in {"follow", "save", "wipe"} => x # y

\* Step x may be one of operation o.
Belongs(o, x) ==
  /\ IF o.flow \in {"remove", "uninstall"} THEN x[1] \notin Building /\ o.new = {}
     ELSE x[1] \notin Demolition
  /\ x[1] \in {"openLive", "openLine", "closeLive", "closeLine"} => x[2] \in Claimants
  /\ x[1] \in {"closeLive", "closeLine"} /\ x[2] = "openvpn" => o.flow = "move"
  /\ x[1] \in Cleanup \cup {"netLines"} => x[2] = "openvpn"
  /\ x[1] \in {"follow", "tryRestart"} => x[2] \in Tunnels /\ o.flow = "move"
  /\ x[1] = "follow" => o.new \subseteq {"tcp"} \X TcpPorts
  /\ x[1] = "forget" => x[2] \notin {"ssh", "openvpn"}
  /\ x[1] = "dropUnit" => x[2] # "ssh"
  /\ x[1] \in {"masqLine", "forwardLines"} => x[2] = "extra"
  /\ x[1] \in {"masq", "unmasq", "unmasqLine", "reply", "accept", "drop"} => x[2] \in Vpns
  /\ x = <<"save", "openvpn">> => o.flow \in {"installBest", "move"}
  /\ x[1] = "save" /\ x[2] \in Vpns => \E k \in Sockets : o.new = {k}

Adjacent(x, y) ==
  /\ x[1] = "reply" <=> y[1] = "accept"
  /\ x[1] = "accept" <=> y[1] = "drop"
  /\ x[1] \in {"reply", "accept"} => x[2] = y[2]
  /\ x[1] = "follow" => y = <<"tryRestart", x[2]>>

\* A list of steps in order.
Goes(s) ==
  /\ s \in Seq(Steps)
  /\ \A i, j \in 1..Len(s) : i < j => InOrder(s[i], s[j])
  /\ \A i \in 1..(Len(s) - 1) : Adjacent(s[i], s[i + 1])
  /\ s # <<>> => s[Len(s)][1] \notin {"reply", "accept", "follow"}

\* An operation's list is in order, and its steps are those of such an operation.
Fits(o) == Goes(o.todo) /\ \A x \in StepsIn(o.todo) : Belongs(o, x)
PlanOK == Fits(op) /\ (op.todo = <<>> => op = Resting)

\* The types: those of TypeOK, and of the operation.
Typed ==
  /\ TypeOK
  /\ op \in Ops
  /\ "ssh" \in unit
  /\ \A s \in due : proc[s] = {}
  /\ \A k, l \in file["openvpn"] : k = l
  /\ \A x \in Left : x[2] \in DOMAIN op.was

\* A service that is off; one that holds no port, and will hold none if it comes
\* up; one that runs as its file says.
Restarts(s) == Has("restart", s) \/ Has("tryRestart", s)
Off(s) == proc[s] = {} /\ s \notin due
Quiet(s) == proc[s] = {} /\ (s \in due => Listen(s) = {})
Fresh(s) == proc[s] \subseteq Listen(s) /\ (s \in Tunnels /\ proc[s] # {} => procTo[s] = to[s])

\* What runs is as configured, unless a restart is still to come.
UnitOK(s) ==
  /\ s \notin unit => Off(s)
  /\ Fresh(s) \/ Restarts(s)
  /\ Has("follow", s) => Fresh(s) \/ Has("restart", s)
  /\ Has("save", s) => Has("restart", s) \/ Quiet(s)
  /\ Has("dropUnit", s) => Has("stop", s) \/ Off(s)
  /\ Has("forget", s) => Has("stop", s) \/ Quiet(s)
  /\ s = "openvpn" /\ Has("wipe", s) => Has("stop", s) \/ Quiet(s)
  /\ Has("start", s) \/ Has("restart", s) => s \in unit \/ Has("unit", s)

UnitsOK == \A s \in Services \ trouble : UnitOK(s)

\* The tunnels' targets, where OpenVPN's own operation went well.
FollowParts ==
  /\ \A t \in meant \ trouble :
       \/ to[t] \in VpnTarget
       \/ Has("follow", t) /\ <<"tcp", to[t]>> \in op.was["openvpn"]
  /\ (\E t \in Tunnels : Has("follow", t)) =>
       /\ "openvpn" \in DOMAIN op.was
       /\ Has("save", "openvpn") \/ file["openvpn"] = op.new
  /\ op.flow = "move" /\ Has("save", "openvpn") =>
       /\ file["openvpn"] = op.was["openvpn"]
       /\ \/ op.new = file["openvpn"]
          \/ VpnTarget = {} /\ op.new \cap ({"tcp"} \X TcpPorts) = {}
               /\ ~\E t \in Tunnels : Has("follow", t)
          \/ \A t \in Tunnels \ trouble : Has("follow", t)

Follows == "openvpn" \notin trouble => FollowParts

\* The file of s will be removed; a line for its port will be written.
Going(s) == Has("forget", s) \/ (s = "openvpn" /\ Has("wipe", s))
Opens(s) == Has("openLine", s) \/ Has("netLines", s)

\* The port in the file of s is open, live and in rc.local, or about to be; so is
\* the one that will be in it.
OpenOK(s) ==
  /\ \A k \in file[s] \ doubt :
       /\ k \in live \/ Going(s) \/ (k \in op.new /\ Has("openLive", s))
       /\ k \in lines \/ Going(s) \/ (k \in op.new /\ Opens(s))
  /\ Has("save", s) =>
       /\ Has("openLive", s) \/ op.new \ doubt \subseteq live
       /\ Opens(s) \/ op.new \ doubt \subseteq lines
  /\ Has("netLines", s) => Has("openLive", s) \/ op.new \ doubt \subseteq live
  /\ Has("closeLive", s) \/ Has("closeLine", s) =>
       Has("save", s) \/ Has("forget", s) \/ file[s] \subseteq op.new
  /\ Has("closeConf", s) \/ Has("sweepLive", s) \/ Has("sweepLines", s) => Going(s)

Open == \A s \in Claimants \ trouble : OpenOK(s)

\* What an operation will still write into a file, and close.
Saving == {s \in Claimants : Has("save", s)}
Pending == IF Saving = {} THEN {} ELSE op.new
Closing(n) == UNION {op.was[s] : s \in {c \in Claimants : Has(n, c)}}

\* What is open is in a file, in doubt, or will be in a file or be closed.
Accounted ==
  /\ live \cap Sockets \subseteq Claimed \cup doubt \cup Pending \cup Closing("closeLive")
  /\ lines \cap Sockets \subseteq Claimed \cup doubt \cup Pending \cup Closing("closeLine")

\* What a step takes out of a file of s will be closed behind it.
ShutOK(s) ==
  /\ \A n \in Verbs : Has(n, s) => file[s] \subseteq op.was[s] \cup op.new
  /\ Has("save", s) =>
       \/ file[s] \subseteq op.new \cup doubt
       \/ Has("closeLive", s) /\ Has("closeLine", s)
  /\ Has("openLive", s) \/ Opens(s) \/ Has("closeLive", s) \/ Has("closeLine", s) =>
       Has("save", s) \/ op.new \subseteq file[s] \cup doubt
  /\ Has("forget", s) =>
       /\ Has("closeLive", s) \/ file[s] \subseteq doubt
            \/ (s = "extra" /\ live \cap file[s] \subseteq doubt \cup HeldByOther(s))
       /\ Has("closeLine", s) \/ file[s] \subseteq doubt
            \/ (s = "extra" /\ lines \cap file[s] \subseteq doubt \cup HeldByOther(s))

Shut == \A s \in Claimants : ShutOK(s)

\* Before OpenVPN's directory goes, what is open is somebody else's, or about to be
\* closed.
Wiping ==
  Has("wipe", "openvpn") =>
    /\ Has("closeConf", "openvpn") \/ live \cap Sockets \subseteq doubt \cup HeldByOther("openvpn")
    /\ Has("sweepLines", "openvpn")
         \/ lines \cap Sockets \subseteq doubt \cup HeldByOther("openvpn")
    /\ (\E x \in Left : x[2] = "extra") => Has("closeConf", "openvpn")
         /\ Has("sweepLines", "openvpn")
    /\ Has("forget", "extra") \/ file["extra"] = {}
         \/ ("extra" \in trouble /\ file["extra"] \subseteq doubt)

\* OpenVPN's masquerading: there with its file, but for what is still to do.
MasqOK(v) ==
  /\ file[v] # {} \/ Has("save", v) => Masq(v) \in live \/ Has("masq", v) \/ Going(v)
  /\ file[v] # {} \/ Has("save", v) => Masq(v) \in lines \/ Has("masqLine", v)
       \/ Has("netLines", v) \/ Going(v)
  /\ file[v] = {} => Has("save", v) \/ Masq(v) \notin live \cup lines
  /\ Going(v) => /\ Has("unmasq", v) \/ Masq(v) \notin live
                 /\ Has("unmasqLine", v) \/ Has("dropLines", v) \/ Masq(v) \notin lines
  /\ Has("unmasq", v) \/ Has("unmasqLine", v) \/ Has("dropLines", v) => Going(v)
  /\ Has("masq", v) \/ Has("masqLine", v) \/ Has("netLines", v) => Has("save", v) \/ file[v] # {}

Masqs == \A v \in Vpns \ trouble : MasqOK(v)

\* The head of the operation is a step n.
Now(n) == op.todo # <<>> /\ Head(op.todo)[1] = n

\* The chain is complete or empty but while its three rules are inserted, rc.local's
\* list always is.
ChainOK ==
  trouble \cap (Vpns \cup {"egress"}) = {} =>
    /\ fwdLines \in {<<>>, <<"reply", egress, "drop">>}
    /\ \/ fwd = Forward(egress)
       \/ fwd = <<>> /\ ~Now("accept") /\ ~Now("drop")
       \/ fwd = <<"reply">> /\ Now("accept")
       \/ fwd = <<egress, "reply">> /\ Now("drop")

\* The inductive invariant.
IInv == Typed /\ PlanOK /\ UnitsOK /\ Follows /\ Open /\ Accounted /\ Shut /\ Wiping /\ Masqs
     /\ ChainOK

-----------------------------------------------------------------------------
(* Lists of steps.                                                          *)

\* What holds of the end t of the list s that begins with the step n.
EndsWith(s, n, t) ==
  /\ Goes(t)
  /\ StepsIn(t) \subseteq StepsIn(s)
  /\ \A x \in StepsIn(s) \ StepsIn(t) : \E i \in 1..(n - 1) : x = s[i]
  /\ t = <<>> <=> n = Len(s) + 1
  /\ t # <<>> => Head(t) = s[n] /\ n <= Len(s)

\* What is left of a list in order is in order.
LEMMA Suffix ==
  ASSUME NEW s, Goes(s), NEW n \in 2..(Len(s) + 1), NEW t, t = SubSeq(s, n, Len(s))
  PROVE  EndsWith(s, n, t)
<1>1. s \in Seq(Steps) /\ Len(s) \in Nat
  BY DEF Goes
<1>2. /\ t \in Seq(Steps) /\ Len(t) = Len(s) - n + 1
      /\ \A i \in 1..Len(t) : t[i] = s[n + i - 1]
  BY <1>1, SubSeqProperties
<1>3. ASSUME NEW i \in 1..Len(t), NEW j \in 1..Len(t), i < j PROVE InOrder(t[i], t[j])
  <2>1. n + i - 1 \in 1..Len(s) /\ n + j - 1 \in 1..Len(s) /\ n + i - 1 < n + j - 1
    BY <1>1, <1>2, <1>3
  <2> QED  BY <2>1, <1>2 DEF Goes
<1>4. ASSUME NEW i \in 1..(Len(t) - 1) PROVE Adjacent(t[i], t[i + 1])
  <2>1. n + i - 1 \in 1..(Len(s) - 1) /\ (n + i - 1) + 1 = n + (i + 1) - 1
        /\ i \in 1..Len(t) /\ i + 1 \in 1..Len(t)
    BY <1>1, <1>2, <1>4
  <2>2. t[i] = s[n + i - 1] /\ t[i + 1] = s[(n + i - 1) + 1]
    BY <2>1, <1>2
  <2> QED  BY <2>1, <2>2 DEF Goes
<1>5. StepsIn(t) \subseteq StepsIn(s)
  <2>1. ASSUME NEW i \in 1..Len(t) PROVE t[i] \in StepsIn(s)
    <3>1. n + i - 1 \in 1..Len(s)  BY <1>1, <1>2
    <3> QED  BY <3>1, <1>2 DEF StepsIn
  <2> QED  BY <2>1 DEF StepsIn
<1>6. ASSUME NEW x \in StepsIn(s) \ StepsIn(t) PROVE \E i \in 1..(n - 1) : x = s[i]
  <2>1. PICK i \in 1..Len(s) : x = s[i]  BY DEF StepsIn
  <2>2. CASE i < n  BY <2>1, <2>2
  <2>3. CASE i >= n
    <3>1. i - n + 1 \in 1..Len(t) /\ n + (i - n + 1) - 1 = i  BY <1>1, <1>2, <2>3
    <3>2. t[i - n + 1] = s[i]  BY <3>1, <1>2
    <3> QED  BY <3>1, <3>2, <2>1, <1>6 DEF StepsIn
  <2> QED  BY <2>2, <2>3
<1>7. t = <<>> <=> n = Len(s) + 1
  <2>1. t = <<>> <=> Len(t) = 0  BY <1>2, EmptySeq
  <2> QED  BY <2>1, <1>1, <1>2
<1>8. ASSUME t # <<>> PROVE Head(t) = s[n] /\ n <= Len(s)
  <2>1. n <= Len(s) /\ 1 \in 1..Len(t) /\ Head(t) = t[1]  BY <1>1, <1>2, <1>7, <1>8
  <2> QED  BY <2>1, <1>2
<1>9. ASSUME t # <<>> PROVE t[Len(t)][1] \notin {"reply", "accept", "follow"}
  <2>1. n <= Len(s) /\ Len(t) \in 1..Len(t) /\ n + Len(t) - 1 = Len(s)  BY <1>1, <1>2, <1>8, <1>9
  <2>2. s # <<>>  BY <2>1, <1>1, EmptySeq
  <2>3. t[Len(t)] = s[Len(s)]  BY <2>1, <1>2
  <2> QED  BY <2>2, <2>3 DEF Goes
<1>10. Goes(t)  BY <1>2, <1>3, <1>4, <1>9 DEF Goes
<1> QED  BY <1>5, <1>6, <1>7, <1>8, <1>10 DEF EndsWith

\* Two lists, one behind the other.
LEMMA Joined ==
  ASSUME NEW s, NEW t, Goes(s), Goes(t),
         \A x \in StepsIn(s), y \in StepsIn(t) : InOrder(x, y),
         s # <<>> /\ t # <<>> => Adjacent(s[Len(s)], t[1])
  PROVE  Goes(s \o t) /\ StepsIn(s \o t) = StepsIn(s) \cup StepsIn(t)
<1> DEFINE u == s \o t
<1>1. /\ s \in Seq(Steps) /\ t \in Seq(Steps) /\ Len(s) \in Nat /\ Len(t) \in Nat
      /\ (s # <<>> <=> Len(s) > 0) /\ (t # <<>> <=> Len(t) > 0)
  BY EmptySeq DEF Goes
<1>2. /\ u \in Seq(Steps) /\ Len(u) = Len(s) + Len(t)
      /\ \A i \in 1..Len(u) : u[i] = IF i <= Len(s) THEN s[i] ELSE t[i - Len(s)]
  BY <1>1
<1> HIDE DEF u
<1>3. ASSUME NEW i \in 1..Len(u), NEW j \in 1..Len(u), i < j PROVE InOrder(u[i], u[j])
  <2>1. CASE j <= Len(s)
    <3>1. u[i] = s[i] /\ u[j] = s[j] /\ i \in 1..Len(s) /\ j \in 1..Len(s)
      BY <1>1, <1>2, <1>3, <2>1
    <3> QED  BY <3>1, <1>3 DEF Goes
  <2>2. CASE i <= Len(s) /\ ~(j <= Len(s))
    <3>1. u[i] = s[i] /\ u[j] = t[j - Len(s)] /\ i \in 1..Len(s) /\ j - Len(s) \in 1..Len(t)
      BY <1>1, <1>2, <1>3, <2>2
    <3> QED  BY <3>1 DEF StepsIn
  <2>3. CASE ~(i <= Len(s))
    <3>1. u[i] = t[i - Len(s)] /\ u[j] = t[j - Len(s)] /\ i - Len(s) \in 1..Len(t)
          /\ j - Len(s) \in 1..Len(t) /\ i - Len(s) < j - Len(s)
      BY <1>1, <1>2, <1>3, <2>3
    <3> QED  BY <3>1 DEF Goes
  <2> QED  BY <2>1, <2>2, <2>3, <1>1, <1>3
<1>4. ASSUME NEW i \in 1..(Len(u) - 1) PROVE Adjacent(u[i], u[i + 1])
  <2>1. CASE i < Len(s)
    <3>1. u[i] = s[i] /\ u[i + 1] = s[i + 1] /\ i \in 1..(Len(s) - 1)
      BY <1>1, <1>2, <2>1
    <3> QED  BY <3>1 DEF Goes
  <2>2. CASE i = Len(s)
    <3>1. u[i] = s[Len(s)] /\ i + 1 \in 1..Len(u) /\ ~(i + 1 <= Len(s)) /\ (i + 1) - Len(s) = 1
          /\ Len(s) > 0 /\ Len(t) > 0
      BY <1>1, <1>2, <2>2
    <3>2. u[i + 1] = t[1]
      BY <1>2, <3>1
    <3> QED  BY <3>1, <3>2, <1>1
  <2>3. CASE i > Len(s)
    <3>1. u[i] = t[i - Len(s)] /\ u[i + 1] = t[(i - Len(s)) + 1] /\ i - Len(s) \in 1..(Len(t) - 1)
      BY <1>1, <1>2, <2>3
    <3> QED  BY <3>1 DEF Goes
  <2> QED  BY <2>1, <2>2, <2>3, <1>1
<1>5. StepsIn(u) = StepsIn(s) \cup StepsIn(t)
  <2>1. ASSUME NEW i \in 1..Len(u) PROVE u[i] \in StepsIn(s) \cup StepsIn(t)
    <3>1. CASE i <= Len(s)
      BY <1>1, <1>2, <3>1 DEF StepsIn
    <3>2. CASE ~(i <= Len(s))
      <4>1. u[i] = t[i - Len(s)] /\ i - Len(s) \in 1..Len(t)  BY <1>1, <1>2, <3>2
      <4> QED  BY <4>1 DEF StepsIn
    <3> QED  BY <3>1, <3>2
  <2>2. ASSUME NEW i \in 1..Len(s) PROVE s[i] \in StepsIn(u)
    <3>1. i \in 1..Len(u) /\ u[i] = s[i]  BY <1>1, <1>2
    <3> QED  BY <3>1 DEF StepsIn
  <2>3. ASSUME NEW i \in 1..Len(t) PROVE t[i] \in StepsIn(u)
    <3>1. i + Len(s) \in 1..Len(u) /\ ~(i + Len(s) <= Len(s)) /\ (i + Len(s)) - Len(s) = i
      BY <1>1, <1>2
    <3>2. u[i + Len(s)] = t[i]  BY <3>1, <1>2
    <3> QED  BY <3>1, <3>2 DEF StepsIn
  <2> QED  BY <2>1, <2>2, <2>3 DEF StepsIn
<1>6. ASSUME u # <<>> PROVE u[Len(u)][1] \notin {"reply", "accept", "follow"}
  <2>0. Len(u) > 0 /\ Len(u) \in 1..Len(u)  BY <1>6, <1>2, <1>1, EmptySeq
  <2>1. CASE t = <<>>
    <3>1. Len(u) = Len(s) /\ s # <<>> /\ u[Len(u)] = s[Len(s)]  BY <2>0, <2>1, <1>1, <1>2
    <3> QED  BY <3>1 DEF Goes
  <2>2. CASE t # <<>>
    <3>1. ~(Len(u) <= Len(s)) /\ Len(u) - Len(s) = Len(t)  BY <2>0, <2>2, <1>1, <1>2
    <3>2. u[Len(u)] = t[Len(t)]  BY <2>0, <3>1, <1>2
    <3> QED  BY <2>2, <3>2 DEF Goes
  <2> QED  BY <2>1, <2>2
<1> QED  BY <1>2, <1>3, <1>4, <1>5, <1>6 DEF Goes, u

\* A list without the chain's steps is in order if the ranks do not fall.
LEMMA Ranked ==
  ASSUME NEW s \in Seq(Steps),
         \A i \in 1..Len(s) : s[i][1] \notin {"reply", "accept", "drop", "follow"},
         \A i \in 1..Len(s) : s[i][1] \in Cleanup => s[i][2] = "openvpn",
         \/ \A i \in 1..Len(s) : s[i][2] \in Vpns
         \/ \A i \in 1..Len(s) : s[i][1] \notin Cleanup,
         \A i, j \in 1..Len(s) : i < j /\ s[i][1] \in {"save", "wipe"} => s[i] # s[j],
         \A i, j \in 1..Len(s) : i < j =>
           IF <<"dropUnit", "proxy">> \in {s[i], s[j]} THEN s[j] # <<"stop", "proxy">>
           ELSE Rank(s[i]) <= Rank(s[j])
  PROVE  Goes(s)
<1>1. \A i, j \in 1..Len(s) : i < j => InOrder(s[i], s[j])
  BY DEF InOrder
<1>2. ASSUME NEW i \in 1..(Len(s) - 1) PROVE Adjacent(s[i], s[i + 1])
  <2>1. i \in 1..Len(s) /\ i + 1 \in 1..Len(s)  OBVIOUS
  <2> QED  BY <2>1 DEF Adjacent
<1>3. ASSUME s # <<>> PROVE Len(s) \in 1..Len(s)
  BY <1>3, EmptySeq
<1> QED  BY <1>1, <1>2, <1>3 DEF Goes

-----------------------------------------------------------------------------
(* What a step leaves of the operation.                                     *)

\* The operation is well typed.
OpTyped(o) ==
  /\ o \in Ops
  /\ \A x \in StepsIn(o.todo) : x[2] \in DOMAIN o.was

\* What is left after some steps of names N, done or given up.
Shrinks(N) ==
  /\ Left' \subseteq Left
  /\ trouble \subseteq trouble' /\ doubt \subseteq doubt'
  /\ \A x \in Left : x \in Left' \/ x[1] \in N
       \/ (x[2] \in trouble' /\ op.new \cup op.was[x[2]] \subseteq doubt')
  /\ Left' # {} => op'.new = op.new /\ op'.was = op.was /\ op'.flow = op.flow

\* Nothing to do.
LEMMA RestingOK == OpTyped(Resting) /\ Fits(Resting) /\ StepsIn(Resting.todo) = {}
     /\ Resting.todo = <<>>
<1>1. Resting.todo = <<>> /\ Len(Resting.todo) = 0 /\ Resting.todo \in Seq(Steps)
  BY DEF Resting
<1>2. StepsIn(Resting.todo) = {}
  BY <1>1 DEF StepsIn
<1>3. Goes(Resting.todo)
  BY <1>1 DEF Goes
<1>4. Resting.was \in Wases
  <2>1. Resting.was = <<>> /\ {} \in SUBSET Services /\ <<>> \in [{} -> SUBSET Sockets]
    BY DEF Resting
  <2> QED  BY <2>1 DEF Wases
<1>5. Resting \in Ops
  <2>1. Elsewhere \in Targets /\ "idle" \in Flows /\ {} \in SUBSET Sockets
    BY DEF Targets, Flows
  <2> QED  BY <2>1, <1>1, <1>4 DEF Ops, Resting
<1> QED  BY <1>1, <1>2, <1>3, <1>5 DEF OpTyped, Fits

\* The parts of an operation.
LEMMA OpParts ==
  ASSUME NEW o, OpTyped(o)
  PROVE  /\ o.flow \in Flows /\ o.new \subseteq Sockets /\ o.to \in Targets
         /\ Of(o.todo) \subseteq DOMAIN o.was /\ o.was \in [DOMAIN o.was -> SUBSET Sockets]
         /\ \A x \in StepsIn(o.todo) : x \in Steps /\ x[1] \in Verbs /\ x[2] \in Services
              /\ x = <<x[1], x[2]>>
         /\ \A s \in DOMAIN o.was : s \in Services /\ o.was[s] \subseteq Sockets
         /\ StepsIn(o.todo) = {} <=> o.todo = <<>>
<1>1. o \in Ops /\ o.flow \in Flows /\ o.new \subseteq Sockets /\ o.to \in Targets
        /\ o.was \in Wases
      /\ o.todo \in Seq(Steps)
  BY DEF OpTyped, Ops
<1>2. PICK D \in SUBSET Services : o.was \in [D -> SUBSET Sockets]
  BY <1>1 DEF Wases
<1>3. Of(o.todo) \subseteq DOMAIN o.was
  <2>1. ASSUME NEW i \in 1..Len(o.todo) PROVE o.todo[i][2] \in DOMAIN o.was
    <3>1. o.todo[i] \in StepsIn(o.todo)  BY DEF StepsIn
    <3> QED  BY <3>1 DEF OpTyped
  <2> QED  BY <2>1 DEF Of
<1>4. \A x \in StepsIn(o.todo) : x \in Steps
  BY <1>1 DEF StepsIn
<1>5. \A x \in Steps : x[1] \in Verbs /\ x[2] \in Services /\ x = <<x[1], x[2]>>
  BY DEF Steps
<1>6. StepsIn(o.todo) = {} <=> o.todo = <<>>
  <2>1. o.todo # <<>> => 1 \in 1..Len(o.todo)  BY <1>1, EmptySeq
  <2>2. o.todo = <<>> => 1..Len(o.todo) = {}  OBVIOUS
  <2> QED  BY <2>1, <2>2 DEF StepsIn
<1> QED  BY <1>1, <1>2, <1>3, <1>4, <1>5, <1>6

\* Some steps at the front are done or skipped.
LEMMA Shortened ==
  ASSUME OpTyped(op), PlanOK, NEW m \in 2..(Len(op.todo) + 1),
         NEW t, t = SubSeq(op.todo, m, Len(op.todo)), op' = Then(t)
  PROVE  /\ OpTyped(op') /\ PlanOK'
         /\ Left' = StepsIn(t) /\ Left' \subseteq Left
         /\ op'.todo = t
         /\ \A x \in Left \ Left' : \E i \in 1..(m - 1) : x = op.todo[i]
         /\ \A x \in Left \ Left', y \in Left' : InOrder(x, y)
         /\ Left' # {} => op'.new = op.new /\ op'.was = op.was /\ op'.flow = op.flow
              /\ op'.to = op.to
         /\ Left' # {} => m <= Len(op.todo) /\ Head(op'.todo) = op.todo[m]
         /\ Left' = {} => op' = Resting /\ m = Len(op.todo) + 1
<1>1. Goes(op.todo)
  BY DEF PlanOK, Fits
<1>2. /\ Goes(t) /\ StepsIn(t) \subseteq StepsIn(op.todo)
      /\ \A x \in StepsIn(op.todo) \ StepsIn(t) : \E i \in 1..(m - 1) : x = op.todo[i]
      /\ t = <<>> <=> m = Len(op.todo) + 1
      /\ t # <<>> => Head(t) = op.todo[m] /\ m <= Len(op.todo)
  <2>1. EndsWith(op.todo, m, t)
    BY <1>1, Suffix
  <2> QED  BY <2>1 DEF EndsWith
<1>3. op \in Ops
  BY DEF OpTyped
<1>4. op'.todo = t /\ OpTyped(op') /\ Fits(op') /\ (op'.todo = <<>> => op' = Resting)
      /\ (t # <<>> => op'.new = op.new /\ op'.was = op.was /\ op'.flow = op.flow /\ op'.to = op.to)
  <2>1. CASE t = <<>>
    <3>1. op' = Resting  BY <2>1 DEF Then
    <3> QED  BY <3>1, <2>1, RestingOK
  <2>2. CASE t # <<>>
    <3>1. op' = [op EXCEPT !.todo = t]  BY <2>2 DEF Then
    <3>2. t \in Seq(Steps)  BY <1>2 DEF Goes
    <3>3. op' \in Ops /\ op'.todo = t /\ op'.new = op.new /\ op'.was = op.was /\ op'.flow = op.flow
            /\ op'.to = op.to
      BY <3>1, <3>2, <1>3 DEF Ops
    <3>4. OpTyped(op')
      BY <3>3, <1>2 DEF OpTyped
    <3>5. \A x \in StepsIn(t) : Belongs(op', x)
      BY <3>3, <1>2 DEF PlanOK, Fits, Belongs
    <3> QED  BY <3>3, <3>4, <3>5, <1>2, <2>2 DEF Fits
  <2> QED  BY <2>1, <2>2
<1>5. StepsIn(t) = {} <=> t = <<>>
  BY <1>4, OpParts
<1>6. PlanOK'
  BY <1>4 DEF PlanOK
<1>7. ASSUME NEW x \in Left \ Left', NEW y \in Left' PROVE InOrder(x, y)
  <2> DEFINE q == op.todo
  <2>1. q \in Seq(Steps) /\ Len(q) \in Nat  BY <1>1 DEF Goes
  <2>2. PICK i \in 1..(m - 1) : x = q[i]  BY <1>2, <1>4 DEF Left
  <2>3. PICK j \in 1..Len(t) : y = t[j]  BY <1>4 DEF Left, StepsIn
  <2>4. t = SubSeq(q, m, Len(q)) /\ m \in 2..(Len(q) + 1)  OBVIOUS
  <2>5. \A a, b \in 1..Len(q) : a < b => InOrder(q[a], q[b])  BY <1>1 DEF Goes
  <2> HIDE DEF q
  <2>6. t \in Seq(Steps) /\ Len(t) = Len(q) - m + 1 /\ t[j] = q[m + j - 1]
    BY <2>1, <2>3, <2>4, SubSeqProperties
  <2>7. i \in 1..Len(q) /\ m + j - 1 \in 1..Len(q) /\ i < m + j - 1
    BY <2>1, <2>2, <2>3, <2>4, <2>6
  <2> QED  BY <2>2, <2>3, <2>5, <2>6, <2>7
<1> QED  BY <1>2, <1>4, <1>5, <1>6, <1>7 DEF Left

\* The first one is done.
LEMMA Proceeds ==
  ASSUME OpTyped(op), PlanOK, NEW n, NEW s, At(n, s), Proceed
  PROVE  /\ OpTyped(op') /\ PlanOK'
         /\ Left = Left' \cup {<<n, s>>}
         /\ Has(n, s) /\ n \in Verbs /\ s \in Services /\ s \in DOMAIN op.was
         /\ \A y \in Left' : InOrder(<<n, s>>, y)
         /\ Belongs(op, <<n, s>>)
         /\ Left' # {} => op'.new = op.new /\ op'.was = op.was /\ op'.flow = op.flow
              /\ op'.to = op.to
         /\ Left' # {} => op'.todo # <<>> /\ Adjacent(<<n, s>>, Head(op'.todo))
         /\ Left' = {} => op' = Resting /\ op'.todo = <<>> /\ n \notin {"reply", "accept", "follow"}
<1>1. Goes(op.todo) /\ op.todo \in Seq(Steps) /\ Len(op.todo) \in Nat /\ op.todo # <<>>
  BY DEF PlanOK, Fits, Goes, At
<1>2. 2 \in 2..(Len(op.todo) + 1) /\ Tail(op.todo) = SubSeq(op.todo, 2, Len(op.todo))
        /\ op.todo[1] = <<n, s>>
      /\ 1 \in 1..Len(op.todo)
  BY <1>1, EmptySeq DEF At
<1>3. op' = Then(Tail(op.todo))
  BY DEF Proceed
<1>4. /\ OpTyped(op') /\ PlanOK'
      /\ Left' = StepsIn(op'.todo) /\ Left' \subseteq Left
      /\ op'.todo = Tail(op.todo)
      /\ \A x \in Left \ Left' : \E i \in 1..(2 - 1) : x = op.todo[i]
      /\ Left' # {} => op'.new = op.new /\ op'.was = op.was /\ op'.flow = op.flow /\ op'.to = op.to
      /\ Left' # {} => 2 <= Len(op.todo) /\ Head(op'.todo) = op.todo[2]
      /\ Left' = {} => op' = Resting /\ 2 = Len(op.todo) + 1
  BY <1>2, <1>3, Shortened
<1>5. <<n, s>> \in Left
  BY <1>2 DEF Left, StepsIn
<1>6. ASSUME NEW x \in Left, x \notin Left' PROVE x = <<n, s>>
  <2>1. PICK i \in 1..(2 - 1) : x = op.todo[i]  BY <1>4, <1>6
  <2>2. i = 1  OBVIOUS
  <2> QED  BY <2>1, <2>2, <1>2
<1>7. ASSUME NEW y \in Left' PROVE InOrder(<<n, s>>, y)
  <2>1. PICK i \in 1..Len(op'.todo) : y = op'.todo[i]  BY <1>4 DEF StepsIn
  <2>2. i + 1 \in 1..Len(op.todo) /\ 1 < i + 1 /\ op'.todo[i] = op.todo[i + 1]
    BY <2>1, <1>4, <1>1
  <2> QED  BY <2>1, <2>2, <1>1, <1>2 DEF Goes
<1>8. Belongs(op, <<n, s>>)
  BY <1>5 DEF PlanOK, Fits, Left
<1>9. <<n, s>> \in Steps /\ s \in DOMAIN op.was
  BY <1>5, OpParts DEF Left, OpTyped
<1>10. n \in Verbs /\ s \in Services
  BY <1>9 DEF Steps
<1>11. ASSUME Left' # {} PROVE op'.todo # <<>> /\ Adjacent(<<n, s>>, Head(op'.todo))
  <2>1. 1 \in 1..(Len(op.todo) - 1)  BY <1>4, <1>1, <1>11
  <2>2. Adjacent(op.todo[1], op.todo[1 + 1])  BY <2>1, <1>1 DEF Goes
  <2>3. op'.todo # <<>>  BY <1>11, <1>4, OpParts
  <2> QED  BY <2>2, <2>3, <1>4, <1>11, <1>2
<1>12. ASSUME Left' = {} PROVE op' = Resting /\ op'.todo = <<>>
         /\ n \notin {"reply", "accept", "follow"}
  <2>1. op' = Resting /\ 2 = Len(op.todo) + 1  BY <1>4, <1>12
  <2>0. \A k \in Nat : 2 = k + 1 => k = 1  OBVIOUS
  <2>2. Len(op.todo) = 1  BY ONLY <2>0, <2>1, <1>1
  <2>3. <<n, s>>[1] \notin {"reply", "accept", "follow"}  BY <2>2, <1>1, <1>2 DEF Goes
  <2> QED  BY <2>1, <2>3, RestingOK
<1> QED  BY <1>4, <1>5, <1>6, <1>7, <1>8, <1>9, <1>10, <1>11, <1>12 DEF Has

\* So the others are left.
LEMMA Advances ==
  ASSUME OpTyped(op), PlanOK, NEW n, NEW s, At(n, s), Proceed, UNCHANGED <<trouble, doubt>>
  PROVE  Shrinks({n})
<1>1. /\ Left = Left' \cup {<<n, s>>}
      /\ Left' # {} => op'.new = op.new /\ op'.was = op.was /\ op'.flow = op.flow
  BY Proceeds
<1>2. \A x \in Left : x \in Left' \/ x[1] \in {n}
  BY <1>1
<1> QED  BY <1>1, <1>2 DEF Shrinks

\* What follows a failed step, a crash or a reboot.
Fails ==
  /\ OpTyped(op') /\ PlanOK'
  /\ Left' \subseteq Left
  /\ trouble \subseteq trouble' /\ doubt \subseteq doubt'
  /\ \A x \in Left : x[2] \in trouble' /\ op.new \cup op.was[x[2]] \subseteq doubt'
  /\ \A x \in Left \ Left', y \in Left' : InOrder(x, y)
  /\ Left' # {} => op'.new = op.new /\ op'.was = op.was /\ op'.flow = op.flow
  /\ (trouble \subseteq Services \cup {"egress"} => trouble' \subseteq Services \cup {"egress"})
  /\ (doubt \subseteq Sockets => doubt' \subseteq Sockets)

\* What Touch notes.
LEMMA Touches ==
  ASSUME OpTyped(op), Touch
  PROVE  /\ trouble \subseteq trouble' /\ doubt \subseteq doubt'
         /\ \A x \in Left : x[2] \in trouble' /\ op.new \cup op.was[x[2]] \subseteq doubt'
         /\ (trouble \subseteq Services \cup {"egress"}
              => trouble' \subseteq Services \cup {"egress"})
         /\ (doubt \subseteq Sockets => doubt' \subseteq Sockets)
<1>1. /\ op.new \subseteq Sockets /\ Of(op.todo) \subseteq DOMAIN op.was
      /\ \A s \in DOMAIN op.was : s \in Services /\ op.was[s] \subseteq Sockets
  BY OpParts
<1>2. ASSUME NEW x \in Left PROVE x[2] \in Of(op.todo)
  BY DEF Left, StepsIn, Of
<1>3. trouble' = trouble \cup Of(op.todo)
  BY DEF Touch
<1>4. doubt' = doubt \cup op.new \cup UNION {op.was[s] : s \in Of(op.todo)}
  BY DEF Touch
<1>5. ASSUME NEW x \in Left PROVE op.was[x[2]] \subseteq doubt'
  BY <1>2, <1>4
<1>6. UNION {op.was[s] : s \in Of(op.todo)} \subseteq Sockets
  BY <1>1
<1> HIDE DEF Left
<1> QED  BY <1>1, <1>2, <1>3, <1>4, <1>5, <1>6

\* A crash and a reboot leave nothing to do.
LEMMA Rests ==
  ASSUME OpTyped(op), op' = Resting, Touch
  PROVE  Fails /\ Left' = {}
<1>1. OpTyped(op') /\ Fits(op') /\ Left' = {}
  BY RestingOK DEF Left
<1>2. PlanOK'
  BY <1>1 DEF PlanOK
<1> QED  BY <1>1, <1>2, Touches DEF Fails

\* A failed step leaves the rest of the list, with the services of what it skips
\* noted.
LEMMA StepsOver ==
  ASSUME OpTyped(op), PlanOK, StepFails
  PROVE  Fails
<1>1. PICK rest \in AfterFailure(op) : op' = Then(rest)
  BY DEF StepFails
<1>2. PICK m \in 2..(Len(op.todo) + 1) : rest = SubSeq(op.todo, m, Len(op.todo))
  BY <1>1 DEF AfterFailure
<1>3. /\ OpTyped(op') /\ PlanOK' /\ Left' \subseteq Left
      /\ \A x \in Left \ Left', y \in Left' : InOrder(x, y)
      /\ Left' # {} => op'.new = op.new /\ op'.was = op.was /\ op'.flow = op.flow /\ op'.to = op.to
  BY <1>1, <1>2, Shortened
<1>4. Touch
  BY DEF StepFails
<1> QED  BY <1>3, <1>4, Touches DEF Fails

\* Either way, what is gone is noted.
LEMMA FailsShrinks ==
  ASSUME Fails PROVE Shrinks({})
BY DEF Fails, Shrinks

\* followOpenVPNPort finds another target and leaves the tunnel alone.
LEMMA FollowSkips ==
  ASSUME OpTyped(op), PlanOK, NEW t, At("follow", t), op' = Then(Tail(Tail(op.todo))),
         UNCHANGED <<trouble, doubt>>
  PROVE  /\ OpTyped(op') /\ PlanOK' /\ Shrinks({"follow", "tryRestart"})
         /\ Has("follow", t) /\ t \in Services /\ Belongs(op, <<"follow", t>>)
              /\ <<"follow", t>> \notin Left'
         /\ \A x \in Left : x \in Left' \/ x = <<"follow", t>> \/ x = <<"tryRestart", t>>
         /\ Left' # {} => op'.to = op.to
<1> DEFINE k == Len(op.todo)
<1>1. Goes(op.todo) /\ op.todo \in Seq(Steps) /\ k \in Nat /\ op.todo # <<>> /\ k > 0
  BY EmptySeq DEF PlanOK, Fits, Goes, At
<1>2. op.todo[1] = <<"follow", t>>
  BY <1>1 DEF At
<1>3. k >= 2
  <2>1. op.todo[k][1] # "follow"  BY <1>1 DEF Goes
  <2>2. k # 1  BY <2>1, <1>2
  <2>3. k \in Nat /\ k > 0  BY <1>1
  <2> HIDE DEF k
  <2> QED  BY <2>2, <2>3
<1>4. op.todo[2] = <<"tryRestart", t>>
  <2>1. 1 \in 1..(k - 1)  BY <1>3, <1>1
  <2>2. Adjacent(op.todo[1], op.todo[1 + 1])  BY <2>1, <1>1 DEF Goes
  <2> QED  BY <2>2, <1>2 DEF Adjacent
<1>5. Tail(Tail(op.todo)) = SubSeq(op.todo, 3, k) /\ 3 \in 2..(k + 1)
  BY <1>1, <1>3
<1>6. /\ OpTyped(op') /\ PlanOK'
      /\ Left' \subseteq Left
      /\ op'.todo = SubSeq(op.todo, 3, k)
      /\ \A x \in Left \ Left' : \E i \in 1..(3 - 1) : x = op.todo[i]
      /\ Left' # {} => op'.new = op.new /\ op'.was = op.was /\ op'.flow = op.flow /\ op'.to = op.to
  BY <1>5, Shortened
<1>7. ASSUME NEW x \in Left, x \notin Left' PROVE x = <<"follow", t>> \/ x = <<"tryRestart", t>>
  <2>1. PICK i \in 1..(3 - 1) : x = op.todo[i]  BY <1>6, <1>7
  <2>2. i = 1 \/ i = 2  OBVIOUS
  <2> QED  BY <2>1, <2>2, <1>2, <1>4
<1>8. <<"follow", t>> \in Left
  <2>1. 1 \in 1..k  BY <1>1
  <2> QED  BY <2>1, <1>2 DEF Left, StepsIn
<1>9. Belongs(op, <<"follow", t>>) /\ t \in Services
  <2>1. Belongs(op, <<"follow", t>>)  BY <1>8 DEF PlanOK, Fits, Left
  <2>2. <<"follow", t>> \in Steps  BY <1>8, OpParts DEF Left
  <2> QED  BY <2>1, <2>2 DEF Steps
<1>10. ASSUME NEW y \in Left' PROVE y # <<"follow", t>>
  <2>1. PICK i \in 1..Len(op'.todo) : y = op'.todo[i]  BY DEF Left, StepsIn
  <2>2. op'.todo \in Seq(Steps) /\ i + 2 \in 1..k /\ 1 < i + 2 /\ op'.todo[i] = op.todo[i + 2]
    <3> DEFINE q == op.todo
               r == op'.todo
    <3>1. q \in Seq(Steps) /\ k = Len(q) /\ k \in Nat /\ k >= 2 /\ r = SubSeq(q, 3, k)
          /\ i \in 1..Len(r)
      BY <1>1, <1>3, <1>6
    <3> HIDE DEF q, r, k
    <3>2. r \in Seq(Steps) /\ Len(r) = k - 2 /\ \A j \in 1..(k - 2) : r[j] = q[3 + j - 1]
      BY <3>1, SubSeqProperties
    <3>3. i + 2 \in 1..k /\ 1 < i + 2 /\ 3 + i - 1 = i + 2 /\ i \in 1..(k - 2)
      BY <3>1, <3>2
    <3>4. r[i] = q[i + 2]
      BY <3>2, <3>3
    <3> QED  BY <3>2, <3>3, <3>4 DEF q, r
  <2>3. 1 \in 1..k  BY <1>1
  <2>4. InOrder(<<"follow", t>>, y)  BY <2>1, <2>2, <2>3, <1>1, <1>2 DEF Goes
  <2> QED  BY <2>4 DEF InOrder
<1>11. Shrinks({"follow", "tryRestart"})
  <2>1. \A x \in Left : x \in Left' \/ x[1] \in {"follow", "tryRestart"}  BY <1>7
  <2> QED  BY <2>1, <1>6 DEF Shrinks
<1> QED  BY <1>6, <1>7, <1>8, <1>9, <1>10, <1>11 DEF Has

-----------------------------------------------------------------------------
(* Steps that do not concern a part of the invariant.                       *)

\* What Shrinks says of one step.
LEMMA Kept ==
  ASSUME NEW N, Shrinks(N), NEW n, NEW s
  PROVE  /\ Has(n, s)' => Has(n, s)
         /\ n \notin N /\ s \notin trouble' /\ Has(n, s) => Has(n, s)'
         /\ n \notin N /\ Has(n, s) => Has(n, s)'
              \/ (s \in trouble' /\ op.new \cup op.was[s] \subseteq doubt')
         /\ Has(n, s)' => op'.new = op.new /\ op'.was = op.was /\ op'.flow = op.flow
BY DEF Shrinks, Has

\* Units and processes.
LEMMA UnitsFrame ==
  ASSUME UnitsOK, NEW N, Shrinks(N), N \cap {"restart", "tryRestart", "stop", "unit"} = {},
         UNCHANGED <<file, to, unit, due, proc, procTo>>
  PROVE  UnitsOK'
<1> SUFFICES ASSUME NEW s \in Services, s \notin trouble' PROVE UnitOK(s)'
  BY DEF UnitsOK
<1>1. UnitOK(s)
  BY DEF UnitsOK, Shrinks
<1>2. \A n : /\ Has(n, s)' => Has(n, s)
             /\ n \notin N /\ Has(n, s) => Has(n, s)'
  BY Kept
<1>3. Off(s)' = Off(s) /\ Quiet(s)' = Quiet(s) /\ Fresh(s)' = Fresh(s)
        /\ (s \in unit' <=> s \in unit)
  BY DEF Off, Quiet, Fresh, Listen
<1>4. /\ Has("restart", s) => Has("restart", s)'
      /\ Has("tryRestart", s) => Has("tryRestart", s)'
      /\ Has("stop", s) => Has("stop", s)'
      /\ Has("unit", s) => Has("unit", s)'
  BY <1>2
<1>5. /\ Has("save", s)' => Has("save", s)
      /\ Has("follow", s)' => Has("follow", s)
      /\ Has("dropUnit", s)' => Has("dropUnit", s)
      /\ Has("forget", s)' => Has("forget", s)
      /\ Has("wipe", s)' => Has("wipe", s)
      /\ Has("start", s)' => Has("start", s)
      /\ Has("restart", s)' => Has("restart", s)
  BY <1>2
<1> QED  BY <1>1, <1>3, <1>4, <1>5 DEF UnitOK, Restarts

\* The tunnels' targets.
LEMMA FollowsFrame ==
  ASSUME Follows, NEW N, Shrinks(N), N \cap {"follow", "save"} = {},
         file' = file, to' = to, meant' = meant
  PROVE  Follows'
<1> SUFFICES ASSUME "openvpn" \notin trouble' PROVE Follows'
  BY DEF Follows
<1>1. "openvpn" \notin trouble /\ VpnTarget' = VpnTarget /\ trouble \subseteq trouble'
  BY DEF Shrinks, VpnTarget
<1>2. \A n, s : Has(n, s)' => Has(n, s) /\ op'.new = op.new /\ op'.was = op.was
        /\ op'.flow = op.flow
  BY Kept
<1>3. \A t : t \notin trouble' /\ Has("follow", t) => Has("follow", t)'
  BY Kept
<1>4. Has("save", "openvpn") => Has("save", "openvpn")'
  BY Kept
<1>5. \A t \in (meant \ trouble)' :
        \/ to'[t] \in VpnTarget'
        \/ Has("follow", t)' /\ <<"tcp", to'[t]>> \in op'.was["openvpn"]
  BY <1>1, <1>2, <1>3 DEF Follows, FollowParts
<1>6. (\E t \in Tunnels : Has("follow", t)') =>
         /\ "openvpn" \in DOMAIN op'.was
         /\ Has("save", "openvpn")' \/ file'["openvpn"] = op'.new
  BY <1>1, <1>2, <1>4 DEF Follows, FollowParts
<1>7. op'.flow = "move" /\ Has("save", "openvpn")' =>
            /\ file'["openvpn"] = op'.was["openvpn"]
            /\ \/ op'.new = file'["openvpn"]
               \/ VpnTarget' = {} /\ op'.new \cap ({"tcp"} \X TcpPorts) = {}
                    /\ ~\E t \in Tunnels : Has("follow", t)'
               \/ \A t \in Tunnels \ trouble' : Has("follow", t)'
  BY <1>1, <1>2, <1>3 DEF Follows, FollowParts
<1> QED  BY <1>5, <1>6, <1>7 DEF Follows, FollowParts

\* What is to be open.
LEMMA OpenFrame ==
  ASSUME Open, OpTyped(op), NEW N, Shrinks(N), file \in [Services -> SUBSET Sockets],
         N \cap {"openLive", "openLine", "netLines", "forget", "wipe", "save"} = {},
         file' = file, live \cap Sockets \subseteq live', lines \cap Sockets \subseteq lines'
  PROVE  Open'
<1> SUFFICES ASSUME NEW s \in Claimants, s \notin trouble' PROVE OpenOK(s)'
  BY DEF Open
<1>1. OpenOK(s) /\ doubt \subseteq doubt' /\ s \in Services
  BY DEF Open, Shrinks, Services
<1>2. \A n : /\ Has(n, s)' => Has(n, s) /\ op'.new = op.new /\ op'.was = op.was
                  /\ op'.flow = op.flow
             /\ n \notin N /\ Has(n, s) => Has(n, s)'
  BY Kept
<1>3. /\ Has("openLive", s) => Has("openLive", s)'
      /\ Has("openLine", s) => Has("openLine", s)'
      /\ Has("netLines", s) => Has("netLines", s)'
      /\ Has("forget", s) => Has("forget", s)'
      /\ Has("wipe", s) => Has("wipe", s)'
      /\ Has("save", s) => Has("save", s)'
  BY <1>2
<1>4. op.new \subseteq Sockets /\ file[s] \subseteq Sockets
  BY <1>1, OpParts
<1>5. (Going(s) => Going(s)') /\ (Opens(s) => Opens(s)')
  BY <1>3 DEF Going, Opens
<1>6. \A k \in file'[s] \ doubt' :
        /\ k \in live' \/ Going(s)' \/ (k \in op'.new /\ Has("openLive", s)')
        /\ k \in lines' \/ Going(s)' \/ (k \in op'.new /\ Opens(s)')
  <2>1. Opens(s)' => op'.new = op.new
    BY <1>2 DEF Opens
  <2> QED  BY <1>1, <1>2, <1>3, <1>4, <1>5, <2>1 DEF OpenOK
<1>7. Has("save", s)' =>
       /\ Has("openLive", s)' \/ op'.new \ doubt' \subseteq live'
       /\ Opens(s)' \/ op'.new \ doubt' \subseteq lines'
  BY <1>1, <1>2, <1>3, <1>4, <1>5 DEF OpenOK
<1>8. Has("netLines", s)' => Has("openLive", s)' \/ op'.new \ doubt' \subseteq live'
  BY <1>1, <1>2, <1>3, <1>4, <1>5 DEF OpenOK
<1>9. Has("closeLive", s)' \/ Has("closeLine", s)' =>
       Has("save", s)' \/ Has("forget", s)' \/ file'[s] \subseteq op'.new
  BY <1>1, <1>2, <1>3 DEF OpenOK
<1>10. Has("closeConf", s)' \/ Has("sweepLive", s)' \/ Has("sweepLines", s)' => Going(s)'
  BY <1>1, <1>2, <1>5 DEF OpenOK
<1> QED  BY <1>6, <1>7, <1>8, <1>9, <1>10 DEF OpenOK

\* Who accounts for what is open.
LEMMA AccountedFrame ==
  ASSUME Accounted, NEW N, Shrinks(N), N \cap {"save", "closeLive", "closeLine"} = {},
         file' = file, live' \cap Sockets \subseteq live, lines' \cap Sockets \subseteq lines
  PROVE  Accounted'
<1>1. Claimed' = Claimed /\ doubt \subseteq doubt'
  BY DEF Claimed, Shrinks
<1>2. \A n, s : /\ n \notin N /\ Has(n, s) => Has(n, s)' \/ op.new \cup op.was[s] \subseteq doubt'
                /\ Has(n, s)' => op'.new = op.new /\ op'.was = op.was
  BY Kept
<1>3. Pending \subseteq Pending' \cup doubt'
  <2>1. ASSUME NEW c \in Claimants, Has("save", c) PROVE op.new \subseteq Pending' \cup doubt'
    <3>1. Has("save", c)' \/ op.new \subseteq doubt'
      BY <1>2, <2>1
    <3>2. Has("save", c)' => c \in Saving' /\ op'.new = op.new
      BY <1>2 DEF Saving
    <3> QED  BY <3>1, <3>2 DEF Pending
  <2> QED  BY <2>1 DEF Pending, Saving
<1>4. ASSUME NEW n, n \notin N PROVE Closing(n) \subseteq Closing(n)' \cup doubt'
  <2>1. ASSUME NEW c \in Claimants, Has(n, c) PROVE op.was[c] \subseteq Closing(n)' \cup doubt'
    <3>1. Has(n, c)' \/ op.was[c] \subseteq doubt'
      BY <1>2, <2>1, <1>4
    <3>2. Has(n, c)' => op'.was = op.was
      BY <1>2
    <3> QED  BY <3>1, <3>2 DEF Closing
  <2> QED  BY <2>1 DEF Closing
<1>5. Closing("closeLive") \subseteq Closing("closeLive")' \cup doubt'
  BY <1>4
<1>6. Closing("closeLine") \subseteq Closing("closeLine")' \cup doubt'
  BY <1>4
<1> QED  BY <1>1, <1>3, <1>5, <1>6 DEF Accounted

\* What is to be closed.
LEMMA ShutFrame ==
  ASSUME Shut, NEW N, Shrinks(N), file \in [Services -> SUBSET Sockets],
         N \cap {"save", "closeLive", "closeLine"} = {},
         file' = file, live' \cap Sockets \subseteq live, lines' \cap Sockets \subseteq lines
  PROVE  Shut'
<1> SUFFICES ASSUME NEW s \in Claimants PROVE ShutOK(s)'
  BY DEF Shut
<1>1. ShutOK(s) /\ doubt \subseteq doubt' /\ s \in Services /\ HeldByOther(s)' = HeldByOther(s)
      /\ file[s] \subseteq Sockets /\ file'[s] = file[s]
  BY DEF Shut, Shrinks, Services, HeldByOther
<1>2. \A n : /\ Has(n, s)' => Has(n, s) /\ op'.new = op.new /\ op'.was = op.was
             /\ n \notin N /\ Has(n, s) => Has(n, s)' \/ op.new \cup op.was[s] \subseteq doubt'
  BY Kept
<1>3. \A n \in Verbs : Has(n, s) => file[s] \subseteq op.was[s] \cup op.new
  BY <1>1 DEF ShutOK
<1>4. {"save", "closeLive", "closeLine", "forget"} \subseteq Verbs
  BY DEF Verbs
<1>5. /\ Has("closeLive", s) => Has("closeLive", s)' \/ file[s] \subseteq doubt'
      /\ Has("closeLine", s) => Has("closeLine", s)' \/ file[s] \subseteq doubt'
      /\ Has("save", s) => Has("save", s)' \/ op.new \subseteq doubt'
  BY <1>2, <1>3, <1>4
<1>6. \A n \in Verbs : Has(n, s)' => file'[s] \subseteq op'.was[s] \cup op'.new
  BY <1>1, <1>2, <1>3
<1>7. Has("save", s)' => \/ file'[s] \subseteq op'.new \cup doubt'
                         \/ Has("closeLive", s)' /\ Has("closeLine", s)'
  BY <1>1, <1>2, <1>5 DEF ShutOK
<1>8. Has("openLive", s)' \/ Opens(s)' \/ Has("closeLive", s)' \/ Has("closeLine", s)' =>
        Has("save", s)' \/ op'.new \subseteq file'[s] \cup doubt'
  <2>1. Opens(s)' => Opens(s) /\ op'.new = op.new
    BY <1>2 DEF Opens
  <2> QED  BY <1>1, <1>2, <1>5, <2>1 DEF ShutOK
<1>9. Has("forget", s)' =>
       /\ Has("closeLive", s)' \/ file'[s] \subseteq doubt'
            \/ (s = "extra" /\ live' \cap file'[s] \subseteq doubt' \cup HeldByOther(s)')
       /\ Has("closeLine", s)' \/ file'[s] \subseteq doubt'
            \/ (s = "extra" /\ lines' \cap file'[s] \subseteq doubt' \cup HeldByOther(s)')
  BY <1>1, <1>2, <1>5 DEF ShutOK
<1> QED  BY <1>6, <1>7, <1>8, <1>9 DEF ShutOK

\* OpenVPN's removal, when nothing fails.
LEMMA WipingFrame ==
  ASSUME Wiping, NEW N, Shrinks(N), N \cap {"closeConf", "sweepLines", "forget"} = {},
         UNCHANGED <<trouble, doubt>>, \A x \in Left : x \in Left' \/ x[1] \in N,
         file' = file, live' \cap Sockets \subseteq live, lines' \cap Sockets \subseteq lines
  PROVE  Wiping'
<1> SUFFICES ASSUME Has("wipe", "openvpn")' PROVE Wiping'
  BY DEF Wiping
<1>1. \A n, s : /\ Has(n, s)' => Has(n, s)
                /\ n \notin N /\ Has(n, s) => Has(n, s)'
  BY DEF Has, Shrinks
<1>2. HeldByOther("openvpn")' = HeldByOther("openvpn")
  BY DEF HeldByOther
<1>3. /\ Has("wipe", "openvpn")
      /\ Has("closeConf", "openvpn")' <=> Has("closeConf", "openvpn")
      /\ Has("sweepLines", "openvpn")' <=> Has("sweepLines", "openvpn")
      /\ Has("forget", "extra")' <=> Has("forget", "extra")
  BY <1>1
<1>4. (\E x \in Left' : x[2] = "extra") => \E x \in Left : x[2] = "extra"
  BY DEF Shrinks
<1> QED  BY <1>2, <1>3, <1>4 DEF Wiping

\* A removal opens nothing.
LEMMA Removing ==
  ASSUME OpTyped(op), PlanOK, NEW n \in Demolition, NEW s, Has(n, s)
  PROVE  /\ op.flow \in {"remove", "uninstall"} /\ op.new = {}
         /\ \A m \in Building : \A c : ~Has(m, c)
         /\ Pending = {}
<1>1. Belongs(op, <<n, s>>) /\ Demolition \cap Building = {}
  BY DEF Has, PlanOK, Fits, Left, Demolition, Building, Cleanup
<1>2. op.flow \in {"remove", "uninstall"} /\ op.new = {}
  BY <1>1 DEF Belongs
<1>3. \A m \in Building : \A c : ~Has(m, c)
  BY <1>2 DEF Has, PlanOK, Fits, Left, Belongs
<1> QED  BY <1>2, <1>3 DEF Pending

\* OpenVPN's removal, when a step fails: the skipped ones' sockets are in doubt.
LEMMA WipingFails ==
  ASSUME OpTyped(op), PlanOK, Wiping, Accounted, Shut, Fails,
         file' = file, live' \cap Sockets \subseteq live \cup lines,
              lines' \cap Sockets \subseteq lines,
         Left' # {} => live' = live
  PROVE  Wiping'
<1> SUFFICES ASSUME Has("wipe", "openvpn")' PROVE Wiping'
  BY DEF Wiping
<1>1. Left' # {} /\ Left' \subseteq Left /\ doubt \subseteq doubt' /\ trouble \subseteq trouble'
        /\ live' = live
  BY DEF Has, Fails
<1>2. Has("wipe", "openvpn") /\ HeldByOther("openvpn")' = HeldByOther("openvpn")
  BY <1>1 DEF Has, HeldByOther
<1>3. "wipe" \in Demolition /\ "wipe" \in Verbs /\ "forget" \in Verbs /\ "openvpn" \in Claimants
        /\ "extra" \in Claimants
  BY DEF Demolition, Cleanup, Verbs, Claimants, Vpns
<1>4. op.new = {} /\ Pending = {}
  BY <1>2, <1>3, Removing
<1>5. file["openvpn"] \subseteq doubt'
  <2>1. op.was["openvpn"] \subseteq doubt'
    BY <1>2 DEF Has, Fails
  <2> QED  BY <2>1, <1>2, <1>3, <1>4 DEF Shut, ShutOK
<1>6. \A n : Closing(n) \subseteq doubt'
  <2>1. ASSUME NEW n, NEW c, Has(n, c) PROVE op.was[c] \subseteq doubt'
    BY <2>1 DEF Has, Fails
  <2> QED  BY <2>1 DEF Closing
<1>7. Claimed \subseteq HeldByOther("openvpn") \cup file["openvpn"]
  BY DEF Claimed, HeldByOther
<1>8. /\ live \cap Sockets \subseteq doubt' \cup HeldByOther("openvpn")
      /\ lines \cap Sockets \subseteq doubt' \cup HeldByOther("openvpn")
  BY <1>1, <1>4, <1>5, <1>6, <1>7 DEF Accounted
<1>9. ASSUME NEW x \in Left', x[2] = "extra"
      PROVE Has("closeConf", "openvpn")' /\ Has("sweepLines", "openvpn")'
  <2>1. Has("closeConf", "openvpn") /\ Has("sweepLines", "openvpn")
    BY <1>1, <1>2, <1>9 DEF Wiping
  <2>2. Rank(x) \in {0, 1, 2}
    BY <1>9 DEF Rank
  <2>3. Rank(<<"closeConf", "openvpn">>) = 4 /\ Rank(<<"sweepLines", "openvpn">>) = 4
    BY DEF Rank
  <2>4. <<"dropUnit", "proxy">> \notin {<<"closeConf", "openvpn">>, x}
        /\ <<"dropUnit", "proxy">> \notin {<<"sweepLines", "openvpn">>, x}
    BY <1>9
  <2>5. /\ ~InOrder(<<"closeConf", "openvpn">>, x)
        /\ ~InOrder(<<"sweepLines", "openvpn">>, x)
    BY <2>2, <2>3, <2>4 DEF InOrder
  <2> QED  BY <2>1, <2>5, <1>9 DEF Has, Fails
<1>10. Has("forget", "extra")' \/ file["extra"] = {}
         \/ ("extra" \in trouble' /\ file["extra"] \subseteq doubt')
  <2>1. CASE Has("forget", "extra")
    <3>1. op.was["extra"] \subseteq doubt' /\ "extra" \in trouble'
      BY <2>1 DEF Has, Fails
    <3> QED  BY <3>1, <2>1, <1>3, <1>4 DEF Shut, ShutOK
  <2>2. CASE ~Has("forget", "extra")
    BY <2>2, <1>1, <1>2 DEF Wiping
  <2> QED  BY <2>1, <2>2
<1> QED  BY <1>1, <1>2, <1>8, <1>9, <1>10 DEF Wiping

\* Masquerading.
LEMMA MasqsFrame ==
  ASSUME Masqs, NEW N, Shrinks(N), file' = file,
         N \cap {"masq", "masqLine", "netLines", "save", "unmasq", "unmasqLine", "dropLines",
              "forget", "wipe"} = {},
         \A v \in Vpns : (Masq(v) \in live' <=> Masq(v) \in live)
              /\ (Masq(v) \in lines' <=> Masq(v) \in lines)
  PROVE  Masqs'
<1> SUFFICES ASSUME NEW v \in Vpns, v \notin trouble' PROVE MasqOK(v)'
  BY DEF Masqs
<1>1. MasqOK(v)
  BY DEF Masqs, Shrinks
<1>2. \A n : n \notin N => (Has(n, v)' <=> Has(n, v))
  BY Kept
<1>3. /\ Has("masq", v)' <=> Has("masq", v)
      /\ Has("masqLine", v)' <=> Has("masqLine", v)
      /\ Has("netLines", v)' <=> Has("netLines", v)
      /\ Has("save", v)' <=> Has("save", v)
      /\ Has("unmasq", v)' <=> Has("unmasq", v)
      /\ Has("unmasqLine", v)' <=> Has("unmasqLine", v)
      /\ Has("dropLines", v)' <=> Has("dropLines", v)
      /\ Has("forget", v)' <=> Has("forget", v)
      /\ Has("wipe", v)' <=> Has("wipe", v)
  BY <1>2
<1>4. Masq(v)' = Masq(v)
  BY DEF Masq
<1>5. Going(v)' <=> Going(v)
  BY <1>3 DEF Going
<1> QED  BY <1>1, <1>3, <1>4, <1>5 DEF MasqOK

-----------------------------------------------------------------------------
(* The lists in the FORWARD chain and in rc.local.                          *)

\* Lists of up to three elements.
LEMMA OneTwoThree ==
  ASSUME NEW S, NEW x \in S, NEW y \in S, NEW z \in S
  PROVE  /\ <<x>> \o <<>> = <<x>> /\ <<>> \o <<x>> = <<x>>
         /\ <<x>> \o <<y>> = <<x, y>>
         /\ <<x>> \o <<y, z>> = <<x, y, z>> /\ <<x, y>> \o <<z>> = <<x, y, z>>
         /\ <<x, y, z>> \o <<>> = <<x, y, z>>
<1> DEFINE o == <<x>>
           t == <<x, y>>
           u == <<y, z>>
           h == <<x, y, z>>
           q == <<y>>
           r == <<z>>
<1>1. /\ o \in Seq(S) /\ t \in Seq(S) /\ h \in Seq(S) /\ <<>> \in Seq(S) /\ q \in Seq(S)
           /\ r \in Seq(S)
      /\ u \in Seq(S)
      /\ Len(o) = 1 /\ Len(t) = 2 /\ Len(h) = 3 /\ Len(<<>>) = 0 /\ Len(q) = 1 /\ Len(r) = 1
           /\ Len(u) = 2
      /\ o[1] = x /\ t[1] = x /\ t[2] = y /\ h[1] = x /\ h[2] = y /\ h[3] = z /\ q[1] = y
           /\ r[1] = z
      /\ u[1] = y /\ u[2] = z
  OBVIOUS
<1> HIDE DEF o, t, h, q, r, u
<1>2. o \o <<>> = o /\ <<>> \o o = o /\ h \o <<>> = h
  BY <1>1, ConcatEmptySeq
<1>3. o \o q = t
  <2> DEFINE c == o \o q
  <2>0. c \in Seq(S) /\ Len(c) = Len(o) + Len(q)
          /\ \A i \in 1..(Len(o) + Len(q)) : c[i] = IF i <= Len(o) THEN o[i] ELSE q[i - Len(o)]
    BY <1>1, ConcatProperties
  <2> HIDE DEF c
  <2>1. c \in Seq(S) /\ Len(c) = 2 /\ c[1] = x /\ c[2] = y
    BY <1>1, <2>0
  <2>2. \A i \in 1..2 : c[i] = t[i]
    BY <2>1, <1>1, \A i \in 1..2 : i = 1 \/ i = 2
  <2>3. c = t
    BY <2>1, <2>2, <1>1, SeqEqual
  <2> QED  BY <2>3 DEF c
<1>4. o \o u = h
  <2> DEFINE c == o \o u
  <2>0. c \in Seq(S) /\ Len(c) = Len(o) + Len(u)
          /\ \A i \in 1..(Len(o) + Len(u)) : c[i] = IF i <= Len(o) THEN o[i] ELSE u[i - Len(o)]
    BY <1>1, ConcatProperties
  <2> HIDE DEF c
  <2>1. c \in Seq(S) /\ Len(c) = 3 /\ c[1] = x /\ c[2] = y /\ c[3] = z
    BY <1>1, <2>0
  <2>2. \A i \in 1..3 : c[i] = h[i]
    BY <2>1, <1>1, \A i \in 1..3 : i = 1 \/ i = 2 \/ i = 3
  <2>3. c = h
    BY <2>1, <2>2, <1>1, SeqEqual
  <2> QED  BY <2>3 DEF c
<1>5. t \o r = h
  <2> DEFINE c == t \o r
  <2>0. c \in Seq(S) /\ Len(c) = Len(t) + Len(r)
          /\ \A i \in 1..(Len(t) + Len(r)) : c[i] = IF i <= Len(t) THEN t[i] ELSE r[i - Len(t)]
    BY <1>1, ConcatProperties
  <2> HIDE DEF c
  <2>1. c \in Seq(S) /\ Len(c) = 3 /\ c[1] = x /\ c[2] = y /\ c[3] = z
    BY <1>1, <2>0
  <2>2. \A i \in 1..3 : c[i] = h[i]
    BY <2>1, <1>1, \A i \in 1..3 : i = 1 \/ i = 2 \/ i = 3
  <2>3. c = h
    BY <2>1, <2>2, <1>1, SeqEqual
  <2> QED  BY <2>3 DEF c
<1> QED  BY <1>2, <1>3, <1>4, <1>5 DEF o, t, h, q, r, u

\* The lists of the chain.
LEMMA Chains ==
  ASSUME NEW e, e \notin {"drop", "reply"}
  PROVE  /\ Forward(e) = <<"drop", e, "reply">>
         /\ <<"reply">> # <<>> /\ Len(<<"reply">>) = 1
         /\ ~Contains(<<>>, "reply") /\ <<"reply">> \o <<>> = <<"reply">>
         /\ ~Contains(<<"reply">>, e) /\ <<e>> \o <<"reply">> = <<e, "reply">>
         /\ ~Contains(<<e, "reply">>, "drop") /\ <<"drop">> \o <<e, "reply">> = Forward(e)
         /\ Contains(Forward(e), "reply") /\ Contains(Forward(e), e) /\ Contains(Forward(e), "drop")
         /\ Reverse(<<>>) = <<>> /\ Reverse(<<"reply", e, "drop">>) = Forward(e)
<1>1. Forward(e) = <<"drop", e, "reply">>
  BY DEF Forward
<1>2. /\ ~Contains(<<>>, "reply") /\ ~Contains(<<"reply">>, e) /\ ~Contains(<<e, "reply">>, "drop")
  BY DEF Contains
<1>3. <<"reply">> \o <<>> = <<"reply">> /\ <<e>> \o <<"reply">> = <<e, "reply">>
      /\ <<"drop">> \o <<e, "reply">> = <<"drop", e, "reply">>
  <2>1. "reply" \in {"reply", "drop", e} /\ "drop" \in {"reply", "drop", e}
          /\ e \in {"reply", "drop", e}  OBVIOUS
  <2> QED  BY ONLY <2>1, OneTwoThree
<1>4. Contains(Forward(e), "reply") /\ Contains(Forward(e), e) /\ Contains(Forward(e), "drop")
  <2> DEFINE f == <<"drop", e, "reply">>
  <2>1. Len(f) = 3 /\ f[1] = "drop" /\ f[2] = e /\ f[3] = "reply" /\ 1 \in 1..3 /\ 2 \in 1..3
          /\ 3 \in 1..3
    OBVIOUS
  <2> QED  BY <2>1, <1>1 DEF Contains
<1>5. Reverse(<<>>) = <<>>
  BY DEF Reverse
<1>6. Reverse(<<"reply", e, "drop">>) = <<"drop", e, "reply">>
  <2> DEFINE g == <<"reply", e, "drop">>
             f == <<"drop", e, "reply">>
  <2>1. Len(g) = 3 /\ g[1] = "reply" /\ g[2] = e /\ g[3] = "drop"
        /\ Len(f) = 3 /\ f[1] = "drop" /\ f[2] = e /\ f[3] = "reply" /\ f = [i \in 1..3 |-> f[i]]
    OBVIOUS
  <2>2. \A i \in 1..3 : f[i] = g[(3 - i) + 1]
    <3>1. \A i \in 1..3 : i = 1 \/ i = 2 \/ i = 3  OBVIOUS
    <3>2. (3 - 1) + 1 = 3 /\ (3 - 2) + 1 = 2 /\ (3 - 3) + 1 = 1  OBVIOUS
    <3> HIDE DEF f, g
    <3> QED  BY <2>1, <3>1, <3>2
  <2>3. Reverse(g) = [i \in 1..3 |-> g[(3 - i) + 1]]
    BY <2>1 DEF Reverse
  <2> HIDE DEF f, g
  <2>4. [i \in 1..3 |-> g[(3 - i) + 1]] = [i \in 1..3 |-> f[i]]
    BY <2>2
  <2>5. Reverse(g) = f
    BY <2>1, <2>3, <2>4
  <2> QED  BY <2>5 DEF f, g
<1> QED  BY <1>1, <1>2, <1>3, <1>4, <1>5, <1>6

\* The egress is none of the words for the other rules.
LEMMA EgressIsNoWord ==
  ASSUME egress \in Egresses PROVE egress \notin {"drop", "reply"}
BY ParametersOK

\* The list rc.local makes, as often as it is persisted.
LEMMA Persists ==
  ASSUME egress \in Egresses, NEW old, old \in {<<>>, <<"reply", egress, "drop">>}
  PROVE  Persisted(old) = <<"reply", egress, "drop">>
<1>0. egress \notin {"drop", "reply"}
  BY EgressIsNoWord
<1>1. CASE old = <<>>
  <2>1. ~Contains(old, "reply") /\ ~Contains(old, egress) /\ ~Contains(old, "drop")
    BY <1>1 DEF Contains
  <2>2. Persisted(old) = <<>> \o <<"reply">> \o <<egress>> \o <<"drop">>
    BY <2>1, <1>1 DEF Persisted, IfMissing
  <2>3. "reply" \in {"reply", "drop", egress} /\ "drop" \in {"reply", "drop", egress}
          /\ egress \in {"reply", "drop", egress}
    OBVIOUS
  <2>4. <<>> \o <<"reply">> = <<"reply">> /\ <<"reply">> \o <<egress>> = <<"reply", egress>>
        /\ <<"reply", egress>> \o <<"drop">> = <<"reply", egress, "drop">>
    BY ONLY <2>3, OneTwoThree
  <2> QED  BY <2>2, <2>4
<1>2. CASE old = <<"reply", egress, "drop">>
  <2>0. Len(old) = 3 /\ old[1] = "reply" /\ old[2] = egress /\ old[3] = "drop" /\ 1 \in 1..3
          /\ 2 \in 1..3 /\ 3 \in 1..3
    BY <1>2
  <2>1. Contains(old, "reply") /\ Contains(old, egress) /\ Contains(old, "drop")
    BY <2>0 DEF Contains
  <2>2. Persisted(old) = old \o <<>> \o <<>> \o <<>>
    BY <2>1 DEF Persisted, IfMissing
  <2>3. old \o <<>> = old
    <3>1. "reply" \in {"reply", "drop", egress} /\ "drop" \in {"reply", "drop", egress}
            /\ egress \in {"reply", "drop", egress}
      OBVIOUS
    <3> QED  BY <3>1, OneTwoThree, <1>2
  <2> QED  BY <2>2, <2>3, <1>2
<1> QED  BY <1>1, <1>2

\* A complete list, or an empty one, stays as it is.
LEMMA Thins ==
  ASSUME egress \in Egresses, NEW old, old \in {<<>>, <<"reply", egress, "drop">>},
         NEW kept \in Thinned(old)
  PROVE  kept = old
<1> DEFINE F == ToSet(Forward(egress))
<1>0. egress \notin {"drop", "reply"}
  BY EgressIsNoWord
<1>1. PICK n \in 0..3 : kept \in [1..n -> F]
  BY DEF Thinned
<1>2. /\ ToSet(kept) = ToSet(old) \cap F
      /\ \A i, j \in 1..Len(kept) : i < j =>
           \E k, l \in 1..Len(old) : k < l /\ old[k] = kept[i] /\ old[l] = kept[j]
  BY DEF Thinned
<1>3. F = {"drop", egress, "reply"}
  <2> DEFINE f == Forward(egress)
  <2>1. DOMAIN f = 1..3 /\ f[1] = "drop" /\ f[2] = egress /\ f[3] = "reply"
    BY DEF Forward
  <2>2. \A i \in 1..3 : i = 1 \/ i = 2 \/ i = 3  OBVIOUS
  <2> HIDE DEF f
  <2>3. ToSet(f) = {"drop", egress, "reply"}  BY <2>1, <2>2 DEF ToSet
  <2> QED  BY <2>3 DEF f
<1>4. Len(kept) = n /\ DOMAIN kept = 1..n /\ kept \in Seq(F) /\ ToSet(kept) = {kept[i] : i \in 1..n}
  BY <1>1 DEF ToSet
<1>5. CASE old = <<>>
  <2>1. ToSet(old) = {}  BY <1>5 DEF ToSet
  <2>2. n = 0  BY <2>1, <1>2, <1>4
  <2> QED  BY <2>2, <1>4, <1>5, EmptySeq
<1>6. CASE old = <<"reply", egress, "drop">>
  <2>0. Len(old) = 3 /\ old[1] = "reply" /\ old[2] = egress /\ old[3] = "drop" /\ DOMAIN old = 1..3
    BY <1>6
  <2>1. \A i \in 1..3 : i = 1 \/ i = 2 \/ i = 3  OBVIOUS
  <2> HIDE DEF F
  <2>2. ToSet(old) = {"reply", egress, "drop"}
    BY <2>0, <2>1 DEF ToSet
  <2>3. {kept[i] : i \in 1..n} = {"reply", egress, "drop"}
    BY <2>2, <1>2, <1>3, <1>4
  <2>4. PICK a \in 1..n : kept[a] = "reply"
    BY <2>3
  <2>5. PICK b \in 1..n : kept[b] = egress
    BY <2>3
  <2>6. PICK c \in 1..n : kept[c] = "drop"
    BY <2>3
  <2>7. a # b /\ a # c /\ b # c
    BY <2>4, <2>5, <2>6, <1>0
  <2>8. ~(b < a) /\ ~(c < a) /\ ~(c < b)
    BY <2>0, <2>1, <2>4, <2>5, <2>6, <1>0, <1>2, <1>4
  <2>9. n = 3 /\ a = 1 /\ b = 2 /\ c = 3
    BY <2>7, <2>8
  <2>10. kept \in Seq(F) /\ Len(kept) = 3 /\ kept[1] = "reply" /\ kept[2] = egress
           /\ kept[3] = "drop"
    BY <2>9, <2>4, <2>5, <2>6, <1>4
  <2> QED  BY <2>10, <2>0, <2>1, <1>6
<1> QED  BY <1>5, <1>6

\* At another step than those of the chain it is complete or empty.
LEMMA ChainWhole ==
  ASSUME ChainOK, trouble \cap (Vpns \cup {"egress"}) = {}, ~Now("accept"), ~Now("drop")
  PROVE  /\ fwdLines \in {<<>>, <<"reply", egress, "drop">>}
         /\ fwd \in {<<>>, Forward(egress)}
BY DEF ChainOK

\* The step that an action takes is the one that is next.
LEMMA NowHere ==
  ASSUME NEW n, NEW s, At(n, s), NEW m
  PROVE  Now(m) <=> m = n
BY DEF At, Now

\* A step that is none of the chain's: the chain stays, or is emptied.
LEMMA ChainKeeps ==
  ASSUME ChainOK, OpTyped(op), PlanOK, NEW n, NEW s, At(n, s), Proceed,
         n \notin {"reply", "accept", "drop"},
         UNCHANGED <<trouble, egress>>,
         fwd' \in {fwd, <<>>},
         fwdLines \in {<<>>, <<"reply", egress, "drop">>}
              => fwdLines' \in {<<>>, <<"reply", egress, "drop">>}
  PROVE  ChainOK'
<1> SUFFICES ASSUME trouble \cap (Vpns \cup {"egress"}) = {} PROVE ChainOK'
  BY DEF ChainOK
<1>1. fwdLines' \in {<<>>, <<"reply", egress, "drop">>} /\ fwd' \in {<<>>, Forward(egress)}
  BY NowHere, ChainWhole
<1>2. ~Now("accept")' /\ ~Now("drop")'
  <2>1. CASE Left' = {}
    BY <2>1, Proceeds DEF Now
  <2>2. CASE Left' # {}
    <3>1. Adjacent(<<n, s>>, Head(op'.todo))
      BY <2>2, Proceeds
    <3> QED  BY <3>1 DEF Now, Adjacent
  <2> QED  BY <2>1, <2>2
<1>3. Forward(egress)' = Forward(egress)
  BY DEF Forward
<1> QED  BY <1>1, <1>2, <1>3 DEF ChainOK

\* One of the chain's three rules.
LEMMA ChainGrows ==
  ASSUME ChainOK, OpTyped(op), PlanOK, egress \in Egresses, NEW v,
         NEW n \in {"reply", "accept", "drop"},
         At(n, v), Proceed, UNCHANGED <<trouble, egress, fwdLines>>,
         NEW spec, spec = IF n = "accept" THEN egress ELSE n,
         fwd' = IF Contains(fwd, spec) THEN fwd ELSE <<spec>> \o fwd
  PROVE  ChainOK'
<1> SUFFICES ASSUME trouble \cap (Vpns \cup {"egress"}) = {} PROVE ChainOK'
  BY DEF ChainOK
<1>0. egress \notin {"drop", "reply"}
  BY EgressIsNoWord
<1>1. fwdLines' \in {<<>>, <<"reply", egress, "drop">>}
  BY DEF ChainOK
<1>2. Forward(egress)' = Forward(egress)
  BY DEF Forward
<1>3. \A m : Now(m) <=> m = n
  BY NowHere
<1>4. n # "drop" => /\ op'.todo # <<>>
                    /\ Adjacent(<<n, v>>, Head(op'.todo))
  BY Proceeds
<1>5. CASE n = "reply"
  <2>1. fwd \in {<<>>, Forward(egress)}
    BY <1>3, <1>5 DEF ChainOK
  <2>2. fwd' = Forward(egress) \/ fwd' = <<"reply">>
    BY <1>0, <1>5, <2>1, Chains
  <2>3. Now("accept")'
    BY <1>4, <1>5 DEF Now, Adjacent
  <2> QED  BY <1>1, <1>2, <2>2, <2>3 DEF ChainOK
<1>6. CASE n = "accept"
  <2>1. fwd \in {<<"reply">>, Forward(egress)}
    BY <1>3, <1>6 DEF ChainOK
  <2>2. fwd' = Forward(egress) \/ fwd' = <<egress, "reply">>
    BY <1>0, <1>6, <2>1, Chains
  <2>3. Now("drop")'
    BY <1>4, <1>6 DEF Now, Adjacent
  <2> QED  BY <1>1, <1>2, <2>2, <2>3 DEF ChainOK
<1>7. CASE n = "drop"
  <2>1. fwd \in {<<egress, "reply">>, Forward(egress)}
    BY <1>3, <1>7 DEF ChainOK
  <2>2. fwd' = Forward(egress)
    BY <1>0, <1>7, <2>1, Chains
  <2> QED  BY <1>1, <1>2, <2>2 DEF ChainOK
<1> QED  BY <1>5, <1>6, <1>7

\* A failed step, a crash, or a reboot.
LEMMA ChainFails ==
  ASSUME ChainOK, OpTyped(op), PlanOK, Fails, egress \in Egresses, UNCHANGED <<egress, fwdLines>>,
         fwd' \in {fwd, Reverse(fwdLines)}
  PROVE  ChainOK'
<1> SUFFICES ASSUME trouble' \cap (Vpns \cup {"egress"}) = {} PROVE ChainOK'
  BY DEF ChainOK
<1>0. egress \notin {"drop", "reply"}
  BY EgressIsNoWord
<1>1. trouble \cap (Vpns \cup {"egress"}) = {}
  BY DEF Fails
<1>2. \A x \in Left : x[1] \notin {"accept", "drop"}
  <2>1. \A x \in Left : x[2] \notin Vpns /\ Belongs(op, x)
    BY DEF Fails, PlanOK, Fits, Left
  <2> QED  BY <2>1 DEF Belongs
<1>3. ~Now("accept") /\ ~Now("drop")
  <2>1. op.todo # <<>> => Head(op.todo) \in Left
    <3>1. op.todo \in Seq(Steps)  BY DEF OpTyped, Ops
    <3>2. op.todo # <<>> => 1 \in 1..Len(op.todo) /\ Head(op.todo) = op.todo[1]  BY <3>1, EmptySeq
    <3> QED  BY <3>2 DEF Left, StepsIn
  <2> QED  BY <2>1, <1>2 DEF Now
<1>4. ~Now("accept")' /\ ~Now("drop")'
  <2>1. op'.todo # <<>> => Head(op'.todo) \in Left'
    <3>1. op'.todo \in Seq(Steps)  BY DEF OpTyped, Ops, Fails
    <3>2. op'.todo # <<>> => 1 \in 1..Len(op'.todo) /\ Head(op'.todo) = op'.todo[1]  BY <3>1,
            EmptySeq
    <3> QED  BY <3>2 DEF Left, StepsIn
  <2>2. Left' \subseteq Left  BY DEF Fails
  <2> QED  BY <2>1, <2>2, <1>2 DEF Now
<1>5. fwdLines \in {<<>>, <<"reply", egress, "drop">>} /\ fwd \in {<<>>, Forward(egress)}
  BY <1>1, <1>3, ChainWhole
<1>6. fwd' \in {<<>>, Forward(egress)} /\ Forward(egress)' = Forward(egress)
  BY <1>0, <1>5, Chains DEF Forward
<1> QED  BY <1>4, <1>5, <1>6 DEF ChainOK

-----------------------------------------------------------------------------
(* Units and processes, step by step.                                       *)

\* The types that the steps need.
LEMMA TypedParts ==
  ASSUME Typed
  PROVE  /\ OpTyped(op) /\ TypeOK
         /\ file \in [Services -> SUBSET Sockets] /\ proc \in [Services -> SUBSET Sockets]
         /\ to \in [Tunnels -> Targets] /\ procTo \in [Tunnels -> Targets]
         /\ egress \in Egresses
BY DEF Typed, TypeOK, OpTyped, Left

\* When the first step is done, the others are left.
LEMMA HeadDone ==
  ASSUME OpTyped(op), PlanOK, NEW n, NEW s, At(n, s), Proceed, NEW m, NEW r
  PROVE  /\ Has(n, s)
         /\ Has(m, r)' => Has(m, r) /\ InOrder(<<n, s>>, <<m, r>>)
         /\ Has(m, r)' => op'.new = op.new /\ op'.was = op.was /\ op'.flow = op.flow
         /\ (m # n \/ r # s) => (Has(m, r)' <=> Has(m, r))
<1>1. /\ Left = Left' \cup {<<n, s>>}
      /\ \A y \in Left' : InOrder(<<n, s>>, y)
      /\ Has(n, s)
      /\ Left' # {} => op'.new = op.new /\ op'.was = op.was /\ op'.flow = op.flow
  BY Proceeds
<1> QED  BY <1>1 DEF Has

\* Those of other services are.
LEMMA OthersLeft ==
  ASSUME OpTyped(op), PlanOK, NEW n, NEW s, At(n, s), Proceed, NEW r, r # s
  PROVE  \A m : Has(m, r)' <=> Has(m, r)
<1>1. Left = Left' \cup {<<n, s>>}
  BY Proceeds
<1> QED  BY <1>1 DEF Has

\* A service that a step does not concern.
LEMMA UnitSame ==
  ASSUME NEW s, UnitOK(s), file'[s] = file[s], proc'[s] = proc[s], s \in due' <=> s \in due,
         s \in unit' <=> s \in unit,
         s \in Tunnels => to'[s] = to[s] /\ procTo'[s] = procTo[s],
         \A m : Has(m, s)' <=> Has(m, s)
  PROVE  UnitOK(s)'
<1>1. Off(s)' = Off(s) /\ Quiet(s)' = Quiet(s) /\ Fresh(s)' = Fresh(s)
        /\ (s \in unit' <=> s \in unit)
  BY DEF Off, Quiet, Fresh, Listen
<1>2. /\ Has("restart", s)' <=> Has("restart", s)
      /\ Has("tryRestart", s)' <=> Has("tryRestart", s)
      /\ Has("stop", s)' <=> Has("stop", s)
      /\ Has("unit", s)' <=> Has("unit", s)
      /\ Has("save", s)' <=> Has("save", s)
      /\ Has("follow", s)' <=> Has("follow", s)
      /\ Has("dropUnit", s)' <=> Has("dropUnit", s)
      /\ Has("forget", s)' <=> Has("forget", s)
      /\ Has("wipe", s)' <=> Has("wipe", s)
      /\ Has("start", s)' <=> Has("start", s)
  OBVIOUS
<1> QED  BY <1>1, <1>2 DEF UnitOK, Restarts

\* A step that builds and one that takes down are never of one operation.
LEMMA Apart ==
  ASSUME OpTyped(op), PlanOK, NEW n \in Building, NEW s, Has(n, s), NEW m \in Demolition, NEW r
  PROVE  ~Has(m, r)
BY Removing

\* Only sshd listens without a port in its file.
LEMMA ListenType ==
  ASSUME NEW s
  PROVE  s # "ssh" => Listen(s) = file[s]
BY DEF Listen

\* A file is written: a restart follows, or nothing runs.
LEMMA UnitsSave ==
  ASSUME Typed, PlanOK, UnitsOK, NEW s \in Services, Save(s)
  PROVE  UnitsOK'
<1>0. OpTyped(op) /\ At("save", s) /\ Proceed
  BY TypedParts DEF Save
<1>1. /\ file' = [file EXCEPT ![s] = op.new] /\ \A t \in Tunnels : t # s => to'[t] = to[t]
      /\ UNCHANGED <<unit, boot, due, proc, procTo, trouble>>
      /\ file \in [Services -> SUBSET Sockets]
  BY TypedParts DEF Save, Files, services
<1> SUFFICES ASSUME NEW r \in Services, r \notin trouble PROVE UnitOK(r)'
  BY <1>1 DEF UnitsOK
<1>2. UnitOK(r)
  BY DEF UnitsOK
<1>3. CASE r # s
  <2>1. \A m : Has(m, r)' <=> Has(m, r)
    BY <1>0, <1>3, OthersLeft
  <2> QED  BY <1>1, <1>2, <1>3, <2>1, UnitSame
<1>4. CASE r = s
  <2>1. /\ Has("save", s) /\ ~Has("save", s)'
        /\ \A m : m # "save" => (Has(m, s)' <=> Has(m, s))
    <3>1. ~InOrder(<<"save", s>>, <<"save", s>>)
      BY DEF InOrder
    <3> QED  BY <1>0, <3>1, HeadDone
  <2>2. "save" \in Building /\ "dropUnit" \in Demolition /\ "forget" \in Demolition
          /\ "wipe" \in Demolition
    BY DEF Building, Demolition, Cleanup
  <2>3. ~Has("dropUnit", s) /\ ~Has("forget", s) /\ ~Has("wipe", s)
    BY <1>0, <2>1, <2>2, Apart
  <2>4. Has("restart", s) \/ proc[s] = {}
    BY <1>2, <1>4, <2>1 DEF UnitOK, Quiet
  <2>5. proc[s] = {} => Fresh(s)'
    BY <1>1 DEF Fresh
  <2>6. Off(s)' = Off(s) /\ unit' = unit
    BY <1>1 DEF Off
  <2>7. /\ Has("restart", s)' <=> Has("restart", s)
        /\ Has("unit", s)' <=> Has("unit", s)
        /\ Has("dropUnit", s)' <=> Has("dropUnit", s)
        /\ Has("forget", s)' <=> Has("forget", s)
        /\ Has("wipe", s)' <=> Has("wipe", s)
        /\ Has("start", s)' <=> Has("start", s)
    BY <2>1
  <2> QED  BY <1>2, <1>4, <2>1, <2>3, <2>4, <2>5, <2>6, <2>7 DEF UnitOK, Restarts
<1> QED  BY <1>3, <1>4

\* A service is stopped before anything of it is removed.
LEMMA StopFirst ==
  ASSUME NEW s \in Services, NEW n \in {"forget", "dropUnit", "wipe"},
         n = "forget" => s \notin {"ssh", "openvpn"}, n = "dropUnit" => s # "ssh", n = "wipe"
              => s = "openvpn"
  PROVE  ~InOrder(<<n, s>>, <<"stop", s>>)
BY DEF InOrder, Rank, Services, Claimants, Managed, Vpns, Tunnels

\* A file is removed.
LEMMA UnitsForget ==
  ASSUME Typed, PlanOK, UnitsOK, NEW s \in Services, Forget(s)
  PROVE  UnitsOK'
<1>0. OpTyped(op) /\ At("forget", s) /\ Proceed
  BY TypedParts DEF Forget
<1>1. /\ file' = [file EXCEPT ![s] = {}] /\ \A t \in Tunnels : t # s => to'[t] = to[t]
      /\ UNCHANGED <<unit, boot, due, proc, procTo, trouble>>
      /\ file \in [Services -> SUBSET Sockets]
  BY TypedParts DEF Forget, Files, services
<1> SUFFICES ASSUME NEW r \in Services, r \notin trouble PROVE UnitOK(r)'
  BY <1>1 DEF UnitsOK
<1>2. UnitOK(r)
  BY DEF UnitsOK
<1>3. CASE r # s
  <2>1. \A m : Has(m, r)' <=> Has(m, r)
    BY <1>0, <1>3, OthersLeft
  <2> QED  BY <1>1, <1>2, <1>3, <2>1, UnitSame
<1>4. CASE r = s
  <2>1. /\ Has("forget", s)
        /\ \A m : m # "forget" => (Has(m, s)' <=> Has(m, s))
        /\ \A m : Has(m, s)' => InOrder(<<"forget", s>>, <<m, s>>)
    BY <1>0, HeadDone
  <2>2. s \notin {"ssh", "openvpn"}
    BY <1>0, Proceeds DEF Belongs
  <2>3. ~Has("stop", s)
    BY <2>1, <2>2, StopFirst
  <2>4. proc[s] = {}
    BY <1>2, <1>4, <2>1, <2>3 DEF UnitOK, Quiet
  <2>5. "forget" \in Demolition /\ "save" \in Building /\ "start" \in Building
          /\ "restart" \in Building /\ "follow" \in Building
    BY DEF Building, Demolition
  <2>6. ~Has("save", s)' /\ ~Has("start", s)' /\ ~Has("restart", s)' /\ ~Has("follow", s)'
    <3>1. ~Has("save", s) /\ ~Has("start", s) /\ ~Has("restart", s) /\ ~Has("follow", s)
      BY <1>0, <2>1, <2>5, Apart
    <3> QED  BY <2>1, <3>1
  <2>7. Fresh(s)' /\ Off(s)' = Off(s) /\ unit' = unit
    BY <1>1, <2>4 DEF Fresh, Off
  <2>8. Quiet(s)'
    BY <1>1, <2>2, <2>4 DEF Quiet, Listen
  <2>9. (Has("stop", s)' <=> Has("stop", s)) /\ (Has("dropUnit", s)' <=> Has("dropUnit", s))
    BY <2>1
  <2> QED  BY <1>2, <1>4, <2>6, <2>7, <2>8, <2>9 DEF UnitOK
<1> QED  BY <1>3, <1>4

\* OpenVPN's directory is removed.
LEMMA UnitsWipe ==
  ASSUME Typed, PlanOK, UnitsOK, Wiping, Wipe
  PROVE  UnitsOK'
<1>0. OpTyped(op) /\ At("wipe", "openvpn") /\ Proceed
  BY TypedParts DEF Wipe
<1>1. /\ file' = [file EXCEPT !["openvpn"] = {}, !["extra"] = {}] /\ to' = to
      /\ UNCHANGED <<unit, boot, due, proc, procTo, trouble>>
      /\ file \in [Services -> SUBSET Sockets]
      /\ "openvpn" \in Services /\ "extra" \in Services
  BY TypedParts DEF Wipe, Files, services, Services, Claimants, Vpns
<1> SUFFICES ASSUME NEW r \in Services, r \notin trouble PROVE UnitOK(r)'
  BY <1>1 DEF UnitsOK
<1>2. UnitOK(r)
  BY DEF UnitsOK
<1>3. Has("wipe", "openvpn")
  BY <1>0, HeadDone
<1>4. CASE r # "openvpn"
  <2>1. \A m : Has(m, r)' <=> Has(m, r)
    BY <1>0, <1>4, OthersLeft
  <2>2. r = "extra" => file["extra"] = {}
    <3>1. ~InOrder(<<"wipe", "openvpn">>, <<"forget", "extra">>)
      BY DEF InOrder, Rank
    <3>2. Has("forget", "extra")' <=> Has("forget", "extra")
      BY <1>0, HeadDone
    <3>3. ~Has("forget", "extra")
      BY <1>0, <3>1, <3>2, HeadDone
    <3> QED  BY <3>3, <1>3 DEF Wiping
  <2>3. file'[r] = file[r]
    BY <1>1, <1>4, <2>2
  <2> QED  BY <1>1, <1>2, <2>1, <2>3, UnitSame
<1>5. CASE r = "openvpn"
  <2>1. \A m : m # "wipe" => (Has(m, r)' <=> Has(m, r))
    BY <1>0, HeadDone
  <2>2. \A m : Has(m, r)' => InOrder(<<"wipe", "openvpn">>, <<m, r>>)
    BY <1>0, HeadDone
  <2>3. ~Has("stop", r)
    BY <2>1, <2>2, <1>5, StopFirst
  <2>4. proc[r] = {}
    BY <1>2, <1>3, <1>5, <2>3 DEF UnitOK, Quiet
  <2>5. "wipe" \in Demolition /\ "save" \in Building /\ "start" \in Building
          /\ "restart" \in Building /\ "follow" \in Building
    BY DEF Building, Demolition, Cleanup
  <2>6. ~Has("save", r)' /\ ~Has("start", r)' /\ ~Has("restart", r)' /\ ~Has("follow", r)'
    <3>1. ~Has("save", r) /\ ~Has("start", r) /\ ~Has("restart", r) /\ ~Has("follow", r)
      BY <1>0, <1>3, <2>5, Apart
    <3> QED  BY <2>1, <3>1
  <2>7. Fresh(r)' /\ Off(r)' = Off(r) /\ unit' = unit
    BY <1>1, <2>4 DEF Fresh, Off
  <2>8. Quiet(r)'
    BY <1>1, <1>5, <2>4 DEF Quiet, Listen
  <2>9. (Has("stop", r)' <=> Has("stop", r)) /\ (Has("dropUnit", r)' <=> Has("dropUnit", r))
    BY <2>1
  <2> QED  BY <1>2, <1>5, <2>6, <2>7, <2>8, <2>9 DEF UnitOK
<1> QED  BY <1>4, <1>5

\* A tunnel is pointed at OpenVPN's new port; tryRestart is next.
LEMMA UnitsFollow ==
  ASSUME Typed, PlanOK, UnitsOK, NEW t \in Tunnels, Follow(t)
  PROVE  UnitsOK'
<1>0. OpTyped(op) /\ At("follow", t) /\ to \in [Tunnels -> Targets] /\ t \in Services
  BY TypedParts DEF Follow, Services, Claimants
<1>1. /\ UNCHANGED <<file, unit, boot, due, proc, procTo, trouble, doubt>>
      /\ \/ Proceed /\ \A u \in Tunnels : u # t => to'[u] = to[u]
         \/ op' = Then(Tail(Tail(op.todo))) /\ to' = to
  BY <1>0 DEF Follow, Files, services
<1> SUFFICES ASSUME NEW r \in Services, r \notin trouble PROVE UnitOK(r)'
  BY <1>1 DEF UnitsOK
<1>2. UnitOK(r)
  BY DEF UnitsOK
<1>3. CASE Proceed /\ \A u \in Tunnels : u # t => to'[u] = to[u]
  <2>1. CASE r # t
    <3>1. \A m : Has(m, r)' <=> Has(m, r)
      BY <1>0, <1>3, <2>1, OthersLeft
    <3> QED  BY <1>1, <1>2, <1>3, <2>1, <3>1, UnitSame
  <2>2. CASE r = t
    <3>1. \A m : m # "follow" => (Has(m, t)' <=> Has(m, t))
      BY <1>0, <1>3, HeadDone
    <3>2. ~InOrder(<<"follow", t>>, <<"follow", t>>)
      BY DEF InOrder
    <3>3. Has("follow", t) /\ ~Has("follow", t)'
      BY <1>0, <1>3, <3>2, HeadDone
    <3>4. Has("tryRestart", t)'
      <4>1. /\ Left' # {} => op'.todo # <<>> /\ Adjacent(<<"follow", t>>, Head(op'.todo))
            /\ Left' # {} /\ OpTyped(op')
        BY <1>0, <1>3, Proceeds
      <4>2. Head(op'.todo) = <<"tryRestart", t>>
        BY <4>1 DEF Adjacent
      <4>3. 1 \in 1..Len(op'.todo) /\ op'.todo[1] = Head(op'.todo)
        <5>1. op'.todo \in Seq(Steps)  BY <4>1 DEF OpTyped, Ops
        <5> QED  BY <4>1, <5>1, EmptySeq
      <4> QED  BY <4>2, <4>3 DEF Has, Left, StepsIn
    <3>5. Off(t)' = Off(t) /\ Quiet(t)' = Quiet(t) /\ unit' = unit
      BY <1>1 DEF Off, Quiet, Listen
    <3>6. /\ Has("restart", t)' <=> Has("restart", t)
          /\ Has("save", t)' <=> Has("save", t)
          /\ Has("unit", t)' <=> Has("unit", t)
          /\ Has("stop", t)' <=> Has("stop", t)
          /\ Has("dropUnit", t)' <=> Has("dropUnit", t)
          /\ Has("forget", t)' <=> Has("forget", t)
          /\ Has("wipe", t)' <=> Has("wipe", t)
          /\ Has("start", t)' <=> Has("start", t)
      BY <3>1
    <3> QED  BY <1>2, <2>2, <3>3, <3>4, <3>5, <3>6 DEF UnitOK, Restarts
  <2> QED  BY <2>1, <2>2
<1>4. CASE op' = Then(Tail(Tail(op.todo))) /\ to' = to
  <2>1. /\ Shrinks({"follow", "tryRestart"}) /\ Has("follow", t) /\ <<"follow", t>> \notin Left'
        /\ \A x \in Left : x \in Left' \/ x = <<"follow", t>> \/ x = <<"tryRestart", t>>
    BY <1>0, <1>1, <1>4, FollowSkips
  <2>2. \A m : /\ Has(m, r)' => Has(m, r)
               /\ Has(m, r) /\ (r # t \/ m \notin {"follow", "tryRestart"}) => Has(m, r)'
    BY <2>1 DEF Has, Shrinks
  <2>3. CASE r # t
    <3>1. \A m : Has(m, r)' <=> Has(m, r)
      BY <2>2, <2>3
    <3> QED  BY <1>1, <1>2, <1>4, <3>1, UnitSame
  <2>4. CASE r = t
    <3>1. Off(t)' = Off(t) /\ Quiet(t)' = Quiet(t) /\ Fresh(t)' = Fresh(t) /\ unit' = unit
      BY <1>1, <1>4 DEF Off, Quiet, Listen, Fresh
    <3>2. Fresh(t) \/ Has("restart", t)
      BY <1>2, <2>1, <2>4 DEF UnitOK
    <3>3. /\ Has("restart", t)' <=> Has("restart", t)
          /\ Has("save", t)' <=> Has("save", t)
          /\ Has("unit", t)' <=> Has("unit", t)
          /\ Has("stop", t)' <=> Has("stop", t)
          /\ Has("dropUnit", t)' <=> Has("dropUnit", t)
          /\ Has("forget", t)' <=> Has("forget", t)
          /\ Has("wipe", t)' <=> Has("wipe", t)
          /\ Has("start", t)' <=> Has("start", t)
      BY <2>2, <2>4
    <3> QED  BY <1>2, <2>4, <3>1, <3>2, <3>3 DEF UnitOK, Restarts
  <2> QED  BY <2>3, <2>4
<1> QED  BY <1>1, <1>3, <1>4

\* A step at one service's unit or process.
LEMMA UnitsHere ==
  ASSUME Typed, PlanOK, UnitsOK, NEW n, NEW s \in Services, At(n, s), Proceed, Units,
         \A r \in Services : r # s =>
           proc'[r] = proc[r] /\ (r \in due' <=> r \in due) /\ (r \in unit' <=> r \in unit),
         procTo' = procTo, s \notin trouble => UnitOK(s)'
  PROVE  UnitsOK'
<1>0. OpTyped(op) /\ UNCHANGED <<file, to, trouble>>
  BY TypedParts DEF Units
<1> SUFFICES ASSUME NEW r \in Services, r \notin trouble, r # s PROVE UnitOK(r)'
  BY <1>0 DEF UnitsOK
<1>1. \A m : Has(m, r)' <=> Has(m, r)
  BY <1>0, OthersLeft
<1>2. UnitOK(r)
  BY DEF UnitsOK
<1> QED  BY <1>0, <1>1, <1>2, UnitSame

\* What the head of the operation leaves of a service's other steps.
LEMMA HereLeft ==
  ASSUME OpTyped(op), PlanOK, NEW n, NEW s, At(n, s), Proceed
  PROVE  /\ Has(n, s)
         /\ \A m : Has(m, s)' => Has(m, s) /\ InOrder(<<n, s>>, <<m, s>>)
         /\ \A m : m # n => (Has(m, s)' <=> Has(m, s))
         /\ n \in Building => ~Has("dropUnit", s) /\ ~Has("forget", s) /\ ~Has("wipe", s)
         /\ n \in Demolition =>
              ~Has("save", s) /\ ~Has("start", s) /\ ~Has("restart", s) /\ ~Has("follow", s)
<1>1. /\ Has(n, s)
      /\ \A m : Has(m, s)' => Has(m, s) /\ InOrder(<<n, s>>, <<m, s>>)
      /\ \A m : m # n => (Has(m, s)' <=> Has(m, s))
  BY HeadDone
<1>2. /\ "dropUnit" \in Demolition /\ "forget" \in Demolition /\ "wipe" \in Demolition
      /\ "save" \in Building /\ "start" \in Building /\ "restart" \in Building
           /\ "follow" \in Building
  BY DEF Building, Demolition, Cleanup
<1>3. ASSUME n \in Building PROVE ~Has("dropUnit", s) /\ ~Has("forget", s) /\ ~Has("wipe", s)
  BY <1>1, <1>2, <1>3, Apart
<1>4. ASSUME n \in Demolition
      PROVE ~Has("save", s) /\ ~Has("start", s) /\ ~Has("restart", s) /\ ~Has("follow", s)
  BY <1>1, <1>2, <1>4, Apart
<1> QED  BY <1>1, <1>3, <1>4

\* A unit file is written.
LEMMA UnitsWriteUnit ==
  ASSUME Typed, PlanOK, UnitsOK, NEW s \in Services, WriteUnit(s)
  PROVE  UnitsOK'
<1>0. OpTyped(op) /\ At("unit", s) /\ Proceed /\ Units /\ unit' = unit \cup {s}
        /\ UNCHANGED <<boot, due, proc, procTo>>
  BY TypedParts DEF WriteUnit
<1>1. ASSUME s \notin trouble PROVE UnitOK(s)'
  <2>1. UnitOK(s)
    BY <1>1 DEF UnitsOK
  <2>2. Quiet(s)' = Quiet(s) /\ Fresh(s)' = Fresh(s) /\ s \in unit'
    BY <1>0 DEF Quiet, Fresh, Listen, Units
  <2>3. "unit" \in Building
    BY DEF Building
  <2>4. /\ ~Has("dropUnit", s) /\ ~Has("forget", s) /\ ~Has("wipe", s)
        /\ \A m : m # "unit" => (Has(m, s)' <=> Has(m, s))
    BY <1>0, <2>3, HereLeft
  <2>5. /\ ~Has("dropUnit", s)' /\ ~Has("forget", s)' /\ ~Has("wipe", s)'
        /\ Has("restart", s)' <=> Has("restart", s)
        /\ Has("tryRestart", s)' <=> Has("tryRestart", s)
        /\ Has("save", s)' <=> Has("save", s)
        /\ Has("follow", s)' <=> Has("follow", s)
    BY <2>4
  <2> QED  BY <2>1, <2>2, <2>5 DEF UnitOK, Restarts
<1> QED  BY <1>0, <1>1, UnitsHere

\* A unit file is removed.
LEMMA UnitsRemoveUnit ==
  ASSUME Typed, PlanOK, UnitsOK, NEW s \in Services, RemoveUnit(s)
  PROVE  UnitsOK'
<1>0. OpTyped(op) /\ At("dropUnit", s) /\ Proceed /\ Units /\ unit' = unit \ {s}
        /\ UNCHANGED <<boot, due, proc, procTo>>
  BY TypedParts DEF RemoveUnit
<1>1. ASSUME s \notin trouble PROVE UnitOK(s)'
  <2>1. UnitOK(s)
    BY <1>1 DEF UnitsOK
  <2>2. Off(s)' = Off(s) /\ Quiet(s)' = Quiet(s) /\ Fresh(s)' = Fresh(s)
    BY <1>0 DEF Off, Quiet, Fresh, Listen, Units
  <2>3. "dropUnit" \in Demolition /\ s # "ssh"
    BY <1>0, Proceeds DEF Demolition, Belongs
  <2>4. /\ Has("dropUnit", s)
        /\ ~Has("save", s) /\ ~Has("start", s) /\ ~Has("restart", s) /\ ~Has("follow", s)
        /\ \A m : m # "dropUnit" => (Has(m, s)' <=> Has(m, s))
        /\ \A m : Has(m, s)' => InOrder(<<"dropUnit", s>>, <<m, s>>)
    BY <1>0, <2>3, HereLeft
  <2>5. ~Has("stop", s)
    BY <2>3, <2>4, StopFirst
  <2>6. Off(s)
    BY <2>1, <2>4, <2>5 DEF UnitOK
  <2>7. /\ ~Has("save", s)' /\ ~Has("start", s)' /\ ~Has("restart", s)' /\ ~Has("follow", s)'
        /\ Has("tryRestart", s)' <=> Has("tryRestart", s)
        /\ Has("stop", s)' <=> Has("stop", s)
        /\ Has("forget", s)' <=> Has("forget", s)
        /\ Has("wipe", s)' <=> Has("wipe", s)
    BY <2>4
  <2> QED  BY <2>1, <2>2, <2>4, <2>6, <2>7 DEF UnitOK, Restarts
<1> QED  BY <1>0, <1>1, UnitsHere

\* A service is started when its file and unit are there.
LEMMA StartLast ==
  ASSUME NEW s \in Services
  PROVE  /\ \A m \in {"save", "unit"} : s # "ssh" \/ m = "save"
              => ~InOrder(<<"start", s>>, <<m, s>>)
         /\ \A m \in {"save", "unit"} : s # "ssh" \/ m = "save"
              => ~InOrder(<<"restart", s>>, <<m, s>>)
BY DEF InOrder, Rank, Services, Claimants, Managed, Vpns, Tunnels

\* A service is started.
LEMMA UnitsStart ==
  ASSUME Typed, PlanOK, UnitsOK, NEW s \in Services, Start(s)
  PROVE  UnitsOK'
<1>0. /\ OpTyped(op) /\ At("start", s) /\ Proceed /\ Units
      /\ due' = (IF proc[s] = {} THEN due \cup {s} ELSE due)
           /\ UNCHANGED <<unit, boot, proc, procTo>>
  BY TypedParts DEF Start
<1>1. ASSUME s \notin trouble PROVE UnitOK(s)'
  <2>1. UnitOK(s)
    BY <1>1 DEF UnitsOK
  <2>2. Fresh(s)' = Fresh(s) /\ unit' = unit
    BY <1>0 DEF Fresh, Listen, Units
  <2>3. "start" \in Building
    BY DEF Building
  <2>4. /\ Has("start", s)
        /\ ~Has("dropUnit", s) /\ ~Has("forget", s) /\ ~Has("wipe", s)
        /\ \A m : m # "start" => (Has(m, s)' <=> Has(m, s))
        /\ \A m : Has(m, s)' => InOrder(<<"start", s>>, <<m, s>>)
    BY <1>0, <2>3, HereLeft
  <2>5. ~Has("save", s)'
    BY <2>4, StartLast
  <2>6. s \in unit
    <3>1. CASE s = "ssh"
      BY <3>1 DEF Typed
    <3>2. CASE s # "ssh"
      <4>1. ~Has("unit", s)
        BY <2>4, <3>2, StartLast
      <4> QED  BY <2>1, <2>4, <4>1 DEF UnitOK
    <3> QED  BY <3>1, <3>2
  <2>7. /\ ~Has("dropUnit", s)' /\ ~Has("forget", s)' /\ ~Has("wipe", s)'
        /\ Has("restart", s)' <=> Has("restart", s)
        /\ Has("tryRestart", s)' <=> Has("tryRestart", s)
        /\ Has("follow", s)' <=> Has("follow", s)
    BY <2>4
  <2> QED  BY <2>1, <2>2, <2>5, <2>6, <2>7 DEF UnitOK, Restarts
<1> QED  BY <1>0, <1>1, UnitsHere

\* A service is stopped.
LEMMA UnitsStop ==
  ASSUME Typed, PlanOK, UnitsOK, NEW s \in Services, Stop(s)
  PROVE  UnitsOK'
<1>0. /\ OpTyped(op) /\ At("stop", s) /\ Proceed /\ Units
      /\ due' = due \ {s} /\ proc' = [proc EXCEPT ![s] = {}] /\ UNCHANGED <<unit, boot, procTo>>
      /\ proc \in [Services -> SUBSET Sockets]
  BY TypedParts DEF Stop
<1>1. ASSUME s \notin trouble PROVE UnitOK(s)'
  <2>1. UnitOK(s)
    BY <1>1 DEF UnitsOK
  <2>2. Fresh(s)' /\ Quiet(s)' /\ Off(s)' /\ unit' = unit
    BY <1>0 DEF Fresh, Quiet, Off, Listen, Units
  <2>3. \A m : m # "stop" => (Has(m, s)' <=> Has(m, s))
    BY <1>0, HereLeft
  <2>4. /\ Has("start", s)' <=> Has("start", s)
        /\ Has("restart", s)' <=> Has("restart", s)
        /\ Has("unit", s)' <=> Has("unit", s)
    BY <2>3
  <2> QED  BY <2>1, <2>2, <2>4 DEF UnitOK
<1>2. \A r \in Services : r # s =>
        proc'[r] = proc[r] /\ (r \in due' <=> r \in due) /\ (r \in unit' <=> r \in unit)
  BY <1>0
<1> QED  BY <1>0, <1>1, <1>2, UnitsHere

\* A service is restarted.
LEMMA UnitsRestart ==
  ASSUME Typed, PlanOK, UnitsOK, NEW s \in Services, Restart(s)
  PROVE  UnitsOK'
<1>0. /\ OpTyped(op) /\ (At("restart", s) \/ At("tryRestart", s)) /\ Proceed /\ Units
      /\ due' = IF At("restart", s) \/ proc[s] # {} THEN due \cup {s} ELSE due
      /\ proc' = [proc EXCEPT ![s] = {}] /\ UNCHANGED <<unit, boot, procTo>>
      /\ proc \in [Services -> SUBSET Sockets]
  BY TypedParts DEF Restart
<1>1. ASSUME s \notin trouble PROVE UnitOK(s)'
  <2>1. UnitOK(s)
    BY <1>1 DEF UnitsOK
  <2>2. Fresh(s)' /\ unit' = unit
    BY <1>0 DEF Fresh, Units
  <2>3. "restart" \in Building /\ "tryRestart" \in Building
    BY DEF Building
  <2>4. CASE At("restart", s)
    <3>1. /\ Has("restart", s)
          /\ ~Has("dropUnit", s) /\ ~Has("forget", s) /\ ~Has("wipe", s)
          /\ \A m : m # "restart" => (Has(m, s)' <=> Has(m, s))
          /\ \A m : Has(m, s)' => InOrder(<<"restart", s>>, <<m, s>>)
      BY <1>0, <2>3, <2>4, HereLeft
    <3>2. ~Has("save", s)'
      BY <3>1, StartLast
    <3>3. s \in unit
      <4>1. CASE s = "ssh"
        BY <4>1 DEF Typed
      <4>2. CASE s # "ssh"
        <5>1. ~Has("unit", s)
          BY <3>1, <4>2, StartLast
        <5> QED  BY <2>1, <3>1, <5>1 DEF UnitOK
      <4> QED  BY <4>1, <4>2
    <3>4. ~Has("dropUnit", s)' /\ ~Has("forget", s)' /\ ~Has("wipe", s)'
      BY <3>1
    <3> QED  BY <2>2, <3>2, <3>3, <3>4 DEF UnitOK
  <2>5. CASE At("tryRestart", s)
    <3>1. ~At("restart", s)
      BY <2>5 DEF At
    <3>2. /\ ~Has("dropUnit", s) /\ ~Has("forget", s) /\ ~Has("wipe", s)
          /\ \A m : m # "tryRestart" => (Has(m, s)' <=> Has(m, s))
      BY <1>0, <2>3, <2>5, HereLeft
    <3>3. Off(s) => Off(s)'
      BY <1>0, <3>1 DEF Off
    <3>4. Quiet(s) => Quiet(s)'
      BY <1>0, <3>1 DEF Quiet, Listen, Units
    <3>5. /\ ~Has("dropUnit", s)' /\ ~Has("forget", s)' /\ ~Has("wipe", s)'
          /\ Has("save", s)' <=> Has("save", s)
          /\ Has("restart", s)' <=> Has("restart", s)
          /\ Has("unit", s)' <=> Has("unit", s)
          /\ Has("start", s)' <=> Has("start", s)
      BY <3>2
    <3> QED  BY <2>1, <2>2, <3>3, <3>4, <3>5 DEF UnitOK
  <2> QED  BY <1>0, <2>4, <2>5
<1>2. \A r \in Services : r # s =>
        proc'[r] = proc[r] /\ (r \in due' <=> r \in due) /\ (r \in unit' <=> r \in unit)
  BY <1>0
<1> QED  BY <1>0, <1>1, <1>2, UnitsHere

\* A service comes up.
LEMMA UnitsComes ==
  ASSUME Typed, UnitsOK, NEW s \in Services, Comes(s)
  PROVE  UnitsOK'
<1>0. /\ s \in due /\ Unbound(s) # {} /\ proc' = [proc EXCEPT ![s] = Unbound(s)]
      /\ procTo' = (IF s \in Tunnels THEN [procTo EXCEPT ![s] = to[s]] ELSE procTo)
      /\ due' = due \ {s} /\ UNCHANGED <<file, to, unit, op, trouble>>
      /\ proc \in [Services -> SUBSET Sockets] /\ procTo \in [Tunnels -> Targets]
      /\ Unbound(s) \subseteq Listen(s)
  BY TypedParts DEF Comes, Unbound
<1> SUFFICES ASSUME NEW r \in Services, r \notin trouble PROVE UnitOK(r)'
  BY <1>0 DEF UnitsOK
<1>1. UnitOK(r)
  BY DEF UnitsOK
<1>2. \A m : Has(m, r)' <=> Has(m, r)
  BY <1>0 DEF Has, Left
<1>3. CASE r # s
  <2>1. r \in Tunnels => procTo'[r] = procTo[r]
    BY <1>0, <1>3
  <2> QED  BY <1>0, <1>1, <1>2, <1>3, <2>1, UnitSame
<1>4. CASE r = s
  <2>1. Fresh(s)' /\ unit' = unit
    BY <1>0 DEF Fresh, Listen
  <2>2. ~Off(s) /\ ~Quiet(s)
    BY <1>0 DEF Off, Quiet
  <2>3. /\ Has("restart", s)' <=> Has("restart", s)
        /\ Has("stop", s)' <=> Has("stop", s)
        /\ Has("unit", s)' <=> Has("unit", s)
        /\ Has("save", s)' <=> Has("save", s)
        /\ Has("dropUnit", s)' <=> Has("dropUnit", s)
        /\ Has("forget", s)' <=> Has("forget", s)
        /\ Has("wipe", s)' <=> Has("wipe", s)
        /\ Has("start", s)' <=> Has("start", s)
    BY <1>2, <1>4
  <2> QED  BY <1>1, <1>4, <2>1, <2>2, <2>3 DEF UnitOK
<1> QED  BY <1>3, <1>4

\* systemd gives up on one.
LEMMA UnitsGivesUp ==
  ASSUME Typed, UnitsOK, NEW s \in Services, GivesUp(s)
  PROVE  UnitsOK'
<1>0. due' = due \ {s} /\ UNCHANGED <<file, to, unit, proc, procTo, op, trouble>>
  BY DEF GivesUp
<1> SUFFICES ASSUME NEW r \in Services, r \notin trouble PROVE UnitOK(r)'
  BY <1>0 DEF UnitsOK
<1>1. UnitOK(r)
  BY DEF UnitsOK
<1>2. \A m : Has(m, r)' <=> Has(m, r)
  BY <1>0 DEF Has, Left
<1>3. (Off(r) => Off(r)') /\ (Quiet(r) => Quiet(r)') /\ Fresh(r)' = Fresh(r) /\ unit' = unit
  BY <1>0 DEF Off, Quiet, Fresh, Listen
<1>4. /\ Has("restart", r)' <=> Has("restart", r)
      /\ Has("tryRestart", r)' <=> Has("tryRestart", r)
      /\ Has("stop", r)' <=> Has("stop", r)
      /\ Has("unit", r)' <=> Has("unit", r)
      /\ Has("save", r)' <=> Has("save", r)
      /\ Has("follow", r)' <=> Has("follow", r)
      /\ Has("dropUnit", r)' <=> Has("dropUnit", r)
      /\ Has("forget", r)' <=> Has("forget", r)
      /\ Has("wipe", r)' <=> Has("wipe", r)
      /\ Has("start", r)' <=> Has("start", r)
  BY <1>2
<1> QED  BY <1>1, <1>3, <1>4 DEF UnitOK, Restarts

\* The machine reboots.
LEMMA UnitsReboot ==
  ASSUME Typed, Reboot
  PROVE  UnitsOK'
<1>1. Left' = {} /\ proc' = [s \in Services |-> {}] /\ due' = boot \cap unit /\ unit' = unit
  BY TypedParts, Rests DEF Reboot
<1> SUFFICES ASSUME NEW r \in Services PROVE UnitOK(r)'
  BY DEF UnitsOK
<1>2. (r \notin unit' => Off(r)') /\ Fresh(r)'
  BY <1>1 DEF Off, Fresh
<1>3. \A m : ~Has(m, r)'
  BY <1>1 DEF Has
<1>4. /\ ~Has("restart", r)' /\ ~Has("follow", r)' /\ ~Has("save", r)' /\ ~Has("dropUnit", r)'
      /\ ~Has("forget", r)' /\ ~Has("wipe", r)' /\ ~Has("start", r)'
  BY <1>3
<1> QED  BY <1>2, <1>4 DEF UnitOK

-----------------------------------------------------------------------------
(* The tunnels' targets, step by step.                                      *)

\* A file is written: OpenVPN's port moves, or a tunnel's target.
LEMMA FollowsSave ==
  ASSUME Typed, PlanOK, Follows, NEW s \in Services, Save(s)
  PROVE  Follows'
<1>0. OpTyped(op) /\ At("save", s) /\ Proceed /\ file \in [Services -> SUBSET Sockets]
      /\ to \in [Tunnels -> Targets] /\ meant \subseteq Tunnels
  BY TypedParts DEF Save, TypeOK
<1>1. file' = [file EXCEPT ![s] = op.new] /\ trouble' = trouble
  BY DEF Save, Files
<1> SUFFICES ASSUME "openvpn" \notin trouble PROVE FollowParts'
  BY <1>1 DEF Follows
<1>2. FollowParts
  BY DEF Follows
<1>3. /\ \A r : r # s => \A m : Has(m, r)' <=> Has(m, r)
      /\ \A m : m # "save" => (Has(m, s)' <=> Has(m, s))
      /\ Has("save", s) /\ ~Has("save", s)'
  <2>1. ~InOrder(<<"save", s>>, <<"save", s>>)
    BY DEF InOrder
  <2>2. \A r : r # s => \A m : Has(m, r)' <=> Has(m, r)
    BY <1>0, OthersLeft
  <2> QED  BY <1>0, <2>1, <2>2, HereLeft
<1>4. \A t : Has("follow", t)' <=> Has("follow", t)
  BY <1>3
<1>5. \A m, r : Has(m, r)' => op'.new = op.new /\ op'.was = op.was /\ op'.flow = op.flow
  BY <1>0, HeadDone
<1>6. CASE s = "openvpn"
  <2>1. to' = to /\ meant' = IF op.flow = "installBest" THEN {} ELSE meant
    BY <1>6 DEF Save, Tunnels
  <2>2. op.flow = "installBest" \/ op.flow = "move"
    <3>1. Belongs(op, <<"save", "openvpn">>)
      BY <1>0, <1>6, Proceeds
    <3> QED  BY <3>1 DEF Belongs
  <2>3. file'["openvpn"] = op.new /\ "openvpn" \in Services
    BY <1>0, <1>1, <1>6
  <2>4. \A t \in meant' \ trouble' :
          \/ to'[t] \in VpnTarget'
          \/ Has("follow", t)' /\ <<"tcp", to'[t]>> \in op'.was["openvpn"]
    <3> SUFFICES ASSUME NEW t \in meant' \ trouble'
                 PROVE \/ to'[t] \in VpnTarget'
                       \/ Has("follow", t)' /\ <<"tcp", to'[t]>> \in op'.was["openvpn"]
      OBVIOUS
    <3>1. op.flow = "move" /\ t \in meant \ trouble /\ t \in Tunnels
      BY <1>0, <1>1, <2>1, <2>2
    <3>2. Has("save", "openvpn")
      BY <1>3, <1>6
    <3>3. /\ file["openvpn"] = op.was["openvpn"]
          /\ \/ op.new = file["openvpn"]
             \/ VpnTarget = {} /\ ~Has("follow", t)
             \/ Has("follow", t)
      BY <1>2, <3>1, <3>2 DEF FollowParts
    <3>4. \/ to[t] \in VpnTarget
          \/ Has("follow", t) /\ <<"tcp", to[t]>> \in op.was["openvpn"]
      BY <1>2, <3>1 DEF FollowParts
    <3>5. op.new = file["openvpn"] => VpnTarget' = VpnTarget
      BY <2>3 DEF VpnTarget
    <3>6. to[t] \in VpnTarget => <<"tcp", to[t]>> \in file["openvpn"]
      <4>1. ASSUME to[t] \in VpnTarget PROVE <<"tcp", to[t]>> \in file["openvpn"]
        <5>1. PICK x \in file["openvpn"] : x[1] = "tcp" /\ to[t] = x[2]
          BY <4>1 DEF VpnTarget
        <5>2. x \in Sockets
          BY <1>0, <2>3, <5>1
        <5>3. x = <<x[1], x[2]>>
          BY <5>2 DEF Sockets
        <5> QED  BY <5>1, <5>3
      <4> QED  BY <4>1
    <3> QED  BY <1>4, <1>5, <2>1, <3>3, <3>4, <3>5, <3>6
  <2> QED  BY <1>2, <1>3, <1>4, <1>5, <1>6, <2>3, <2>4 DEF FollowParts
<1>7. CASE s # "openvpn"
  <2>1. VpnTarget' = VpnTarget /\ file'["openvpn"] = file["openvpn"]
    <3>1. file'["openvpn"] = file["openvpn"]
      BY <1>0, <1>1, <1>7 DEF Services, Claimants, Vpns
    <3> QED  BY <3>1 DEF VpnTarget
  <2>2. Has("save", "openvpn")' <=> Has("save", "openvpn")
    BY <1>3, <1>7
  <2>3. \A t \in meant' \ trouble' :
          to'[t] \in VpnTarget' \/ (t \in meant /\ to'[t] = to[t])
    <3>1. CASE s \in Tunnels
      <4>1. to' = [to EXCEPT ![s] = op.to] /\ meant' = IF op.to \in VpnTarget THEN meant \cup {s}
              ELSE meant \ {s}
        BY <3>1 DEF Save
      <4> QED  BY <4>1, <1>0, <2>1, <3>1
    <3>2. CASE s \notin Tunnels
      BY <3>2, <1>7 DEF Save
    <3> QED  BY <3>1, <3>2
  <2>4. \A t \in meant' \ trouble' :
          \/ to'[t] \in VpnTarget'
          \/ Has("follow", t)' /\ <<"tcp", to'[t]>> \in op'.was["openvpn"]
    BY <1>1, <1>2, <1>4, <1>5, <2>1, <2>3 DEF FollowParts
  <2>5. (\E t \in Tunnels : Has("follow", t)') =>
          /\ "openvpn" \in DOMAIN op'.was
          /\ Has("save", "openvpn")' \/ file'["openvpn"] = op'.new
    BY <1>2, <1>4, <1>5, <2>1, <2>2 DEF FollowParts
  <2>6. op'.flow = "move" /\ Has("save", "openvpn")' =>
          /\ file'["openvpn"] = op'.was["openvpn"]
          /\ \/ op'.new = file'["openvpn"]
             \/ VpnTarget' = {} /\ op'.new \cap ({"tcp"} \X TcpPorts) = {}
                  /\ ~\E t \in Tunnels : Has("follow", t)'
             \/ \A t \in Tunnels \ trouble' : Has("follow", t)'
    BY <1>1, <1>2, <1>4, <1>5, <2>1, <2>2 DEF FollowParts
  <2> QED  BY <2>4, <2>5, <2>6 DEF FollowParts
<1> QED  BY <1>6, <1>7

\* A file is removed.
LEMMA FollowsForget ==
  ASSUME Typed, PlanOK, Follows, NEW s \in Services, Forget(s)
  PROVE  Follows'
<1>0. OpTyped(op) /\ At("forget", s) /\ Proceed /\ file \in [Services -> SUBSET Sockets]
      /\ to \in [Tunnels -> Targets] /\ meant \subseteq Tunnels
  BY TypedParts DEF Forget, TypeOK
<1>1. file' = [file EXCEPT ![s] = {}] /\ trouble' = trouble /\ meant' = meant \ {s}
      /\ \A t \in Tunnels : t # s => to'[t] = to[t]
  BY <1>0 DEF Forget, Files
<1> SUFFICES ASSUME "openvpn" \notin trouble PROVE FollowParts'
  BY <1>1 DEF Follows
<1>2. FollowParts
  BY DEF Follows
<1>3. Has("forget", s) /\ "forget" \in Demolition /\ "save" \in Building /\ "follow" \in Building
  BY <1>0, HereLeft DEF Demolition, Building
<1>4. \A t : ~Has("save", t) /\ ~Has("follow", t)
  BY <1>0, <1>3, Removing
<1>5. \A t : ~Has("save", t)' /\ ~Has("follow", t)'
  <2>1. \A m, t : Has(m, t)' => Has(m, t)
    BY <1>0, HeadDone
  <2> QED  BY <2>1, <1>4
<1>6. VpnTarget' = VpnTarget
  <2>1. s # "openvpn"
    BY <1>0, Proceeds DEF Belongs
  <2>2. file'["openvpn"] = file["openvpn"]
    BY <1>0, <1>1, <2>1 DEF Services, Claimants, Vpns
  <2> QED  BY <2>2 DEF VpnTarget
<1>7. \A t \in meant' \ trouble' : to'[t] \in VpnTarget'
  BY <1>0, <1>1, <1>2, <1>4, <1>6 DEF FollowParts
<1> QED  BY <1>5, <1>7 DEF FollowParts

\* OpenVPN's directory is removed.
LEMMA FollowsWipe ==
  ASSUME Typed, PlanOK, Follows, Wipe
  PROVE  Follows'
<1>0. OpTyped(op) /\ At("wipe", "openvpn") /\ Proceed /\ meant' = {}
  BY TypedParts DEF Wipe
<1>3. Has("wipe", "openvpn") /\ "wipe" \in Demolition /\ "save" \in Building
        /\ "follow" \in Building
  BY <1>0, HereLeft DEF Demolition, Building, Cleanup
<1>4. \A t : ~Has("save", t) /\ ~Has("follow", t)
  BY <1>0, <1>3, Removing
<1>5. \A t : ~Has("save", t)' /\ ~Has("follow", t)'
  <2>1. \A m, t : Has(m, t)' => Has(m, t)
    BY <1>0, HeadDone
  <2> QED  BY <2>1, <1>4
<1> QED  BY <1>0, <1>5 DEF Follows, FollowParts

\* followOpenVPNPort points a tunnel at the new port.
LEMMA FollowsFollow ==
  ASSUME Typed, PlanOK, Follows, NEW t \in Tunnels, Follow(t)
  PROVE  Follows'
<1>0. OpTyped(op) /\ At("follow", t) /\ file \in [Services -> SUBSET Sockets]
      /\ to \in [Tunnels -> Targets] /\ meant \subseteq Tunnels
      /\ UNCHANGED <<file, meant, trouble, doubt>> /\ t \in Services /\ "openvpn" \in Services
  BY TypedParts DEF Follow, TypeOK, Files, Services, Claimants, Vpns
<1> SUFFICES ASSUME "openvpn" \notin trouble PROVE FollowParts'
  BY <1>0 DEF Follows
<1>2. FollowParts
  BY DEF Follows
<1>3. VpnTarget' = VpnTarget
  BY <1>0 DEF VpnTarget
<1>4. CASE <<"tcp", to[t]>> \in op.was["openvpn"]
  <2>1. Proceed /\ \E k \in op.new : to' = [to EXCEPT ![t] = k[2]]
    BY <1>4 DEF Follow
  <2>2. /\ \A r : r # t => \A m : Has(m, r)' <=> Has(m, r)
        /\ Has("follow", t)
        /\ \A m, r : Has(m, r)' => /\ Has(m, r) /\ InOrder(<<"follow", t>>, <<m, r>>)
                                   /\ op'.new = op.new /\ op'.was = op.was /\ op'.flow = op.flow
    BY <1>0, <2>1, OthersLeft, HeadDone
  <2>3. ~Has("save", "openvpn")' /\ ~Has("save", "openvpn")
    <3>1. ~InOrder(<<"follow", t>>, <<"save", "openvpn">>)
      BY DEF InOrder, Rank, Tunnels
    <3> QED  BY <2>2, <3>1 DEF Tunnels
  <2>4. file["openvpn"] = op.new
    BY <1>2, <2>2, <2>3 DEF FollowParts
  <2>5. PICK k \in op.new : to' = [to EXCEPT ![t] = k[2]]
    BY <2>1
  <2>6. k[2] \in VpnTarget
    <3>1. op.new \subseteq {"tcp"} \X TcpPorts
      BY <1>0, <2>1, Proceeds DEF Belongs
    <3>2. k[1] = "tcp"
      BY <2>5, <3>1
    <3> QED  BY <2>4, <2>5, <3>2 DEF VpnTarget
  <2>7. \A u \in meant' \ trouble' :
          \/ to'[u] \in VpnTarget'
          \/ Has("follow", u)' /\ <<"tcp", to'[u]>> \in op'.was["openvpn"]
    BY <1>0, <1>2, <1>3, <2>2, <2>5, <2>6 DEF FollowParts
  <2> QED  BY <1>0, <1>2, <2>2, <2>3, <2>4, <2>7 DEF FollowParts
<1>5. CASE <<"tcp", to[t]>> \notin op.was["openvpn"]
  <2>1. to' = to /\ op' = Then(Tail(Tail(op.todo)))
    BY <1>5 DEF Follow
  <2>2. /\ Shrinks({"follow", "tryRestart"})
        /\ \A x \in Left : x \in Left' \/ x = <<"follow", t>> \/ x = <<"tryRestart", t>>
        /\ Has("follow", t)
    BY <1>0, <2>1, FollowSkips
  <2>3. /\ \A m, r : Has(m, r)' => /\ Has(m, r)
                                   /\ op'.new = op.new /\ op'.was = op.was /\ op'.flow = op.flow
        /\ \A r : r # t => (Has("follow", r)' <=> Has("follow", r))
        /\ Has("save", "openvpn")' <=> Has("save", "openvpn")
    <3>1. \A m, r : Has(m, r)' => /\ Has(m, r)
                                  /\ op'.new = op.new /\ op'.was = op.was /\ op'.flow = op.flow
      BY <2>2, Kept
    <3> QED  BY <3>1, <2>2 DEF Has
  <2>4. \A u \in meant' \ trouble' :
          \/ to'[u] \in VpnTarget'
          \/ Has("follow", u)' /\ <<"tcp", to'[u]>> \in op'.was["openvpn"]
    BY <1>0, <1>2, <1>3, <1>5, <2>1, <2>3 DEF FollowParts
  <2>5. (\E u \in Tunnels : Has("follow", u)') =>
          /\ "openvpn" \in DOMAIN op'.was
          /\ Has("save", "openvpn")' \/ file'["openvpn"] = op'.new
    BY <1>0, <1>2, <2>3 DEF FollowParts
  <2>6. ~Has("save", "openvpn")
    <3>1. PICK i \in 1..Len(op.todo) : Has("save", "openvpn") => op.todo[i] = <<"save", "openvpn">>
      <4>1. 1 \in 1..Len(op.todo)
        <5>1. op.todo \in Seq(Steps) /\ op.todo # <<>>  BY <1>0 DEF OpTyped, Ops, At
        <5> QED  BY <5>1, EmptySeq
      <4> QED  BY <4>1 DEF Has, Left, StepsIn
    <3>2. op.todo[1] = <<"follow", t>> /\ op.todo # <<>> /\ op.todo \in Seq(Steps)
      BY <1>0 DEF OpTyped, Ops, At
    <3>3. 1 \in 1..Len(op.todo)
      BY <3>2, EmptySeq
    <3>4. Has("save", "openvpn") => i # 1 /\ InOrder(op.todo[1], op.todo[i])
      <4>1. Goes(op.todo)  BY DEF PlanOK, Fits
      <4>2. Has("save", "openvpn") => i # 1  BY <3>1, <3>2
      <4>3. i # 1 => 1 < i  OBVIOUS
      <4> QED  BY <4>1, <4>2, <4>3, <3>3 DEF Goes
    <3>5. ~InOrder(<<"follow", t>>, <<"save", "openvpn">>)
      BY DEF InOrder, Rank, Tunnels
    <3> QED  BY <3>1, <3>2, <3>4, <3>5
  <2> QED  BY <2>3, <2>4, <2>5, <2>6 DEF FollowParts
<1> QED  BY <1>4, <1>5

-----------------------------------------------------------------------------
(* What is to be open, step by step.                                        *)

\* The steps of one service that Open speaks of stay.
SameLeft(s) ==
  /\ \A m : Has(m, s)' <=> Has(m, s)
  /\ \A m : Has(m, s)' => op'.new = op.new

\* A service that a step does not concern.
LEMMA OpenSame ==
  ASSUME NEW s, OpenOK(s), SameLeft(s), file'[s] = file[s], doubt' = doubt,
         \A k \in file[s] : (k \in live => k \in live') /\ (k \in lines => k \in lines'),
         Has("save", s) \/ Has("netLines", s) =>
           \A k \in op.new : (k \in live => k \in live') /\ (k \in lines => k \in lines')
  PROVE  OpenOK(s)'
<1>1. /\ Has("openLive", s)' <=> Has("openLive", s)
      /\ Has("openLine", s)' <=> Has("openLine", s)
      /\ Has("netLines", s)' <=> Has("netLines", s)
      /\ Has("forget", s)' <=> Has("forget", s)
      /\ Has("wipe", s)' <=> Has("wipe", s)
      /\ Has("save", s)' <=> Has("save", s)
      /\ Has("closeLive", s)' <=> Has("closeLive", s)
      /\ Has("closeLine", s)' <=> Has("closeLine", s)
      /\ Has("closeConf", s)' <=> Has("closeConf", s)
      /\ Has("sweepLive", s)' <=> Has("sweepLive", s)
      /\ Has("sweepLines", s)' <=> Has("sweepLines", s)
  BY DEF SameLeft
<1>2. (Going(s)' <=> Going(s)) /\ (Opens(s)' <=> Opens(s))
  BY <1>1 DEF Going, Opens
<1>3. /\ Has("openLive", s) \/ Has("save", s) \/ Has("netLines", s) => op'.new = op.new
      /\ Has("closeLive", s) \/ Has("closeLine", s) \/ Opens(s) => op'.new = op.new
  BY <1>1 DEF SameLeft, Opens
<1>4. \A k \in file'[s] \ doubt' :
        /\ k \in live' \/ Going(s)' \/ (k \in op'.new /\ Has("openLive", s)')
        /\ k \in lines' \/ Going(s)' \/ (k \in op'.new /\ Opens(s)')
  BY <1>1, <1>2, <1>3 DEF OpenOK
<1>5. Has("save", s)' =>
       /\ Has("openLive", s)' \/ op'.new \ doubt' \subseteq live'
       /\ Opens(s)' \/ op'.new \ doubt' \subseteq lines'
  BY <1>1, <1>2, <1>3 DEF OpenOK
<1>6. Has("netLines", s)' => Has("openLive", s)' \/ op'.new \ doubt' \subseteq live'
  BY <1>1, <1>2, <1>3 DEF OpenOK
<1>7. Has("closeLive", s)' \/ Has("closeLine", s)' =>
       Has("save", s)' \/ Has("forget", s)' \/ file'[s] \subseteq op'.new
  BY <1>1, <1>2, <1>3 DEF OpenOK
<1>8. Has("closeConf", s)' \/ Has("sweepLive", s)' \/ Has("sweepLines", s)' => Going(s)'
  BY <1>1, <1>2 DEF OpenOK
<1> QED  BY <1>4, <1>5, <1>6, <1>7, <1>8 DEF OpenOK

\* The steps of other services stay.
LEMMA LeftSame ==
  ASSUME OpTyped(op), PlanOK, NEW n, NEW s, At(n, s), Proceed, NEW r, r # s
  PROVE  SameLeft(r)
<1>1. \A m : Has(m, r)' <=> Has(m, r)
  BY OthersLeft
<1>2. \A m : Has(m, r)' => op'.new = op.new
  BY HeadDone
<1> QED  BY <1>1, <1>2 DEF SameLeft

\* A file is written.
LEMMA OpenSave ==
  ASSUME Typed, PlanOK, Open, NEW s \in Services, Save(s)
  PROVE  Open'
<1>0. OpTyped(op) /\ At("save", s) /\ Proceed /\ file \in [Services -> SUBSET Sockets]
      /\ file' = [file EXCEPT ![s] = op.new] /\ UNCHANGED <<live, lines, trouble, doubt>>
  BY TypedParts DEF Save, Files, rules
<1> SUFFICES ASSUME NEW r \in Claimants, r \notin trouble PROVE OpenOK(r)'
  BY <1>0 DEF Open
<1>1. OpenOK(r) /\ r \in Services
  BY DEF Open, Services
<1>2. CASE r # s
  <2>1. SameLeft(r)
    BY <1>0, <1>2, LeftSame
  <2> QED  BY <1>0, <1>1, <1>2, <2>1, OpenSame
<1>3. CASE r = s
  <2>1. /\ \A m : m # "save" => (Has(m, s)' <=> Has(m, s))
        /\ \A m : Has(m, s)' => op'.new = op.new
        /\ Has("save", s) /\ ~Has("save", s)'
    <3>1. ~InOrder(<<"save", s>>, <<"save", s>>)
      BY DEF InOrder
    <3>2. \A m : Has(m, s)' => op'.new = op.new
      BY <1>0, HeadDone
    <3> QED  BY <1>0, <3>1, <3>2, HereLeft
  <2>2. /\ Has("openLive", s)' <=> Has("openLive", s)
        /\ Has("openLine", s)' <=> Has("openLine", s)
        /\ Has("netLines", s)' <=> Has("netLines", s)
        /\ Has("forget", s)' <=> Has("forget", s)
        /\ Has("wipe", s)' <=> Has("wipe", s)
        /\ Has("closeConf", s)' <=> Has("closeConf", s)
        /\ Has("sweepLive", s)' <=> Has("sweepLive", s)
        /\ Has("sweepLines", s)' <=> Has("sweepLines", s)
    BY <2>1
  <2>3. (Going(s)' <=> Going(s)) /\ (Opens(s)' <=> Opens(s))
    BY <2>2 DEF Going, Opens
  <2>4. file'[s] = op.new
    BY <1>0
  <2>5. /\ Has("openLive", s)' \/ Has("netLines", s)' \/ Has("closeLive", s)'
             \/ Has("closeLine", s)' => op'.new = op.new
        /\ Opens(s)' => op'.new = op.new
    BY <2>1 DEF Opens
  <2>6. /\ Has("openLive", s) \/ op.new \ doubt \subseteq live
        /\ Opens(s) \/ op.new \ doubt \subseteq lines
        /\ Has("netLines", s) => Has("openLive", s) \/ op.new \ doubt \subseteq live
        /\ Has("closeConf", s) \/ Has("sweepLive", s) \/ Has("sweepLines", s) => Going(s)
    BY <1>1, <1>3, <2>1 DEF OpenOK
  <2> QED  BY <1>0, <1>3, <2>1, <2>2, <2>3, <2>4, <2>5, <2>6 DEF OpenOK
<1> QED  BY <1>2, <1>3

\* A service whose file is gone has nothing open to account for.
LEMMA OpenGone ==
  ASSUME NEW s, file'[s] = {}, ~Has("save", s)', ~Has("netLines", s)', ~Has("closeConf", s)',
         ~Has("sweepLive", s)', ~Has("sweepLines", s)'
  PROVE  OpenOK(s)'
BY DEF OpenOK

\* A file is removed.
LEMMA OpenForget ==
  ASSUME Typed, PlanOK, Open, NEW s \in Services, Forget(s)
  PROVE  Open'
<1>0. OpTyped(op) /\ At("forget", s) /\ Proceed /\ file \in [Services -> SUBSET Sockets]
      /\ file' = [file EXCEPT ![s] = {}] /\ UNCHANGED <<live, lines, trouble, doubt>>
  BY TypedParts DEF Forget, Files, rules
<1> SUFFICES ASSUME NEW r \in Claimants, r \notin trouble PROVE OpenOK(r)'
  BY <1>0 DEF Open
<1>1. OpenOK(r) /\ r \in Services
  BY DEF Open, Services
<1>2. CASE r # s
  <2>1. SameLeft(r)
    BY <1>0, <1>2, LeftSame
  <2> QED  BY <1>0, <1>1, <1>2, <2>1, OpenSame
<1>3. CASE r = s
  <2>1. /\ "forget" \in Demolition /\ "save" \in Building /\ "netLines" \in Building
        /\ {"closeConf", "sweepLive", "sweepLines"} \subseteq Cleanup
    BY DEF Demolition, Building, Cleanup
  <2>2. Has("forget", s) /\ \A m : Has(m, s)' => Has(m, s)
    BY <1>0, HeadDone
  <2>3. ~Has("save", s) /\ ~Has("netLines", s)
    BY <1>0, <2>1, <2>2, Removing
  <2>4. s # "openvpn"
    BY <1>0, Proceeds DEF Belongs
  <2>5. \A m \in Cleanup : ~Has(m, s)
    BY <2>4 DEF Has, Left, PlanOK, Fits, Belongs
  <2> QED  BY <1>0, <1>3, <2>1, <2>2, <2>3, <2>5, OpenGone
<1> QED  BY <1>2, <1>3

\* The directory goes last.
LEMMA CleanupOrder ==
  \A m \in {"closeConf", "sweepLive", "sweepLines", "unmail", "dropLines", "unforward", "unmasq",
       "unmasqLine"} :
    ~InOrder(<<"wipe", "openvpn">>, <<m, "openvpn">>)
BY DEF InOrder, Rank

\* OpenVPN's directory is removed.
LEMMA OpenWipe ==
  ASSUME Typed, PlanOK, Open, Wipe
  PROVE  Open'
<1>0. OpTyped(op) /\ At("wipe", "openvpn") /\ Proceed /\ file \in [Services -> SUBSET Sockets]
      /\ file' = [file EXCEPT !["openvpn"] = {}, !["extra"] = {}]
           /\ UNCHANGED <<live, lines, trouble, doubt>>
      /\ "openvpn" \in Services /\ "extra" \in Services
  BY TypedParts DEF Wipe, Files, rules, Services, Claimants, Vpns
<1> SUFFICES ASSUME NEW r \in Claimants, r \notin trouble PROVE OpenOK(r)'
  BY <1>0 DEF Open
<1>1. OpenOK(r) /\ r \in Services
  BY DEF Open, Services
<1>2. CASE r \notin Vpns
  <2>1. SameLeft(r)
    BY <1>0, <1>2, LeftSame DEF Vpns
  <2>2. file'[r] = file[r]
    BY <1>0, <1>1, <1>2 DEF Vpns
  <2> QED  BY <1>0, <1>1, <1>2, <2>1, <2>2, OpenSame
<1>3. CASE r \in Vpns
  <2>1. /\ "wipe" \in Demolition /\ "save" \in Building /\ "netLines" \in Building
        /\ {"closeConf", "sweepLive", "sweepLines"} \subseteq Cleanup
    BY DEF Demolition, Building, Cleanup
  <2>2. Has("wipe", "openvpn") /\ \A m, v : Has(m, v)' => Has(m, v)
          /\ InOrder(<<"wipe", "openvpn">>, <<m, v>>)
    BY <1>0, HeadDone
  <2>3. ~Has("save", r)' /\ ~Has("netLines", r)'
    BY <1>0, <2>1, <2>2, Removing
  <2>4. \A m \in {"closeConf", "sweepLive", "sweepLines"} : ~Has(m, r)'
    <3>1. CASE r = "openvpn"
      BY <2>2, <3>1, CleanupOrder
    <3>2. CASE r # "openvpn"
      <4>1. \A m \in Cleanup : ~Has(m, r)
        BY <3>2 DEF Has, Left, PlanOK, Fits, Belongs
      <4> QED  BY <2>1, <2>2, <4>1
    <3> QED  BY <3>1, <3>2
  <2>5. file'[r] = {}
    BY <1>0, <1>3 DEF Vpns
  <2> QED  BY <2>3, <2>4, <2>5, OpenGone
<1> QED  BY <1>2, <1>3

\* The steps that Open speaks of, all but one of which stay.
LEMMA OpenNames ==
  ASSUME OpTyped(op), PlanOK, NEW n, NEW s, At(n, s), Proceed
  PROVE  /\ Has(n, s)
         /\ n # "openLive" => (Has("openLive", s)' <=> Has("openLive", s))
         /\ n # "openLine" => (Has("openLine", s)' <=> Has("openLine", s))
         /\ n # "netLines" => (Has("netLines", s)' <=> Has("netLines", s))
         /\ n # "forget" => (Has("forget", s)' <=> Has("forget", s))
         /\ n # "wipe" => (Has("wipe", s)' <=> Has("wipe", s))
         /\ n # "save" => (Has("save", s)' <=> Has("save", s))
         /\ Has("openLive", s)' => op'.new = op.new /\ Has("openLive", s)
         /\ Has("openLine", s)' => op'.new = op.new /\ Has("openLine", s)
         /\ Has("netLines", s)' => op'.new = op.new /\ Has("netLines", s)
         /\ Has("save", s)' => op'.new = op.new /\ Has("save", s)
         /\ Has("closeLive", s)' => op'.new = op.new /\ Has("closeLive", s)
         /\ Has("closeLine", s)' => op'.new = op.new /\ Has("closeLine", s)
         /\ Has("closeConf", s)' => Has("closeConf", s)
         /\ Has("sweepLive", s)' => Has("sweepLive", s)
         /\ Has("sweepLines", s)' => Has("sweepLines", s)
<1>1. Has(n, s) /\ \A m : m # n => (Has(m, s)' <=> Has(m, s))
  BY HereLeft
<1>2. \A m : Has(m, s)' => op'.new = op.new /\ Has(m, s)
  BY HeadDone
<1> QED  BY <1>1, <1>2

\* A rule is made.
LEMMA OpenOpenLive ==
  ASSUME Typed, PlanOK, Open, NEW s \in Services, OpenLive(s)
  PROVE  Open'
<1>0. OpTyped(op) /\ At("openLive", s) /\ Proceed /\ live' = live \cup op.new
      /\ UNCHANGED <<file, lines, trouble, doubt>>
  BY TypedParts DEF OpenLive, Nets
<1> SUFFICES ASSUME NEW r \in Claimants, r \notin trouble PROVE OpenOK(r)'
  BY <1>0 DEF Open
<1>1. OpenOK(r)
  BY DEF Open
<1>2. CASE r # s
  <2>1. SameLeft(r)
    BY <1>0, <1>2, LeftSame
  <2> QED  BY <1>0, <1>1, <2>1, OpenSame
<1>3. CASE r = s
  BY <1>0, <1>1, <1>3, OpenNames DEF OpenOK, Going, Opens
<1> QED  BY <1>2, <1>3

\* A line is written.
LEMMA OpenOpenLine ==
  ASSUME Typed, PlanOK, Open, NEW s \in Services, OpenLine(s)
  PROVE  Open'
<1>0. OpTyped(op) /\ At("openLine", s) /\ Proceed /\ lines' = lines \cup op.new
      /\ UNCHANGED <<file, live, trouble, doubt>>
  BY TypedParts DEF OpenLine, Nets
<1> SUFFICES ASSUME NEW r \in Claimants, r \notin trouble PROVE OpenOK(r)'
  BY <1>0 DEF Open
<1>1. OpenOK(r)
  BY DEF Open
<1>2. CASE r # s
  <2>1. SameLeft(r)
    BY <1>0, <1>2, LeftSame
  <2> QED  BY <1>0, <1>1, <2>1, OpenSame
<1>3. CASE r = s
  BY <1>0, <1>1, <1>3, OpenNames DEF OpenOK, Going, Opens
<1> QED  BY <1>2, <1>3

\* setupNetworking writes its lines.
LEMMA OpenNetLines ==
  ASSUME Typed, PlanOK, Open, NetLines
  PROVE  Open'
<1>0. OpTyped(op) /\ At("netLines", "openvpn") /\ Proceed
      /\ lines' = lines \cup {Masq("openvpn"), Mail} \cup (op.new \cap live)
      /\ UNCHANGED <<file, live, trouble, doubt>>
  BY TypedParts DEF NetLines, Nets
<1> SUFFICES ASSUME NEW r \in Claimants, r \notin trouble PROVE OpenOK(r)'
  BY <1>0 DEF Open
<1>1. OpenOK(r)
  BY DEF Open
<1>2. CASE r # "openvpn"
  <2>1. SameLeft(r)
    BY <1>0, <1>2, LeftSame
  <2> QED  BY <1>0, <1>1, <2>1, OpenSame
<1>3. CASE r = "openvpn"
  <2>1. ~Has("openLive", r)
    <3>1. ~InOrder(<<"netLines", "openvpn">>, <<"openLive", "openvpn">>)
      BY DEF InOrder, Rank
    <3>2. Has("openLive", "openvpn")'
            => InOrder(<<"netLines", "openvpn">>, <<"openLive", "openvpn">>)
      BY <1>0, HeadDone
    <3>3. Has("openLive", "openvpn")' <=> Has("openLive", "openvpn")
      BY <1>0, HeadDone
    <3> QED  BY <3>1, <3>2, <3>3, <1>3
  <2>2. op.new \ doubt \subseteq live /\ Has("netLines", r)
    BY <1>0, <1>1, <1>3, <2>1, OpenNames DEF OpenOK
  <2>3. op.new \ doubt \subseteq lines'
    BY <1>0, <2>2
  <2> QED  BY <1>0, <1>1, <1>3, <2>1, <2>2, <2>3, OpenNames DEF OpenOK, Going, Opens
<1> QED  BY <1>2, <1>3

\* A port is closed when its file is written.
LEMMA CloseLast ==
  ASSUME NEW s \in Claimants
  PROVE  /\ ~InOrder(<<"closeLive", s>>, <<"save", s>>)
         /\ ~InOrder(<<"closeLine", s>>, <<"save", s>>)
BY DEF InOrder, Rank, Claimants, Vpns, Tunnels

\* Closing a port leaves what other claimants have, and what is being opened.
LEMMA OpenClose ==
  ASSUME OpTyped(op), PlanOK, Open, NEW n \in {"closeLive", "closeLine"}, NEW s \in Services,
         At(n, s), Proceed, UNCHANGED <<file, trouble, doubt>>,
         live \ LetGo(s) \subseteq live', lines \ LetGo(s) \subseteq lines'
  PROVE  Open'
<1> SUFFICES ASSUME NEW r \in Claimants, r \notin trouble PROVE OpenOK(r)'
  BY DEF Open
<1>1. OpenOK(r)
  BY DEF Open
<1>2. s \in Claimants
  BY Proceeds DEF Belongs
<1>3. CASE r # s
  <2>1. SameLeft(r)
    BY <1>3, LeftSame
  <2>2. \A k \in file[r] : k \notin LetGo(s)
    BY <1>3 DEF LetGo, HeldByOther
  <2>3. \A k \in op.new : k \notin LetGo(s)
    BY DEF LetGo
  <2> QED  BY <1>1, <2>1, <2>2, <2>3, OpenSame
<1>4. CASE r = s
  <2>1. ~Has("save", s)
    <3>1. Has("save", s)' => InOrder(<<n, s>>, <<"save", s>>)
      BY HeadDone
    <3>2. Has("save", s)' <=> Has("save", s)
      BY HeadDone
    <3> QED  BY <3>1, <3>2, <1>2, CloseLast
  <2>2. Has("forget", s) \/ file[s] \subseteq op.new
    BY <1>1, <1>4, <2>1, OpenNames DEF OpenOK
  <2>3. \A k \in op.new : k \notin LetGo(s)
    BY DEF LetGo
  <2>4. Going(s)' <=> Going(s)
    BY OpenNames DEF Going
  <2>5. Has("forget", s) => Going(s)
    BY DEF Going
  <2>6. \A k \in file'[s] \ doubt' :
          /\ k \in live' \/ Going(s)' \/ (k \in op'.new /\ Has("openLive", s)')
          /\ k \in lines' \/ Going(s)' \/ (k \in op'.new /\ Opens(s)')
    <3>1. (Has("openLive", s) => op'.new = op.new /\ Has("openLive", s)')
            /\ (Opens(s) => op'.new = op.new /\ Opens(s)')
      BY OpenNames DEF Opens
    <3> QED  BY <1>1, <1>4, <2>2, <2>3, <2>4, <2>5, <3>1 DEF OpenOK
  <2>7. ~Has("save", s)'
    BY <2>1, OpenNames
  <2>8. Has("netLines", s)' => Has("openLive", s)' \/ op'.new \ doubt' \subseteq live'
    BY <1>1, <1>4, <2>3, OpenNames DEF OpenOK
  <2>9. Has("closeLive", s)' \/ Has("closeLine", s)' =>
          Has("save", s)' \/ Has("forget", s)' \/ file'[s] \subseteq op'.new
    BY <2>2, OpenNames
  <2>10. Has("closeConf", s)' \/ Has("sweepLive", s)' \/ Has("sweepLines", s)' => Going(s)'
    BY <1>1, <1>4, <2>4, OpenNames DEF OpenOK
  <2> QED  BY <1>4, <2>6, <2>7, <2>8, <2>9, <2>10 DEF OpenOK
<1> QED  BY <1>3, <1>4

\* A rule is deleted.
LEMMA OpenCloseLive ==
  ASSUME Typed, PlanOK, Open, NEW s \in Services, CloseLive(s)
  PROVE  Open'
BY TypedParts, OpenClose DEF CloseLive, Nets

\* A line is deleted.
LEMMA OpenCloseLine ==
  ASSUME Typed, PlanOK, Open, NEW s \in Services, CloseLine(s)
  PROVE  Open'
BY TypedParts, OpenClose DEF CloseLine, Nets

\* cleanupOpenVPN closes only what no other service has.
LEMMA OpenSweep ==
  ASSUME OpTyped(op), PlanOK, Open, NEW n \in {"closeConf", "sweepLive", "sweepLines"},
         At(n, "openvpn"), Proceed, UNCHANGED <<file, trouble, doubt>>,
         \A k \in HeldByOther("openvpn") : (k \in live => k \in live')
              /\ (k \in lines => k \in lines')
  PROVE  Open'
<1> SUFFICES ASSUME NEW r \in Claimants, r \notin trouble PROVE OpenOK(r)'
  BY DEF Open
<1>1. OpenOK(r)
  BY DEF Open
<1>2. n \in Demolition /\ "save" \in Building /\ "netLines" \in Building
  BY DEF Demolition, Cleanup, Building
<1>3. ~Has("save", r) /\ ~Has("netLines", r)
  BY <1>2, OpenNames, Removing
<1>4. CASE r # "openvpn"
  <2>1. SameLeft(r)
    BY <1>4, LeftSame
  <2>2. file[r] \subseteq HeldByOther("openvpn")
    BY <1>4 DEF HeldByOther
  <2> QED  BY <1>1, <1>3, <2>1, <2>2, OpenSame
<1>5. CASE r = "openvpn"
  <2>1. Going(r) /\ Going(r)'
    BY <1>1, <1>5, OpenNames DEF OpenOK, Going
  <2>2. ~Has("save", r)' /\ ~Has("netLines", r)'
    BY <1>3, <1>5, OpenNames
  <2>3. Has("closeLive", r)' \/ Has("closeLine", r)' =>
          Has("save", r)' \/ Has("forget", r)' \/ file'[r] \subseteq op'.new
    BY <1>1, <1>3, <1>5, OpenNames DEF OpenOK
  <2> QED  BY <2>1, <2>2, <2>3 DEF OpenOK
<1> QED  BY <1>4, <1>5

\* The port in server.conf.
LEMMA OpenCloseConf ==
  ASSUME Typed, PlanOK, Open, CloseConf
  PROVE  Open'
<1>1. OpTyped(op) /\ At("closeConf", "openvpn") /\ Proceed /\ UNCHANGED <<file, trouble, doubt>>
      /\ live' = live \ (file["openvpn"] \ HeldByOther("openvpn")) /\ lines' = lines
  BY TypedParts DEF CloseConf, Nets
<1> QED  BY <1>1, OpenSweep

\* The ports rc.local opens, live.
LEMMA OpenSweepLive ==
  ASSUME Typed, PlanOK, Open, SweepLive
  PROVE  Open'
<1>1. OpTyped(op) /\ At("sweepLive", "openvpn") /\ Proceed /\ UNCHANGED <<file, trouble, doubt>>
      /\ live' = live \ Swept /\ lines' = lines
  BY TypedParts DEF SweepLive, Nets
<1>2. \A k \in HeldByOther("openvpn") : k \notin Swept
  BY DEF Swept
<1> QED  BY <1>1, <1>2, OpenSweep

\* The same, in rc.local.
LEMMA OpenSweepLines ==
  ASSUME Typed, PlanOK, Open, SweepLines
  PROVE  Open'
<1>1. OpTyped(op) /\ At("sweepLines", "openvpn") /\ Proceed /\ UNCHANGED <<file, trouble, doubt>>
      /\ lines' = lines \ Swept /\ live' = live
  BY TypedParts DEF SweepLines, Nets
<1>2. \A k \in HeldByOther("openvpn") : k \notin Swept
  BY DEF Swept
<1> QED  BY <1>1, <1>2, OpenSweep

\* The rules are those of rc.local.
LEMMA OpenReboot ==
  ASSUME Typed, Open, Reboot
  PROVE  Open'
<1>1. /\ Left' = {} /\ Fails /\ live' = lines /\ UNCHANGED <<file, lines>>
  BY TypedParts, Rests DEF Reboot
<1> SUFFICES ASSUME NEW r \in Claimants, r \notin trouble' PROVE OpenOK(r)'
  BY DEF Open
<1>2. OpenOK(r) /\ doubt \subseteq doubt'
  BY <1>1 DEF Open, Fails
<1>3. \A m : ~Has(m, r) /\ ~Has(m, r)'
  BY <1>1 DEF Has, Fails
<1>4. \A k \in file[r] \ doubt : k \in live /\ k \in lines
  BY <1>2, <1>3 DEF OpenOK, Going, Opens
<1>5. ~Has("save", r)' /\ ~Has("netLines", r)' /\ ~Has("closeLive", r)' /\ ~Has("closeLine", r)'
      /\ ~Has("closeConf", r)' /\ ~Has("sweepLive", r)' /\ ~Has("sweepLines", r)'
  BY <1>3
<1> QED  BY <1>1, <1>2, <1>4, <1>5 DEF OpenOK

-----------------------------------------------------------------------------
(* Who accounts for what is open, step by step.                             *)

\* Masquerading and mail rules are no sockets.
LEMMA NotSockets ==
  /\ \A v \in Vpns : Masq(v) \notin Sockets
  /\ Mail \notin Sockets
BY DEF Masq, Mail, Sockets

\* A step takes at most its own service's sockets off those to be closed.
LEMMA ClosingKept ==
  ASSUME OpTyped(op), PlanOK, NEW n, NEW s, At(n, s), Proceed, NEW m
  PROVE  /\ m # n => Closing(m)' = Closing(m)
         /\ Closing(m) \subseteq Closing(m)' \cup op.was[s]
         /\ Closing(m)' \subseteq Closing(m)
<1>1. \A r : /\ Has(m, r)' => Has(m, r) /\ op'.was = op.was
             /\ (m # n \/ r # s) => (Has(m, r)' <=> Has(m, r))
  BY HeadDone
<1> QED  BY <1>1 DEF Closing

\* Only a written file takes off those to be opened.
LEMMA PendingKept ==
  ASSUME OpTyped(op), PlanOK, NEW n, NEW s, At(n, s), Proceed
  PROVE  /\ n # "save" \/ s \notin Claimants => Pending' = Pending
         /\ Pending' \subseteq op.new /\ Pending \subseteq op.new
<1>1. \A r : /\ Has("save", r)' => Has("save", r) /\ op'.new = op.new
             /\ ("save" # n \/ r # s) => (Has("save", r)' <=> Has("save", r))
  BY HeadDone
<1> QED  BY <1>1 DEF Pending, Saving

\* Those are the operation's.
LEMMA PendingIf ==
  ASSUME NEW s \in Claimants, Has("save", s)
  PROVE  Pending = op.new
BY DEF Pending, Saving

\* A file is written: the old port will be closed.
LEMMA AccountedSave ==
  ASSUME Typed, PlanOK, Shut, Accounted, NEW s \in Services, Save(s)
  PROVE  Accounted'
<1>0. OpTyped(op) /\ At("save", s) /\ Proceed /\ file \in [Services -> SUBSET Sockets]
      /\ file' = [file EXCEPT ![s] = op.new] /\ UNCHANGED <<live, lines, trouble, doubt>>
  BY TypedParts DEF Save, Files, rules
<1>1. Closing("closeLive")' = Closing("closeLive") /\ Closing("closeLine")' = Closing("closeLine")
  BY <1>0, ClosingKept
<1>2. CASE s \notin Claimants
  <2>1. Claimed' = Claimed
    <3>1. \A c \in Claimants : file'[c] = file[c]
      BY <1>0, <1>2
    <3> QED  BY <3>1 DEF Claimed
  <2>2. Pending' = Pending
    BY <1>0, <1>2, PendingKept
  <2> QED  BY <1>0, <1>1, <2>1, <2>2 DEF Accounted
<1>3. CASE s \in Claimants
  <2>1. Has("save", s) /\ "save" \in Verbs
    BY <1>0, HeadDone DEF Verbs
  <2>2. /\ file[s] \subseteq op.was[s] \cup op.new
        /\ \/ file[s] \subseteq op.new \cup doubt
           \/ Has("closeLive", s) /\ Has("closeLine", s)
    BY <1>3, <2>1 DEF Shut, ShutOK
  <2>3. op.new \subseteq Claimed' /\ \A c \in Claimants : c # s => file[c] \subseteq Claimed'
    BY <1>0, <1>3 DEF Claimed
  <2>4. /\ Has("closeLive", s) => op.was[s] \subseteq Closing("closeLive")
        /\ Has("closeLine", s) => op.was[s] \subseteq Closing("closeLine")
    BY <1>3 DEF Closing
  <2>5. /\ file[s] \subseteq Claimed' \cup doubt \cup Closing("closeLive")
        /\ file[s] \subseteq Claimed' \cup doubt \cup Closing("closeLine")
    BY <2>2, <2>3, <2>4
  <2>6. /\ Claimed \subseteq Claimed' \cup doubt \cup Closing("closeLive")
        /\ Claimed \subseteq Claimed' \cup doubt \cup Closing("closeLine")
    BY <2>3, <2>5 DEF Claimed
  <2>7. Pending \subseteq Claimed'
    BY <1>0, <2>3, PendingKept
  <2> QED  BY <1>0, <1>1, <2>6, <2>7 DEF Accounted
<1> QED  BY <1>2, <1>3

\* A file is removed: its port will be closed.
LEMMA AccountedForget ==
  ASSUME Typed, PlanOK, Shut, Accounted, NEW s \in Services, Forget(s)
  PROVE  Accounted'
<1>0. OpTyped(op) /\ At("forget", s) /\ Proceed /\ file \in [Services -> SUBSET Sockets]
      /\ file' = [file EXCEPT ![s] = {}] /\ UNCHANGED <<live, lines, trouble, doubt>>
  BY TypedParts DEF Forget, Files, rules
<1>1. Closing("closeLive")' = Closing("closeLive") /\ Closing("closeLine")' = Closing("closeLine")
        /\ Pending' = Pending
  BY <1>0, ClosingKept, PendingKept
<1>2. CASE s \notin Claimants
  <2>1. Claimed' = Claimed
    <3>1. \A c \in Claimants : file'[c] = file[c]
      BY <1>0, <1>2
    <3> QED  BY <3>1 DEF Claimed
  <2> QED  BY <1>0, <1>1, <2>1 DEF Accounted
<1>3. CASE s \in Claimants
  <2>1. Has("forget", s) /\ "forget" \in Verbs /\ "forget" \in Demolition
    BY <1>0, HeadDone DEF Verbs, Demolition
  <2>2. op.new = {}
    BY <1>0, <2>1, Removing
  <2>3. /\ file[s] \subseteq op.was[s]
        /\ Has("closeLive", s) \/ live \cap file[s] \subseteq doubt \cup HeldByOther(s)
        /\ Has("closeLine", s) \/ lines \cap file[s] \subseteq doubt \cup HeldByOther(s)
    BY <1>3, <2>1, <2>2 DEF Shut, ShutOK
  <2>4. /\ \A c \in Claimants : c # s => file[c] \subseteq Claimed'
        /\ HeldByOther(s) \subseteq Claimed'
    BY <1>0, <1>3 DEF Claimed, HeldByOther
  <2>5. /\ Has("closeLive", s) => op.was[s] \subseteq Closing("closeLive")
        /\ Has("closeLine", s) => op.was[s] \subseteq Closing("closeLine")
    BY <1>3 DEF Closing
  <2>6. /\ live \cap file[s] \subseteq Claimed' \cup doubt \cup Closing("closeLive")
        /\ lines \cap file[s] \subseteq Claimed' \cup doubt \cup Closing("closeLine")
    BY <2>3, <2>4, <2>5
  <2>7. /\ live \cap Claimed \subseteq Claimed' \cup doubt \cup Closing("closeLive")
        /\ lines \cap Claimed \subseteq Claimed' \cup doubt \cup Closing("closeLine")
    BY <2>4, <2>6 DEF Claimed
  <2> QED  BY <1>0, <1>1, <2>7 DEF Accounted
<1> QED  BY <1>2, <1>3

\* OpenVPN's directory is removed: its ports are closed.
LEMMA AccountedWipe ==
  ASSUME Typed, PlanOK, Shut, Wiping, Accounted, Wipe
  PROVE  Accounted'
<1>0. OpTyped(op) /\ At("wipe", "openvpn") /\ Proceed /\ file \in [Services -> SUBSET Sockets]
      /\ file' = [file EXCEPT !["openvpn"] = {}, !["extra"] = {}]
           /\ UNCHANGED <<live, lines, trouble, doubt>>
  BY TypedParts DEF Wipe, Files, rules
<1>1. Has("wipe", "openvpn")
  BY <1>0, HeadDone
<1>2. ~Has("closeConf", "openvpn") /\ ~Has("sweepLines", "openvpn")
  <2>1. \A m : m # "wipe" => (Has(m, "openvpn")' <=> Has(m, "openvpn"))
    BY <1>0, HeadDone
  <2>2. \A m : Has(m, "openvpn")' => InOrder(<<"wipe", "openvpn">>, <<m, "openvpn">>)
    BY <1>0, HeadDone
  <2> QED  BY <2>1, <2>2, CleanupOrder
<1>3. ~Has("forget", "extra")
  <2>1. ~InOrder(<<"wipe", "openvpn">>, <<"forget", "extra">>)
    BY DEF InOrder, Rank
  <2>2. Has("forget", "extra")' <=> Has("forget", "extra")
    BY <1>0, HeadDone
  <2> QED  BY <1>0, <2>1, <2>2, HeadDone
<1>4. file["extra"] \subseteq doubt
  BY <1>1, <1>3 DEF Wiping
<1>5. HeldByOther("openvpn") \subseteq Claimed' \cup doubt
  <2>1. \A c \in Claimants \ {"openvpn", "extra"} : file[c] \subseteq Claimed'
    <3>1. ASSUME NEW c \in Claimants \ {"openvpn", "extra"} PROVE file'[c] = file[c]
      <4>1. c \in Services /\ c # "openvpn" /\ c # "extra"  BY DEF Services
      <4> QED  BY <1>0, <4>1
    <3> QED  BY <3>1 DEF Claimed
  <2> QED  BY <1>4, <2>1 DEF HeldByOther
<1>6. live \cap Sockets \subseteq doubt \cup HeldByOther("openvpn")
        /\ lines \cap Sockets \subseteq doubt \cup HeldByOther("openvpn")
  BY <1>1, <1>2 DEF Wiping
<1> QED  BY <1>0, <1>5, <1>6 DEF Accounted

\* What is opened is in a file, or will be.
LEMMA AccountedOpen ==
  ASSUME OpTyped(op), PlanOK, Shut, Accounted, NEW n \in {"openLive", "openLine", "netLines"},
         NEW s \in Services,
         At(n, s), Proceed, UNCHANGED <<file, doubt>>,
         live' \cap Sockets \subseteq live \cup op.new,
              lines' \cap Sockets \subseteq lines \cup op.new
  PROVE  Accounted'
<1>1. Closing("closeLive")' = Closing("closeLive") /\ Closing("closeLine")' = Closing("closeLine")
      /\ Pending' = Pending /\ Claimed' = Claimed
  BY ClosingKept, PendingKept DEF Claimed
<1>2. s \in Claimants /\ Has(n, s)
  BY Proceeds DEF Belongs, Claimants, Vpns
<1>3. Has("save", s) \/ op.new \subseteq file[s] \cup doubt
  BY <1>2 DEF Shut, ShutOK, Opens
<1>4. op.new \subseteq Claimed \cup doubt \cup Pending
  BY <1>2, <1>3, PendingIf DEF Claimed
<1> QED  BY <1>1, <1>4 DEF Accounted

\* A rule is made.
LEMMA AccountedOpenLive ==
  ASSUME Typed, PlanOK, Shut, Accounted, NEW s \in Services, OpenLive(s)
  PROVE  Accounted'
<1>1. OpTyped(op) /\ At("openLive", s) /\ Proceed /\ UNCHANGED <<file, doubt, lines>>
        /\ live' = live \cup op.new
  BY TypedParts DEF OpenLive, Nets
<1>2. live' \cap Sockets \subseteq live \cup op.new
        /\ lines' \cap Sockets \subseteq lines \cup op.new
  BY <1>1
<1> QED  BY <1>1, <1>2, AccountedOpen

\* A line is written.
LEMMA AccountedOpenLine ==
  ASSUME Typed, PlanOK, Shut, Accounted, NEW s \in Services, OpenLine(s)
  PROVE  Accounted'
<1>1. OpTyped(op) /\ At("openLine", s) /\ Proceed /\ UNCHANGED <<file, doubt, live>>
        /\ lines' = lines \cup op.new
  BY TypedParts DEF OpenLine, Nets
<1>2. live' \cap Sockets \subseteq live \cup op.new
        /\ lines' \cap Sockets \subseteq lines \cup op.new
  BY <1>1
<1> QED  BY <1>1, <1>2, AccountedOpen

\* setupNetworking writes its lines.
LEMMA AccountedNetLines ==
  ASSUME Typed, PlanOK, Shut, Accounted, NetLines
  PROVE  Accounted'
<1>1. OpTyped(op) /\ At("netLines", "openvpn") /\ Proceed /\ UNCHANGED <<file, doubt, live>>
      /\ lines' = lines \cup {Masq("openvpn"), Mail} \cup (op.new \cap live)
      /\ "openvpn" \in Services /\ "openvpn" \in Vpns
  BY TypedParts DEF NetLines, Nets, Services, Claimants, Vpns
<1>2. live' \cap Sockets \subseteq live \cup op.new
        /\ lines' \cap Sockets \subseteq lines \cup op.new
  BY <1>1, NotSockets
<1> QED  BY <1>1, <1>2, AccountedOpen

\* What is not closed is another's, or about to be.
LEMMA AccountedClose ==
  ASSUME OpTyped(op), PlanOK, Shut, Accounted, NEW n \in {"closeLive", "closeLine"},
         NEW s \in Services,
         At(n, s), Proceed, UNCHANGED <<file, doubt>>,
         live' = IF n = "closeLive" THEN live \ LetGo(s) ELSE live,
         lines' = IF n = "closeLine" THEN lines \ LetGo(s) ELSE lines
  PROVE  Accounted'
<1>1. Pending' = Pending /\ Claimed' = Claimed
  BY PendingKept DEF Claimed
<1>2. s \in Claimants /\ Has(n, s)
  BY Proceeds DEF Belongs
<1>3. Has("save", s) \/ op.new \subseteq file[s] \cup doubt
  BY <1>2 DEF Shut, ShutOK
<1>4. op.new \subseteq Claimed \cup doubt \cup Pending
  BY <1>2, <1>3, PendingIf DEF Claimed
<1>5. op.was[s] \subseteq LetGo(s) \cup Claimed \cup doubt \cup Pending
  BY <1>4 DEF LetGo, HeldByOther, Claimed
<1>6. CASE n = "closeLive"
  <2>1. Closing("closeLine")' = Closing("closeLine")
          /\ Closing("closeLive") \subseteq Closing("closeLive")' \cup op.was[s]
    BY <1>6, ClosingKept
  <2> QED  BY <1>1, <1>5, <1>6, <2>1 DEF Accounted
<1>7. CASE n = "closeLine"
  <2>1. Closing("closeLive")' = Closing("closeLive")
          /\ Closing("closeLine") \subseteq Closing("closeLine")' \cup op.was[s]
    BY <1>7, ClosingKept
  <2> QED  BY <1>1, <1>5, <1>7, <2>1 DEF Accounted
<1> QED  BY <1>6, <1>7

\* A rule is deleted.
LEMMA AccountedCloseLive ==
  ASSUME Typed, PlanOK, Shut, Accounted, NEW s \in Services, CloseLive(s)
  PROVE  Accounted'
BY TypedParts, AccountedClose DEF CloseLive, Nets

\* A line is deleted.
LEMMA AccountedCloseLine ==
  ASSUME Typed, PlanOK, Shut, Accounted, NEW s \in Services, CloseLine(s)
  PROVE  Accounted'
BY TypedParts, AccountedClose DEF CloseLine, Nets

\* The rules are those of rc.local.
LEMMA AccountedReboot ==
  ASSUME Typed, Accounted, Reboot
  PROVE  Accounted'
<1>1. /\ Left' = {} /\ Fails /\ live' = lines /\ UNCHANGED <<file, lines>>
  BY TypedParts, Rests DEF Reboot
<1>2. Claimed' = Claimed /\ doubt \subseteq doubt'
  BY <1>1 DEF Claimed, Fails
<1>3. Closing("closeLine") \subseteq doubt'
  <2>1. ASSUME NEW c, Has("closeLine", c) PROVE op.was[c] \subseteq doubt'
    BY <1>1, <2>1 DEF Has, Fails
  <2> QED  BY <2>1 DEF Closing
<1>4. Pending \subseteq doubt'
  <2>1. ASSUME NEW c, Has("save", c) PROVE op.new \subseteq doubt'
    BY <1>1, <2>1 DEF Has, Fails
  <2> QED  BY <2>1 DEF Pending, Saving
<1>5. lines \cap Sockets \subseteq Claimed' \cup doubt'
  BY <1>2, <1>3, <1>4 DEF Accounted
<1> QED  BY <1>1, <1>5 DEF Accounted

-----------------------------------------------------------------------------
(* What is to be closed, step by step.                                      *)

\* The steps that Shut speaks of, all but one of which stay.
LEMMA ShutNames ==
  ASSUME OpTyped(op), PlanOK, NEW n, NEW s, At(n, s), Proceed, NEW r
  PROVE  /\ n # "save" \/ r # s => (Has("save", r)' <=> Has("save", r))
         /\ n # "closeLive" \/ r # s => (Has("closeLive", r)' <=> Has("closeLive", r))
         /\ n # "closeLine" \/ r # s => (Has("closeLine", r)' <=> Has("closeLine", r))
         /\ n # "forget" \/ r # s => (Has("forget", r)' <=> Has("forget", r))
         /\ Has("save", r)' => op'.new = op.new /\ Has("save", r)
         /\ Has("closeLive", r)' => op'.new = op.new /\ Has("closeLive", r)
         /\ Has("closeLine", r)' => op'.new = op.new /\ Has("closeLine", r)
         /\ Has("openLive", r)' => op'.new = op.new /\ Has("openLive", r)
         /\ Opens(r)' => op'.new = op.new /\ Opens(r)
         /\ Has("forget", r)' => op'.new = op.new /\ Has("forget", r)
         /\ \A m : Has(m, r)' => Has(m, r) /\ op'.new = op.new /\ op'.was = op.was
<1>1. \A m : Has(m, r)' => Has(m, r) /\ op'.new = op.new /\ op'.was = op.was
  BY HeadDone
<1>2. \A m : m # n \/ r # s => (Has(m, r)' <=> Has(m, r))
  BY HeadDone
<1> QED  BY <1>1, <1>2 DEF Opens

\* A service whose file, steps and rules stay.
LEMMA ShutSame ==
  ASSUME OpTyped(op), PlanOK, NEW n, NEW s, At(n, s), Proceed, NEW r, ShutOK(r),
         file'[r] = file[r], doubt' = doubt,
         r # s \/ n \notin {"save", "closeLive", "closeLine"},
         Has("forget", r)' =>
           /\ live' \cap file[r] \subseteq live /\ lines' \cap file[r] \subseteq lines
           /\ r = "extra" => HeldByOther(r)' = HeldByOther(r)
  PROVE  ShutOK(r)'
<1>1. \A m \in Verbs : Has(m, r)' => file'[r] \subseteq op'.was[r] \cup op'.new
  BY ShutNames DEF ShutOK
<1>2. Has("save", r)' => \/ file'[r] \subseteq op'.new \cup doubt'
                         \/ Has("closeLive", r)' /\ Has("closeLine", r)'
  BY ShutNames DEF ShutOK
<1>3. Has("openLive", r)' \/ Opens(r)' \/ Has("closeLive", r)' \/ Has("closeLine", r)' =>
        Has("save", r)' \/ op'.new \subseteq file'[r] \cup doubt'
  BY ShutNames DEF ShutOK
<1>4. Has("forget", r)' =>
       /\ Has("closeLive", r)' \/ file'[r] \subseteq doubt'
            \/ (r = "extra" /\ live' \cap file'[r] \subseteq doubt' \cup HeldByOther(r)')
       /\ Has("closeLine", r)' \/ file'[r] \subseteq doubt'
            \/ (r = "extra" /\ lines' \cap file'[r] \subseteq doubt' \cup HeldByOther(r)')
  BY ShutNames DEF ShutOK
<1> QED  BY <1>1, <1>2, <1>3, <1>4 DEF ShutOK

\* A file is written.
LEMMA ShutSave ==
  ASSUME Typed, PlanOK, Shut, NEW s \in Services, Save(s)
  PROVE  Shut'
<1>0. OpTyped(op) /\ At("save", s) /\ Proceed /\ file \in [Services -> SUBSET Sockets]
      /\ file' = [file EXCEPT ![s] = op.new] /\ UNCHANGED <<live, lines, trouble, doubt>>
  BY TypedParts DEF Save, Files, rules
<1> SUFFICES ASSUME NEW r \in Claimants PROVE ShutOK(r)'
  BY DEF Shut
<1>1. ShutOK(r) /\ r \in Services
  BY DEF Shut, Services
<1>2. ~Has("forget", r)'
  <2>1. Has("save", s) /\ "save" \in Building /\ "forget" \in Demolition
    BY <1>0, HeadDone DEF Building, Demolition
  <2>2. ~Has("forget", r)
    BY <1>0, <2>1, Apart
  <2> QED  BY <1>0, <2>2, ShutNames
<1>3. CASE r # s
  <2>1. file'[r] = file[r]
    BY <1>0, <1>3
  <2> QED  BY <1>0, <1>1, <1>2, <1>3, <2>1, ShutSame
<1>4. CASE r = s
  <2>1. ~Has("save", s)'
    <3>1. ~InOrder(<<"save", s>>, <<"save", s>>)
      BY DEF InOrder
    <3> QED  BY <1>0, <3>1, HeadDone
  <2>2. file'[r] = op.new
    BY <1>0, <1>1, <1>4
  <2>3. /\ Has("openLive", r)' \/ Opens(r)' \/ Has("closeLive", r)' \/ Has("closeLine", r)'
             => op'.new = op.new
        /\ \A m : Has(m, r)' => op'.new = op.new
    BY <1>0, ShutNames
  <2> QED  BY <1>2, <1>4, <2>1, <2>2, <2>3 DEF ShutOK
<1> QED  BY <1>3, <1>4

\* A service whose file is gone in a removal.
LEMMA ShutGone ==
  ASSUME OpTyped(op), PlanOK, NEW n \in Demolition, NEW s, At(n, s), Proceed, NEW r, file'[r] = {}
  PROVE  ShutOK(r)'
<1>1. Has(n, s) /\ "save" \in Building
  BY HeadDone DEF Building
<1>2. ~Has("save", r) /\ op.new = {}
  BY <1>1, Removing
<1>3. ~Has("save", r)'
  BY <1>2, ShutNames
<1>4. Has("openLive", r)' \/ Opens(r)' \/ Has("closeLive", r)' \/ Has("closeLine", r)'
        => op'.new = {}
  BY <1>2, ShutNames
<1> QED  BY <1>3, <1>4 DEF ShutOK

\* The extra port is removed before the others' files are.
LEMMA ForgetFirst ==
  ASSUME NEW s \in Services, s \notin {"extra", "ssh", "openvpn"}
  PROVE  ~InOrder(<<"forget", s>>, <<"forget", "extra">>)
BY DEF InOrder, Rank, Services, Claimants, Managed, Vpns, Tunnels

\* A file is removed.
LEMMA ShutForget ==
  ASSUME Typed, PlanOK, Shut, NEW s \in Services, Forget(s)
  PROVE  Shut'
<1>0. OpTyped(op) /\ At("forget", s) /\ Proceed /\ file \in [Services -> SUBSET Sockets]
      /\ file' = [file EXCEPT ![s] = {}] /\ UNCHANGED <<live, lines, trouble, doubt>>
      /\ "forget" \in Demolition
  BY TypedParts DEF Forget, Files, rules, Demolition
<1> SUFFICES ASSUME NEW r \in Claimants PROVE ShutOK(r)'
  BY DEF Shut
<1>1. ShutOK(r) /\ r \in Services
  BY DEF Shut, Services
<1>2. CASE r # s
  <2>1. file'[r] = file[r]
    BY <1>0, <1>2
  <2>2. r = "extra" => ~Has("forget", r)'
    <3>1. s \notin {"ssh", "openvpn"}
      BY <1>0, Proceeds DEF Belongs
    <3>2. r = "extra" => ~InOrder(<<"forget", s>>, <<"forget", r>>)
      BY <3>1, <1>2, ForgetFirst
    <3> QED  BY <1>0, <3>2, HeadDone
  <2> QED  BY <1>0, <1>1, <1>2, <2>1, <2>2, ShutSame
<1>3. CASE r = s
  <2>1. file'[r] = {}
    BY <1>0, <1>3
  <2> QED  BY <1>0, <2>1, ShutGone
<1> QED  BY <1>2, <1>3

\* OpenVPN's directory is removed.
LEMMA ShutWipe ==
  ASSUME Typed, PlanOK, Shut, Wipe
  PROVE  Shut'
<1>0. OpTyped(op) /\ At("wipe", "openvpn") /\ Proceed /\ file \in [Services -> SUBSET Sockets]
      /\ file' = [file EXCEPT !["openvpn"] = {}, !["extra"] = {}]
           /\ UNCHANGED <<live, lines, trouble, doubt>>
      /\ "wipe" \in Demolition
  BY TypedParts DEF Wipe, Files, rules, Demolition, Cleanup
<1> SUFFICES ASSUME NEW r \in Claimants PROVE ShutOK(r)'
  BY DEF Shut
<1>1. ShutOK(r) /\ r \in Services
  BY DEF Shut, Services
<1>2. CASE r \notin Vpns
  <2>1. file'[r] = file[r] /\ r # "extra" /\ r # "openvpn"
    BY <1>0, <1>1, <1>2 DEF Vpns
  <2> QED  BY <1>0, <1>1, <2>1, ShutSame
<1>3. CASE r \in Vpns
  <2>1. file'[r] = {}
    BY <1>0, <1>1, <1>3 DEF Vpns
  <2> QED  BY <1>0, <2>1, ShutGone
<1> QED  BY <1>2, <1>3

\* A port is opened.
LEMMA ShutOpen ==
  ASSUME OpTyped(op), PlanOK, Shut, NEW n \in {"openLive", "openLine", "netLines"},
         NEW s \in Services,
         At(n, s), Proceed, UNCHANGED <<file, doubt>>
  PROVE  Shut'
<1> SUFFICES ASSUME NEW r \in Claimants PROVE ShutOK(r)'
  BY DEF Shut
<1>1. ShutOK(r)
  BY DEF Shut
<1>2. ~Has("forget", r)'
  <2>1. Has(n, s) /\ n \in Building /\ "forget" \in Demolition
    BY HeadDone DEF Building, Demolition
  <2>2. ~Has("forget", r)
    BY <2>1, Apart
  <2> QED  BY <2>2, ShutNames
<1> QED  BY <1>1, <1>2, ShutSame

\* A rule is made.
LEMMA ShutOpenLive ==
  ASSUME Typed, PlanOK, Shut, NEW s \in Services, OpenLive(s)
  PROVE  Shut'
BY TypedParts, ShutOpen DEF OpenLive, Nets

\* A line is written.
LEMMA ShutOpenLine ==
  ASSUME Typed, PlanOK, Shut, NEW s \in Services, OpenLine(s)
  PROVE  Shut'
BY TypedParts, ShutOpen DEF OpenLine, Nets

\* setupNetworking writes its lines.
LEMMA ShutNetLines ==
  ASSUME Typed, PlanOK, Shut, NetLines
  PROVE  Shut'
<1>1. "openvpn" \in Services
  BY DEF Services, Claimants, Vpns
<1> QED  BY <1>1, TypedParts, ShutOpen DEF NetLines, Nets

\* The ports of the others are closed when their files are gone.
LEMMA CloseAfterForget ==
  ASSUME NEW s \in Claimants, s \notin {"extra", "openvpn"}
  PROVE  /\ ~InOrder(<<"closeLive", s>>, <<"forget", s>>)
         /\ ~InOrder(<<"closeLine", s>>, <<"forget", s>>)
BY DEF InOrder, Rank, Claimants, Vpns, Tunnels

\* A port is closed.
LEMMA ShutClose ==
  ASSUME OpTyped(op), PlanOK, Shut, NEW n \in {"closeLive", "closeLine"}, NEW s \in Services,
         At(n, s), Proceed, UNCHANGED <<file, doubt>>,
         live' = IF n = "closeLive" THEN live \ LetGo(s) ELSE live,
         lines' = IF n = "closeLine" THEN lines \ LetGo(s) ELSE lines
  PROVE  Shut'
<1> SUFFICES ASSUME NEW r \in Claimants PROVE ShutOK(r)'
  BY DEF Shut
<1>1. ShutOK(r)
  BY DEF Shut
<1>2. CASE r # s
  <2>1. live' \subseteq live /\ lines' \subseteq lines /\ HeldByOther(r)' = HeldByOther(r)
    BY DEF HeldByOther
  <2> QED  BY <1>1, <1>2, <2>1, ShutSame
<1>3. CASE r = s
  <2>1. ~Has("save", s)' /\ ~Has("save", s)
    <3>1. Has("save", s)' => InOrder(<<n, s>>, <<"save", s>>)
      BY HeadDone
    <3>2. Has("save", s)' <=> Has("save", s)
      BY HeadDone
    <3> QED  BY <3>1, <3>2, <1>3, CloseLast
  <2>2. \A m \in Verbs : Has(m, r)' => file'[r] \subseteq op'.was[r] \cup op'.new
    BY <1>1, ShutNames DEF ShutOK
  <2>3. Has("openLive", r)' \/ Opens(r)' \/ Has("closeLive", r)' \/ Has("closeLine", r)' =>
          Has("save", r)' \/ op'.new \subseteq file'[r] \cup doubt'
    BY <1>1, <1>3, <2>1, ShutNames DEF ShutOK
  <2>4. ASSUME Has("forget", r)'
        PROVE  /\ Has("closeLive", r)' \/ file'[r] \subseteq doubt'
                    \/ (r = "extra" /\ live' \cap file'[r] \subseteq doubt' \cup HeldByOther(r)')
               /\ Has("closeLine", r)' \/ file'[r] \subseteq doubt'
                    \/ (r = "extra" /\ lines' \cap file'[r] \subseteq doubt' \cup HeldByOther(r)')
    <3>1. Has("forget", r) /\ InOrder(<<n, s>>, <<"forget", r>>) /\ "forget" \in Demolition
            /\ "forget" \in Verbs
      BY <2>4, HeadDone DEF Demolition, Verbs
    <3>2. r # "openvpn"
      BY <3>1 DEF Has, Left, PlanOK, Fits, Belongs
    <3>3. r = "extra"
      BY <3>1, <3>2, <1>3, CloseAfterForget
    <3>4. op.new = {} /\ file[r] \subseteq op.was[r]
      <4>1. op.new = {}
        BY <3>1, Removing
      <4> QED  BY <4>1, <3>1, <1>1 DEF ShutOK
    <3>5. HeldByOther(r)' = HeldByOther(r)
      BY DEF HeldByOther
    <3>6. file[r] \subseteq LetGo(r) \cup HeldByOther(r)
      BY <3>4 DEF LetGo
    <3>7. CASE n = "closeLive"
      <4>1. live' \cap file'[r] \subseteq doubt' \cup HeldByOther(r)'
        BY <3>5, <3>6, <3>7, <1>3
      <4>2. lines' = lines /\ (Has("closeLine", r)' <=> Has("closeLine", r))
        BY <3>7, ShutNames
      <4> QED  BY <1>1, <3>1, <3>3, <3>5, <4>1, <4>2 DEF ShutOK
    <3>8. CASE n = "closeLine"
      <4>1. lines' \cap file'[r] \subseteq doubt' \cup HeldByOther(r)'
        BY <3>5, <3>6, <3>8, <1>3
      <4>2. live' = live /\ (Has("closeLive", r)' <=> Has("closeLive", r))
        BY <3>8, ShutNames
      <4> QED  BY <1>1, <3>1, <3>3, <3>5, <4>1, <4>2 DEF ShutOK
    <3> QED  BY <3>7, <3>8
  <2> QED  BY <1>3, <2>1, <2>2, <2>3, <2>4 DEF ShutOK
<1> QED  BY <1>2, <1>3

\* A rule is deleted.
LEMMA ShutCloseLive ==
  ASSUME Typed, PlanOK, Shut, NEW s \in Services, CloseLive(s)
  PROVE  Shut'
BY TypedParts, ShutClose DEF CloseLive, Nets

\* A line is deleted.
LEMMA ShutCloseLine ==
  ASSUME Typed, PlanOK, Shut, NEW s \in Services, CloseLine(s)
  PROVE  Shut'
BY TypedParts, ShutClose DEF CloseLine, Nets

\* With nothing left to do there is nothing to account for.
LEMMA NothingLeft ==
  ASSUME Left' = {}
  PROVE  Shut' /\ Wiping'
<1>1. \A m, r : ~Has(m, r)'
  BY DEF Has
<1>2. \A r : ~Opens(r)'
  BY <1>1 DEF Opens
<1> QED  BY <1>1, <1>2 DEF Shut, ShutOK, Wiping

-----------------------------------------------------------------------------
(* The removal of OpenVPN, step by step.                                    *)

\* A step that builds is of no removal.
LEMMA WipingBuilds ==
  ASSUME OpTyped(op), PlanOK, NEW n \in Building, NEW s, At(n, s), Proceed
  PROVE  Wiping'
<1>1. Has(n, s) /\ "wipe" \in Demolition
  BY HeadDone DEF Demolition, Cleanup
<1>2. ~Has("wipe", "openvpn")
  BY <1>1, Apart
<1>3. ~Has("wipe", "openvpn")'
  BY <1>2, HeadDone
<1> QED  BY <1>3 DEF Wiping

\* The extra port's file is removed.
LEMMA WipingForget ==
  ASSUME Typed, PlanOK, Wiping, NEW s \in Services, Forget(s)
  PROVE  Wiping'
<1>0. OpTyped(op) /\ At("forget", s) /\ Proceed /\ file \in [Services -> SUBSET Sockets]
      /\ file' = [file EXCEPT ![s] = {}] /\ UNCHANGED <<live, lines, trouble, doubt>>
  BY TypedParts DEF Forget, Files, rules
<1> SUFFICES ASSUME Has("wipe", "openvpn")' PROVE Wiping'
  BY DEF Wiping
<1>1. Has("wipe", "openvpn") /\ InOrder(<<"forget", s>>, <<"wipe", "openvpn">>) /\ Has("forget", s)
  BY <1>0, HeadDone
<1>2. s = "extra"
  <2>1. s \in Vpns
    BY <1>1 DEF InOrder, Cleanup
  <2>2. s # "openvpn"
    BY <1>0, Proceeds DEF Belongs
  <2> QED  BY <2>1, <2>2 DEF Vpns
<1>3. Has("closeConf", "openvpn") /\ Has("sweepLines", "openvpn")
  BY <1>1, <1>2 DEF Has, Wiping
<1>4. Has("closeConf", "openvpn")' /\ Has("sweepLines", "openvpn")'
  <2>1. /\ Has("closeConf", "openvpn")' <=> Has("closeConf", "openvpn")
        /\ Has("sweepLines", "openvpn")' <=> Has("sweepLines", "openvpn")
    BY <1>0, HeadDone
  <2> QED  BY <2>1, <1>3
<1>5. file'["extra"] = {}
  BY <1>0, <1>2
<1> QED  BY <1>4, <1>5 DEF Wiping

\* The directory itself.
LEMMA WipingWipe ==
  ASSUME Typed, PlanOK, Wipe
  PROVE  Wiping'
<1>1. OpTyped(op) /\ At("wipe", "openvpn") /\ Proceed
  BY TypedParts DEF Wipe
<1>2. ~InOrder(<<"wipe", "openvpn">>, <<"wipe", "openvpn">>)
  BY DEF InOrder
<1> QED  BY <1>1, <1>2, HeadDone DEF Wiping

\* The extra port's steps come before the cleanup.
LEMMA ExtraFirst ==
  ASSUME NEW n \in {"closeConf", "sweepLines"}, NEW x, x[2] = "extra"
  PROVE  ~InOrder(<<n, "openvpn">>, x)
<1>1. Rank(x) \in {0, 1, 2} /\ Rank(<<n, "openvpn">>) = 4
  BY DEF Rank
<1>2. <<"dropUnit", "proxy">> \notin {<<n, "openvpn">>, x}
  OBVIOUS
<1> QED  BY <1>1, <1>2 DEF InOrder

\* The port in server.conf is closed: what is left is in rc.local as well.
LEMMA WipingCloseConf ==
  ASSUME Typed, PlanOK, Wiping, Accounted, CloseConf
  PROVE  Wiping'
<1>0. OpTyped(op) /\ At("closeConf", "openvpn") /\ Proceed
        /\ UNCHANGED <<file, lines, trouble, doubt>>
      /\ live' = live \ (file["openvpn"] \ HeldByOther("openvpn"))
  BY TypedParts DEF CloseConf, Nets
<1> SUFFICES ASSUME Has("wipe", "openvpn")' PROVE Wiping'
  BY DEF Wiping
<1>1. Has("wipe", "openvpn") /\ Has("closeConf", "openvpn") /\ "closeConf" \in Demolition
  BY <1>0, HeadDone DEF Demolition, Cleanup
<1>2. HeldByOther("openvpn")' = HeldByOther("openvpn")
  BY <1>0 DEF HeldByOther
<1>3. op.flow \in {"remove", "uninstall"} /\ Pending = {}
  BY <1>0, <1>1, Removing
<1>4. Closing("closeLive") = {}
  <2>1. ASSUME NEW c \in Claimants, Has("closeLive", c) PROVE FALSE
    <3>1. InOrder(<<"closeConf", "openvpn">>, <<"closeLive", c>>)
      <4>1. /\ Left = Left' \cup {<<"closeConf", "openvpn">>}
            /\ \A y \in Left' : InOrder(<<"closeConf", "openvpn">>, y)
        BY <1>0, Proceeds
      <4>2. <<"closeLive", c>> \in Left /\ <<"closeLive", c>> # <<"closeConf", "openvpn">>
        BY <2>1 DEF Has
      <4> QED  BY <4>1, <4>2
    <3>2. c \in Vpns
      BY <3>1 DEF InOrder, Cleanup
    <3>3. c # "extra"
      BY <3>1 DEF InOrder, Rank
    <3>4. Belongs(op, <<"closeLive", c>>)
      BY <2>1 DEF Has, Left, PlanOK, Fits
    <3> QED  BY <3>2, <3>3, <3>4, <1>3 DEF Belongs, Vpns
  <2> QED  BY <2>1 DEF Closing
<1>5. live \cap Sockets \subseteq Claimed \cup doubt
  BY <1>3, <1>4 DEF Accounted
<1>6. live' \cap Sockets \subseteq doubt \cup HeldByOther("openvpn")
  BY <1>0, <1>5 DEF Claimed, HeldByOther
<1>7. \A x \in Left' : x[2] # "extra"
  <2>1. \A x \in Left' : InOrder(<<"closeConf", "openvpn">>, x)
    BY <1>0, Proceeds
  <2> QED  BY <2>1, ExtraFirst
<1>8. /\ Has("sweepLines", "openvpn")' <=> Has("sweepLines", "openvpn")
      /\ Has("forget", "extra")' <=> Has("forget", "extra")
  BY <1>0, HeadDone
<1> QED  BY <1>0, <1>1, <1>2, <1>6, <1>7, <1>8 DEF Wiping

\* rc.local's lines go.
LEMMA WipingSweepLines ==
  ASSUME Typed, PlanOK, Wiping, SweepLines
  PROVE  Wiping'
<1>0. OpTyped(op) /\ At("sweepLines", "openvpn") /\ Proceed
        /\ UNCHANGED <<file, live, trouble, doubt>>
      /\ lines' = lines \ Swept
  BY TypedParts DEF SweepLines, Nets
<1> SUFFICES ASSUME Has("wipe", "openvpn")' PROVE Wiping'
  BY DEF Wiping
<1>1. Has("wipe", "openvpn")
  BY <1>0, HeadDone
<1>2. HeldByOther("openvpn")' = HeldByOther("openvpn")
  BY <1>0 DEF HeldByOther
<1>3. lines' \cap Sockets \subseteq HeldByOther("openvpn")
  BY <1>0 DEF Swept
<1>4. \A x \in Left' : x[2] # "extra"
  <2>1. \A x \in Left' : InOrder(<<"sweepLines", "openvpn">>, x)
    BY <1>0, Proceeds
  <2> QED  BY <2>1, ExtraFirst
<1>5. /\ Has("closeConf", "openvpn")' <=> Has("closeConf", "openvpn")
      /\ Has("forget", "extra")' <=> Has("forget", "extra")
  BY <1>0, HeadDone
<1> QED  BY <1>0, <1>1, <1>2, <1>3, <1>4, <1>5 DEF Wiping

-----------------------------------------------------------------------------
(* Masquerading, step by step.                                              *)

\* The steps that Masqs speaks of, all but one of which stay.
LEMMA MasqNames ==
  ASSUME OpTyped(op), PlanOK, NEW n, NEW s, At(n, s), Proceed, NEW v
  PROVE  /\ Has(n, s)
         /\ n # "save" \/ v # s => (Has("save", v)' <=> Has("save", v))
         /\ n # "masq" \/ v # s => (Has("masq", v)' <=> Has("masq", v))
         /\ n # "masqLine" \/ v # s => (Has("masqLine", v)' <=> Has("masqLine", v))
         /\ n # "netLines" \/ v # s => (Has("netLines", v)' <=> Has("netLines", v))
         /\ n # "unmasq" \/ v # s => (Has("unmasq", v)' <=> Has("unmasq", v))
         /\ n # "unmasqLine" \/ v # s => (Has("unmasqLine", v)' <=> Has("unmasqLine", v))
         /\ n # "dropLines" \/ v # s => (Has("dropLines", v)' <=> Has("dropLines", v))
         /\ (n # "forget" /\ n # "wipe") \/ v # s => (Going(v)' <=> Going(v))
         /\ Has("masq", v)' => Has("masq", v)
         /\ Has("masqLine", v)' => Has("masqLine", v)
         /\ Has("netLines", v)' => Has("netLines", v)
         /\ Has("unmasq", v)' => Has("unmasq", v)
         /\ Has("unmasqLine", v)' => Has("unmasqLine", v)
         /\ Has("dropLines", v)' => Has("dropLines", v)
         /\ Has("save", v)' => Has("save", v)
         /\ Going(v)' => Going(v)
<1>1. Left = Left' \cup {<<n, s>>}
  BY Proceeds
<1>2. /\ Has(n, s)
      /\ \A m : Has(m, v)' => Has(m, v)
      /\ \A m : m # n \/ v # s => (Has(m, v)' <=> Has(m, v))
  BY <1>1 DEF Has
<1>3. (n # "forget" /\ n # "wipe") \/ v # s => (Going(v)' <=> Going(v))
  <2>1. (n # "forget" /\ n # "wipe") \/ v # s =>
          (Has("forget", v)' <=> Has("forget", v)) /\ (Has("wipe", v)' <=> Has("wipe", v))
    BY <1>2
  <2> QED  BY <2>1 DEF Going
<1>4. Going(v)' => Going(v)
  <2>1. (Has("forget", v)' => Has("forget", v)) /\ (Has("wipe", v)' => Has("wipe", v))
    BY <1>2
  <2> QED  BY <2>1 DEF Going
<1> QED  BY <1>2, <1>3, <1>4

\* A step at one service's rules or file.
LEMMA MasqHere ==
  ASSUME OpTyped(op), PlanOK, Masqs, NEW n, NEW s, At(n, s), Proceed, trouble' = trouble,
         \A v \in Vpns : v # s =>
           /\ file'[v] = file[v]
           /\ (Masq(v) \in live' <=> Masq(v) \in live)
                /\ (Masq(v) \in lines' <=> Masq(v) \in lines),
         s \in Vpns /\ s \notin trouble => MasqOK(s)'
  PROVE  Masqs'
<1> SUFFICES ASSUME NEW v \in Vpns, v \notin trouble PROVE MasqOK(v)'
  BY DEF Masqs
<1>1. MasqOK(v)
  BY DEF Masqs
<1>2. CASE v # s
  <2>1. /\ Has("save", v)' <=> Has("save", v)
        /\ Has("masq", v)' <=> Has("masq", v)
        /\ Has("masqLine", v)' <=> Has("masqLine", v)
        /\ Has("netLines", v)' <=> Has("netLines", v)
        /\ Has("unmasq", v)' <=> Has("unmasq", v)
        /\ Has("unmasqLine", v)' <=> Has("unmasqLine", v)
        /\ Has("dropLines", v)' <=> Has("dropLines", v)
        /\ Going(v)' <=> Going(v)
    BY <1>2, MasqNames
  <2> QED  BY <1>1, <1>2, <2>1 DEF MasqOK
<1> QED  BY <1>2

\* A step that builds is of no removal.
LEMMA NoGoing ==
  ASSUME OpTyped(op), PlanOK, NEW n \in Building, NEW s, Has(n, s), NEW v
  PROVE  ~Going(v) /\ ~Has("unmasq", v) /\ ~Has("unmasqLine", v) /\ ~Has("dropLines", v)
<1>1. /\ "forget" \in Demolition /\ "wipe" \in Demolition /\ "unmasq" \in Demolition
      /\ "unmasqLine" \in Demolition /\ "dropLines" \in Demolition
  BY DEF Demolition, Cleanup
<1>2. ~Has("forget", v) /\ ~Has("wipe", v) /\ ~Has("unmasq", v) /\ ~Has("unmasqLine", v)
        /\ ~Has("dropLines", v)
  BY <1>1, Apart
<1> QED  BY <1>2 DEF Going

\* A file is written.
LEMMA MasqsSave ==
  ASSUME Typed, PlanOK, Masqs, NEW s \in Services, Save(s)
  PROVE  Masqs'
<1>0. OpTyped(op) /\ At("save", s) /\ Proceed /\ file \in [Services -> SUBSET Sockets]
      /\ file' = [file EXCEPT ![s] = op.new] /\ UNCHANGED <<live, lines, trouble>>
  BY TypedParts DEF Save, Files, rules
<1>1. Vpns \subseteq Services
  BY DEF Services, Claimants
<1>2. \A v \in Vpns : v # s => file'[v] = file[v]
  BY <1>0, <1>1
<1>3. ASSUME s \in Vpns, s \notin trouble PROVE MasqOK(s)'
  <2>1. MasqOK(s)
    BY <1>3 DEF Masqs
  <2>2. op.new # {} /\ file'[s] # {}
    BY <1>0, <1>3, Proceeds DEF Belongs
  <2>3. Has("save", s) /\ "save" \in Building
    BY <1>0, MasqNames DEF Building
  <2>4. ~Going(s) /\ ~Has("unmasq", s) /\ ~Has("unmasqLine", s) /\ ~Has("dropLines", s)
    BY <1>0, <2>3, NoGoing
  <2>5. /\ Has("masq", s)' <=> Has("masq", s)
        /\ Has("masqLine", s)' <=> Has("masqLine", s)
        /\ Has("netLines", s)' <=> Has("netLines", s)
        /\ ~Has("unmasq", s)' /\ ~Has("unmasqLine", s)' /\ ~Has("dropLines", s)' /\ ~Going(s)'
    BY <1>0, <2>4, MasqNames
  <2> QED  BY <1>0, <2>1, <2>2, <2>3, <2>4, <2>5 DEF MasqOK
<1> QED  BY <1>0, <1>2, <1>3, MasqHere

\* A file is removed.
LEMMA MasqsForget ==
  ASSUME Typed, PlanOK, Masqs, NEW s \in Services, Forget(s)
  PROVE  Masqs'
<1>0. OpTyped(op) /\ At("forget", s) /\ Proceed /\ file \in [Services -> SUBSET Sockets]
      /\ file' = [file EXCEPT ![s] = {}] /\ UNCHANGED <<live, lines, trouble>>
  BY TypedParts DEF Forget, Files, rules
<1>1. Vpns \subseteq Services
  BY DEF Services, Claimants
<1>2. \A v \in Vpns : v # s => file'[v] = file[v]
  BY <1>0, <1>1
<1>3. ASSUME s \in Vpns, s \notin trouble PROVE MasqOK(s)'
  <2>1. MasqOK(s)
    BY <1>3 DEF Masqs
  <2>2. s = "extra" /\ file'[s] = {}
    <3>1. file'[s] = {}
      BY <1>0
    <3>2. s # "openvpn"
      BY <1>0, Proceeds DEF Belongs
    <3> QED  BY <1>3, <3>1, <3>2 DEF Vpns
  <2>3. Has("forget", s) /\ Going(s) /\ "forget" \in Demolition
    BY <1>0, MasqNames DEF Going, Demolition
  <2>4. ~Has("unmasq", s)' /\ ~Has("unmasqLine", s)' /\ ~Has("dropLines", s)'
    <3>1. /\ ~InOrder(<<"forget", "extra">>, <<"unmasq", "extra">>)
          /\ ~InOrder(<<"forget", "extra">>, <<"unmasqLine", "extra">>)
      BY DEF InOrder, Rank
    <3>2. ~Has("unmasq", s)' /\ ~Has("unmasqLine", s)'
      BY <1>0, <2>2, <3>1, HeadDone
    <3>3. ~Has("dropLines", s)
      BY <2>2 DEF Has, Left, PlanOK, Fits, Belongs, Cleanup
    <3> QED  BY <1>0, <3>2, <3>3, MasqNames
  <2>5. ~Has("unmasq", s) /\ ~Has("unmasqLine", s) /\ ~Has("dropLines", s)
    BY <1>0, <2>4, MasqNames
  <2>6. ~Has("save", s)' /\ ~Has("masq", s)' /\ ~Has("masqLine", s)' /\ ~Has("netLines", s)'
    <3>1. "save" \in Building /\ "masq" \in Building /\ "masqLine" \in Building
            /\ "netLines" \in Building
      BY DEF Building
    <3>2. ~Has("save", s) /\ ~Has("masq", s) /\ ~Has("masqLine", s) /\ ~Has("netLines", s)
      BY <1>0, <2>3, <3>1, Removing
    <3> QED  BY <1>0, <3>2, MasqNames
  <2>7. Masq(s) \notin live' /\ Masq(s) \notin lines'
    BY <1>0, <2>1, <2>3, <2>5 DEF MasqOK
  <2> QED  BY <2>2, <2>4, <2>6, <2>7 DEF MasqOK
<1> QED  BY <1>0, <1>2, <1>3, MasqHere

\* OpenVPN's directory is removed, and with it the extra port's file.
LEMMA MasqsWipe ==
  ASSUME Typed, PlanOK, Masqs, Wiping, Wipe
  PROVE  Masqs'
<1>0. OpTyped(op) /\ At("wipe", "openvpn") /\ Proceed /\ file \in [Services -> SUBSET Sockets]
      /\ file' = [file EXCEPT !["openvpn"] = {}, !["extra"] = {}]
           /\ UNCHANGED <<live, lines, trouble>>
      /\ "openvpn" \in Services /\ "extra" \in Services
  BY TypedParts DEF Wipe, Files, rules, Services, Claimants, Vpns
<1>1. Has("wipe", "openvpn") /\ Going("openvpn")
  BY <1>0, MasqNames DEF Going
<1> SUFFICES ASSUME NEW v \in Vpns, v \notin trouble PROVE MasqOK(v)'
  BY <1>0 DEF Masqs
<1>2. MasqOK(v)
  BY DEF Masqs
<1>3. CASE v = "extra"
  <2>1. ~Has("forget", "extra")
    <3>1. ~InOrder(<<"wipe", "openvpn">>, <<"forget", "extra">>)
      BY DEF InOrder, Rank
    <3>2. Has("forget", "extra")' <=> Has("forget", "extra")
      BY <1>0, HeadDone
    <3> QED  BY <1>0, <3>1, <3>2, HeadDone
  <2>2. file["extra"] = {} /\ file'["extra"] = {}
    BY <1>0, <1>1, <1>3, <2>1 DEF Wiping
  <2>3. /\ Has("save", v)' <=> Has("save", v)
        /\ Has("masq", v)' <=> Has("masq", v)
        /\ Has("masqLine", v)' <=> Has("masqLine", v)
        /\ Has("netLines", v)' <=> Has("netLines", v)
        /\ Has("unmasq", v)' <=> Has("unmasq", v)
        /\ Has("unmasqLine", v)' <=> Has("unmasqLine", v)
        /\ Has("dropLines", v)' <=> Has("dropLines", v)
        /\ Going(v)' <=> Going(v)
    BY <1>0, <1>3, MasqNames
  <2> QED  BY <1>0, <1>2, <1>3, <2>2, <2>3 DEF MasqOK
<1>4. CASE v = "openvpn"
  <2>1. file'[v] = {}
    BY <1>0, <1>4
  <2>2. ~Has("unmasq", v)' /\ ~Has("unmasqLine", v)' /\ ~Has("dropLines", v)'
    BY <1>0, <1>4, CleanupOrder, HeadDone
  <2>3. ~Has("unmasq", v) /\ ~Has("unmasqLine", v) /\ ~Has("dropLines", v)
    BY <1>0, <2>2, MasqNames
  <2>4. ~Has("save", v)' /\ ~Has("masq", v)' /\ ~Has("masqLine", v)' /\ ~Has("netLines", v)'
    <3>1. "save" \in Building /\ "masq" \in Building /\ "masqLine" \in Building
            /\ "netLines" \in Building
          /\ "wipe" \in Demolition
      BY DEF Building, Demolition, Cleanup
    <3>2. ~Has("save", v) /\ ~Has("masq", v) /\ ~Has("masqLine", v) /\ ~Has("netLines", v)
      BY <1>0, <1>1, <3>1, Removing
    <3> QED  BY <1>0, <3>2, MasqNames
  <2>5. Masq(v) \notin live' /\ Masq(v) \notin lines'
    BY <1>0, <1>1, <1>2, <1>4, <2>3 DEF MasqOK
  <2> QED  BY <2>1, <2>2, <2>4, <2>5 DEF MasqOK
<1> QED  BY <1>3, <1>4 DEF Vpns

\* A rule is made, or a line.
LEMMA MasqsMade ==
  ASSUME OpTyped(op), PlanOK, Masqs, NEW n \in {"masq", "masqLine", "netLines"}, NEW s, At(n, s),
         Proceed,
         UNCHANGED <<file, trouble>>, NEW more,
              more \cap {Masq(v) : v \in Vpns} \subseteq {Masq(s)},
         IF n = "masq" THEN live' = live \cup {Masq(s)} /\ lines' = lines
         ELSE lines' = lines \cup {Masq(s)} \cup more /\ live' = live
  PROVE  Masqs'
<1>1. \A v \in Vpns : v # s => Masq(v) # Masq(s)
  BY DEF Masq
<1>2. \A v \in Vpns : v # s =>
        (Masq(v) \in live' <=> Masq(v) \in live) /\ (Masq(v) \in lines' <=> Masq(v) \in lines)
  BY <1>1
<1>3. ASSUME s \in Vpns, s \notin trouble PROVE MasqOK(s)'
  <2>1. MasqOK(s)
    BY <1>3 DEF Masqs
  <2>2. Has(n, s) /\ n \in Building
    BY MasqNames DEF Building
  <2>3. ~Going(s) /\ ~Has("unmasq", s) /\ ~Has("unmasqLine", s) /\ ~Has("dropLines", s)
    BY <2>2, NoGoing
  <2>4. /\ ~Has("unmasq", s)' /\ ~Has("unmasqLine", s)' /\ ~Has("dropLines", s)' /\ ~Going(s)'
        /\ Has("save", s)' <=> Has("save", s)
    BY <2>3, MasqNames
  <2>5. Has("save", s) \/ file[s] # {}
    BY <2>1, <2>2 DEF MasqOK
  <2>6. /\ Masq(s) \in live => Masq(s) \in live'
        /\ Masq(s) \in lines => Masq(s) \in lines'
        /\ n = "masq" => Masq(s) \in live'
        /\ n # "masq" => Masq(s) \in lines'
    OBVIOUS
  <2>7. /\ Masq(s) \in live' \/ Has("masq", s)'
        /\ Masq(s) \in lines' \/ Has("masqLine", s)' \/ Has("netLines", s)'
    <3>1. CASE n = "masq"
      <4>1. /\ Has("masqLine", s)' <=> Has("masqLine", s)
            /\ Has("netLines", s)' <=> Has("netLines", s)
        BY <3>1, MasqNames
      <4> QED  BY <2>1, <2>3, <2>5, <2>6, <3>1, <4>1 DEF MasqOK
    <3>2. CASE n # "masq"
      <4>1. Has("masq", s)' <=> Has("masq", s)
        BY <3>2, MasqNames
      <4> QED  BY <2>1, <2>3, <2>5, <2>6, <3>2, <4>1 DEF MasqOK
    <3> QED  BY <3>1, <3>2
  <2> QED  BY <2>4, <2>5, <2>7 DEF MasqOK
<1> QED  BY <1>2, <1>3, MasqHere

\* A rule is taken away, or a line.
LEMMA MasqsUnmade ==
  ASSUME OpTyped(op), PlanOK, Masqs, NEW n \in {"unmasq", "unmasqLine", "dropLines"}, NEW s,
         At(n, s), Proceed,
         UNCHANGED <<file, trouble>>,
         IF n = "unmasq" THEN live' = live \ {Masq(s)} /\ lines' = lines
         ELSE lines' \in {lines \ {Masq(s)}, lines \ {Masq(s), Mail}} /\ live' = live
  PROVE  Masqs'
<1>1. \A v \in Vpns : v # s => Masq(v) # Masq(s)
  BY DEF Masq
<1>2. \A v \in Vpns : Masq(v) # Mail
  BY DEF Masq, Mail
<1>3. \A v \in Vpns : v # s =>
        (Masq(v) \in live' <=> Masq(v) \in live) /\ (Masq(v) \in lines' <=> Masq(v) \in lines)
  BY <1>1, <1>2
<1>4. ASSUME s \in Vpns, s \notin trouble PROVE MasqOK(s)'
  <2>1. MasqOK(s)
    BY <1>4 DEF Masqs
  <2>2. Has(n, s) /\ Going(s)
    BY <2>1, MasqNames DEF MasqOK
  <2>3. /\ Going(s)'
        /\ Has("save", s)' <=> Has("save", s)
        /\ Has("masq", s)' <=> Has("masq", s)
        /\ Has("masqLine", s)' <=> Has("masqLine", s)
        /\ Has("netLines", s)' <=> Has("netLines", s)
    BY <2>2, MasqNames
  <2>4. /\ Masq(s) \in live' => Masq(s) \in live /\ n # "unmasq"
        /\ Masq(s) \in lines' => Masq(s) \in lines /\ n = "unmasq"
    OBVIOUS
  <2>5. /\ Has("unmasq", s)' \/ Masq(s) \notin live'
        /\ Has("unmasqLine", s)' \/ Has("dropLines", s)' \/ Masq(s) \notin lines'
    <3>1. CASE n = "unmasq"
      <4>1. /\ Has("unmasqLine", s)' <=> Has("unmasqLine", s)
            /\ Has("dropLines", s)' <=> Has("dropLines", s)
        BY <3>1, MasqNames
      <4> QED  BY <2>1, <2>2, <2>4, <3>1, <4>1 DEF MasqOK
    <3>2. CASE n # "unmasq"
      <4>1. Has("unmasq", s)' <=> Has("unmasq", s)
        BY <3>2, MasqNames
      <4> QED  BY <2>1, <2>2, <2>4, <3>2, <4>1 DEF MasqOK
    <3> QED  BY <3>1, <3>2
  <2>6. file'[s] = {} => Has("save", s)' \/ Masq(s) \notin live' \cup lines'
    BY <2>1, <2>3, <2>4 DEF MasqOK
  <2>7. Has("masq", s)' \/ Has("masqLine", s)' \/ Has("netLines", s)' => Has("save", s)'
          \/ file'[s] # {}
    BY <2>1, <2>3 DEF MasqOK
  <2> QED  BY <2>3, <2>5, <2>6, <2>7 DEF MasqOK
<1> QED  BY <1>3, <1>4, MasqHere

\* EnsureMasquerade and DeleteMasquerade.
LEMMA MasqsMasquerade ==
  ASSUME Typed, PlanOK, Masqs, NEW v \in Vpns, Masquerade(v) \/ Unmasquerade(v)
  PROVE  Masqs'
<1>0. OpTyped(op)
  BY TypedParts
<1>1. CASE Masquerade(v)
  <2>1. PICK n \in {"masq", "masqLine"} :
          /\ At(n, v) /\ Proceed /\ UNCHANGED <<file, trouble>>
          /\ IF n = "masq" THEN live' = live \cup {Masq(v)} /\ lines' = lines
             ELSE lines' = lines \cup {Masq(v)} /\ live' = live
    BY <1>1 DEF Masquerade, Nets
  <2>2. n \in {"masq", "masqLine", "netLines"} /\ {} \cap {Masq(w) : w \in Vpns} \subseteq {Masq(v)}
        /\ lines \cup {Masq(v)} = lines \cup {Masq(v)} \cup {}
    OBVIOUS
  <2>3. IF n = "masq" THEN live' = live \cup {Masq(v)} /\ lines' = lines
        ELSE lines' = lines \cup {Masq(v)} \cup {} /\ live' = live
    BY <2>1, <2>2
  <2> QED  BY <1>0, <2>1, <2>2, <2>3, MasqsMade
<1>2. CASE Unmasquerade(v)
  <2>1. PICK n \in {"unmasq", "unmasqLine"} :
          /\ At(n, v) /\ Proceed /\ UNCHANGED <<file, trouble>>
          /\ IF n = "unmasq" THEN live' = live \ {Masq(v)} /\ lines' = lines
             ELSE lines' \in {lines \ {Masq(v)}, lines \ {Masq(v), Mail}} /\ live' = live
    BY <1>2 DEF Unmasquerade, Nets
  <2>2. n \in {"unmasq", "unmasqLine", "dropLines"}
    OBVIOUS
  <2> QED  BY <1>0, <2>1, <2>2, MasqsUnmade
<1> QED  BY <1>1, <1>2

\* setupNetworking writes its lines.
LEMMA MasqsNetLines ==
  ASSUME Typed, PlanOK, Masqs, NetLines
  PROVE  Masqs'
<1>1. /\ OpTyped(op) /\ At("netLines", "openvpn") /\ Proceed /\ UNCHANGED <<file, trouble, live>>
      /\ lines' = lines \cup {Masq("openvpn"), Mail} \cup (op.new \cap live)
  BY TypedParts DEF NetLines, Nets
<1> DEFINE more == {Mail} \cup (op.new \cap live)
<1>2. more \cap {Masq(v) : v \in Vpns} \subseteq {Masq("openvpn")}
  <2>1. \A v \in Vpns : Masq(v) # Mail
    BY DEF Masq, Mail
  <2>2. op.new \subseteq Sockets
    BY <1>1, OpParts
  <2> QED  BY <2>1, <2>2, NotSockets
<1>3. lines' = lines \cup {Masq("openvpn")} \cup more
  BY <1>1
<1> HIDE DEF more
<1>4. "netLines" \in {"masq", "masqLine", "netLines"}
  OBVIOUS
<1>5. IF "netLines" = "masq" THEN live' = live \cup {Masq("openvpn")} /\ lines' = lines
      ELSE lines' = lines \cup {Masq("openvpn")} \cup more /\ live' = live
  BY <1>1, <1>3
<1> QED  BY <1>1, <1>2, <1>4, <1>5, MasqsMade

\* cleanupOpenVPN removes them.
LEMMA MasqsDropLines ==
  ASSUME Typed, PlanOK, Masqs, DropLines
  PROVE  Masqs'
<1>1. /\ OpTyped(op) /\ At("dropLines", "openvpn") /\ Proceed /\ UNCHANGED <<file, trouble, live>>
      /\ lines' = lines \ {Masq("openvpn"), Mail}
  BY TypedParts DEF DropLines, Nets
<1>2. "dropLines" \in {"unmasq", "unmasqLine", "dropLines"}
  OBVIOUS
<1>3. IF "dropLines" = "unmasq" THEN live' = live \ {Masq("openvpn")} /\ lines' = lines
      ELSE lines' \in {lines \ {Masq("openvpn")}, lines \ {Masq("openvpn"), Mail}} /\ live' = live
  BY <1>1
<1> QED  BY <1>1, <1>2, <1>3, MasqsUnmade

\* The rules are those of rc.local.
LEMMA MasqsReboot ==
  ASSUME Typed, Masqs, Reboot
  PROVE  Masqs'
<1>1. OpTyped(op) /\ op' = Resting /\ Touch /\ UNCHANGED <<file, lines>> /\ live' = lines
  BY TypedParts DEF Reboot
<1>2. Fails /\ Left' = {}
  BY <1>1, Rests
<1> SUFFICES ASSUME NEW v \in Vpns, v \notin trouble' PROVE MasqOK(v)'
  BY DEF Masqs
<1>3. MasqOK(v)
  BY <1>2 DEF Masqs, Fails
<1>4. \A n : ~Has(n, v)
  BY <1>2 DEF Fails, Has
<1>5. \A n : ~Has(n, v)'
  BY <1>2 DEF Has
<1>6. ~Has("save", v) /\ ~Has("masq", v) /\ ~Has("masqLine", v) /\ ~Has("netLines", v) /\ ~Going(v)
  BY <1>4 DEF Going
<1>7. /\ ~Has("save", v)' /\ ~Has("masq", v)' /\ ~Has("masqLine", v)' /\ ~Has("netLines", v)'
           /\ ~Going(v)'
      /\ ~Has("unmasq", v)' /\ ~Has("unmasqLine", v)' /\ ~Has("dropLines", v)'
  <2>1. ~Has("forget", v)' /\ ~Has("wipe", v)'
    BY <1>5
  <2>2. ~Going(v)'
    BY <2>1 DEF Going
  <2> QED  BY <1>5, <2>2
<1> QED  BY <1>1, <1>3, <1>6, <1>7 DEF MasqOK

-----------------------------------------------------------------------------
(* The FORWARD chain, step by step.                                         *)

\* The first step comes before the others.
LEMMA HeadFirst ==
  ASSUME OpTyped(op), PlanOK, NEW n, NEW s, At(n, s), NEW y \in Left, y # <<n, s>>
  PROVE  InOrder(<<n, s>>, y)
<1>1. Goes(op.todo) /\ op.todo \in Seq(Steps) /\ op.todo # <<>>
  BY DEF PlanOK, Fits, Goes, At
<1>2. op.todo[1] = <<n, s>>
  BY <1>1 DEF At
<1>3. PICK i \in 1..Len(op.todo) : y = op.todo[i]
  BY DEF Left, StepsIn
<1>4. 1 \in 1..Len(op.todo) /\ 1 < i
  BY <1>1, <1>2, <1>3, EmptySeq
<1> QED  BY <1>1, <1>2, <1>3, <1>4 DEF Goes

\* Nothing of the chain comes behind the tunnels' steps.
LEMMA FollowLast ==
  ASSUME NEW t \in Tunnels, NEW v \in Vpns, NEW n \in {"reply", "accept", "drop"}
  PROVE  ~InOrder(<<"follow", t>>, <<n, v>>)
<1>1. Rank(<<"follow", t>>) \in {10, 14} /\ Rank(<<n, v>>) \in {0, 4}
  BY DEF Rank, Tunnels, Vpns
<1>2. <<"dropUnit", "proxy">> \notin {<<"follow", t>>, <<n, v>>}
  OBVIOUS
<1> QED  BY <1>1, <1>2 DEF InOrder

\* followOpenVPNPort leaves the chain alone.
LEMMA ChainFollow ==
  ASSUME Typed, PlanOK, ChainOK, NEW t \in Tunnels, Follow(t)
  PROVE  ChainOK'
<1>1. OpTyped(op) /\ At("follow", t) /\ UNCHANGED <<trouble, doubt, egress, fwd, fwdLines>>
  BY TypedParts DEF Follow, Files, rules
<1>2. CASE Proceed
  BY <1>1, <1>2, ChainKeeps
<1>3. CASE op' = Then(Tail(Tail(op.todo)))
  <2> SUFFICES ASSUME trouble \cap (Vpns \cup {"egress"}) = {} PROVE ChainOK'
    BY <1>1 DEF ChainOK
  <2>1. ~Now("accept") /\ ~Now("drop")
    BY <1>1, NowHere
  <2>2. OpTyped(op') /\ Left' \subseteq Left
    BY <1>1, <1>3, FollowSkips DEF Shrinks
  <2>3. ASSUME NEW n \in {"accept", "drop"} PROVE ~Now(n)'
    <3> SUFFICES ASSUME Now(n)' PROVE FALSE
      OBVIOUS
    <3>1. Head(op'.todo) \in Left' /\ Head(op'.todo)[1] = n
      <4>1. op'.todo \in Seq(Steps) /\ op'.todo # <<>>  BY <2>2 DEF OpTyped, Ops, Now
      <4>2. 1 \in 1..Len(op'.todo) /\ Head(op'.todo) = op'.todo[1]  BY <4>1, EmptySeq
      <4> QED  BY <4>2 DEF Left, StepsIn, Now
    <3> DEFINE y == Head(op'.todo)
    <3>2. y \in Left /\ Belongs(op, y)
      BY <2>2, <3>1 DEF PlanOK, Fits, Left
    <3>3. y[2] \in Vpns /\ y = <<n, y[2]>>
      <4>1. y[2] \in Vpns
        BY <3>1, <3>2 DEF Belongs
      <4>2. y = <<y[1], y[2]>>
        BY <1>1, <3>2, OpParts DEF Left
      <4> QED  BY <3>1, <4>1, <4>2
    <3> HIDE DEF y
    <3>4. y # <<"follow", t>>
      BY <3>3
    <3>5. InOrder(<<"follow", t>>, y)
      BY <1>1, <3>2, <3>4, HeadFirst
    <3> QED  BY <3>3, <3>5, FollowLast
  <2>4. fwdLines \in {<<>>, <<"reply", egress, "drop">>} /\ fwd \in {<<>>, Forward(egress)}
    BY <2>1, ChainWhole
  <2>5. Forward(egress)' = Forward(egress)
    BY <1>1 DEF Forward
  <2> QED  BY <1>1, <2>3, <2>4, <2>5 DEF ChainOK
<1> QED  BY <1>2, <1>3 DEF Follow

\* ApplyForward.
LEMMA ChainApplyForward ==
  ASSUME Typed, PlanOK, ChainOK, NEW v \in Vpns, ApplyForward(v)
  PROVE  ChainOK'
<1>1. PICK n \in {"reply", "accept", "drop"} :
        LET spec == IF n = "accept" THEN egress ELSE n
        IN /\ At(n, v) /\ Proceed /\ Nets
           /\ fwd' = IF Contains(fwd, spec) THEN fwd ELSE <<spec>> \o fwd
           /\ UNCHANGED <<live, lines, fwdLines>>
  BY DEF ApplyForward
<1> DEFINE spec == IF n = "accept" THEN egress ELSE n
<1>2. /\ At(n, v) /\ Proceed /\ UNCHANGED <<trouble, egress, fwdLines>>
      /\ fwd' = IF Contains(fwd, spec) THEN fwd ELSE <<spec>> \o fwd
  BY <1>1 DEF Nets
<1>3. OpTyped(op) /\ egress \in Egresses
  BY TypedParts
<1>4. spec = IF n = "accept" THEN egress ELSE n
  OBVIOUS
<1> HIDE DEF spec
<1> QED  BY <1>2, <1>3, <1>4, ChainGrows

\* The steps that write the lines, or remove the rules.
LEMMA ChainLines ==
  ASSUME Typed, PlanOK, ChainOK, Unforward \/ ForwardLines \/ NetLines \/ DropLines
  PROVE  ChainOK'
<1>0. OpTyped(op) /\ egress \in Egresses
  BY TypedParts
<1>1. CASE Unforward
  <2>1. At("unforward", "openvpn") /\ Proceed /\ UNCHANGED <<trouble, egress, fwdLines>>
          /\ fwd' = <<>>
    BY <1>1 DEF Unforward, Nets
  <2> QED  BY <1>0, <2>1, ChainKeeps
<1>2. CASE ForwardLines
  <2>1. At("forwardLines", "extra") /\ Proceed /\ UNCHANGED <<trouble, egress, fwd>>
        /\ fwdLines' = Persisted(fwdLines)
    BY <1>2 DEF ForwardLines, Nets
  <2>2. fwdLines \in {<<>>, <<"reply", egress, "drop">>}
          => fwdLines' \in {<<>>, <<"reply", egress, "drop">>}
    BY <1>0, <2>1, Persists
  <2> QED  BY <1>0, <2>1, <2>2, ChainKeeps
<1>3. CASE NetLines
  <2>1. At("netLines", "openvpn") /\ Proceed /\ UNCHANGED <<trouble, egress, fwd>>
        /\ \/ \E kept \in Thinned(fwdLines) : fwdLines' = Persisted(kept)
           \/ fwdLines' = fwdLines
    BY <1>3 DEF NetLines, Nets
  <2>2. fwdLines \in {<<>>, <<"reply", egress, "drop">>}
          => fwdLines' \in {<<>>, <<"reply", egress, "drop">>}
    BY <1>0, <2>1, Persists, Thins
  <2> QED  BY <1>0, <2>1, <2>2, ChainKeeps
<1>4. CASE DropLines
  <2>1. At("dropLines", "openvpn") /\ Proceed /\ UNCHANGED <<trouble, egress, fwd>>
          /\ fwdLines' = <<>>
    BY <1>4 DEF DropLines, Nets
  <2> QED  BY <1>0, <2>1, ChainKeeps
<1> QED  BY <1>1, <1>2, <1>3, <1>4

\* Once the egress has moved nothing is claimed.
LEMMA ChainMoves ==
  ASSUME MoveEgress PROVE ChainOK'
BY DEF MoveEgress, ChainOK

-----------------------------------------------------------------------------
(* The types, step by step.                                                 *)

\* The parts of Typed.
FilesTyped ==
  /\ file \in [Services -> SUBSET Sockets] /\ to \in [Tunnels -> Targets] /\ meant \subseteq Tunnels
  /\ \A k, l \in file["openvpn"] : k = l

ServicesTyped ==
  /\ proc \in [Services -> SUBSET Sockets] /\ procTo \in [Tunnels -> Targets]
  /\ unit \subseteq Services /\ boot \subseteq Services /\ due \subseteq Services
  /\ "ssh" \in unit /\ \A s \in due : proc[s] = {}

\* A list of FORWARD rules, none of them twice.
ListOK(seq) == seq \in Seq(Specs) /\ NoTwice(seq)
RulesTyped == live \subseteq Rules /\ lines \subseteq Rules /\ ListOK(fwd) /\ ListOK(fwdLines)
RestTyped ==
  /\ egress \in Egresses /\ trouble \subseteq Services \cup {"egress"} /\ doubt \subseteq Sockets
  /\ spent \in 0..MaxSpent

\* Typed is the conjunction of its parts.
LEMMA TypedBy ==
  /\ Typed => OpTyped(op) /\ FilesTyped /\ ServicesTyped /\ RulesTyped /\ RestTyped
  /\ OpTyped(op) /\ FilesTyped /\ ServicesTyped /\ RulesTyped /\ RestTyped => Typed
  /\ OpTyped(op') /\ FilesTyped' /\ ServicesTyped' /\ RulesTyped' /\ RestTyped' => Typed'
<1>1. Typed => OpTyped(op) /\ FilesTyped /\ ServicesTyped /\ RulesTyped /\ RestTyped
  <2> SUFFICES ASSUME Typed PROVE OpTyped(op) /\ FilesTyped /\ ServicesTyped /\ RulesTyped
        /\ RestTyped
    OBVIOUS
  <2>1. OpTyped(op)
    BY DEF Typed, OpTyped, Left
  <2>2. FilesTyped
    BY DEF Typed, TypeOK, FilesTyped
  <2>3. ServicesTyped
    BY DEF Typed, TypeOK, ServicesTyped
  <2>4. RulesTyped
    BY DEF Typed, TypeOK, RulesTyped, ListOK
  <2>5. RestTyped
    BY DEF Typed, TypeOK, RestTyped
  <2> QED  BY <2>1, <2>2, <2>3, <2>4, <2>5
<1>2. ASSUME OpTyped(op), FilesTyped, ServicesTyped, RulesTyped, RestTyped PROVE Typed
  <2>1. /\ op.flow \in Flows /\ op.new \subseteq Sockets /\ op.to \in Targets
        /\ Of(op.todo) \subseteq DOMAIN op.was /\ op.was \in [DOMAIN op.was -> SUBSET Sockets]
    BY <1>2, OpParts
  <2>2. TypeOK
    BY <1>2, <2>1 DEF TypeOK, FilesTyped, ServicesTyped, RulesTyped, ListOK, RestTyped
  <2> QED  BY <1>2, <2>2 DEF Typed, OpTyped, FilesTyped, ServicesTyped, Left
<1>3. ASSUME OpTyped(op'), FilesTyped', ServicesTyped', RulesTyped', RestTyped' PROVE Typed'
  <2>1. /\ op'.flow \in Flows /\ op'.new \subseteq Sockets /\ op'.to \in Targets
        /\ Of(op'.todo) \subseteq DOMAIN op'.was /\ op'.was \in [DOMAIN op'.was -> SUBSET Sockets]
    BY <1>3, OpParts
  <2>2. TypeOK'
    BY <1>3, <2>1 DEF TypeOK, FilesTyped, ServicesTyped, RulesTyped, ListOK, RestTyped
  <2> QED  BY <1>3, <2>2 DEF Typed, OpTyped, FilesTyped, ServicesTyped, Left
<1> QED  BY <1>1, <1>2, <1>3

\* A step that leaves the variables of a part alone.
LEMMA TypedStays ==
  /\ FilesTyped /\ UNCHANGED <<file, to, meant>> => FilesTyped'
  /\ ServicesTyped /\ UNCHANGED services => ServicesTyped'
  /\ RulesTyped /\ UNCHANGED rules => RulesTyped'
  /\ RestTyped /\ UNCHANGED <<egress, trouble, doubt, spent>> => RestTyped'
BY DEF FilesTyped, ServicesTyped, RulesTyped, RestTyped, services, rules, ListOK

\* The bound's counter.
LEMMA SpendTyped ==
  ASSUME RestTyped, Spend
  PROVE  spent' \in 0..MaxSpent
BY ParametersOK DEF RestTyped, Spend

\* A step that writes or removes a file.
LEMMA TypedFiles ==
  ASSUME Typed, PlanOK, NEW n, NEW s, At(n, s), Proceed, Files, FilesTyped'
  PROVE  Typed'
BY TypedBy, TypedStays, Proceeds DEF Files

\* A step at units and processes.
LEMMA TypedUnits ==
  ASSUME Typed, PlanOK, NEW n, NEW s, At(n, s), Proceed, Units, ServicesTyped'
  PROVE  Typed'
BY TypedBy, TypedStays, Proceeds DEF Units

\* A step at firewall rules.
LEMMA TypedNets ==
  ASSUME Typed, PlanOK, NEW n, NEW s, At(n, s), Proceed, Nets, RulesTyped'
  PROVE  Typed'
BY TypedBy, TypedStays, Proceeds DEF Nets

\* A file is written.
LEMMA TypedSave ==
  ASSUME Typed, PlanOK, NEW s \in Services, Save(s)
  PROVE  Typed'
<1>1. OpTyped(op) /\ FilesTyped /\ At("save", s) /\ Proceed /\ Files
  BY TypedBy DEF Save
<1>2. op.new \subseteq Sockets /\ op.to \in Targets
  BY <1>1, OpParts
<1>3. file' = [file EXCEPT ![s] = op.new] /\ file \in [Services -> SUBSET Sockets]
  BY <1>1 DEF Save, FilesTyped
<1>4. file' \in [Services -> SUBSET Sockets]
  BY <1>2, <1>3
<1>5. to' \in [Tunnels -> Targets]
  BY <1>1, <1>2 DEF Save, FilesTyped
<1>6. meant' \subseteq Tunnels
  BY <1>1 DEF Save, FilesTyped
<1>7. \A k, l \in file'["openvpn"] : k = l
  <2>1. CASE s = "openvpn"
    <3>1. Belongs(op, <<"save", s>>)
      BY <1>1, Proceeds
    <3>2. \E k \in Sockets : op.new = {k}
      BY <2>1, <3>1 DEF Belongs, Vpns
    <3>3. file'["openvpn"] = op.new
      BY <1>3, <2>1
    <3> QED  BY <3>2, <3>3
  <2>2. CASE s # "openvpn"
    <3>1. file'["openvpn"] = file["openvpn"]
      BY <1>3, <2>2 DEF Services, Managed
    <3> QED  BY <3>1, <1>1 DEF FilesTyped
  <2> QED  BY <2>1, <2>2
<1>8. FilesTyped'
  BY <1>4, <1>5, <1>6, <1>7 DEF FilesTyped
<1> QED  BY <1>1, <1>8, TypedFiles

\* A file is removed.
LEMMA TypedForget ==
  ASSUME Typed, PlanOK, NEW s \in Services, Forget(s)
  PROVE  Typed'
<1>1. OpTyped(op) /\ FilesTyped /\ At("forget", s) /\ Proceed /\ Files
  BY TypedBy DEF Forget
<1>2. file' = [file EXCEPT ![s] = {}] /\ file \in [Services -> SUBSET Sockets]
      /\ "openvpn" \in Services
  BY <1>1 DEF Forget, FilesTyped, Services, Managed
<1>3. to' \in [Tunnels -> Targets]
  <2>1. Elsewhere \in Targets
    BY DEF Targets
  <2> QED  BY <1>1, <2>1 DEF Forget, FilesTyped
<1>4. meant' \subseteq Tunnels
  BY <1>1 DEF Forget, FilesTyped
<1>5. \A k, l \in file'["openvpn"] : k = l
  BY <1>1, <1>2 DEF FilesTyped
<1>6. FilesTyped'
  BY <1>2, <1>3, <1>4, <1>5 DEF FilesTyped
<1> QED  BY <1>1, <1>6, TypedFiles

\* OpenVPN's directory is removed.
LEMMA TypedWipe ==
  ASSUME Typed, PlanOK, Wipe
  PROVE  Typed'
<1>1. OpTyped(op) /\ FilesTyped /\ At("wipe", "openvpn") /\ Proceed /\ Files
  BY TypedBy DEF Wipe
<1>2. file' = [file EXCEPT !["openvpn"] = {}, !["extra"] = {}]
        /\ file \in [Services -> SUBSET Sockets]
      /\ "openvpn" \in Services /\ meant' = {} /\ to' = to
  BY <1>1 DEF Wipe, FilesTyped, Services, Managed
<1>3. FilesTyped'
  BY <1>1, <1>2 DEF FilesTyped
<1> QED  BY <1>1, <1>3, TypedFiles

\* A tunnel is pointed at another port.
LEMMA TypedFollow ==
  ASSUME Typed, PlanOK, NEW t \in Tunnels, Follow(t)
  PROVE  Typed'
<1>1. /\ OpTyped(op) /\ FilesTyped /\ ServicesTyped /\ RulesTyped /\ RestTyped
      /\ At("follow", t) /\ Files /\ UNCHANGED <<file, meant, trouble, doubt>>
  BY TypedBy DEF Follow, Files
<1>2. OpTyped(op') /\ to' \in [Tunnels -> Targets]
  <2>1. CASE (\E k \in op.new : to' = [to EXCEPT ![t] = k[2]]) /\ Proceed
    <3>1. OpTyped(op') /\ Belongs(op, <<"follow", t>>)
      BY <1>1, <2>1, Proceeds
    <3>2. PICK k \in op.new : to' = [to EXCEPT ![t] = k[2]]
      BY <2>1
    <3>3. k \in {"tcp"} \X TcpPorts
      BY <3>1, <3>2 DEF Belongs
    <3>4. k[2] \in Targets
      BY <3>3 DEF Targets
    <3> QED  BY <1>1, <3>1, <3>2, <3>4 DEF FilesTyped
  <2>2. CASE to' = to /\ op' = Then(Tail(Tail(op.todo)))
    <3>1. OpTyped(op')
      BY <1>1, <2>2, FollowSkips
    <3> QED  BY <1>1, <2>2, <3>1 DEF FilesTyped
  <2> QED  BY <2>1, <2>2 DEF Follow
<1>3. FilesTyped'
  BY <1>1, <1>2 DEF FilesTyped
<1>4. ServicesTyped' /\ RulesTyped' /\ RestTyped'
  BY <1>1, TypedStays DEF Files
<1> QED  BY <1>2, <1>3, <1>4, TypedBy

\* A unit file is written, removed, enabled or disabled.
LEMMA TypedUnit ==
  ASSUME Typed, PlanOK, NEW s \in Services, WriteUnit(s) \/ RemoveUnit(s) \/ Enable(s) \/ Disable(s)
  PROVE  Typed'
<1>1. OpTyped(op) /\ ServicesTyped
  BY TypedBy
<1>2. PICK n \in {"unit", "dropUnit", "enable", "disable"} :
        /\ At(n, s) /\ Proceed /\ Units /\ UNCHANGED <<due, proc, procTo>>
        /\ \/ n # "dropUnit" /\ unit' = unit \cup {s} /\ boot' = boot
           \/ n = "dropUnit" /\ unit' = unit \ {s} /\ boot' = boot
           \/ unit' = unit /\ boot' \in {boot \cup {s}, boot \ {s}}
  BY DEF WriteUnit, RemoveUnit, Enable, Disable
<1>3. n = "dropUnit" => s # "ssh"
  BY <1>1, <1>2, Proceeds DEF Belongs
<1>4. ServicesTyped'
  BY <1>1, <1>2, <1>3 DEF ServicesTyped
<1> QED  BY <1>2, <1>4, TypedUnits

\* A process is started, stopped or restarted.
LEMMA TypedProcess ==
  ASSUME Typed, PlanOK, NEW s \in Services, Start(s) \/ Stop(s) \/ Restart(s) \/ RemoveBinary(s)
  PROVE  Typed'
<1>1. OpTyped(op) /\ ServicesTyped
  BY TypedBy
<1>2. PICK n \in {"start", "stop", "restart", "tryRestart", "binary"} :
        /\ At(n, s) /\ Proceed /\ Units /\ UNCHANGED <<unit, boot, procTo>>
        /\ \/ proc' = [proc EXCEPT ![s] = {}] /\ due' \in {due, due \cup {s}, due \ {s}}
           \/ proc' = proc /\ due' = due
           \/ proc' = proc /\ proc[s] = {} /\ due' = due \cup {s}
  BY DEF Start, Stop, Restart, RemoveBinary, services
<1>3. ServicesTyped'
  <2>1. proc \in [Services -> SUBSET Sockets]
    BY <1>1 DEF ServicesTyped
  <2>2. CASE proc' = [proc EXCEPT ![s] = {}] /\ due' \in {due, due \cup {s}, due \ {s}}
    <3>1. proc' \in [Services -> SUBSET Sockets] /\ proc'[s] = {} /\ \A r \in Services : r # s
            => proc'[r] = proc[r]
      BY <2>1, <2>2
    <3> QED  BY <1>1, <1>2, <2>2, <3>1 DEF ServicesTyped
  <2>3. CASE proc' = proc /\ (due' = due \/ (proc[s] = {} /\ due' = due \cup {s}))
    BY <1>1, <1>2, <2>3 DEF ServicesTyped
  <2> QED  BY <1>2, <2>2, <2>3
<1> QED  BY <1>2, <1>3, TypedUnits

\* A service comes up, or does not.
LEMMA TypedComes ==
  ASSUME Typed, NEW s \in Services, Comes(s) \/ GivesUp(s)
  PROVE  Typed'
<1>1. OpTyped(op) /\ FilesTyped /\ ServicesTyped /\ RulesTyped /\ RestTyped
  BY TypedBy
<1>2. /\ UNCHANGED <<file, to, unit, boot, rules, egress, op, meant, trouble, doubt, spent>>
      /\ due' = due \ {s}
  BY DEF Comes, GivesUp
<1>3. proc' \in [Services -> SUBSET Sockets] /\ \A r \in Services : r # s => proc'[r] = proc[r]
  <2>1. Unbound(s) \subseteq Sockets
    BY <1>1, ParametersOK DEF Unbound, Listen, FilesTyped, Sockets
  <2> QED  BY <1>1, <2>1 DEF Comes, GivesUp, ServicesTyped
<1>4. procTo' \in [Tunnels -> Targets]
  BY <1>1 DEF Comes, GivesUp, ServicesTyped, FilesTyped
<1>5. ServicesTyped'
  BY <1>1, <1>2, <1>3, <1>4 DEF ServicesTyped
<1>6. OpTyped(op')
  BY <1>1, <1>2
<1>7. FilesTyped' /\ RulesTyped' /\ RestTyped'
  BY <1>1, <1>2, TypedStays
<1> QED  BY <1>5, <1>6, <1>7, TypedBy

\* A port is opened or closed.
LEMMA TypedOpens ==
  ASSUME Typed, PlanOK, NEW s \in Services,
         OpenLive(s) \/ OpenLine(s) \/ CloseLive(s) \/ CloseLine(s)
  PROVE  Typed'
<1>1. OpTyped(op) /\ RulesTyped /\ op.new \subseteq Sockets
  BY TypedBy, OpParts
<1>2. PICK n \in Verbs :
        /\ At(n, s) /\ Proceed /\ Nets /\ UNCHANGED <<fwd, fwdLines>>
        /\ live' \subseteq live \cup op.new /\ lines' \subseteq lines \cup op.new
  BY DEF OpenLive, OpenLine, CloseLive, CloseLine, Verbs
<1>3. RulesTyped'
  <2>1. Sockets \subseteq Rules
    BY DEF Rules
  <2>2. live' \subseteq Rules /\ lines' \subseteq Rules
    BY <1>1, <1>2, <2>1 DEF RulesTyped
  <2> QED  BY <1>1, <1>2, <2>2 DEF RulesTyped, ListOK
<1> QED  BY <1>2, <1>3, TypedNets

\* Masquerading and mail rules, and cleanupOpenVPN's.
LEMMA TypedRules ==
  ASSUME Typed, PlanOK,
         \/ \E v \in Vpns : Masquerade(v) \/ Unmasquerade(v)
         \/ MailRules \/ CloseConf \/ SweepLive \/ SweepLines
  PROVE  Typed'
<1>1. OpTyped(op) /\ RulesTyped
  BY TypedBy
<1>2. PICK n \in Verbs, v \in Vpns :
        /\ At(n, v) /\ Proceed /\ Nets /\ UNCHANGED <<fwd, fwdLines>>
        /\ live' \subseteq live \cup {Masq(v), Mail} /\ lines' \subseteq lines \cup {Masq(v), Mail}
  BY DEF Masquerade, Unmasquerade, MailRules, CloseConf, SweepLive, SweepLines, Verbs, Vpns
<1>3. RulesTyped'
  <2>1. {Masq(v), Mail} \subseteq Rules
    BY DEF Rules
  <2>2. live' \subseteq Rules /\ lines' \subseteq Rules
    BY <1>1, <1>2, <2>1 DEF RulesTyped
  <2> QED  BY <1>1, <1>2, <2>2 DEF RulesTyped, ListOK
<1> QED  BY <1>2, <1>3, TypedNets

\* A line that is not there is added, in front or behind.
LEMMA Added ==
  ASSUME NEW a, ListOK(a), NEW x \in Specs, ~Contains(a, x)
  PROVE  /\ ListOK(<<x>> \o a)
         /\ ListOK(a \o <<x>>)
         /\ \A y : Contains(a \o <<x>>, y) => Contains(a, y) \/ y = x
<1>1. a \in Seq(Specs) /\ Len(a) \in Nat /\ NoTwice(a) /\ \A i \in 1..Len(a) : a[i] # x
  BY DEF ListOK, Contains
<1>2. <<x>> \in Seq(Specs) /\ Len(<<x>>) = 1 /\ <<x>>[1] = x
  OBVIOUS
<1> DEFINE o == <<x>>
           f == o \o a
           b == a \o o
<1>3. o \in Seq(Specs) /\ Len(o) = 1 /\ o[1] = x
  BY <1>2
<1> HIDE DEF o
<1>4. f \in Seq(Specs) /\ Len(f) = Len(a) + 1 /\ \A i \in 1..Len(f) : f[i] = IF i = 1 THEN x
        ELSE a[i - 1]
  <2>1. f \in Seq(Specs) /\ Len(f) = 1 + Len(a)
        /\ \A i \in 1..(1 + Len(a)) : f[i] = IF i <= 1 THEN o[i] ELSE a[i - 1]
    BY <1>1, <1>3, ConcatProperties
  <2> QED  BY <1>1, <1>3, <2>1
<1>5. b \in Seq(Specs) /\ Len(b) = Len(a) + 1
        /\ \A i \in 1..Len(b) : b[i] = IF i <= Len(a) THEN a[i] ELSE x
  <2>1. b \in Seq(Specs) /\ Len(b) = Len(a) + 1
        /\ \A i \in 1..(Len(a) + 1) : b[i] = IF i <= Len(a) THEN a[i] ELSE o[i - Len(a)]
    <3>1. b \in Seq(Specs) /\ Len(b) = Len(a) + Len(o)
          /\ \A i \in 1..(Len(a) + Len(o)) : b[i] = IF i <= Len(a) THEN a[i] ELSE o[i - Len(a)]
      BY <1>1, <1>3, ConcatProperties
    <3> QED  BY <1>3, <3>1
  <2> QED  BY <1>1, <1>3, <2>1
<1> HIDE DEF f, b
<1>6. NoTwice(f)
  <2> SUFFICES ASSUME NEW i \in 1..Len(f), NEW j \in 1..Len(f), f[i] = f[j] PROVE i = j
    BY DEF NoTwice
  <2>1. (i # 1 => i - 1 \in 1..Len(a)) /\ (j # 1 => j - 1 \in 1..Len(a))
    BY <1>1, <1>4
  <2>2. CASE i = 1 \/ j = 1
    BY <1>1, <1>4, <2>1, <2>2
  <2>3. CASE i # 1 /\ j # 1
    <3>1. a[i - 1] = a[j - 1]
      BY <1>4, <2>3
    <3>2. i - 1 = j - 1
      BY <1>1, <2>1, <2>3, <3>1 DEF NoTwice
    <3> QED  BY <3>2
  <2> QED  BY <2>2, <2>3
<1>7. NoTwice(b)
  <2> SUFFICES ASSUME NEW i \in 1..Len(b), NEW j \in 1..Len(b), b[i] = b[j] PROVE i = j
    BY DEF NoTwice
  <2>1. CASE i <= Len(a) /\ j <= Len(a)
    <3>1. i \in 1..Len(a) /\ j \in 1..Len(a) /\ a[i] = a[j]
      BY <1>1, <1>5, <2>1
    <3> QED  BY <1>1, <3>1 DEF NoTwice
  <2>2. CASE i <= Len(a) /\ ~(j <= Len(a))
    <3>1. i \in 1..Len(a) /\ a[i] = x
      BY <1>1, <1>5, <2>2
    <3> QED  BY <1>1, <3>1
  <2>3. CASE ~(i <= Len(a)) /\ j <= Len(a)
    <3>1. j \in 1..Len(a) /\ a[j] = x
      BY <1>1, <1>5, <2>3
    <3> QED  BY <1>1, <3>1
  <2>4. CASE ~(i <= Len(a)) /\ ~(j <= Len(a))
    BY <1>1, <1>5, <2>4
  <2> QED  BY <2>1, <2>2, <2>3, <2>4
<1>8. ASSUME NEW y, Contains(b, y) PROVE Contains(a, y) \/ y = x
  <2>1. PICK i \in 1..Len(b) : b[i] = y
    BY <1>8 DEF Contains
  <2>2. CASE i <= Len(a)
    <3>1. i \in 1..Len(a) /\ a[i] = y
      BY <1>1, <1>5, <2>1, <2>2
    <3> QED  BY <3>1 DEF Contains
  <2>3. CASE ~(i <= Len(a))
    BY <1>5, <2>1, <2>3
  <2> QED  BY <2>2, <2>3
<1>9. ListOK(f) /\ ListOK(b) /\ \A y : Contains(b, y) => Contains(a, y) \/ y = x
  BY <1>4, <1>5, <1>6, <1>7, <1>8 DEF ListOK
<1> QED  BY <1>9 DEF f, b, o

\* The rules for the egress.
LEMMA SpecsOf ==
  ASSUME egress \in Egresses
  PROVE  /\ "drop" \in Specs /\ "reply" \in Specs /\ egress \in Specs
         /\ egress # "drop" /\ egress # "reply"
         /\ ToSet(Forward(egress)) \subseteq Specs
<1>1. "drop" \in Specs /\ "reply" \in Specs /\ egress \in Specs
  BY DEF Specs
<1>2. egress # "drop" /\ egress # "reply"
  BY EgressIsNoWord
<1>3. ToSet(Forward(egress)) \subseteq Specs
  <2>1. Forward(egress) \in Seq(Specs)
    BY <1>1 DEF Forward
  <2> QED  BY <2>1 DEF ToSet
<1> QED  BY <1>1, <1>2, <1>3

\* What missing lines do to a list.
LEMMA Once ==
  ASSUME NEW old, NEW a, ListOK(a), NEW x \in Specs, \A y : Contains(a, y) => Contains(old, y)
         \/ y # x
  PROVE  /\ ListOK(a \o IfMissing(x, old))
         /\ \A y : Contains(a \o IfMissing(x, old), y) => Contains(a, y) \/ y = x
<1>1. a \in Seq(Specs)
  BY DEF ListOK
<1>2. CASE Contains(old, x)
  <2>1. a \o IfMissing(x, old) = a
    BY <1>1, <1>2, ConcatEmptySeq DEF IfMissing
  <2> QED  BY <2>1
<1>3. CASE ~Contains(old, x)
  <2>1. IfMissing(x, old) = <<x>> /\ ~Contains(a, x)
    BY <1>3 DEF IfMissing
  <2> QED  BY <2>1, Added
<1> QED  BY <1>2, <1>3

\* The lines rc.local is left with are there once.
LEMMA PersistedOnce ==
  ASSUME egress \in Egresses, NEW old, ListOK(old)
  PROVE  ListOK(Persisted(old))
<1>0. "drop" \in Specs /\ "reply" \in Specs /\ egress \in Specs /\ egress # "drop"
        /\ egress # "reply"
  BY SpecsOf
<1> DEFINE a == old \o IfMissing("reply", old)
           b == a \o IfMissing(egress, old)
           c == b \o IfMissing("drop", old)
<1>1. ListOK(a) /\ \A y : Contains(a, y) => Contains(old, y) \/ y = "reply"
  <2>1. \A y : Contains(old, y) => Contains(old, y) \/ y # "reply"
    OBVIOUS
  <2> QED  BY <1>0, <2>1, Once
<1> HIDE DEF a
<1>2. ListOK(b) /\ \A y : Contains(b, y) => Contains(old, y) \/ y = "reply" \/ y = egress
  <2>1. \A y : Contains(a, y) => Contains(old, y) \/ y # egress
    BY <1>0, <1>1
  <2>2. ListOK(b) /\ \A y : Contains(b, y) => Contains(a, y) \/ y = egress
    BY <1>0, <1>1, <2>1, Once
  <2> QED  BY <1>1, <2>2
<1> HIDE DEF b
<1>3. ListOK(c)
  <2>1. \A y : Contains(b, y) => Contains(old, y) \/ y # "drop"
    BY <1>0, <1>2
  <2> QED  BY <1>0, <1>2, <2>1, Once
<1> QED  BY <1>3 DEF Persisted, a, b, c

\* So are those that setupNetworking keeps.
LEMMA ThinnedOnce ==
  ASSUME egress \in Egresses, NEW old, ListOK(old), NEW new \in Thinned(old)
  PROVE  ListOK(new)
<1>1. PICK n \in 0..3 : new \in [1..n -> ToSet(Forward(egress))]
  BY DEF Thinned
<1>2. new \in Seq(Specs) /\ Len(new) = n
  <2>1. new \in [1..n -> Specs] /\ n \in Nat
    BY <1>1, SpecsOf
  <2> QED  BY <2>1
<1>3. NoTwice(new)
  <2>1. \A i, j \in 1..Len(new) : i < j =>
          \E k, l \in 1..Len(old) : k < l /\ old[k] = new[i] /\ old[l] = new[j]
    BY DEF Thinned
  <2>2. \A k, l \in 1..Len(old) : old[k] = old[l] => k = l
    BY DEF ListOK, NoTwice
  <2>3. ASSUME NEW i \in 1..Len(new), NEW j \in 1..Len(new), i < j PROVE new[i] # new[j]
    <3>1. PICK k \in 1..Len(old), l \in 1..Len(old) : k < l /\ old[k] = new[i] /\ old[l] = new[j]
      BY <2>1, <2>3
    <3> QED  BY <2>2, <3>1
  <2>4. \A i, j \in 1..Len(new) : i < j \/ j < i \/ i = j
    BY <1>2
  <2> QED  BY <2>3, <2>4 DEF NoTwice
<1> QED  BY <1>2, <1>3 DEF ListOK

\* rc.local's lines insert each other backwards.
LEMMA ReversedOnce ==
  ASSUME NEW a, ListOK(a)
  PROVE  ListOK(Reverse(a))
<1>1. a \in Seq(Specs) /\ Len(a) \in Nat
  BY DEF ListOK
<1> DEFINE n == Len(a)
           r == Reverse(a)
<1>2. \A i \in 1..n : (n - i) + 1 \in 1..n
  BY <1>1
<1>3. r \in [1..n -> Specs] /\ \A i \in 1..n : r[i] = a[(n - i) + 1]
  <2>1. \A i \in 1..n : a[(n - i) + 1] \in Specs
    BY <1>1, <1>2
  <2> QED  BY <2>1 DEF Reverse
<1>4. r \in Seq(Specs) /\ Len(r) = n
  BY <1>1, <1>3
<1>5. NoTwice(r)
  <2> SUFFICES ASSUME NEW i \in 1..n, NEW j \in 1..n, r[i] = r[j] PROVE i = j
    BY <1>4 DEF NoTwice
  <2>1. a[(n - i) + 1] = a[(n - j) + 1] /\ (n - i) + 1 \in 1..n /\ (n - j) + 1 \in 1..n
    BY <1>2, <1>3
  <2>2. (n - i) + 1 = (n - j) + 1
    BY <2>1 DEF ListOK, NoTwice
  <2> QED  BY <1>1, <2>2
<1> QED  BY <1>4, <1>5 DEF ListOK

\* An empty list.
LEMMA EmptyOnce == ListOK(<<>>)
BY DEF ListOK, NoTwice

\* A FORWARD rule.
LEMMA TypedApplyForward ==
  ASSUME Typed, PlanOK, NEW v \in Vpns, ApplyForward(v)
  PROVE  Typed'
<1>0. RulesTyped /\ egress \in Egresses
  BY TypedBy DEF RestTyped
<1>1. PICK n \in {"reply", "accept", "drop"} :
        LET spec == IF n = "accept" THEN egress ELSE n
        IN /\ At(n, v) /\ Proceed /\ Nets
           /\ fwd' = IF Contains(fwd, spec) THEN fwd ELSE <<spec>> \o fwd
           /\ UNCHANGED <<live, lines, fwdLines>>
  BY DEF ApplyForward
<1> DEFINE spec == IF n = "accept" THEN egress ELSE n
<1>2. /\ At(n, v) /\ Proceed /\ Nets /\ UNCHANGED <<live, lines, fwdLines>>
      /\ fwd' = IF Contains(fwd, spec) THEN fwd ELSE <<spec>> \o fwd
  BY <1>1
<1>3. spec \in Specs
  BY <1>0, SpecsOf
<1> HIDE DEF spec
<1>4. ListOK(fwd')
  <2>1. ListOK(fwd)
    BY <1>0 DEF RulesTyped
  <2> QED  BY <1>2, <1>3, <2>1, Added
<1>5. RulesTyped'
  BY <1>0, <1>2, <1>4 DEF RulesTyped, ListOK
<1> QED  BY <1>2, <1>5, TypedNets

\* The FORWARD lines.
LEMMA TypedLines ==
  ASSUME Typed, PlanOK, Unforward \/ ForwardLines \/ NetLines \/ DropLines
  PROVE  Typed'
<1>0. OpTyped(op) /\ RulesTyped /\ egress \in Egresses /\ ListOK(fwd) /\ ListOK(fwdLines)
      /\ live \subseteq Rules /\ lines \subseteq Rules
  BY TypedBy DEF RestTyped, RulesTyped
<1>1. PICK n \in Verbs, v \in Vpns :
        /\ At(n, v) /\ Proceed /\ Nets /\ live' = live
        /\ lines' \subseteq lines \cup {Masq("openvpn"), Mail} \cup live
        /\ fwd' = fwd \/ fwd' = <<>>
        /\ \/ fwdLines' = fwdLines \/ fwdLines' = <<>> \/ fwdLines' = Persisted(fwdLines)
           \/ \E kept \in Thinned(fwdLines) : fwdLines' = Persisted(kept)
  <2>1. {"unforward", "forwardLines", "netLines", "dropLines"} \subseteq Verbs
          /\ "openvpn" \in Vpns /\ "extra" \in Vpns
    BY DEF Verbs, Vpns
  <2>2. CASE Unforward
    BY <2>1, <2>2 DEF Unforward
  <2>3. CASE ForwardLines
    BY <2>1, <2>3 DEF ForwardLines
  <2>4. CASE NetLines
    BY <2>1, <2>4 DEF NetLines
  <2>5. CASE DropLines
    BY <2>1, <2>5 DEF DropLines
  <2> QED  BY <2>2, <2>3, <2>4, <2>5
<1>2. ListOK(fwd') /\ ListOK(fwdLines')
  BY <1>0, <1>1, EmptyOnce, PersistedOnce, ThinnedOnce
<1>3. lines' \subseteq Rules /\ live' \subseteq Rules
  BY <1>0, <1>1 DEF Rules, Vpns
<1>4. RulesTyped'
  BY <1>2, <1>3 DEF RulesTyped, ListOK
<1> QED  BY <1>1, <1>4, TypedNets

\* OpenVPN is waited for.
LEMMA TypedAwait ==
  ASSUME Typed, PlanOK, Await
  PROVE  Typed'
BY TypedBy, TypedStays, TypedUnits DEF Await

\* An operation that stops, whatever stops it.
LEMMA TypedFails ==
  ASSUME Typed, PlanOK, Fails, UNCHANGED <<file, to, meant, egress>>, Spend \/ spent' = spent,
         ServicesTyped', RulesTyped'
  PROVE  Typed'
<1>1. FilesTyped' /\ OpTyped(op')
  BY TypedBy, TypedStays DEF Fails
<1>2. RestTyped'
  BY TypedBy, SpendTyped DEF RestTyped, Fails
<1> QED  BY <1>1, <1>2, TypedBy

\* A failed step, a crash, or OpenVPN not coming up.
LEMMA TypedStops ==
  ASSUME Typed, PlanOK, StepFails \/ Crash \/ AwaitTimeout
  PROVE  Typed'
<1>1. Fails
  BY TypedBy, StepsOver, Rests DEF Crash, AwaitTimeout
<1>2. UNCHANGED <<file, to, services, rules, egress, meant>> /\ (Spend \/ spent' = spent)
  BY DEF StepFails, Crash, AwaitTimeout
<1>3. ServicesTyped' /\ RulesTyped'
  BY <1>2, TypedBy, TypedStays
<1> QED  BY <1>1, <1>2, <1>3, TypedFails

\* The machine reboots.
LEMMA TypedReboot ==
  ASSUME Typed, PlanOK, Reboot
  PROVE  Typed'
<1>1. Fails
  BY TypedBy, Rests DEF Reboot
<1>2. ServicesTyped /\ RulesTyped
  BY TypedBy
<1>3. ServicesTyped'
  <2>1. proc' \in [Services -> SUBSET Sockets] /\ \A s \in Services : proc'[s] = {}
    BY DEF Reboot
  <2> QED  BY <1>2, <2>1 DEF Reboot, ServicesTyped
<1>4. RulesTyped'
  <2>1. ListOK(fwd')
    BY <1>2, ReversedOnce DEF Reboot, RulesTyped
  <2> QED  BY <1>2, <2>1 DEF Reboot, RulesTyped, ListOK
<1>5. UNCHANGED <<file, to, meant, egress>> /\ Spend
  BY DEF Reboot
<1> QED  BY <1>1, <1>3, <1>4, <1>5, TypedFails

\* The egress moves.
LEMMA TypedMoves ==
  ASSUME Typed, MoveEgress
  PROVE  Typed'
<1>1. UNCHANGED <<file, to, services, rules, op, meant, doubt>> /\ Spend
      /\ egress' \in Egresses /\ trouble' = trouble \cup {"egress"}
  BY DEF MoveEgress
<1>2. RestTyped'
  BY <1>1, TypedBy, SpendTyped DEF RestTyped
<1>3. OpTyped(op') /\ FilesTyped' /\ ServicesTyped' /\ RulesTyped'
  BY <1>1, TypedBy, TypedStays
<1> QED  BY <1>2, <1>3, TypedBy

-----------------------------------------------------------------------------
(* Every operation's list is in order.                                      *)

\* Steps of these names at s.
Do(s, N) == {<<n, s>> : n \in N}

\* The list of such steps.
LEMMA OnList ==
  ASSUME NEW s \in Services, NEW names \in Seq(Verbs)
  PROVE  /\ On(s, names) \in Seq(Steps) /\ Len(On(s, names)) = Len(names)
         /\ \A i \in 1..Len(names) : On(s, names)[i] = <<names[i], s>>
         /\ StepsIn(On(s, names)) = Do(s, ToSet(names))
<1>1. Len(names) \in Nat /\ \A i \in 1..Len(names) : names[i] \in Verbs
  OBVIOUS
<1>2. On(s, names) = [i \in 1..Len(names) |-> <<names[i], s>>]
  BY DEF On
<1>3. On(s, names) \in [1..Len(names) -> Steps]
  BY <1>1, <1>2 DEF Steps
<1>4. On(s, names) \in Seq(Steps) /\ Len(On(s, names)) = Len(names)
  BY <1>1, <1>3
<1>5. StepsIn(On(s, names)) = Do(s, ToSet(names))
  <2> DEFINE t == On(s, names)
  <2>1. Len(t) = Len(names) /\ \A i \in 1..Len(names) : t[i] = <<names[i], s>>
    BY <1>2, <1>4
  <2> HIDE DEF t
  <2>2. StepsIn(t) = {<<names[i], s>> : i \in 1..Len(names)}
    BY <2>1 DEF StepsIn
  <2>3. {<<names[i], s>> : i \in 1..Len(names)} = Do(s, ToSet(names))
    <3>1. ToSet(names) = {names[i] : i \in 1..Len(names)}
      BY DEF ToSet
    <3> QED  BY <3>1 DEF Do
  <2> QED  BY <2>2, <2>3 DEF t
<1> QED  BY <1>2, <1>4, <1>5

\* It is in order if the ranks do not fall.
LEMMA OnGoes ==
  ASSUME NEW s \in Services, NEW names \in Seq(Verbs),
         \A i \in 1..Len(names) : names[i] \notin {"reply", "accept", "drop", "follow"}
                                    /\ (names[i] \in Cleanup => s = "openvpn"),
         \A i, j \in 1..Len(names) : i < j =>
           /\ IF s = "proxy" /\ "dropUnit" \in {names[i], names[j]} THEN names[j] # "stop"
              ELSE Rank(<<names[i], s>>) <= Rank(<<names[j], s>>)
           /\ names[i] \in {"save", "wipe"} => names[i] # names[j]
  PROVE  Goes(On(s, names)) /\ StepsIn(On(s, names)) = Do(s, ToSet(names))
<1> DEFINE t == On(s, names)
<1>1. t \in Seq(Steps) /\ Len(t) = Len(names) /\ \A i \in 1..Len(t) : t[i] = <<names[i], s>>
  BY OnList
<1> HIDE DEF t
<1>2. \A i \in 1..Len(t) : t[i][1] = names[i] /\ t[i][2] = s
  BY <1>1
<1>3. \A i \in 1..Len(t) : t[i][1] \notin {"reply", "accept", "drop", "follow"}
  BY <1>1, <1>2
<1>4. \A i \in 1..Len(t) : t[i][1] \in Cleanup => t[i][2] = "openvpn"
  BY <1>1, <1>2
<1>5. (\A i \in 1..Len(t) : t[i][2] \in Vpns) \/ (\A i \in 1..Len(t) : t[i][1] \notin Cleanup)
  BY <1>1, <1>2 DEF Vpns
<1>6. \A i, j \in 1..Len(t) : i < j /\ t[i][1] \in {"save", "wipe"} => t[i] # t[j]
  <2> SUFFICES ASSUME NEW i \in 1..Len(t), NEW j \in 1..Len(t), i < j, t[i][1] \in {"save", "wipe"}
               PROVE  t[i] # t[j]
    OBVIOUS
  <2>1. names[i] \in {"save", "wipe"} /\ t[i] = <<names[i], s>> /\ t[j] = <<names[j], s>>
        /\ i \in 1..Len(names) /\ j \in 1..Len(names)
    BY <1>1, <1>2
  <2>2. names[i] # names[j]
    BY <2>1
  <2> QED  BY <2>1, <2>2
<1>7. \A i, j \in 1..Len(t) : i < j =>
        IF <<"dropUnit", "proxy">> \in {t[i], t[j]} THEN t[j] # <<"stop", "proxy">>
        ELSE Rank(t[i]) <= Rank(t[j])
  <2> SUFFICES ASSUME NEW i \in 1..Len(t), NEW j \in 1..Len(t), i < j
               PROVE  IF <<"dropUnit", "proxy">> \in {t[i], t[j]} THEN t[j] # <<"stop", "proxy">>
                      ELSE Rank(t[i]) <= Rank(t[j])
    OBVIOUS
  <2>1. t[i] = <<names[i], s>> /\ t[j] = <<names[j], s>> /\ i \in 1..Len(names)
          /\ j \in 1..Len(names)
    BY <1>1
  <2>2. IF s = "proxy" /\ "dropUnit" \in {names[i], names[j]} THEN names[j] # "stop"
        ELSE Rank(<<names[i], s>>) <= Rank(<<names[j], s>>)
    BY <2>1
  <2>3. <<"dropUnit", "proxy">> \in {t[i], t[j]} <=> s = "proxy"
          /\ "dropUnit" \in {names[i], names[j]}
    BY <2>1
  <2>4. t[j] = <<"stop", "proxy">> => names[j] = "stop"
    BY <2>1
  <2>5. Rank(<<names[i], s>>) <= Rank(<<names[j], s>>) => Rank(t[i]) <= Rank(t[j])
    BY <2>1
  <2> HIDE DEF t
  <2> QED  BY <2>2, <2>3, <2>4, <2>5
<1>8. Goes(t)
  BY <1>1, <1>3, <1>4, <1>5, <1>6, <1>7, Ranked
<1> QED  BY <1>8, OnList DEF t

\* A list of steps at one service, in order.
Listed(s, todo, N) == Goes(todo) /\ StepsIn(todo) = Do(s, N)

\* Removals of proxies delete the unit before the entry, or behind everything.
LEMMA ProxyGoes ==
  ASSUME NEW names \in Seq(Verbs), "proxy" \in Services,
         \A i \in 1..Len(names) : names[i] \notin {"reply", "accept", "drop",
              "follow"} \cup Cleanup,
         \A i, j \in 1..Len(names) : i < j =>
           /\ IF "dropUnit" \in {names[i], names[j]} THEN names[j] # "stop"
              ELSE Rank(<<names[i], "proxy">>) <= Rank(<<names[j], "proxy">>)
           /\ names[i] \in {"save", "wipe"} => names[i] # names[j]
  PROVE  Goes(On("proxy", names)) /\ StepsIn(On("proxy", names)) = Do("proxy", ToSet(names))
<1> DEFINE p == "proxy"
<1>1. p \in Services /\ p = "proxy"
  OBVIOUS
<1> HIDE DEF p
<1>2. \A i \in 1..Len(names) : names[i] \notin {"reply", "accept", "drop", "follow"}
                                /\ (names[i] \in Cleanup => p = "openvpn")
  OBVIOUS
<1>3. \A i, j \in 1..Len(names) : i < j =>
        /\ IF p = "proxy" /\ "dropUnit" \in {names[i], names[j]} THEN names[j] # "stop"
           ELSE Rank(<<names[i], p>>) <= Rank(<<names[j], p>>)
        /\ names[i] \in {"save", "wipe"} => names[i] # names[j]
  BY <1>1
<1> QED  BY <1>1, <1>2, <1>3, OnGoes

\* installSSLH.
LEMMA SslhInstallGoes ==
  Listed("sslhmux", SslhInstall, {"save", "unit", "openLive", "openLine", "enable", "start"})
<1> DEFINE q == <<"save", "unit", "openLive", "openLine", "enable", "start">>
<1>1. /\ q \in Seq(Verbs) /\ Len(q) = 6
      /\ q[1] = "save" /\ q[2] = "unit" /\ q[3] = "openLive" /\ q[4] = "openLine"
           /\ q[5] = "enable" /\ q[6] = "start"
  BY DEF Verbs
<1>2. \A i \in 1..6 : i = 1 \/ i = 2 \/ i = 3 \/ i = 4 \/ i = 5 \/ i = 6
  OBVIOUS
<1>3. SslhInstall = On("sslhmux", q) /\ "sslhmux" \in Services
  BY DEF SslhInstall, Services, Claimants
<1> HIDE DEF q
<1>4. \A i \in 1..6 :
        /\ Rank(<<q[i], "sslhmux">>) = IF i <= 1 THEN 12 ELSE IF i <= 2 THEN 13 ELSE 16
        /\ q[i] \notin {"reply", "accept", "drop", "follow"} \cup Cleanup
        /\ (q[i] \in {"save", "wipe"} => i = 1)
  BY <1>1, <1>2 DEF Rank, Cleanup
<1>5. ToSet(q) = {"save", "unit", "openLive", "openLine", "enable", "start"}
  BY <1>1, <1>2 DEF ToSet
<1>6. \A i, j \in 1..6 : i < j =>
        /\ Rank(<<q[i], "sslhmux">>) <= Rank(<<q[j], "sslhmux">>)
        /\ q[i] \in {"save", "wipe"} => q[i] # q[j]
  BY <1>4
<1>7. Goes(On("sslhmux", q)) /\ StepsIn(On("sslhmux", q)) = Do("sslhmux", ToSet(q))
  BY <1>1, <1>3, <1>4, <1>6, OnGoes
<1> QED  BY <1>3, <1>5, <1>7 DEF Listed

\* installSSLTunnel.
LEMMA TunnelInstallGoes ==
  Listed("ssltunnel", TunnelInstall, {"save", "unit", "openLive", "openLine", "enable", "start"})
<1> DEFINE q == <<"save", "unit", "openLive", "openLine", "enable", "start">>
<1>1. /\ q \in Seq(Verbs) /\ Len(q) = 6
      /\ q[1] = "save" /\ q[2] = "unit" /\ q[3] = "openLive" /\ q[4] = "openLine"
           /\ q[5] = "enable" /\ q[6] = "start"
  BY DEF Verbs
<1>2. \A i \in 1..6 : i = 1 \/ i = 2 \/ i = 3 \/ i = 4 \/ i = 5 \/ i = 6
  OBVIOUS
<1>3. TunnelInstall = On("ssltunnel", q) /\ "ssltunnel" \in Services
  BY DEF TunnelInstall, Tunnels, Services, Claimants
<1> HIDE DEF q
<1>4. \A i \in 1..6 :
        /\ Rank(<<q[i], "ssltunnel">>) = IF i <= 1 THEN 10 ELSE IF i <= 2 THEN 11 ELSE 16
        /\ q[i] \notin {"reply", "accept", "drop", "follow"} \cup Cleanup
        /\ (q[i] \in {"save", "wipe"} => i = 1)
  BY <1>1, <1>2 DEF Rank, Cleanup
<1>5. ToSet(q) = {"save", "unit", "openLive", "openLine", "enable", "start"}
  BY <1>1, <1>2 DEF ToSet
<1>6. \A i, j \in 1..6 : i < j =>
        /\ Rank(<<q[i], "ssltunnel">>) <= Rank(<<q[j], "ssltunnel">>)
        /\ q[i] \in {"save", "wipe"} => q[i] # q[j]
  BY <1>4
<1>7. Goes(On("ssltunnel", q)) /\ StepsIn(On("ssltunnel", q)) = Do("ssltunnel", ToSet(q))
  BY <1>1, <1>3, <1>4, <1>6, OnGoes
<1> QED  BY <1>3, <1>5, <1>7 DEF Listed

\* The proxies' menu.
LEMMA ProxyInstallGoes ==
  Listed("proxy", ProxyInstall, {"save", "openLive", "openLine", "unit", "enable", "start"})
<1> DEFINE q == <<"save", "openLive", "openLine", "unit", "enable", "start">>
<1>1. /\ q \in Seq(Verbs) /\ Len(q) = 6
      /\ q[1] = "save" /\ q[2] = "openLive" /\ q[3] = "openLine" /\ q[4] = "unit"
           /\ q[5] = "enable" /\ q[6] = "start"
  BY DEF Verbs
<1>2. \A i \in 1..6 : i = 1 \/ i = 2 \/ i = 3 \/ i = 4 \/ i = 5 \/ i = 6
  OBVIOUS
<1>3. ProxyInstall = On("proxy", q) /\ "proxy" \in Services
  BY DEF ProxyInstall, Tunnels, Services, Claimants
<1> HIDE DEF q
<1>4. \A i \in 1..6 :
        /\ (q[i] # "dropUnit" => Rank(<<q[i], "proxy">>) = IF i <= 1 THEN 14 ELSE IF i <= 3 THEN 16
             ELSE IF i <= 4 THEN 17 ELSE 18) /\ (q[i] = "stop" => i <= 2)
                  /\ (q[i] = "dropUnit" <=> i = 0)
        /\ q[i] \notin {"reply", "accept", "drop", "follow"} \cup Cleanup
        /\ (q[i] \in {"save", "wipe"} => i = 1)
  BY <1>1, <1>2 DEF Rank, Cleanup
<1>5. ToSet(q) = {"save", "openLive", "openLine", "unit", "enable", "start"}
  BY <1>1, <1>2 DEF ToSet
<1>6. \A i, j \in 1..6 : i < j =>
        /\ IF "dropUnit" \in {q[i], q[j]} THEN q[j] # "stop"
           ELSE Rank(<<q[i], "proxy">>) <= Rank(<<q[j], "proxy">>)
        /\ q[i] \in {"save", "wipe"} => q[i] # q[j]
  BY <1>4
<1>7. Goes(On("proxy", q)) /\ StepsIn(On("proxy", q)) = Do("proxy", ToSet(q))
  BY <1>1, <1>3, <1>4, <1>6, ProxyGoes
<1> QED  BY <1>3, <1>5, <1>7 DEF Listed

\* `hexplus proxy add`.
LEMMA ProxyAddGoes ==
  Listed("proxy", ProxyAdd, {"save", "openLive", "openLine", "unit"})
<1> DEFINE q == <<"save", "openLive", "openLine", "unit">>
<1>1. /\ q \in Seq(Verbs) /\ Len(q) = 4
      /\ q[1] = "save" /\ q[2] = "openLive" /\ q[3] = "openLine" /\ q[4] = "unit"
  BY DEF Verbs
<1>2. \A i \in 1..4 : i = 1 \/ i = 2 \/ i = 3 \/ i = 4
  OBVIOUS
<1>3. ProxyAdd = On("proxy", q) /\ "proxy" \in Services
  BY DEF ProxyAdd, Tunnels, Services, Claimants
<1> HIDE DEF q
<1>4. \A i \in 1..4 :
        /\ (q[i] # "dropUnit" => Rank(<<q[i], "proxy">>) = IF i <= 1 THEN 14 ELSE IF i <= 3 THEN 16
             ELSE 17) /\ (q[i] = "stop" => i <= 2) /\ (q[i] = "dropUnit" <=> i = 0)
        /\ q[i] \notin {"reply", "accept", "drop", "follow"} \cup Cleanup
        /\ (q[i] \in {"save", "wipe"} => i = 1)
  BY <1>1, <1>2 DEF Rank, Cleanup
<1>5. ToSet(q) = {"save", "openLive", "openLine", "unit"}
  BY <1>1, <1>2 DEF ToSet
<1>6. \A i, j \in 1..4 : i < j =>
        /\ IF "dropUnit" \in {q[i], q[j]} THEN q[j] # "stop"
           ELSE Rank(<<q[i], "proxy">>) <= Rank(<<q[j], "proxy">>)
        /\ q[i] \in {"save", "wipe"} => q[i] # q[j]
  BY <1>4
<1>7. Goes(On("proxy", q)) /\ StepsIn(On("proxy", q)) = Do("proxy", ToSet(q))
  BY <1>1, <1>3, <1>4, <1>6, ProxyGoes
<1> QED  BY <1>3, <1>5, <1>7 DEF Listed

\* InstallService of squid.
LEMMA SquidInstallGoes ==
  Listed("squid", SquidInstall, {"unit", "save", "enable", "start"})
<1> DEFINE q == <<"unit", "save", "enable", "start">>
<1>1. /\ q \in Seq(Verbs) /\ Len(q) = 4
      /\ q[1] = "unit" /\ q[2] = "save" /\ q[3] = "enable" /\ q[4] = "start"
  BY DEF Verbs
<1>2. \A i \in 1..4 : i = 1 \/ i = 2 \/ i = 3 \/ i = 4
  OBVIOUS
<1>3. SquidInstall = On("squid", q) /\ "squid" \in Services
  BY DEF SquidInstall, Services, Managed
<1> HIDE DEF q
<1>4. \A i \in 1..4 :
        /\ Rank(<<q[i], "squid">>) = IF i <= 2 THEN 6 ELSE 7
        /\ q[i] \notin {"reply", "accept", "drop", "follow"} \cup Cleanup
        /\ (q[i] \in {"save", "wipe"} => i = 2)
  BY <1>1, <1>2 DEF Rank, Cleanup
<1>5. ToSet(q) = {"unit", "save", "enable", "start"}
  BY <1>1, <1>2 DEF ToSet
<1>6. \A i, j \in 1..4 : i < j =>
        /\ Rank(<<q[i], "squid">>) <= Rank(<<q[j], "squid">>)
        /\ q[i] \in {"save", "wipe"} => q[i] # q[j]
  BY <1>4
<1>7. Goes(On("squid", q)) /\ StepsIn(On("squid", q)) = Do("squid", ToSet(q))
  BY <1>1, <1>3, <1>4, <1>6, OnGoes
<1> QED  BY <1>3, <1>5, <1>7 DEF Listed

\* InstallService of dropbear.
LEMMA DropbearInstallGoes ==
  Listed("dropbear", DropbearInstall, {"unit", "save", "enable", "start"})
<1> DEFINE q == <<"unit", "save", "enable", "start">>
<1>1. /\ q \in Seq(Verbs) /\ Len(q) = 4
      /\ q[1] = "unit" /\ q[2] = "save" /\ q[3] = "enable" /\ q[4] = "start"
  BY DEF Verbs
<1>2. \A i \in 1..4 : i = 1 \/ i = 2 \/ i = 3 \/ i = 4
  OBVIOUS
<1>3. DropbearInstall = On("dropbear", q) /\ "dropbear" \in Services
  BY DEF DropbearInstall, Services, Managed
<1> HIDE DEF q
<1>4. \A i \in 1..4 :
        /\ Rank(<<q[i], "dropbear">>) = IF i <= 2 THEN 8 ELSE 9
        /\ q[i] \notin {"reply", "accept", "drop", "follow"} \cup Cleanup
        /\ (q[i] \in {"save", "wipe"} => i = 2)
  BY <1>1, <1>2 DEF Rank, Cleanup
<1>5. ToSet(q) = {"unit", "save", "enable", "start"}
  BY <1>1, <1>2 DEF ToSet
<1>6. \A i, j \in 1..4 : i < j =>
        /\ Rank(<<q[i], "dropbear">>) <= Rank(<<q[j], "dropbear">>)
        /\ q[i] \in {"save", "wipe"} => q[i] # q[j]
  BY <1>4
<1>7. Goes(On("dropbear", q)) /\ StepsIn(On("dropbear", q)) = Do("dropbear", ToSet(q))
  BY <1>1, <1>3, <1>4, <1>6, OnGoes
<1> QED  BY <1>3, <1>5, <1>7 DEF Listed

\* The tunnel's removal, from its menu,
LEMMA TunnelFrontRemoveGoes ==
  Listed("ssltunnel", FrontRemove("ssltunnel"),
       {"disable", "stop", "dropUnit", "forget", "closeLive", "closeLine"})
<1> DEFINE q == <<"disable", "stop", "dropUnit", "forget", "closeLive", "closeLine">>
<1>1. /\ q \in Seq(Verbs) /\ Len(q) = 6
      /\ q[1] = "disable" /\ q[2] = "stop" /\ q[3] = "dropUnit" /\ q[4] = "forget"
           /\ q[5] = "closeLive" /\ q[6] = "closeLine"
  BY DEF Verbs
<1>2. \A i \in 1..6 : i = 1 \/ i = 2 \/ i = 3 \/ i = 4 \/ i = 5 \/ i = 6
  OBVIOUS
<1>3. FrontRemove("ssltunnel") = On("ssltunnel", q) /\ "ssltunnel" \in Services
  BY DEF FrontRemove, Tunnels, Services, Claimants
<1> HIDE DEF q
<1>4. \A i \in 1..6 :
        /\ Rank(<<q[i], "ssltunnel">>) = IF i <= 2 THEN 10 ELSE IF i <= 4 THEN 11 ELSE 16
        /\ q[i] \notin {"reply", "accept", "drop", "follow"} \cup Cleanup
        /\ q[i] \notin {"save", "wipe"}
  BY <1>1, <1>2 DEF Rank, Cleanup
<1>5. ToSet(q) = {"disable", "stop", "dropUnit", "forget", "closeLive", "closeLine"}
  BY <1>1, <1>2 DEF ToSet
<1>6. \A i, j \in 1..6 : i < j =>
        /\ Rank(<<q[i], "ssltunnel">>) <= Rank(<<q[j], "ssltunnel">>)
        /\ q[i] \in {"save", "wipe"} => q[i] # q[j]
  BY <1>4
<1>7. Goes(On("ssltunnel", q)) /\ StepsIn(On("ssltunnel", q)) = Do("ssltunnel", ToSet(q))
  BY <1>1, <1>3, <1>4, <1>6, OnGoes
<1> QED  BY <1>3, <1>5, <1>7 DEF Listed

\* and by `hexplus uninstall`, which closes the port
LEMMA TunnelFrontStepsGoes ==
  Listed("ssltunnel", On("ssltunnel", FrontSteps), {"disable", "stop", "dropUnit", "forget"})
<1> DEFINE q == <<"disable", "stop", "dropUnit", "forget">>
<1>1. /\ q \in Seq(Verbs) /\ Len(q) = 4
      /\ q[1] = "disable" /\ q[2] = "stop" /\ q[3] = "dropUnit" /\ q[4] = "forget"
  BY DEF Verbs
<1>2. \A i \in 1..4 : i = 1 \/ i = 2 \/ i = 3 \/ i = 4
  OBVIOUS
<1>3. On("ssltunnel", FrontSteps) = On("ssltunnel", q) /\ "ssltunnel" \in Services
  BY DEF FrontSteps, Tunnels, Services, Claimants
<1> HIDE DEF q
<1>4. \A i \in 1..4 :
        /\ Rank(<<q[i], "ssltunnel">>) = IF i <= 2 THEN 10 ELSE 11
        /\ q[i] \notin {"reply", "accept", "drop", "follow"} \cup Cleanup
        /\ q[i] \notin {"save", "wipe"}
  BY <1>1, <1>2 DEF Rank, Cleanup
<1>5. ToSet(q) = {"disable", "stop", "dropUnit", "forget"}
  BY <1>1, <1>2 DEF ToSet
<1>6. \A i, j \in 1..4 : i < j =>
        /\ Rank(<<q[i], "ssltunnel">>) <= Rank(<<q[j], "ssltunnel">>)
        /\ q[i] \in {"save", "wipe"} => q[i] # q[j]
  BY <1>4
<1>7. Goes(On("ssltunnel", q)) /\ StepsIn(On("ssltunnel", q)) = Do("ssltunnel", ToSet(q))
  BY <1>1, <1>3, <1>4, <1>6, OnGoes
<1> QED  BY <1>3, <1>5, <1>7 DEF Listed

\* at the end.
LEMMA TunnelCloseGoes ==
  Listed("ssltunnel", On("ssltunnel", <<"closeLive", "closeLine">>), {"closeLive", "closeLine"})
<1> DEFINE q == <<"closeLive", "closeLine">>
<1>1. /\ q \in Seq(Verbs) /\ Len(q) = 2
      /\ q[1] = "closeLive" /\ q[2] = "closeLine"
  BY DEF Verbs
<1>2. \A i \in 1..2 : i = 1 \/ i = 2
  OBVIOUS
<1>3. On("ssltunnel", <<"closeLive", "closeLine">>) = On("ssltunnel", q) /\ "ssltunnel" \in Services
  BY DEF Tunnels, Services, Claimants
<1> HIDE DEF q
<1>4. \A i \in 1..2 :
        /\ Rank(<<q[i], "ssltunnel">>) = 16
        /\ q[i] \notin {"reply", "accept", "drop", "follow"} \cup Cleanup
        /\ q[i] \notin {"save", "wipe"}
  BY <1>1, <1>2 DEF Rank, Cleanup
<1>5. ToSet(q) = {"closeLive", "closeLine"}
  BY <1>1, <1>2 DEF ToSet
<1>6. \A i, j \in 1..2 : i < j =>
        /\ Rank(<<q[i], "ssltunnel">>) <= Rank(<<q[j], "ssltunnel">>)
        /\ q[i] \in {"save", "wipe"} => q[i] # q[j]
  BY <1>4
<1>7. Goes(On("ssltunnel", q)) /\ StepsIn(On("ssltunnel", q)) = Do("ssltunnel", ToSet(q))
  BY <1>1, <1>3, <1>4, <1>6, OnGoes
<1> QED  BY <1>3, <1>5, <1>7 DEF Listed

\* The multiplexer's removal, the same way.
LEMMA SslhFrontRemoveGoes ==
  Listed("sslhmux", FrontRemove("sslhmux"),
       {"disable", "stop", "dropUnit", "forget", "closeLive", "closeLine"})
<1> DEFINE q == <<"disable", "stop", "dropUnit", "forget", "closeLive", "closeLine">>
<1>1. /\ q \in Seq(Verbs) /\ Len(q) = 6
      /\ q[1] = "disable" /\ q[2] = "stop" /\ q[3] = "dropUnit" /\ q[4] = "forget"
           /\ q[5] = "closeLive" /\ q[6] = "closeLine"
  BY DEF Verbs
<1>2. \A i \in 1..6 : i = 1 \/ i = 2 \/ i = 3 \/ i = 4 \/ i = 5 \/ i = 6
  OBVIOUS
<1>3. FrontRemove("sslhmux") = On("sslhmux", q) /\ "sslhmux" \in Services
  BY DEF FrontRemove, Tunnels, Services, Claimants
<1> HIDE DEF q
<1>4. \A i \in 1..6 :
        /\ Rank(<<q[i], "sslhmux">>) = IF i <= 2 THEN 12 ELSE IF i <= 4 THEN 13 ELSE 16
        /\ q[i] \notin {"reply", "accept", "drop", "follow"} \cup Cleanup
        /\ q[i] \notin {"save", "wipe"}
  BY <1>1, <1>2 DEF Rank, Cleanup
<1>5. ToSet(q) = {"disable", "stop", "dropUnit", "forget", "closeLive", "closeLine"}
  BY <1>1, <1>2 DEF ToSet
<1>6. \A i, j \in 1..6 : i < j =>
        /\ Rank(<<q[i], "sslhmux">>) <= Rank(<<q[j], "sslhmux">>)
        /\ q[i] \in {"save", "wipe"} => q[i] # q[j]
  BY <1>4
<1>7. Goes(On("sslhmux", q)) /\ StepsIn(On("sslhmux", q)) = Do("sslhmux", ToSet(q))
  BY <1>1, <1>3, <1>4, <1>6, OnGoes
<1> QED  BY <1>3, <1>5, <1>7 DEF Listed

\* Its first steps in an uninstallation.
LEMMA SslhFrontStepsGoes ==
  Listed("sslhmux", On("sslhmux", FrontSteps), {"disable", "stop", "dropUnit", "forget"})
<1> DEFINE q == <<"disable", "stop", "dropUnit", "forget">>
<1>1. /\ q \in Seq(Verbs) /\ Len(q) = 4
      /\ q[1] = "disable" /\ q[2] = "stop" /\ q[3] = "dropUnit" /\ q[4] = "forget"
  BY DEF Verbs
<1>2. \A i \in 1..4 : i = 1 \/ i = 2 \/ i = 3 \/ i = 4
  OBVIOUS
<1>3. On("sslhmux", FrontSteps) = On("sslhmux", q) /\ "sslhmux" \in Services
  BY DEF FrontSteps, Tunnels, Services, Claimants
<1> HIDE DEF q
<1>4. \A i \in 1..4 :
        /\ Rank(<<q[i], "sslhmux">>) = IF i <= 2 THEN 12 ELSE 13
        /\ q[i] \notin {"reply", "accept", "drop", "follow"} \cup Cleanup
        /\ q[i] \notin {"save", "wipe"}
  BY <1>1, <1>2 DEF Rank, Cleanup
<1>5. ToSet(q) = {"disable", "stop", "dropUnit", "forget"}
  BY <1>1, <1>2 DEF ToSet
<1>6. \A i, j \in 1..4 : i < j =>
        /\ Rank(<<q[i], "sslhmux">>) <= Rank(<<q[j], "sslhmux">>)
        /\ q[i] \in {"save", "wipe"} => q[i] # q[j]
  BY <1>4
<1>7. Goes(On("sslhmux", q)) /\ StepsIn(On("sslhmux", q)) = Do("sslhmux", ToSet(q))
  BY <1>1, <1>3, <1>4, <1>6, OnGoes
<1> QED  BY <1>3, <1>5, <1>7 DEF Listed

\* Its last ones.
LEMMA SslhCloseGoes ==
  Listed("sslhmux", On("sslhmux", <<"closeLive", "closeLine">>), {"closeLive", "closeLine"})
<1> DEFINE q == <<"closeLive", "closeLine">>
<1>1. /\ q \in Seq(Verbs) /\ Len(q) = 2
      /\ q[1] = "closeLive" /\ q[2] = "closeLine"
  BY DEF Verbs
<1>2. \A i \in 1..2 : i = 1 \/ i = 2
  OBVIOUS
<1>3. On("sslhmux", <<"closeLive", "closeLine">>) = On("sslhmux", q) /\ "sslhmux" \in Services
  BY DEF Tunnels, Services, Claimants
<1> HIDE DEF q
<1>4. \A i \in 1..2 :
        /\ Rank(<<q[i], "sslhmux">>) = 16
        /\ q[i] \notin {"reply", "accept", "drop", "follow"} \cup Cleanup
        /\ q[i] \notin {"save", "wipe"}
  BY <1>1, <1>2 DEF Rank, Cleanup
<1>5. ToSet(q) = {"closeLive", "closeLine"}
  BY <1>1, <1>2 DEF ToSet
<1>6. \A i, j \in 1..2 : i < j =>
        /\ Rank(<<q[i], "sslhmux">>) <= Rank(<<q[j], "sslhmux">>)
        /\ q[i] \in {"save", "wipe"} => q[i] # q[j]
  BY <1>4
<1>7. Goes(On("sslhmux", q)) /\ StepsIn(On("sslhmux", q)) = Do("sslhmux", ToSet(q))
  BY <1>1, <1>3, <1>4, <1>6, OnGoes
<1> QED  BY <1>3, <1>5, <1>7 DEF Listed

\* The proxies' removal, the same way.
LEMMA ProxiesFrontRemoveGoes ==
  Listed("proxy", FrontRemove("proxy"),
       {"disable", "stop", "dropUnit", "forget", "closeLive", "closeLine"})
<1> DEFINE q == <<"disable", "stop", "dropUnit", "forget", "closeLive", "closeLine">>
<1>1. /\ q \in Seq(Verbs) /\ Len(q) = 6
      /\ q[1] = "disable" /\ q[2] = "stop" /\ q[3] = "dropUnit" /\ q[4] = "forget"
           /\ q[5] = "closeLive" /\ q[6] = "closeLine"
  BY DEF Verbs
<1>2. \A i \in 1..6 : i = 1 \/ i = 2 \/ i = 3 \/ i = 4 \/ i = 5 \/ i = 6
  OBVIOUS
<1>3. FrontRemove("proxy") = On("proxy", q) /\ "proxy" \in Services
  BY DEF FrontRemove, Tunnels, Services, Claimants
<1> HIDE DEF q
<1>4. \A i \in 1..6 :
        /\ (q[i] # "dropUnit" => Rank(<<q[i], "proxy">>) = IF i <= 2 THEN 14 ELSE IF i <= 3 THEN 18
             ELSE IF i <= 4 THEN 15 ELSE 16) /\ (q[i] = "stop" => i <= 2)
                  /\ (q[i] = "dropUnit" <=> i = 3)
        /\ q[i] \notin {"reply", "accept", "drop", "follow"} \cup Cleanup
        /\ q[i] \notin {"save", "wipe"}
  BY <1>1, <1>2 DEF Rank, Cleanup
<1>5. ToSet(q) = {"disable", "stop", "dropUnit", "forget", "closeLive", "closeLine"}
  BY <1>1, <1>2 DEF ToSet
<1>6. \A i, j \in 1..6 : i < j =>
        /\ IF "dropUnit" \in {q[i], q[j]} THEN q[j] # "stop"
           ELSE Rank(<<q[i], "proxy">>) <= Rank(<<q[j], "proxy">>)
        /\ q[i] \in {"save", "wipe"} => q[i] # q[j]
  BY <1>4
<1>7. Goes(On("proxy", q)) /\ StepsIn(On("proxy", q)) = Do("proxy", ToSet(q))
  BY <1>1, <1>3, <1>4, <1>6, ProxyGoes
<1> QED  BY <1>3, <1>5, <1>7 DEF Listed

\* Its first steps in an uninstallation.
LEMMA ProxiesFrontStepsGoes ==
  Listed("proxy", On("proxy", FrontSteps), {"disable", "stop", "dropUnit", "forget"})
<1> DEFINE q == <<"disable", "stop", "dropUnit", "forget">>
<1>1. /\ q \in Seq(Verbs) /\ Len(q) = 4
      /\ q[1] = "disable" /\ q[2] = "stop" /\ q[3] = "dropUnit" /\ q[4] = "forget"
  BY DEF Verbs
<1>2. \A i \in 1..4 : i = 1 \/ i = 2 \/ i = 3 \/ i = 4
  OBVIOUS
<1>3. On("proxy", FrontSteps) = On("proxy", q) /\ "proxy" \in Services
  BY DEF FrontSteps, Tunnels, Services, Claimants
<1> HIDE DEF q
<1>4. \A i \in 1..4 :
        /\ (q[i] # "dropUnit" => Rank(<<q[i], "proxy">>) = IF i <= 2 THEN 14 ELSE IF i <= 3 THEN 18
             ELSE 15) /\ (q[i] = "stop" => i <= 2) /\ (q[i] = "dropUnit" <=> i = 3)
        /\ q[i] \notin {"reply", "accept", "drop", "follow"} \cup Cleanup
        /\ q[i] \notin {"save", "wipe"}
  BY <1>1, <1>2 DEF Rank, Cleanup
<1>5. ToSet(q) = {"disable", "stop", "dropUnit", "forget"}
  BY <1>1, <1>2 DEF ToSet
<1>6. \A i, j \in 1..4 : i < j =>
        /\ IF "dropUnit" \in {q[i], q[j]} THEN q[j] # "stop"
           ELSE Rank(<<q[i], "proxy">>) <= Rank(<<q[j], "proxy">>)
        /\ q[i] \in {"save", "wipe"} => q[i] # q[j]
  BY <1>4
<1>7. Goes(On("proxy", q)) /\ StepsIn(On("proxy", q)) = Do("proxy", ToSet(q))
  BY <1>1, <1>3, <1>4, <1>6, ProxyGoes
<1> QED  BY <1>3, <1>5, <1>7 DEF Listed

\* Its last ones.
LEMMA ProxiesCloseGoes ==
  Listed("proxy", On("proxy", <<"closeLive", "closeLine">>), {"closeLive", "closeLine"})
<1> DEFINE q == <<"closeLive", "closeLine">>
<1>1. /\ q \in Seq(Verbs) /\ Len(q) = 2
      /\ q[1] = "closeLive" /\ q[2] = "closeLine"
  BY DEF Verbs
<1>2. \A i \in 1..2 : i = 1 \/ i = 2
  OBVIOUS
<1>3. On("proxy", <<"closeLive", "closeLine">>) = On("proxy", q) /\ "proxy" \in Services
  BY DEF Tunnels, Services, Claimants
<1> HIDE DEF q
<1>4. \A i \in 1..2 :
        /\ (q[i] # "dropUnit" => Rank(<<q[i], "proxy">>) = 16) /\ (q[i] = "stop" => i <= 2)
             /\ (q[i] = "dropUnit" <=> i = 0)
        /\ q[i] \notin {"reply", "accept", "drop", "follow"} \cup Cleanup
        /\ q[i] \notin {"save", "wipe"}
  BY <1>1, <1>2 DEF Rank, Cleanup
<1>5. ToSet(q) = {"closeLive", "closeLine"}
  BY <1>1, <1>2 DEF ToSet
<1>6. \A i, j \in 1..2 : i < j =>
        /\ IF "dropUnit" \in {q[i], q[j]} THEN q[j] # "stop"
           ELSE Rank(<<q[i], "proxy">>) <= Rank(<<q[j], "proxy">>)
        /\ q[i] \in {"save", "wipe"} => q[i] # q[j]
  BY <1>4
<1>7. Goes(On("proxy", q)) /\ StepsIn(On("proxy", q)) = Do("proxy", ToSet(q))
  BY <1>1, <1>3, <1>4, <1>6, ProxyGoes
<1> QED  BY <1>3, <1>5, <1>7 DEF Listed

\* `hexplus proxy remove`.
LEMMA ProxyRemoveGoes ==
  Listed("proxy", ProxyRemove, {"forget", "closeLive", "closeLine", "dropUnit"})
<1> DEFINE q == <<"forget", "closeLive", "closeLine", "dropUnit">>
<1>1. /\ q \in Seq(Verbs) /\ Len(q) = 4
      /\ q[1] = "forget" /\ q[2] = "closeLive" /\ q[3] = "closeLine" /\ q[4] = "dropUnit"
  BY DEF Verbs
<1>2. \A i \in 1..4 : i = 1 \/ i = 2 \/ i = 3 \/ i = 4
  OBVIOUS
<1>3. ProxyRemove = On("proxy", q) /\ "proxy" \in Services
  BY DEF ProxyRemove, Tunnels, Services, Claimants
<1> HIDE DEF q
<1>4. \A i \in 1..4 :
        /\ (q[i] # "dropUnit" => Rank(<<q[i], "proxy">>) = IF i <= 1 THEN 15 ELSE IF i <= 3 THEN 16
             ELSE 18) /\ (q[i] = "stop" => i <= 2) /\ (q[i] = "dropUnit" <=> i = 4)
        /\ q[i] \notin {"reply", "accept", "drop", "follow"} \cup Cleanup
        /\ q[i] \notin {"save", "wipe"}
  BY <1>1, <1>2 DEF Rank, Cleanup
<1>5. ToSet(q) = {"forget", "closeLive", "closeLine", "dropUnit"}
  BY <1>1, <1>2 DEF ToSet
<1>6. \A i, j \in 1..4 : i < j =>
        /\ IF "dropUnit" \in {q[i], q[j]} THEN q[j] # "stop"
           ELSE Rank(<<q[i], "proxy">>) <= Rank(<<q[j], "proxy">>)
        /\ q[i] \in {"save", "wipe"} => q[i] # q[j]
  BY <1>4
<1>7. Goes(On("proxy", q)) /\ StepsIn(On("proxy", q)) = Do("proxy", ToSet(q))
  BY <1>1, <1>3, <1>4, <1>6, ProxyGoes
<1> QED  BY <1>3, <1>5, <1>7 DEF Listed

\* The removal of an extra port.
LEMMA ExtraRemoveGoes ==
  Listed("extra", ExtraRemove, {"disable", "stop", "dropUnit", "unmasq", "unmasqLine", "closeLive",
       "closeLine", "forget"})
<1> DEFINE q == <<"disable", "stop", "dropUnit", "unmasq", "unmasqLine", "closeLive", "closeLine",
      "forget">>
<1>1. /\ q \in Seq(Verbs) /\ Len(q) = 8
      /\ q[1] = "disable" /\ q[2] = "stop" /\ q[3] = "dropUnit" /\ q[4] = "unmasq"
           /\ q[5] = "unmasqLine" /\ q[6] = "closeLive" /\ q[7] = "closeLine" /\ q[8] = "forget"
  BY DEF Verbs
<1>2. \A i \in 1..8 : i = 1 \/ i = 2 \/ i = 3 \/ i = 4 \/ i = 5 \/ i = 6 \/ i = 7 \/ i = 8
  OBVIOUS
<1>3. ExtraRemove = On("extra", q) /\ "extra" \in Services
  BY DEF ExtraRemove, Vpns, Services, Claimants
<1> HIDE DEF q
<1>4. \A i \in 1..8 :
        /\ Rank(<<q[i], "extra">>) = IF i <= 2 THEN 0 ELSE IF i <= 7 THEN 1 ELSE 2
        /\ q[i] \notin {"reply", "accept", "drop", "follow"} \cup Cleanup
        /\ q[i] \notin {"save", "wipe"}
  BY <1>1, <1>2 DEF Rank, Cleanup
<1>5. ToSet(q) = {"disable", "stop", "dropUnit", "unmasq", "unmasqLine", "closeLive", "closeLine",
        "forget"}
  BY <1>1, <1>2 DEF ToSet
<1>6. \A i, j \in 1..8 : i < j =>
        /\ Rank(<<q[i], "extra">>) <= Rank(<<q[j], "extra">>)
        /\ q[i] \in {"save", "wipe"} => q[i] # q[j]
  BY <1>4
<1>7. Goes(On("extra", q)) /\ StepsIn(On("extra", q)) = Do("extra", ToSet(q))
  BY <1>1, <1>3, <1>4, <1>6, OnGoes
<1> QED  BY <1>3, <1>5, <1>7 DEF Listed

\* UninstallService of OpenVPN.
LEMMA VpnServiceRemoveGoes ==
  Listed("openvpn", ServiceRemove("openvpn"), {"stop", "disable", "dropUnit", "binary"})
<1> DEFINE q == <<"stop", "disable", "dropUnit", "binary">>
<1>1. /\ q \in Seq(Verbs) /\ Len(q) = 4
      /\ q[1] = "stop" /\ q[2] = "disable" /\ q[3] = "dropUnit" /\ q[4] = "binary"
  BY DEF Verbs
<1>2. \A i \in 1..4 : i = 1 \/ i = 2 \/ i = 3 \/ i = 4
  OBVIOUS
<1>3. ServiceRemove("openvpn") = On("openvpn", q) /\ "openvpn" \in Services
  BY DEF ServiceRemove, Services, Managed
<1> HIDE DEF q
<1>4. \A i \in 1..4 :
        /\ Rank(<<q[i], "openvpn">>) = IF i <= 2 THEN 3 ELSE 4
        /\ q[i] \notin {"reply", "accept", "drop", "follow"} \cup Cleanup
        /\ q[i] \notin {"save", "wipe"}
  BY <1>1, <1>2 DEF Rank, Cleanup
<1>5. ToSet(q) = {"stop", "disable", "dropUnit", "binary"}
  BY <1>1, <1>2 DEF ToSet
<1>6. \A i, j \in 1..4 : i < j =>
        /\ Rank(<<q[i], "openvpn">>) <= Rank(<<q[j], "openvpn">>)
        /\ q[i] \in {"save", "wipe"} => q[i] # q[j]
  BY <1>4
<1>7. Goes(On("openvpn", q)) /\ StepsIn(On("openvpn", q)) = Do("openvpn", ToSet(q))
  BY <1>1, <1>3, <1>4, <1>6, OnGoes
<1> QED  BY <1>3, <1>5, <1>7 DEF Listed

\* Of squid.
LEMMA SquidServiceRemoveGoes ==
  Listed("squid", ServiceRemove("squid"), {"stop", "disable", "dropUnit", "binary"})
<1> DEFINE q == <<"stop", "disable", "dropUnit", "binary">>
<1>1. /\ q \in Seq(Verbs) /\ Len(q) = 4
      /\ q[1] = "stop" /\ q[2] = "disable" /\ q[3] = "dropUnit" /\ q[4] = "binary"
  BY DEF Verbs
<1>2. \A i \in 1..4 : i = 1 \/ i = 2 \/ i = 3 \/ i = 4
  OBVIOUS
<1>3. ServiceRemove("squid") = On("squid", q) /\ "squid" \in Services
  BY DEF ServiceRemove, Services, Managed
<1> HIDE DEF q
<1>4. \A i \in 1..4 :
        /\ Rank(<<q[i], "squid">>) = IF i <= 2 THEN 6 ELSE 7
        /\ q[i] \notin {"reply", "accept", "drop", "follow"} \cup Cleanup
        /\ q[i] \notin {"save", "wipe"}
  BY <1>1, <1>2 DEF Rank, Cleanup
<1>5. ToSet(q) = {"stop", "disable", "dropUnit", "binary"}
  BY <1>1, <1>2 DEF ToSet
<1>6. \A i, j \in 1..4 : i < j =>
        /\ Rank(<<q[i], "squid">>) <= Rank(<<q[j], "squid">>)
        /\ q[i] \in {"save", "wipe"} => q[i] # q[j]
  BY <1>4
<1>7. Goes(On("squid", q)) /\ StepsIn(On("squid", q)) = Do("squid", ToSet(q))
  BY <1>1, <1>3, <1>4, <1>6, OnGoes
<1> QED  BY <1>3, <1>5, <1>7 DEF Listed

\* Of dropbear.
LEMMA DropbearServiceRemoveGoes ==
  Listed("dropbear", ServiceRemove("dropbear"), {"stop", "disable", "dropUnit", "binary"})
<1> DEFINE q == <<"stop", "disable", "dropUnit", "binary">>
<1>1. /\ q \in Seq(Verbs) /\ Len(q) = 4
      /\ q[1] = "stop" /\ q[2] = "disable" /\ q[3] = "dropUnit" /\ q[4] = "binary"
  BY DEF Verbs
<1>2. \A i \in 1..4 : i = 1 \/ i = 2 \/ i = 3 \/ i = 4
  OBVIOUS
<1>3. ServiceRemove("dropbear") = On("dropbear", q) /\ "dropbear" \in Services
  BY DEF ServiceRemove, Services, Managed
<1> HIDE DEF q
<1>4. \A i \in 1..4 :
        /\ Rank(<<q[i], "dropbear">>) = IF i <= 2 THEN 8 ELSE 9
        /\ q[i] \notin {"reply", "accept", "drop", "follow"} \cup Cleanup
        /\ q[i] \notin {"save", "wipe"}
  BY <1>1, <1>2 DEF Rank, Cleanup
<1>5. ToSet(q) = {"stop", "disable", "dropUnit", "binary"}
  BY <1>1, <1>2 DEF ToSet
<1>6. \A i, j \in 1..4 : i < j =>
        /\ Rank(<<q[i], "dropbear">>) <= Rank(<<q[j], "dropbear">>)
        /\ q[i] \in {"save", "wipe"} => q[i] # q[j]
  BY <1>4
<1>7. Goes(On("dropbear", q)) /\ StepsIn(On("dropbear", q)) = Do("dropbear", ToSet(q))
  BY <1>1, <1>3, <1>4, <1>6, OnGoes
<1> QED  BY <1>3, <1>5, <1>7 DEF Listed

\* cleanupOpenVPN.
LEMMA VpnCleanupGoes ==
  Listed("openvpn", VpnCleanup,
       {"unmasq", "unforward", "closeConf", "sweepLive", "sweepLines", "unmail", "dropLines",
            "wipe"})
<1> DEFINE q == <<"unmasq", "unforward", "closeConf", "sweepLive", "sweepLines", "unmail",
      "dropLines", "wipe">>
<1>1. /\ q \in Seq(Verbs) /\ Len(q) = 8
      /\ q[1] = "unmasq" /\ q[2] = "unforward" /\ q[3] = "closeConf" /\ q[4] = "sweepLive"
           /\ q[5] = "sweepLines" /\ q[6] = "unmail" /\ q[7] = "dropLines" /\ q[8] = "wipe"
  BY DEF Verbs
<1>2. \A i \in 1..8 : i = 1 \/ i = 2 \/ i = 3 \/ i = 4 \/ i = 5 \/ i = 6 \/ i = 7 \/ i = 8
  OBVIOUS
<1>3. VpnCleanup = On("openvpn", q) /\ "openvpn" \in Services
  BY DEF VpnCleanup, Services, Managed
<1> HIDE DEF q
<1>4. \A i \in 1..8 :
        /\ Rank(<<q[i], "openvpn">>) = IF i <= 7 THEN 4 ELSE 5
        /\ q[i] \notin {"reply", "accept", "drop", "follow"}
        /\ (q[i] \in {"save", "wipe"} => i = 8)
  BY <1>1, <1>2 DEF Rank, Cleanup
<1>5. ToSet(q) = {"unmasq", "unforward", "closeConf", "sweepLive", "sweepLines", "unmail",
        "dropLines", "wipe"}
  BY <1>1, <1>2 DEF ToSet
<1>6. \A i, j \in 1..8 : i < j =>
        /\ Rank(<<q[i], "openvpn">>) <= Rank(<<q[j], "openvpn">>)
        /\ q[i] \in {"save", "wipe"} => q[i] # q[j]
  BY <1>4
<1>7. Goes(On("openvpn", q)) /\ StepsIn(On("openvpn", q)) = Do("openvpn", ToSet(q))
  BY <1>1, <1>3, <1>4, <1>6, OnGoes
<1> QED  BY <1>3, <1>5, <1>7 DEF Listed

\* Changes of squid.conf.
LEMMA SquidConfChangeGoes ==
  Listed("squid", ConfChange("squid"), {"save", "restart"})
<1> DEFINE q == <<"save", "restart">>
<1>1. /\ q \in Seq(Verbs) /\ Len(q) = 2
      /\ q[1] = "save" /\ q[2] = "restart"
  BY DEF Verbs
<1>2. \A i \in 1..2 : i = 1 \/ i = 2
  OBVIOUS
<1>3. ConfChange("squid") = On("squid", q) /\ "squid" \in Services
  BY DEF ConfChange, Services, Managed
<1> HIDE DEF q
<1>4. \A i \in 1..2 :
        /\ Rank(<<q[i], "squid">>) = IF i <= 1 THEN 6 ELSE 7
        /\ q[i] \notin {"reply", "accept", "drop", "follow"} \cup Cleanup
        /\ (q[i] \in {"save", "wipe"} => i = 1)
  BY <1>1, <1>2 DEF Rank, Cleanup
<1>5. ToSet(q) = {"save", "restart"}
  BY <1>1, <1>2 DEF ToSet
<1>6. \A i, j \in 1..2 : i < j =>
        /\ Rank(<<q[i], "squid">>) <= Rank(<<q[j], "squid">>)
        /\ q[i] \in {"save", "wipe"} => q[i] # q[j]
  BY <1>4
<1>7. Goes(On("squid", q)) /\ StepsIn(On("squid", q)) = Do("squid", ToSet(q))
  BY <1>1, <1>3, <1>4, <1>6, OnGoes
<1> QED  BY <1>3, <1>5, <1>7 DEF Listed

\* Of dropbear's defaults.
LEMMA DropbearConfChangeGoes ==
  Listed("dropbear", ConfChange("dropbear"), {"save", "restart"})
<1> DEFINE q == <<"save", "restart">>
<1>1. /\ q \in Seq(Verbs) /\ Len(q) = 2
      /\ q[1] = "save" /\ q[2] = "restart"
  BY DEF Verbs
<1>2. \A i \in 1..2 : i = 1 \/ i = 2
  OBVIOUS
<1>3. ConfChange("dropbear") = On("dropbear", q) /\ "dropbear" \in Services
  BY DEF ConfChange, Services, Managed
<1> HIDE DEF q
<1>4. \A i \in 1..2 :
        /\ Rank(<<q[i], "dropbear">>) = IF i <= 1 THEN 8 ELSE 9
        /\ q[i] \notin {"reply", "accept", "drop", "follow"} \cup Cleanup
        /\ (q[i] \in {"save", "wipe"} => i = 1)
  BY <1>1, <1>2 DEF Rank, Cleanup
<1>5. ToSet(q) = {"save", "restart"}
  BY <1>1, <1>2 DEF ToSet
<1>6. \A i, j \in 1..2 : i < j =>
        /\ Rank(<<q[i], "dropbear">>) <= Rank(<<q[j], "dropbear">>)
        /\ q[i] \in {"save", "wipe"} => q[i] # q[j]
  BY <1>4
<1>7. Goes(On("dropbear", q)) /\ StepsIn(On("dropbear", q)) = Do("dropbear", ToSet(q))
  BY <1>1, <1>3, <1>4, <1>6, OnGoes
<1> QED  BY <1>3, <1>5, <1>7 DEF Listed

\* Of sshd_config.
LEMMA SshConfChangeGoes ==
  Listed("ssh", ConfChange("ssh"), {"save", "restart"})
<1> DEFINE q == <<"save", "restart">>
<1>1. /\ q \in Seq(Verbs) /\ Len(q) = 2
      /\ q[1] = "save" /\ q[2] = "restart"
  BY DEF Verbs
<1>2. \A i \in 1..2 : i = 1 \/ i = 2
  OBVIOUS
<1>3. ConfChange("ssh") = On("ssh", q) /\ "ssh" \in Services
  BY DEF ConfChange, Services, Managed
<1> HIDE DEF q
<1>4. \A i \in 1..2 :
        /\ Rank(<<q[i], "ssh">>) = IF i <= 1 THEN 19 ELSE 20
        /\ q[i] \notin {"reply", "accept", "drop", "follow"} \cup Cleanup
        /\ (q[i] \in {"save", "wipe"} => i = 1)
  BY <1>1, <1>2 DEF Rank, Cleanup
<1>5. ToSet(q) = {"save", "restart"}
  BY <1>1, <1>2 DEF ToSet
<1>6. \A i, j \in 1..2 : i < j =>
        /\ Rank(<<q[i], "ssh">>) <= Rank(<<q[j], "ssh">>)
        /\ q[i] \in {"save", "wipe"} => q[i] # q[j]
  BY <1>4
<1>7. Goes(On("ssh", q)) /\ StepsIn(On("ssh", q)) = Do("ssh", ToSet(q))
  BY <1>1, <1>3, <1>4, <1>6, OnGoes
<1> QED  BY <1>3, <1>5, <1>7 DEF Listed

\* Another target for the tunnel.
LEMMA TunnelTargetGoes ==
  Listed("ssltunnel", TunnelTarget, {"save", "unit", "restart"})
<1> DEFINE q == <<"save", "unit", "restart">>
<1>1. /\ q \in Seq(Verbs) /\ Len(q) = 3
      /\ q[1] = "save" /\ q[2] = "unit" /\ q[3] = "restart"
  BY DEF Verbs
<1>2. \A i \in 1..3 : i = 1 \/ i = 2 \/ i = 3
  OBVIOUS
<1>3. TunnelTarget = On("ssltunnel", q) /\ "ssltunnel" \in Services
  BY DEF TunnelTarget, Tunnels, Services, Claimants
<1> HIDE DEF q
<1>4. \A i \in 1..3 :
        /\ Rank(<<q[i], "ssltunnel">>) = IF i <= 1 THEN 10 ELSE IF i <= 2 THEN 11 ELSE 16
        /\ q[i] \notin {"reply", "accept", "drop", "follow"} \cup Cleanup
        /\ (q[i] \in {"save", "wipe"} => i = 1)
  BY <1>1, <1>2 DEF Rank, Cleanup
<1>5. ToSet(q) = {"save", "unit", "restart"}
  BY <1>1, <1>2 DEF ToSet
<1>6. \A i, j \in 1..3 : i < j =>
        /\ Rank(<<q[i], "ssltunnel">>) <= Rank(<<q[j], "ssltunnel">>)
        /\ q[i] \in {"save", "wipe"} => q[i] # q[j]
  BY <1>4
<1>7. Goes(On("ssltunnel", q)) /\ StepsIn(On("ssltunnel", q)) = Do("ssltunnel", ToSet(q))
  BY <1>1, <1>3, <1>4, <1>6, OnGoes
<1> QED  BY <1>3, <1>5, <1>7 DEF Listed

\* Another port for OpenVPN.
LEMMA VpnPortGoes ==
  Listed("openvpn", VpnPort, {"save", "closeLive", "closeLine", "openLive", "openLine", "restart"})
<1> DEFINE q == <<"save">> \o MoveInput \o <<"restart">>
<1>1. /\ q \in Seq(Verbs) /\ Len(q) = 6
      /\ q[1] = "save" /\ q[2] = "closeLive" /\ q[3] = "closeLine" /\ q[4] = "openLive"
           /\ q[5] = "openLine" /\ q[6] = "restart"
  <2> DEFINE a == <<"save">>
             b == MoveInput
             c == <<"restart">>
             d == a \o b
  <2>1. a \in Seq(Verbs) /\ Len(a) = 1 /\ a[1] = "save"
    BY DEF Verbs, MoveInput, InsertForward
  <2>2. b \in Seq(Verbs) /\ Len(b) = 4 /\ b[1] = "closeLive" /\ b[2] = "closeLine"
          /\ b[3] = "openLive" /\ b[4] = "openLine"
    BY DEF Verbs, MoveInput, InsertForward
  <2>3. c \in Seq(Verbs) /\ Len(c) = 1 /\ c[1] = "restart"
    BY DEF Verbs, MoveInput, InsertForward
  <2>4. q = d \o c
    OBVIOUS
  <2> HIDE DEF a, b, c, q
  <2>5. d \in Seq(Verbs) /\ Len(d) = 5
        /\ \A i \in 1..5 : d[i] = IF i <= 1 THEN a[i] ELSE b[i - 1]
    <3>1. d \in Seq(Verbs) /\ Len(d) = Len(a) + Len(b)
          /\ \A i \in 1..(Len(a) + Len(b)) : d[i] = IF i <= Len(a) THEN a[i] ELSE b[i - Len(a)]
      BY <2>1, <2>2, ConcatProperties
    <3>2. Len(a) = 1 /\ Len(b) = 4
      BY <2>1, <2>2
    <3> QED  BY <3>1, <3>2
  <2> HIDE DEF d
  <2>6. q \in Seq(Verbs) /\ Len(q) = 6
        /\ \A i \in 1..6 : q[i] = IF i <= 5 THEN d[i] ELSE c[i - 5]
    <3>1. d \in Seq(Verbs) /\ c \in Seq(Verbs) /\ Len(d) = 5 /\ Len(c) = 1
      BY <2>3, <2>5
    <3>2. d \o c \in Seq(Verbs) /\ Len(d \o c) = Len(d) + Len(c)
          /\ \A i \in 1..(Len(d) + Len(c)) : (d \o c)[i] = IF i <= Len(d) THEN d[i]
               ELSE c[i - Len(d)]
      BY <3>1, ConcatProperties
    <3> QED  BY <2>4, <3>1, <3>2
  <2>7. d[1] = "save"
    BY <2>1, <2>5
  <2>8. d[2] = "closeLive" /\ d[3] = "closeLine" /\ d[4] = "openLive" /\ d[5] = "openLine"
    BY <2>2, <2>5
  <2>9. q[1] = "save"
    BY <2>6, <2>7
  <2>10. q[2] = "closeLive" /\ q[3] = "closeLine" /\ q[4] = "openLive" /\ q[5] = "openLine"
    BY <2>6, <2>8
  <2>11. q[6] = "restart"
    BY <2>3, <2>6
  <2> QED  BY <2>6, <2>9, <2>10, <2>11
<1>2. \A i \in 1..6 : i = 1 \/ i = 2 \/ i = 3 \/ i = 4 \/ i = 5 \/ i = 6
  OBVIOUS
<1>3. VpnPort = On("openvpn", q) /\ "openvpn" \in Services
  BY DEF VpnPort, Services, Managed
<1> HIDE DEF q
<1>4. \A i \in 1..6 :
        /\ Rank(<<q[i], "openvpn">>) = IF i <= 1 THEN 3 ELSE IF i <= 5 THEN 4 ELSE 5
        /\ q[i] \notin {"reply", "accept", "drop", "follow"} \cup Cleanup
        /\ (q[i] \in {"save", "wipe"} => i = 1)
  BY <1>1, <1>2 DEF Rank, Cleanup
<1>5. ToSet(q) = {"save", "closeLive", "closeLine", "openLive", "openLine", "restart"}
  BY <1>1, <1>2 DEF ToSet
<1>6. \A i, j \in 1..6 : i < j =>
        /\ Rank(<<q[i], "openvpn">>) <= Rank(<<q[j], "openvpn">>)
        /\ q[i] \in {"save", "wipe"} => q[i] # q[j]
  BY <1>4
<1>7. Goes(On("openvpn", q)) /\ StepsIn(On("openvpn", q)) = Do("openvpn", ToSet(q))
  BY <1>1, <1>3, <1>4, <1>6, OnGoes
<1> QED  BY <1>3, <1>5, <1>7 DEF Listed

\* Another port for the tunnel.
LEMMA TunnelMoveGoes ==
  Listed("ssltunnel", TunnelMove,
       {"save", "unit", "closeLive", "closeLine", "openLive", "openLine", "restart"})
<1> DEFINE q == <<"save", "unit">> \o MoveInput \o <<"restart">>
<1>1. /\ q \in Seq(Verbs) /\ Len(q) = 7
      /\ q[1] = "save" /\ q[2] = "unit" /\ q[3] = "closeLive" /\ q[4] = "closeLine"
           /\ q[5] = "openLive" /\ q[6] = "openLine" /\ q[7] = "restart"
  <2> DEFINE a == <<"save", "unit">>
             b == MoveInput
             c == <<"restart">>
             d == a \o b
  <2>1. a \in Seq(Verbs) /\ Len(a) = 2 /\ a[1] = "save" /\ a[2] = "unit"
    BY DEF Verbs, MoveInput, InsertForward
  <2>2. b \in Seq(Verbs) /\ Len(b) = 4 /\ b[1] = "closeLive" /\ b[2] = "closeLine"
          /\ b[3] = "openLive" /\ b[4] = "openLine"
    BY DEF Verbs, MoveInput, InsertForward
  <2>3. c \in Seq(Verbs) /\ Len(c) = 1 /\ c[1] = "restart"
    BY DEF Verbs, MoveInput, InsertForward
  <2>4. q = d \o c
    OBVIOUS
  <2> HIDE DEF a, b, c, q
  <2>5. d \in Seq(Verbs) /\ Len(d) = 6
        /\ \A i \in 1..6 : d[i] = IF i <= 2 THEN a[i] ELSE b[i - 2]
    <3>1. d \in Seq(Verbs) /\ Len(d) = Len(a) + Len(b)
          /\ \A i \in 1..(Len(a) + Len(b)) : d[i] = IF i <= Len(a) THEN a[i] ELSE b[i - Len(a)]
      BY <2>1, <2>2, ConcatProperties
    <3>2. Len(a) = 2 /\ Len(b) = 4
      BY <2>1, <2>2
    <3> QED  BY <3>1, <3>2
  <2> HIDE DEF d
  <2>6. q \in Seq(Verbs) /\ Len(q) = 7
        /\ \A i \in 1..7 : q[i] = IF i <= 6 THEN d[i] ELSE c[i - 6]
    <3>1. d \in Seq(Verbs) /\ c \in Seq(Verbs) /\ Len(d) = 6 /\ Len(c) = 1
      BY <2>3, <2>5
    <3>2. d \o c \in Seq(Verbs) /\ Len(d \o c) = Len(d) + Len(c)
          /\ \A i \in 1..(Len(d) + Len(c)) : (d \o c)[i] = IF i <= Len(d) THEN d[i]
               ELSE c[i - Len(d)]
      BY <3>1, ConcatProperties
    <3> QED  BY <2>4, <3>1, <3>2
  <2>7. d[1] = "save" /\ d[2] = "unit"
    BY <2>1, <2>5
  <2>8. d[3] = "closeLive" /\ d[4] = "closeLine" /\ d[5] = "openLive" /\ d[6] = "openLine"
    BY <2>2, <2>5
  <2>9. q[1] = "save" /\ q[2] = "unit"
    BY <2>6, <2>7
  <2>10. q[3] = "closeLive" /\ q[4] = "closeLine" /\ q[5] = "openLive" /\ q[6] = "openLine"
    BY <2>6, <2>8
  <2>11. q[7] = "restart"
    BY <2>3, <2>6
  <2> QED  BY <2>6, <2>9, <2>10, <2>11
<1>2. \A i \in 1..7 : i = 1 \/ i = 2 \/ i = 3 \/ i = 4 \/ i = 5 \/ i = 6 \/ i = 7
  OBVIOUS
<1>3. TunnelMove = On("ssltunnel", q) /\ "ssltunnel" \in Services
  BY DEF TunnelMove, Tunnels, Services, Claimants
<1> HIDE DEF q
<1>4. \A i \in 1..7 :
        /\ Rank(<<q[i], "ssltunnel">>) = IF i <= 1 THEN 10 ELSE IF i <= 2 THEN 11 ELSE 16
        /\ q[i] \notin {"reply", "accept", "drop", "follow"} \cup Cleanup
        /\ (q[i] \in {"save", "wipe"} => i = 1)
  BY <1>1, <1>2 DEF Rank, Cleanup
<1>5. ToSet(q) = {"save", "unit", "closeLive", "closeLine", "openLive", "openLine", "restart"}
  BY <1>1, <1>2 DEF ToSet
<1>6. \A i, j \in 1..7 : i < j =>
        /\ Rank(<<q[i], "ssltunnel">>) <= Rank(<<q[j], "ssltunnel">>)
        /\ q[i] \in {"save", "wipe"} => q[i] # q[j]
  BY <1>4
<1>7. Goes(On("ssltunnel", q)) /\ StepsIn(On("ssltunnel", q)) = Do("ssltunnel", ToSet(q))
  BY <1>1, <1>3, <1>4, <1>6, OnGoes
<1> QED  BY <1>3, <1>5, <1>7 DEF Listed

\* A single step.
LEMMA OneGoes ==
  ASSUME NEW s \in Services, NEW n \in Verbs,
         n \notin {"reply", "accept", "drop", "follow"} \cup Cleanup
  PROVE  Listed(s, On(s, <<n>>), {n})
<1> DEFINE q == <<n>>
<1>1. q \in Seq(Verbs) /\ Len(q) = 1 /\ q[1] = n
  OBVIOUS
<1> HIDE DEF q
<1>2. \A i \in 1..1 : q[i] = n
  BY <1>1
<1>3. ToSet(q) = {n}
  BY <1>1, <1>2 DEF ToSet
<1>4. \A i, j \in 1..1 : ~(i < j)
  OBVIOUS
<1>5. Goes(On(s, q)) /\ StepsIn(On(s, q)) = Do(s, ToSet(q))
  BY <1>1, <1>2, <1>4, OnGoes
<1> QED  BY <1>3, <1>5 DEF Listed, q

\* Those of a list that sets up the chain.
LEMMA NetGoes ==
  ASSUME NEW s \in Vpns, s \in Services, NEW names \in Seq(Verbs), NEW p \in Nat,
         p + 2 < Len(names),
         \A i \in 1..Len(names) :
           /\ names[i] \notin {"follow"} \cup Cleanup
           /\ (names[i] = "reply" <=> i = p) /\ (names[i] = "accept" <=> i = p + 1)
                /\ (names[i] = "drop" <=> i = p + 2),
         \A i, j \in 1..Len(names) : i < j =>
           /\ Rank(<<names[i], s>>) <= Rank(<<names[j], s>>)
           /\ names[i] \in {"save", "wipe"} => names[i] # names[j]
  PROVE  Goes(On(s, names)) /\ StepsIn(On(s, names)) = Do(s, ToSet(names))
<1> DEFINE t == On(s, names)
<1>1. t \in Seq(Steps) /\ Len(t) = Len(names) /\ \A i \in 1..Len(t) : t[i] = <<names[i], s>>
  BY OnList
<1> HIDE DEF t
<1>2. Len(t) \in Nat /\ s # "proxy"
  BY <1>1 DEF Vpns
<1>3. ASSUME NEW i \in 1..Len(t), NEW j \in 1..Len(t), i < j PROVE InOrder(t[i], t[j])
  <2>1. t[i] = <<names[i], s>> /\ t[j] = <<names[j], s>> /\ i \in 1..Len(names)
          /\ j \in 1..Len(names)
    BY <1>1
  <2>2. Rank(<<names[i], s>>) <= Rank(<<names[j], s>>)
          /\ (names[i] \in {"save", "wipe"} => names[i] # names[j])
    BY <1>3, <2>1
  <2>3. names[i] \notin {"follow"} \cup Cleanup /\ names[j] \notin Cleanup
    BY <2>1
  <2>4. InOrder(<<names[i], s>>, <<names[j], s>>)
    BY <1>2, <2>2, <2>3 DEF InOrder
  <2> QED  BY <2>1, <2>4
<1>4. ASSUME NEW i \in 1..(Len(t) - 1) PROVE Adjacent(t[i], t[i + 1])
  <2>1. i \in 1..Len(names) /\ i + 1 \in 1..Len(names) /\ i \in Int
    BY <1>1, <1>2
  <2>2. t[i] = <<names[i], s>> /\ t[i + 1] = <<names[i + 1], s>>
    BY <1>1, <2>1
  <2>3. /\ (names[i] = "reply" <=> i = p) /\ (names[i] = "accept" <=> i = p + 1)
        /\ (names[i + 1] = "accept" <=> i + 1 = p + 1) /\ (names[i + 1] = "drop" <=> i + 1 = p + 2)
        /\ names[i] # "follow"
    BY <2>1
  <2>4. /\ names[i] = "reply" <=> names[i + 1] = "accept"
        /\ names[i] = "accept" <=> names[i + 1] = "drop"
    BY <2>1, <2>3
  <2>5. Adjacent(<<names[i], s>>, <<names[i + 1], s>>)
    BY <2>3, <2>4 DEF Adjacent
  <2> QED  BY <2>2, <2>5
<1>5. ASSUME t # <<>> PROVE t[Len(t)][1] \notin {"reply", "accept", "follow"}
  <2>1. Len(t) \in 1..Len(t)
    BY <1>1, <1>2, <1>5, EmptySeq
  <2>2. t[Len(t)] = <<names[Len(t)], s>> /\ Len(t) \in 1..Len(names)
    BY <1>1, <2>1
  <2>3. Len(t) # p /\ Len(t) # p + 1
    BY <1>1, <1>2
  <2> QED  BY <2>2, <2>3
<1>6. Goes(t)
  BY <1>1, <1>3, <1>4, <1>5 DEF Goes
<1> QED  BY <1>6, OnList DEF t

\* InstallService of OpenVPN.
LEMMA VpnInstallGoes ==
  Listed("openvpn", VpnInstall,
       {"unit", "save", "masq", "openLive", "mail", "reply", "accept", "drop", "netLines",
            "enable", "start"})
<1> DEFINE q == <<"unit", "save", "masq", "openLive", "mail">> \o InsertForward \o <<"netLines",
      "enable", "start">>
<1>1. /\ q \in Seq(Verbs) /\ Len(q) = 11
      /\ q[1] = "unit" /\ q[2] = "save" /\ q[3] = "masq" /\ q[4] = "openLive" /\ q[5] = "mail"
           /\ q[6] = "reply" /\ q[7] = "accept" /\ q[8] = "drop" /\ q[9] = "netLines"
                /\ q[10] = "enable" /\ q[11] = "start"
  <2> DEFINE a == <<"unit", "save", "masq", "openLive", "mail">>
             b == InsertForward
             c == <<"netLines", "enable", "start">>
             d == a \o b
  <2>1. a \in Seq(Verbs) /\ Len(a) = 5 /\ a[1] = "unit" /\ a[2] = "save" /\ a[3] = "masq"
          /\ a[4] = "openLive" /\ a[5] = "mail"
    BY DEF Verbs, MoveInput, InsertForward
  <2>2. b \in Seq(Verbs) /\ Len(b) = 3 /\ b[1] = "reply" /\ b[2] = "accept" /\ b[3] = "drop"
    BY DEF Verbs, MoveInput, InsertForward
  <2>3. c \in Seq(Verbs) /\ Len(c) = 3 /\ c[1] = "netLines" /\ c[2] = "enable" /\ c[3] = "start"
    BY DEF Verbs, MoveInput, InsertForward
  <2>4. q = d \o c
    OBVIOUS
  <2> HIDE DEF a, b, c, q
  <2>5. d \in Seq(Verbs) /\ Len(d) = 8
        /\ \A i \in 1..8 : d[i] = IF i <= 5 THEN a[i] ELSE b[i - 5]
    <3>1. d \in Seq(Verbs) /\ Len(d) = Len(a) + Len(b)
          /\ \A i \in 1..(Len(a) + Len(b)) : d[i] = IF i <= Len(a) THEN a[i] ELSE b[i - Len(a)]
      BY <2>1, <2>2, ConcatProperties
    <3>2. Len(a) = 5 /\ Len(b) = 3
      BY <2>1, <2>2
    <3> QED  BY <3>1, <3>2
  <2> HIDE DEF d
  <2>6. q \in Seq(Verbs) /\ Len(q) = 11
        /\ \A i \in 1..11 : q[i] = IF i <= 8 THEN d[i] ELSE c[i - 8]
    <3>1. d \in Seq(Verbs) /\ c \in Seq(Verbs) /\ Len(d) = 8 /\ Len(c) = 3
      BY <2>3, <2>5
    <3>2. d \o c \in Seq(Verbs) /\ Len(d \o c) = Len(d) + Len(c)
          /\ \A i \in 1..(Len(d) + Len(c)) : (d \o c)[i] = IF i <= Len(d) THEN d[i]
               ELSE c[i - Len(d)]
      BY <3>1, ConcatProperties
    <3> QED  BY <2>4, <3>1, <3>2
  <2>7. d[1] = "unit" /\ d[2] = "save" /\ d[3] = "masq" /\ d[4] = "openLive" /\ d[5] = "mail"
    BY <2>1, <2>5
  <2>8. d[6] = "reply" /\ d[7] = "accept" /\ d[8] = "drop"
    BY <2>2, <2>5
  <2>9. q[1] = "unit" /\ q[2] = "save" /\ q[3] = "masq" /\ q[4] = "openLive" /\ q[5] = "mail"
    BY <2>6, <2>7
  <2>10. q[6] = "reply" /\ q[7] = "accept" /\ q[8] = "drop"
    BY <2>6, <2>8
  <2>11. q[9] = "netLines" /\ q[10] = "enable" /\ q[11] = "start"
    BY <2>3, <2>6
  <2> QED  BY <2>6, <2>9, <2>10, <2>11
<1>2. \A i \in 1..11 : i = 1 \/ i = 2 \/ i = 3 \/ i = 4 \/ i = 5 \/ i = 6 \/ i = 7 \/ i = 8
        \/ i = 9 \/ i = 10 \/ i = 11
  OBVIOUS
<1>3. VpnInstall = On("openvpn", q) /\ "openvpn" \in Services
  BY DEF VpnInstall, Services, Managed
<1> HIDE DEF q
<1>4. \A i \in 1..11 :
        /\ Rank(<<q[i], "openvpn">>) = IF i <= 2 THEN 3 ELSE IF i <= 8 THEN 4 ELSE 5
        /\ q[i] \notin {"follow"} \cup Cleanup
        /\ (q[i] = "reply" <=> i = 6) /\ (q[i] = "accept" <=> i = 7) /\ (q[i] = "drop" <=> i = 8)
        /\ (q[i] \in {"save", "wipe"} => i = 2)
  BY <1>1, <1>2 DEF Rank, Cleanup
<1>5. ToSet(q) = {"unit", "save", "masq", "openLive", "mail", "reply", "accept", "drop",
        "netLines", "enable", "start"}
  BY <1>1, <1>2 DEF ToSet
<1>6. \A i, j \in 1..11 : i < j =>
        /\ Rank(<<q[i], "openvpn">>) <= Rank(<<q[j], "openvpn">>)
        /\ q[i] \in {"save", "wipe"} => q[i] # q[j]
  BY <1>4
<1>7. "openvpn" \in Vpns /\ 6 \in Nat /\ 6 + 2 < Len(q)
  BY <1>1 DEF Vpns
<1>8. \A i \in 1..Len(q) :
        /\ q[i] \notin {"follow"} \cup Cleanup
        /\ (q[i] = "reply" <=> i = 6) /\ (q[i] = "accept" <=> i = 6 + 1)
             /\ (q[i] = "drop" <=> i = 6 + 2)
  BY <1>1, <1>4
<1>9. \A i, j \in 1..Len(q) : i < j =>
        /\ Rank(<<q[i], "openvpn">>) <= Rank(<<q[j], "openvpn">>)
        /\ q[i] \in {"save", "wipe"} => q[i] # q[j]
  BY <1>1, <1>6
<1>10. Goes(On("openvpn", q)) /\ StepsIn(On("openvpn", q)) = Do("openvpn", ToSet(q))
  BY <1>1, <1>3, <1>7, <1>8, <1>9, NetGoes
<1> QED  BY <1>3, <1>5, <1>10 DEF Listed

\* An extra port.
LEMMA ExtraAddGoes ==
  Listed("extra", ExtraAdd, {"unit", "masq", "masqLine", "reply", "accept", "drop", "forwardLines",
       "openLive", "openLine", "save", "enable", "start"})
<1> DEFINE q == <<"unit", "masq", "masqLine">> \o InsertForward \o <<"forwardLines", "openLive",
      "openLine", "save", "enable", "start">>
<1>1. /\ q \in Seq(Verbs) /\ Len(q) = 12
      /\ q[1] = "unit" /\ q[2] = "masq" /\ q[3] = "masqLine" /\ q[4] = "reply" /\ q[5] = "accept"
           /\ q[6] = "drop" /\ q[7] = "forwardLines" /\ q[8] = "openLive" /\ q[9] = "openLine"
                /\ q[10] = "save" /\ q[11] = "enable" /\ q[12] = "start"
  <2> DEFINE a == <<"unit", "masq", "masqLine">>
             b == InsertForward
             c == <<"forwardLines", "openLive", "openLine", "save", "enable", "start">>
             d == a \o b
  <2>1. a \in Seq(Verbs) /\ Len(a) = 3 /\ a[1] = "unit" /\ a[2] = "masq" /\ a[3] = "masqLine"
    BY DEF Verbs, MoveInput, InsertForward
  <2>2. b \in Seq(Verbs) /\ Len(b) = 3 /\ b[1] = "reply" /\ b[2] = "accept" /\ b[3] = "drop"
    BY DEF Verbs, MoveInput, InsertForward
  <2>3. c \in Seq(Verbs) /\ Len(c) = 6 /\ c[1] = "forwardLines" /\ c[2] = "openLive"
          /\ c[3] = "openLine" /\ c[4] = "save" /\ c[5] = "enable" /\ c[6] = "start"
    BY DEF Verbs, MoveInput, InsertForward
  <2>4. q = d \o c
    OBVIOUS
  <2> HIDE DEF a, b, c, q
  <2>5. d \in Seq(Verbs) /\ Len(d) = 6
        /\ \A i \in 1..6 : d[i] = IF i <= 3 THEN a[i] ELSE b[i - 3]
    <3>1. d \in Seq(Verbs) /\ Len(d) = Len(a) + Len(b)
          /\ \A i \in 1..(Len(a) + Len(b)) : d[i] = IF i <= Len(a) THEN a[i] ELSE b[i - Len(a)]
      BY <2>1, <2>2, ConcatProperties
    <3>2. Len(a) = 3 /\ Len(b) = 3
      BY <2>1, <2>2
    <3> QED  BY <3>1, <3>2
  <2> HIDE DEF d
  <2>6. q \in Seq(Verbs) /\ Len(q) = 12
        /\ \A i \in 1..12 : q[i] = IF i <= 6 THEN d[i] ELSE c[i - 6]
    <3>1. d \in Seq(Verbs) /\ c \in Seq(Verbs) /\ Len(d) = 6 /\ Len(c) = 6
      BY <2>3, <2>5
    <3>2. d \o c \in Seq(Verbs) /\ Len(d \o c) = Len(d) + Len(c)
          /\ \A i \in 1..(Len(d) + Len(c)) : (d \o c)[i] = IF i <= Len(d) THEN d[i]
               ELSE c[i - Len(d)]
      BY <3>1, ConcatProperties
    <3> QED  BY <2>4, <3>1, <3>2
  <2>7. d[1] = "unit" /\ d[2] = "masq" /\ d[3] = "masqLine"
    BY <2>1, <2>5
  <2>8. d[4] = "reply" /\ d[5] = "accept" /\ d[6] = "drop"
    BY <2>2, <2>5
  <2>9. q[1] = "unit" /\ q[2] = "masq" /\ q[3] = "masqLine"
    BY <2>6, <2>7
  <2>10. q[4] = "reply" /\ q[5] = "accept" /\ q[6] = "drop"
    BY <2>6, <2>8
  <2>11. q[7] = "forwardLines" /\ q[8] = "openLive" /\ q[9] = "openLine" /\ q[10] = "save"
           /\ q[11] = "enable" /\ q[12] = "start"
    BY <2>3, <2>6
  <2> QED  BY <2>6, <2>9, <2>10, <2>11
<1>2. \A i \in 1..12 : i = 1 \/ i = 2 \/ i = 3 \/ i = 4 \/ i = 5 \/ i = 6 \/ i = 7 \/ i = 8
        \/ i = 9 \/ i = 10 \/ i = 11 \/ i = 12
  OBVIOUS
<1>3. ExtraAdd = On("extra", q) /\ "extra" \in Services
  BY DEF ExtraAdd, Vpns, Services, Claimants
<1> HIDE DEF q
<1>4. \A i \in 1..12 :
        /\ Rank(<<q[i], "extra">>) = IF i <= 10 THEN 0 ELSE 2
        /\ q[i] \notin {"follow"} \cup Cleanup
        /\ (q[i] = "reply" <=> i = 4) /\ (q[i] = "accept" <=> i = 5) /\ (q[i] = "drop" <=> i = 6)
        /\ (q[i] \in {"save", "wipe"} => i = 10)
  BY <1>1, <1>2 DEF Rank, Cleanup
<1>5. ToSet(q) = {"unit", "masq", "masqLine", "reply", "accept", "drop", "forwardLines",
        "openLive", "openLine", "save", "enable", "start"}
  BY <1>1, <1>2 DEF ToSet
<1>6. \A i, j \in 1..12 : i < j =>
        /\ Rank(<<q[i], "extra">>) <= Rank(<<q[j], "extra">>)
        /\ q[i] \in {"save", "wipe"} => q[i] # q[j]
  BY <1>4
<1>7. "extra" \in Vpns /\ 4 \in Nat /\ 4 + 2 < Len(q)
  BY <1>1 DEF Vpns
<1>8. \A i \in 1..Len(q) :
        /\ q[i] \notin {"follow"} \cup Cleanup
        /\ (q[i] = "reply" <=> i = 4) /\ (q[i] = "accept" <=> i = 4 + 1)
             /\ (q[i] = "drop" <=> i = 4 + 2)
  BY <1>1, <1>4
<1>9. \A i, j \in 1..Len(q) : i < j =>
        /\ Rank(<<q[i], "extra">>) <= Rank(<<q[j], "extra">>)
        /\ q[i] \in {"save", "wipe"} => q[i] # q[j]
  BY <1>1, <1>6
<1>10. Goes(On("extra", q)) /\ StepsIn(On("extra", q)) = Do("extra", ToSet(q))
  BY <1>1, <1>3, <1>7, <1>8, <1>9, NetGoes
<1> QED  BY <1>3, <1>5, <1>10 DEF Listed

\* The one step whose place differs between the removals.
DropProxy == <<"dropUnit", "proxy">>

\* A list behind another.
LEMMA Behind ==
  ASSUME NEW a, NEW b, Goes(a), Goes(b), NEW r \in Nat,
         \A x \in StepsIn(a) : (x = DropProxy \/ Rank(x) <= r) /\ x[1] # "reply" /\ x[1] # "accept",
         \A y \in StepsIn(b) : (y = DropProxy \/ r <= Rank(y)) /\ y[1] # "accept" /\ y[1] # "drop",
         DropProxy \in StepsIn(a) => <<"stop", "proxy">> \notin StepsIn(b),
         \A x \in StepsIn(a) : Rank(x) \in Nat,
         \A y \in StepsIn(b) : Rank(y) \in Nat,
         \/ \A x \in StepsIn(a) \cup StepsIn(b) : x[1] \notin Cleanup
         \/ \A x \in StepsIn(a) \cup StepsIn(b) : x[2] \in Vpns,
         StepsIn(a) \cap StepsIn(b) = {}
  PROVE  Goes(a \o b) /\ StepsIn(a \o b) = StepsIn(a) \cup StepsIn(b)
<1>1. ASSUME NEW x \in StepsIn(a), NEW y \in StepsIn(b) PROVE InOrder(x, y)
  <2>1. IF DropProxy \in {x, y} THEN y # <<"stop", "proxy">> ELSE Rank(x) <= Rank(y)
    BY DEF DropProxy
  <2>2. /\ x[1] \in Cleanup => y[2] \in Vpns
        /\ y[1] \in Cleanup => x[2] \in Vpns
    OBVIOUS
  <2>3. x # y
    OBVIOUS
  <2> QED  BY <2>1, <2>2, <2>3 DEF InOrder, DropProxy
<1>2. ASSUME a # <<>>, b # <<>> PROVE Adjacent(a[Len(a)], b[1])
  <2>1. /\ Len(a) \in 1..Len(a) /\ 1 \in 1..Len(b)
    BY <1>2, EmptySeq DEF Goes
  <2>2. a[Len(a)] \in StepsIn(a) /\ b[1] \in StepsIn(b)
    BY <2>1 DEF StepsIn
  <2>3. a[Len(a)][1] # "follow"
    BY <1>2 DEF Goes
  <2> QED  BY <2>2, <2>3 DEF Adjacent
<1> QED  BY <1>1, <1>2, Joined

\* Nothing at all.
LEMMA Nothing == Goes(<<>>) /\ StepsIn(<<>>) = {}
BY DEF Goes, StepsIn

\* The removal of squid, which takes its file along.
LEMMA SquidRemoveGoes ==
  Listed("squid", SquidRemove, {"stop", "disable", "dropUnit", "binary", "forget"})
<1> DEFINE a == ServiceRemove("squid")
           b == On("squid", <<"forget">>)
           N == {"stop", "disable", "dropUnit", "binary"}
<1>1. Goes(a) /\ StepsIn(a) = Do("squid", N)
  BY SquidServiceRemoveGoes DEF Listed
<1>2. Goes(b) /\ StepsIn(b) = Do("squid", {"forget"})
  BY OneGoes DEF Listed, Verbs, Cleanup, Services, Managed
<1>3. \A x \in Do("squid", N) : Rank(x) \in {6, 7} /\ x[1] \in N /\ x[2] = "squid"
  BY DEF Do, Rank
<1>4. \A x \in Do("squid", {"forget"}) : Rank(x) = 7 /\ x[1] = "forget" /\ x[2] = "squid"
  BY DEF Do, Rank
<1> HIDE DEF a, b
<1>5. Goes(a \o b) /\ StepsIn(a \o b) = Do("squid", N) \cup Do("squid", {"forget"})
  <2>1. Do("squid", N) \cap Do("squid", {"forget"}) = {}
    BY <1>3, <1>4
  <2>2. \A x \in StepsIn(a) : (x = DropProxy \/ Rank(x) <= 7) /\ x[1] # "reply" /\ x[1] # "accept"
                                /\ x # DropProxy /\ Rank(x) \in Nat /\ x[1] \notin Cleanup
    BY <1>1, <1>3 DEF DropProxy, Cleanup
  <2>3. \A x \in StepsIn(b) : (x = DropProxy \/ 7 <= Rank(x)) /\ x[1] # "drop" /\ x[1] # "accept"
                                /\ Rank(x) \in Nat /\ x[1] \notin Cleanup
    BY <1>2, <1>4 DEF DropProxy, Cleanup
  <2>4. Goes(a \o b) /\ StepsIn(a \o b) = StepsIn(a) \cup StepsIn(b)
    BY <1>1, <1>2, <2>1, <2>2, <2>3, Behind
  <2> QED  BY <1>1, <1>2, <2>4
<1>6. Do("squid", N) \cup Do("squid", {"forget"}) = Do("squid",
        {"stop", "disable", "dropUnit", "binary", "forget"})
  BY DEF Do
<1> QED  BY <1>5, <1>6 DEF Listed, SquidRemove, a, b

\* The steps of the removals at one service.
RemovedExtra == {"disable", "stop", "dropUnit", "unmasq", "unmasqLine", "closeLive", "closeLine",
     "forget"}
RemovedService == {"stop", "disable", "dropUnit", "binary"}
RemovedFront == {"disable", "stop", "dropUnit", "forget", "closeLive", "closeLine"}
CleanedUp == {"unmasq", "unforward", "closeConf", "sweepLive", "sweepLines", "unmail", "dropLines",
     "wipe"}

\* Steps of an order between those of lo and of hi.
Within(S, lo, hi) ==
  \A x \in S : /\ x[1] \notin {"reply", "accept", "drop"} /\ Rank(x) \in Nat
               /\ x = DropProxy \/ (lo <= Rank(x) /\ Rank(x) <= hi)

\* A list whose ranks go on where those of another end.
LEMMA Queued ==
  ASSUME NEW a, NEW b, Goes(a), Goes(b), NEW r \in Nat, NEW q \in Nat, NEW hi \in Nat, r <= q,
         q <= hi,
         Within(StepsIn(a), 0, r), Within(StepsIn(b), q, hi),
         DropProxy \in StepsIn(a) => <<"stop", "proxy">> \notin StepsIn(b),
         \/ \A x \in StepsIn(a) \cup StepsIn(b) : x[1] \notin Cleanup
         \/ \A x \in StepsIn(a) \cup StepsIn(b) : x[2] \in Vpns,
         StepsIn(a) \cap StepsIn(b) = {}
  PROVE  /\ Goes(a \o b) /\ StepsIn(a \o b) = StepsIn(a) \cup StepsIn(b)
         /\ Within(StepsIn(a) \cup StepsIn(b), 0, hi)
<1>1. /\ \A x \in StepsIn(a) : (x = DropProxy \/ Rank(x) <= r) /\ x[1] # "reply" /\ x[1] # "accept"
      /\ \A y \in StepsIn(b) : (y = DropProxy \/ r <= Rank(y)) /\ y[1] # "accept" /\ y[1] # "drop"
      /\ \A x \in StepsIn(a) : Rank(x) \in Nat
      /\ \A y \in StepsIn(b) : Rank(y) \in Nat
  BY DEF Within
<1>2. Goes(a \o b) /\ StepsIn(a \o b) = StepsIn(a) \cup StepsIn(b)
  BY <1>1, Behind
<1>3. Within(StepsIn(a) \cup StepsIn(b), 0, hi)
  BY DEF Within
<1> QED  BY <1>2, <1>3

\* The name and the service of a step.
LEMMA DoParts ==
  ASSUME NEW s, NEW N, NEW x \in Do(s, N)
  PROVE  x[1] \in N /\ x[2] = s /\ x = <<x[1], s>>
BY DEF Do

\* Blocks of the removals, in the order of Uninstall.
LEMMA RemovedRanks ==
  /\ Within(Do("extra", RemovedExtra), 0, 2)
  /\ Within(Do("openvpn", RemovedService), 3, 4)
  /\ Within(Do("openvpn", CleanedUp), 4, 5)
  /\ Within(Do("squid", RemovedService), 6, 7)
  /\ Within(Do("dropbear", RemovedService), 8, 9)
<1> SUFFICES ASSUME NEW x PROVE
      /\ x \in Do("extra", RemovedExtra) => Rank(x) \in {0, 1, 2}
           /\ x[1] \notin {"reply", "accept", "drop"}
      /\ x \in Do("openvpn", RemovedService) => Rank(x) \in {3, 4}
           /\ x[1] \notin {"reply", "accept", "drop"}
      /\ x \in Do("openvpn", CleanedUp) => Rank(x) \in {4, 5}
           /\ x[1] \notin {"reply", "accept", "drop"}
      /\ x \in Do("squid", RemovedService) => Rank(x) \in {6, 7}
           /\ x[1] \notin {"reply", "accept", "drop"}
      /\ x \in Do("dropbear", RemovedService) => Rank(x) \in {8, 9}
           /\ x[1] \notin {"reply", "accept", "drop"}
  BY DEF Within
<1>1. x \in Do("extra", RemovedExtra) => Rank(x) \in {0, 1, 2}
        /\ x[1] \notin {"reply", "accept", "drop"}
  BY DEF Do, Rank, RemovedExtra
<1>2. x \in Do("openvpn", RemovedService) => Rank(x) \in {3, 4}
        /\ x[1] \notin {"reply", "accept", "drop"}
  BY DEF Do, Rank, RemovedService
<1>3. x \in Do("openvpn", CleanedUp) => Rank(x) \in {4, 5}
        /\ x[1] \notin {"reply", "accept", "drop"}
  BY DEF Do, Rank, CleanedUp
<1>4. x \in Do("squid", RemovedService) => Rank(x) \in {6, 7}
        /\ x[1] \notin {"reply", "accept", "drop"}
  BY DEF Do, Rank, RemovedService
<1>5. x \in Do("dropbear", RemovedService) => Rank(x) \in {8, 9}
        /\ x[1] \notin {"reply", "accept", "drop"}
  BY DEF Do, Rank, RemovedService
<1> QED  BY <1>1, <1>2, <1>3, <1>4, <1>5

FrontSet == {"disable", "stop", "dropUnit", "forget"}
CloseSet == {"closeLive", "closeLine"}

\* The second half of Uninstall.
LEMMA FrontRanks ==
  /\ Within(Do("ssltunnel", FrontSet), 10, 11)
  /\ Within(Do("sslhmux", FrontSet), 12, 13)
  /\ Within(Do("proxy", FrontSet), 14, 15)
  /\ Within(Do("ssltunnel", CloseSet), 16, 16)
  /\ Within(Do("sslhmux", CloseSet), 16, 16)
  /\ Within(Do("proxy", CloseSet), 16, 16)
<1>0. Within(Do("proxy", FrontSet), 14, 15)
  <2>1. ASSUME NEW x \in Do("proxy", FrontSet)
        PROVE  Rank(x) \in {14, 15, 18} /\ x[1] \notin {"reply", "accept", "drop"}
             /\ (Rank(x) = 18 => x = DropProxy)
    <3>1. x[1] \in FrontSet /\ x[2] = "proxy" /\ x = <<x[1], "proxy">>
      BY DoParts
    <3>2. Rank(x) \in {14, 15, 18} /\ (Rank(x) = 18 => x[1] = "dropUnit")
      BY <3>1 DEF Rank, FrontSet
    <3> QED  BY <3>1, <3>2 DEF FrontSet, DropProxy
  <2> QED  BY <2>1 DEF Within
<1> SUFFICES ASSUME NEW x PROVE
      /\ x \in Do("ssltunnel", FrontSet) => Rank(x) \in {10, 11}
           /\ x[1] \notin {"reply", "accept", "drop"}
      /\ x \in Do("sslhmux", FrontSet) => Rank(x) \in {12, 13}
           /\ x[1] \notin {"reply", "accept", "drop"}
      /\ x \in Do("ssltunnel", CloseSet) => Rank(x) = 16 /\ x[1] \notin {"reply", "accept", "drop"}
      /\ x \in Do("sslhmux", CloseSet) => Rank(x) = 16 /\ x[1] \notin {"reply", "accept", "drop"}
      /\ x \in Do("proxy", CloseSet) => Rank(x) = 16 /\ x[1] \notin {"reply", "accept", "drop"}
  BY <1>0 DEF Within
<1>1. x \in Do("ssltunnel", FrontSet) => Rank(x) \in {10, 11}
        /\ x[1] \notin {"reply", "accept", "drop"}
  BY DEF Do, Rank, FrontSet
<1>2. x \in Do("sslhmux", FrontSet) => Rank(x) \in {12, 13}
        /\ x[1] \notin {"reply", "accept", "drop"}
  BY DEF Do, Rank, FrontSet
<1>3. x \in Do("ssltunnel", CloseSet) => Rank(x) = 16 /\ x[1] \notin {"reply", "accept", "drop"}
  BY DEF Do, Rank, CloseSet
<1>4. x \in Do("sslhmux", CloseSet) => Rank(x) = 16 /\ x[1] \notin {"reply", "accept", "drop"}
  BY DEF Do, Rank, CloseSet
<1>5. x \in Do("proxy", CloseSet) => Rank(x) = 16 /\ x[1] \notin {"reply", "accept", "drop"}
  BY DEF Do, Rank, CloseSet
<1> QED  BY <1>1, <1>2, <1>3, <1>4, <1>5

\* The extra port's steps, where there is one.
ExtraSteps(extras) == IF extras THEN Do("extra", RemovedExtra) ELSE {}

\* They come first.
LEMMA FirstExtra ==
  ASSUME NEW extras \in BOOLEAN, NEW e, e = IF extras THEN ExtraRemove ELSE <<>>
  PROVE  /\ Goes(e) /\ StepsIn(e) = ExtraSteps(extras) /\ Within(StepsIn(e), 0, 2)
         /\ \A x \in StepsIn(e) : x[1] \in RemovedExtra /\ x[2] = "extra"
<1>1. CASE extras
  <2>1. Goes(e) /\ StepsIn(e) = Do("extra", RemovedExtra)
    BY <1>1, ExtraRemoveGoes DEF Listed, RemovedExtra
  <2> QED  BY <1>1, <2>1, RemovedRanks, DoParts DEF ExtraSteps
<1>2. CASE ~extras
  BY <1>2, Nothing DEF ExtraSteps, Within
<1> QED  BY <1>1, <1>2

\* The removal of OpenVPN.
LEMMA VpnRemoveGoes ==
  ASSUME NEW extras \in BOOLEAN
  PROVE  /\ Goes(VpnRemove(extras))
         /\ StepsIn(VpnRemove(extras)) = ExtraSteps(extras) \cup Do("openvpn",
              RemovedService \cup CleanedUp)
<1> DEFINE e == IF extras THEN ExtraRemove ELSE <<>>
           a == ServiceRemove("openvpn")
           b == VpnCleanup
           ea == e \o a
<1>0. VpnRemove(extras) = ea \o b
  BY DEF VpnRemove
<1>1. /\ Goes(e) /\ StepsIn(e) = ExtraSteps(extras) /\ Within(StepsIn(e), 0, 2)
      /\ \A x \in StepsIn(e) : x[1] \in RemovedExtra /\ x[2] = "extra"
  BY FirstExtra
<1>2. /\ Goes(a) /\ StepsIn(a) = Do("openvpn", RemovedService) /\ Within(StepsIn(a), 3, 4)
      /\ \A x \in StepsIn(a) : x[1] \in RemovedService /\ x[2] = "openvpn"
  BY VpnServiceRemoveGoes, RemovedRanks, DoParts DEF Listed, RemovedService
<1>3. /\ Goes(b) /\ StepsIn(b) = Do("openvpn", CleanedUp) /\ Within(StepsIn(b), 4, 5)
      /\ \A x \in StepsIn(b) : x[1] \in CleanedUp /\ x[2] = "openvpn"
  BY VpnCleanupGoes, RemovedRanks, DoParts DEF Listed, CleanedUp
<1> HIDE DEF e, a, b
<1>4. /\ Goes(ea) /\ StepsIn(ea) = StepsIn(e) \cup StepsIn(a)
           /\ Within(StepsIn(e) \cup StepsIn(a), 0, 4)
  <2>1. StepsIn(e) \cap StepsIn(a) = {}
    BY <1>1, <1>2
  <2>2. \A x \in StepsIn(e) \cup StepsIn(a) : x[2] \in Vpns
    BY <1>1, <1>2 DEF Vpns
  <2>3. DropProxy \notin StepsIn(e)
    BY <1>1 DEF DropProxy
  <2>4. 2 \in Nat /\ 3 \in Nat /\ 4 \in Nat /\ 2 <= 3 /\ 3 <= 4
    OBVIOUS
  <2> QED  BY <1>1, <1>2, <2>1, <2>2, <2>3, <2>4, Queued
<1> HIDE DEF ea
<1>5. /\ Goes(ea \o b) /\ StepsIn(ea \o b) = StepsIn(ea) \cup StepsIn(b)
  <2>1. StepsIn(ea) \cap StepsIn(b) = {}
    BY <1>1, <1>2, <1>3, <1>4 DEF RemovedService, CleanedUp
  <2>2. \A x \in StepsIn(ea) \cup StepsIn(b) : x[2] \in Vpns
    BY <1>1, <1>2, <1>3, <1>4 DEF Vpns
  <2>3. DropProxy \notin StepsIn(ea)
    BY <1>1, <1>2, <1>4 DEF DropProxy
  <2>4. 4 \in Nat /\ 5 \in Nat /\ 4 <= 4 /\ 4 <= 5 /\ Within(StepsIn(ea), 0, 4)
    BY <1>4
  <2> QED  BY <1>3, <1>4, <2>1, <2>2, <2>3, <2>4, Queued
<1>6. Do("openvpn", RemovedService) \cup Do("openvpn", CleanedUp) = Do("openvpn",
        RemovedService \cup CleanedUp)
  BY DEF Do
<1>7. StepsIn(ea \o b) = ExtraSteps(extras) \cup Do("openvpn", RemovedService \cup CleanedUp)
  BY <1>1, <1>2, <1>3, <1>4, <1>5, <1>6
<1> QED  BY <1>0, <1>5, <1>7

\* A block behind what is there, none of it of OpenVPN's cleanup.
LEMMA PutBehind ==
  ASSUME NEW a, NEW b, NEW s, NEW N, Goes(a), Goes(b), StepsIn(b) = Do(s, N),
         NEW r \in Nat, NEW lo \in Nat, NEW hi \in Nat, r <= lo, lo <= hi,
         Within(StepsIn(a), 0, r), Within(StepsIn(b), lo, hi),
         N \cap Cleanup = {}, \A x \in StepsIn(a) : x[1] \notin Cleanup,
         \A x \in StepsIn(a) : x[2] = s => x[1] \notin N,
         DropProxy \in StepsIn(a) => "stop" \notin N
  PROVE  /\ Goes(a \o b) /\ StepsIn(a \o b) = StepsIn(a) \cup Do(s, N)
         /\ Within(StepsIn(a \o b), 0, hi)
         /\ \A x \in StepsIn(a \o b) : x[1] \notin Cleanup
<1>1. \A x \in Do(s, N) : x[1] \in N /\ x[2] = s
  BY DoParts
<1>2. StepsIn(a) \cap StepsIn(b) = {}
  BY <1>1
<1>3. DropProxy \in StepsIn(a) => <<"stop", "proxy">> \notin StepsIn(b)
  BY <1>1
<1>4. \A x \in StepsIn(a) \cup StepsIn(b) : x[1] \notin Cleanup
  BY <1>1
<1>5. /\ Goes(a \o b) /\ StepsIn(a \o b) = StepsIn(a) \cup StepsIn(b)
      /\ Within(StepsIn(a) \cup StepsIn(b), 0, hi)
  BY <1>2, <1>3, <1>4, Queued
<1> QED  BY <1>4, <1>5

\* `hexplus uninstall`.
LEMMA UninstallGoes ==
  ASSUME NEW extras \in BOOLEAN
  PROVE  /\ Goes(Uninstall(extras))
         /\ StepsIn(Uninstall(extras)) =
              ExtraSteps(extras) \cup Do("openvpn", RemovedService) \cup Do("squid", RemovedService)
                \cup Do("dropbear", RemovedService) \cup Do("ssltunnel", RemovedFront)
                \cup Do("sslhmux", RemovedFront) \cup Do("proxy", RemovedFront)
<1> DEFINE l0 == IF extras THEN ExtraRemove ELSE <<>>
           b1 == ServiceRemove("openvpn")
           b2 == ServiceRemove("squid")
           b3 == ServiceRemove("dropbear")
           b4 == On("ssltunnel", FrontSteps)
           b5 == On("sslhmux", FrontSteps)
           b6 == On("proxy", FrontSteps)
           b7 == On("ssltunnel", <<"closeLive", "closeLine">>)
           b8 == On("sslhmux", <<"closeLive", "closeLine">>)
           b9 == On("proxy", <<"closeLive", "closeLine">>)
           l1 == l0 \o b1
           l2 == l1 \o b2
           l3 == l2 \o b3
           l4 == l3 \o b4
           l5 == l4 \o b5
           l6 == l5 \o b6
           l7 == l6 \o b7
           l8 == l7 \o b8
           l9 == l8 \o b9
<1>0. Uninstall(extras) = l9
  BY DEF Uninstall
<1>1. /\ Goes(l0) /\ StepsIn(l0) = ExtraSteps(extras) /\ Within(StepsIn(l0), 0, 2)
      /\ \A x \in StepsIn(l0) : x[1] \in RemovedExtra /\ x[2] = "extra"
  BY FirstExtra
<1>2. Goes(b1) /\ StepsIn(b1) = Do("openvpn", RemovedService) /\ Within(StepsIn(b1), 3, 4)
  BY VpnServiceRemoveGoes, RemovedRanks DEF Listed, RemovedService
<1>3. Goes(b2) /\ StepsIn(b2) = Do("squid", RemovedService) /\ Within(StepsIn(b2), 6, 7)
  BY SquidServiceRemoveGoes, RemovedRanks DEF Listed, RemovedService
<1>4. Goes(b3) /\ StepsIn(b3) = Do("dropbear", RemovedService) /\ Within(StepsIn(b3), 8, 9)
  BY DropbearServiceRemoveGoes, RemovedRanks DEF Listed, RemovedService
<1>5. Goes(b4) /\ StepsIn(b4) = Do("ssltunnel", FrontSet) /\ Within(StepsIn(b4), 10, 11)
  BY TunnelFrontStepsGoes, FrontRanks DEF Listed, FrontSet
<1>6. Goes(b5) /\ StepsIn(b5) = Do("sslhmux", FrontSet) /\ Within(StepsIn(b5), 12, 13)
  BY SslhFrontStepsGoes, FrontRanks DEF Listed, FrontSet
<1>7. Goes(b6) /\ StepsIn(b6) = Do("proxy", FrontSet) /\ Within(StepsIn(b6), 14, 15)
  BY ProxiesFrontStepsGoes, FrontRanks DEF Listed, FrontSet
<1>8. Goes(b7) /\ StepsIn(b7) = Do("ssltunnel", CloseSet) /\ Within(StepsIn(b7), 16, 16)
  BY TunnelCloseGoes, FrontRanks DEF Listed, CloseSet
<1>9. Goes(b8) /\ StepsIn(b8) = Do("sslhmux", CloseSet) /\ Within(StepsIn(b8), 16, 16)
  BY SslhCloseGoes, FrontRanks DEF Listed, CloseSet
<1>10. Goes(b9) /\ StepsIn(b9) = Do("proxy", CloseSet) /\ Within(StepsIn(b9), 16, 16)
  BY ProxiesCloseGoes, FrontRanks DEF Listed, CloseSet
<1> HIDE DEF l0, b1, b2, b3, b4, b5, b6, b7, b8, b9
<1>11. RemovedService \cap Cleanup = {} /\ FrontSet \cap Cleanup = {} /\ CloseSet \cap Cleanup = {}
      /\ "stop" \notin CloseSet
  BY DEF RemovedService, FrontSet, CloseSet, Cleanup
<1>12. /\ \A x \in StepsIn(l0) : x[1] \notin Cleanup /\ x[2] = "extra"
       /\ DropProxy \notin StepsIn(l0)
  BY <1>1 DEF RemovedExtra, Cleanup, DropProxy
<1>13. 2 \in Nat /\ 3 \in Nat /\ 4 \in Nat /\ 2 <= 3 /\ 3 <= 4
  OBVIOUS
<1>14. \A x \in StepsIn(l0) : x[2] = "openvpn" => x[1] \notin RemovedService
  BY <1>12
<1>15. /\ Goes(l1) /\ StepsIn(l1) = StepsIn(l0) \cup Do("openvpn", RemovedService)
            /\ Within(StepsIn(l1), 0, 4)
       /\ \A x \in StepsIn(l1) : x[1] \notin Cleanup
  <2>1. Goes(l0) /\ Within(StepsIn(l0), 0, 2) /\ \A x \in StepsIn(l0) : x[1] \notin Cleanup
    BY <1>1, <1>12
  <2>2. RemovedService \cap Cleanup = {}
          /\ (DropProxy \in StepsIn(l0) => "stop" \notin RemovedService)
    BY <1>11, <1>12
  <2> QED  BY ONLY <2>1, <2>2, <1>2, <1>13, <1>14, PutBehind
<1> HIDE DEF l1
<1>16. /\ \A x \in StepsIn(l1) : x[1] \notin Cleanup /\ x[2] \in {"extra", "openvpn"}
       /\ DropProxy \notin StepsIn(l1)
  BY <1>12, <1>15, DoParts DEF DropProxy
<1>17. 4 \in Nat /\ 6 \in Nat /\ 7 \in Nat /\ 4 <= 6 /\ 6 <= 7
  OBVIOUS
<1>18. \A x \in StepsIn(l1) : x[2] = "squid" => x[1] \notin RemovedService
  BY <1>16
<1>19. /\ Goes(l2) /\ StepsIn(l2) = StepsIn(l1) \cup Do("squid", RemovedService)
            /\ Within(StepsIn(l2), 0, 7)
       /\ \A x \in StepsIn(l2) : x[1] \notin Cleanup
  <2>1. Goes(l1) /\ Within(StepsIn(l1), 0, 4) /\ \A x \in StepsIn(l1) : x[1] \notin Cleanup
    BY <1>15, <1>16
  <2>2. RemovedService \cap Cleanup = {}
          /\ (DropProxy \in StepsIn(l1) => "stop" \notin RemovedService)
    BY <1>11, <1>16
  <2> QED  BY ONLY <2>1, <2>2, <1>3, <1>17, <1>18, PutBehind
<1> HIDE DEF l2
<1>20. /\ \A x \in StepsIn(l2) : x[1] \notin Cleanup /\ x[2] \in {"extra", "openvpn", "squid"}
       /\ DropProxy \notin StepsIn(l2)
  BY <1>16, <1>19, DoParts DEF DropProxy
<1>21. 7 \in Nat /\ 8 \in Nat /\ 9 \in Nat /\ 7 <= 8 /\ 8 <= 9
  OBVIOUS
<1>22. \A x \in StepsIn(l2) : x[2] = "dropbear" => x[1] \notin RemovedService
  BY <1>20
<1>23. /\ Goes(l3) /\ StepsIn(l3) = StepsIn(l2) \cup Do("dropbear", RemovedService)
            /\ Within(StepsIn(l3), 0, 9)
       /\ \A x \in StepsIn(l3) : x[1] \notin Cleanup
  <2>1. Goes(l2) /\ Within(StepsIn(l2), 0, 7) /\ \A x \in StepsIn(l2) : x[1] \notin Cleanup
    BY <1>19, <1>20
  <2>2. RemovedService \cap Cleanup = {}
          /\ (DropProxy \in StepsIn(l2) => "stop" \notin RemovedService)
    BY <1>11, <1>20
  <2> QED  BY ONLY <2>1, <2>2, <1>4, <1>21, <1>22, PutBehind
<1> HIDE DEF l3
<1>24. /\ \A x \in StepsIn(l3) : x[1] \notin Cleanup
            /\ x[2] \in {"extra", "openvpn", "squid", "dropbear"}
       /\ DropProxy \notin StepsIn(l3)
  BY <1>20, <1>23, DoParts DEF DropProxy
<1>25. 9 \in Nat /\ 10 \in Nat /\ 11 \in Nat /\ 9 <= 10 /\ 10 <= 11
  OBVIOUS
<1>26. \A x \in StepsIn(l3) : x[2] = "ssltunnel" => x[1] \notin FrontSet
  BY <1>24
<1>27. /\ Goes(l4) /\ StepsIn(l4) = StepsIn(l3) \cup Do("ssltunnel", FrontSet)
            /\ Within(StepsIn(l4), 0, 11)
       /\ \A x \in StepsIn(l4) : x[1] \notin Cleanup
  <2>1. Goes(l3) /\ Within(StepsIn(l3), 0, 9) /\ \A x \in StepsIn(l3) : x[1] \notin Cleanup
    BY <1>23, <1>24
  <2>2. FrontSet \cap Cleanup = {} /\ (DropProxy \in StepsIn(l3) => "stop" \notin FrontSet)
    BY <1>11, <1>24
  <2> QED  BY ONLY <2>1, <2>2, <1>5, <1>25, <1>26, PutBehind
<1> HIDE DEF l4
<1>28. /\ \A x \in StepsIn(l4) : x[1] \notin Cleanup
            /\ x[2] \in {"extra", "openvpn", "squid", "dropbear", "ssltunnel"}
       /\ \A x \in StepsIn(l4) : x[2] \in {"ssltunnel"} => x[1] \notin CloseSet
       /\ DropProxy \notin StepsIn(l4)
  BY <1>24, <1>27, DoParts DEF DropProxy, FrontSet, CloseSet
<1>29. 11 \in Nat /\ 12 \in Nat /\ 13 \in Nat /\ 11 <= 12 /\ 12 <= 13
  OBVIOUS
<1>30. \A x \in StepsIn(l4) : x[2] = "sslhmux" => x[1] \notin FrontSet
  BY <1>28
<1>31. /\ Goes(l5) /\ StepsIn(l5) = StepsIn(l4) \cup Do("sslhmux", FrontSet)
            /\ Within(StepsIn(l5), 0, 13)
       /\ \A x \in StepsIn(l5) : x[1] \notin Cleanup
  <2>1. Goes(l4) /\ Within(StepsIn(l4), 0, 11) /\ \A x \in StepsIn(l4) : x[1] \notin Cleanup
    BY <1>27, <1>28
  <2>2. FrontSet \cap Cleanup = {}
    BY <1>11
  <2>3. DropProxy \in StepsIn(l4) => "stop" \notin FrontSet
    BY <1>28
  <2> QED  BY ONLY <2>1, <2>2, <2>3, <1>6, <1>29, <1>30, PutBehind
<1> HIDE DEF l5
<1>32. /\ \A x \in StepsIn(l5) : x[1] \notin Cleanup
            /\ x[2] \in {"extra", "openvpn", "squid", "dropbear", "ssltunnel", "sslhmux"}
       /\ \A x \in StepsIn(l5) : x[2] \in {"ssltunnel", "sslhmux"} => x[1] \notin CloseSet
       /\ DropProxy \notin StepsIn(l5)
  BY <1>28, <1>31, DoParts DEF DropProxy, FrontSet, CloseSet
<1>33. 13 \in Nat /\ 14 \in Nat /\ 15 \in Nat /\ 13 <= 14 /\ 14 <= 15
  OBVIOUS
<1>34. \A x \in StepsIn(l5) : x[2] = "proxy" => x[1] \notin FrontSet
  BY <1>32
<1>35. /\ Goes(l6) /\ StepsIn(l6) = StepsIn(l5) \cup Do("proxy", FrontSet)
            /\ Within(StepsIn(l6), 0, 15)
       /\ \A x \in StepsIn(l6) : x[1] \notin Cleanup
  <2>1. Goes(l5) /\ Within(StepsIn(l5), 0, 13) /\ \A x \in StepsIn(l5) : x[1] \notin Cleanup
    BY <1>31, <1>32
  <2>2. FrontSet \cap Cleanup = {}
    BY <1>11
  <2>3. DropProxy \in StepsIn(l5) => "stop" \notin FrontSet
    BY <1>32
  <2> QED  BY ONLY <2>1, <2>2, <2>3, <1>7, <1>33, <1>34, PutBehind
<1> HIDE DEF l6
<1>36. \A x \in StepsIn(l6) : x[2] \in {"ssltunnel", "sslhmux", "proxy"} => x[1] \notin CloseSet
  BY <1>32, <1>35, DoParts DEF FrontSet, CloseSet
<1>37. 15 \in Nat /\ 16 \in Nat /\ 16 \in Nat /\ 15 <= 16 /\ 16 <= 16
  OBVIOUS
<1>38. \A x \in StepsIn(l6) : x[2] = "ssltunnel" => x[1] \notin CloseSet
  BY <1>36
<1>39. /\ Goes(l7) /\ StepsIn(l7) = StepsIn(l6) \cup Do("ssltunnel", CloseSet)
            /\ Within(StepsIn(l7), 0, 16)
       /\ \A x \in StepsIn(l7) : x[1] \notin Cleanup
  <2>1. Goes(l6) /\ Within(StepsIn(l6), 0, 15) /\ \A x \in StepsIn(l6) : x[1] \notin Cleanup
    BY <1>35, <1>36
  <2>2. CloseSet \cap Cleanup = {} /\ (DropProxy \in StepsIn(l6) => "stop" \notin CloseSet)
    BY <1>11, <1>11
  <2> QED  BY ONLY <2>1, <2>2, <1>8, <1>37, <1>38, PutBehind
<1> HIDE DEF l7
<1>40. \A x \in StepsIn(l7) : x[2] \in {"sslhmux", "proxy"} => x[1] \notin CloseSet
  BY <1>36, <1>39, DoParts DEF FrontSet, CloseSet
<1>41. 16 \in Nat /\ 16 \in Nat /\ 16 \in Nat /\ 16 <= 16 /\ 16 <= 16
  OBVIOUS
<1>42. \A x \in StepsIn(l7) : x[2] = "sslhmux" => x[1] \notin CloseSet
  BY <1>40
<1>43. /\ Goes(l8) /\ StepsIn(l8) = StepsIn(l7) \cup Do("sslhmux", CloseSet)
            /\ Within(StepsIn(l8), 0, 16)
       /\ \A x \in StepsIn(l8) : x[1] \notin Cleanup
  <2>1. Goes(l7) /\ Within(StepsIn(l7), 0, 16) /\ \A x \in StepsIn(l7) : x[1] \notin Cleanup
    BY <1>39, <1>40
  <2>2. CloseSet \cap Cleanup = {} /\ (DropProxy \in StepsIn(l7) => "stop" \notin CloseSet)
    BY <1>11, <1>11
  <2> QED  BY ONLY <2>1, <2>2, <1>9, <1>41, <1>42, PutBehind
<1> HIDE DEF l8
<1>44. \A x \in StepsIn(l8) : x[2] \in {"proxy"} => x[1] \notin CloseSet
  BY <1>40, <1>43, DoParts DEF FrontSet, CloseSet
<1>45. 16 \in Nat /\ 16 \in Nat /\ 16 \in Nat /\ 16 <= 16 /\ 16 <= 16
  OBVIOUS
<1>46. \A x \in StepsIn(l8) : x[2] = "proxy" => x[1] \notin CloseSet
  BY <1>44
<1>47. /\ Goes(l9) /\ StepsIn(l9) = StepsIn(l8) \cup Do("proxy", CloseSet)
            /\ Within(StepsIn(l9), 0, 16)
       /\ \A x \in StepsIn(l9) : x[1] \notin Cleanup
  <2>1. Goes(l8) /\ Within(StepsIn(l8), 0, 16) /\ \A x \in StepsIn(l8) : x[1] \notin Cleanup
    BY <1>43, <1>44
  <2>2. CloseSet \cap Cleanup = {} /\ (DropProxy \in StepsIn(l8) => "stop" \notin CloseSet)
    BY <1>11, <1>11
  <2> QED  BY ONLY <2>1, <2>2, <1>10, <1>45, <1>46, PutBehind
<1> HIDE DEF l9
<1>48. /\ Do("ssltunnel", RemovedFront) = Do("ssltunnel", FrontSet) \cup Do("ssltunnel", CloseSet)
       /\ Do("sslhmux", RemovedFront) = Do("sslhmux", FrontSet) \cup Do("sslhmux", CloseSet)
       /\ Do("proxy", RemovedFront) = Do("proxy", FrontSet) \cup Do("proxy", CloseSet)
  <2>1. RemovedFront = FrontSet \cup CloseSet
    BY DEF RemovedFront, FrontSet, CloseSet
  <2> QED  BY <2>1 DEF Do
<1> QED  BY <1>0, <1>48, <1>1, <1>15, <1>19, <1>23, <1>27, <1>31, <1>35, <1>39, <1>43, <1>47

\* A tunnel's share of changeServicePort.
LEMMA FollowGoes ==
  ASSUME NEW t \in Tunnels
  PROVE  Listed(t, On(t, <<"follow", "tryRestart">>), {"follow", "tryRestart"})
<1> DEFINE q == <<"follow", "tryRestart">>
           l == On(t, q)
<1>1. q \in Seq(Verbs) /\ Len(q) = 2 /\ q[1] = "follow" /\ q[2] = "tryRestart" /\ t \in Services
  BY DEF Verbs, Tunnels, Services, Claimants
<1> HIDE DEF q
<1>2. l \in Seq(Steps) /\ Len(l) = 2 /\ l[1] = <<"follow", t>> /\ l[2] = <<"tryRestart", t>>
  BY <1>1, OnList
<1> HIDE DEF l
<1>3. \A i \in 1..2 : i = 1 \/ i = 2
  OBVIOUS
<1>4. Rank(l[1]) = Rank(l[2]) /\ Rank(l[1]) \in Nat
  BY <1>2 DEF Rank, Tunnels
<1>5. \A i, j \in 1..2 : i < j => InOrder(l[i], l[j])
  <2>1. InOrder(l[1], l[2])
    BY <1>2, <1>4 DEF InOrder, Cleanup
  <2> QED  BY <1>3, <2>1
<1>6. \A i \in 1..1 : Adjacent(l[i], l[i + 1])
  <2>1. Adjacent(l[1], l[2])
    BY <1>2 DEF Adjacent
  <2> QED  BY <2>1
<1>7. Goes(l)
  BY <1>2, <1>5, <1>6 DEF Goes
<1>8. StepsIn(l) = Do(t, {"follow", "tryRestart"})
  BY <1>2, <1>3 DEF StepsIn, Do
<1> QED  BY <1>7, <1>8 DEF Listed, l, q

\* The names of VpnPort and Await at OpenVPN.
MovedVpn == {"save", "closeLive", "closeLine", "openLive", "openLine", "restart"}
FollowSet == {"follow", "tryRestart"}

\* changeServicePort, when the tunnels have to follow.
LEMMA VpnPortFollowedGoes ==
  /\ Goes(VpnPort \o VpnFollowed)
  /\ StepsIn(VpnPort \o VpnFollowed) =
       Do("openvpn", MovedVpn \cup {"await"}) \cup Do("ssltunnel", FollowSet) \cup Do("proxy",
            FollowSet)
<1> DEFINE a == VpnPort
           b == On("openvpn", <<"await">>)
           c == On("ssltunnel", <<"follow", "tryRestart">>)
           d == On("proxy", <<"follow", "tryRestart">>)
           cd == c \o d
           bcd == b \o cd
<1>0. VpnPort \o VpnFollowed = a \o bcd
  BY DEF VpnFollowed, FollowVpn
<1>1. Goes(a) /\ StepsIn(a) = Do("openvpn", MovedVpn)
  BY VpnPortGoes DEF Listed, MovedVpn
<1>2. Goes(b) /\ StepsIn(b) = Do("openvpn", {"await"})
  BY OneGoes DEF Listed, Verbs, Cleanup, Services, Managed
<1>3. Goes(c) /\ StepsIn(c) = Do("ssltunnel", FollowSet) /\ Goes(d)
        /\ StepsIn(d) = Do("proxy", FollowSet)
  BY FollowGoes DEF Listed, Tunnels, FollowSet
<1> HIDE DEF a, b, c, d
<1>4. /\ \A x \in StepsIn(a) : x[1] \in MovedVpn /\ x[2] = "openvpn"
      /\ \A x \in StepsIn(b) : x[1] = "await" /\ x[2] = "openvpn"
  BY <1>1, <1>2, DoParts
<1>5. /\ \A x \in StepsIn(c) : x[1] \in FollowSet /\ x[2] = "ssltunnel"
      /\ \A x \in StepsIn(d) : x[1] \in FollowSet /\ x[2] = "proxy"
  BY <1>3, DoParts
<1>6. Within(StepsIn(a), 0, 5) /\ Within(StepsIn(b), 5, 5)
  <2>1. \A x \in StepsIn(a) : Rank(x) \in {3, 4, 5} /\ x[1] \notin {"reply", "accept", "drop"}
    BY <1>4 DEF Rank, MovedVpn
  <2>2. \A x \in StepsIn(b) : Rank(x) = 5 /\ x[1] \notin {"reply", "accept", "drop"}
    BY <1>4 DEF Rank
  <2> QED  BY <2>1, <2>2 DEF Within
<1>7. Within(StepsIn(c), 10, 10) /\ Within(StepsIn(d), 14, 14)
  <2>1. \A x \in StepsIn(c) : Rank(x) = 10 /\ x[1] \notin {"reply", "accept", "drop"}
    BY <1>5 DEF Rank, FollowSet
  <2>2. \A x \in StepsIn(d) : Rank(x) = 14 /\ x[1] \notin {"reply", "accept", "drop"}
    BY <1>5 DEF Rank, FollowSet
  <2> QED  BY <2>1, <2>2 DEF Within
<1>8. /\ \A x \in StepsIn(a) \cup StepsIn(b) : x[1] \notin Cleanup /\ x # DropProxy
      /\ \A x \in StepsIn(c) \cup StepsIn(d) : x[1] \notin Cleanup /\ x # DropProxy
  <2>1. \A x \in StepsIn(a) \cup StepsIn(b) : x[1] \notin Cleanup \cup {"dropUnit"}
    BY <1>4 DEF MovedVpn, Cleanup
  <2>2. \A x \in StepsIn(c) \cup StepsIn(d) : x[1] \notin Cleanup \cup {"dropUnit"}
    BY <1>5 DEF FollowSet, Cleanup
  <2> QED  BY <2>1, <2>2 DEF DropProxy
<1>9. /\ Goes(cd) /\ StepsIn(cd) = StepsIn(c) \cup StepsIn(d)
      /\ Within(StepsIn(cd), 5, 14)
  <2>1. StepsIn(c) \cap StepsIn(d) = {}
    BY <1>5
  <2>2. /\ 10 \in Nat /\ 14 \in Nat /\ 10 <= 14 /\ 14 <= 14
        /\ Within(StepsIn(c), 0, 10)
    BY <1>7 DEF Within
  <2>3. Goes(cd) /\ StepsIn(cd) = StepsIn(c) \cup StepsIn(d)
    BY <1>3, <1>7, <1>8, <2>1, <2>2, Queued
  <2>4. Within(StepsIn(c) \cup StepsIn(d), 5, 14)
    BY <1>7 DEF Within
  <2> QED  BY <2>3, <2>4
<1> HIDE DEF cd
<1>10. \A x \in StepsIn(cd) : x[1] \in FollowSet /\ x[2] \in {"ssltunnel", "proxy"}
         /\ x[1] \notin Cleanup
  BY <1>5, <1>8, <1>9
<1>11. /\ Goes(bcd) /\ StepsIn(bcd) = StepsIn(b) \cup StepsIn(cd)
       /\ Within(StepsIn(bcd), 5, 14)
  <2>1. StepsIn(b) \cap StepsIn(cd) = {}
    BY <1>4, <1>10
  <2>2. /\ 5 \in Nat /\ 14 \in Nat /\ 5 <= 5 /\ 5 <= 14
        /\ Within(StepsIn(b), 0, 5)
    BY <1>6 DEF Within
  <2>3. /\ \A x \in StepsIn(b) \cup StepsIn(cd) : x[1] \notin Cleanup
        /\ DropProxy \notin StepsIn(b)
    BY <1>8, <1>10
  <2>4. Goes(bcd) /\ StepsIn(bcd) = StepsIn(b) \cup StepsIn(cd)
    BY <1>2, <1>9, <2>1, <2>2, <2>3, Queued
  <2>5. Within(StepsIn(b) \cup StepsIn(cd), 5, 14)
    BY <1>6, <1>9 DEF Within
  <2> QED  BY <2>4, <2>5
<1> HIDE DEF bcd
<1>12. Goes(a \o bcd) /\ StepsIn(a \o bcd) = StepsIn(a) \cup StepsIn(bcd)
  <2>1. StepsIn(a) \cap StepsIn(bcd) = {}
    BY <1>4, <1>10, <1>11 DEF MovedVpn
  <2>2. 5 \in Nat /\ 14 \in Nat /\ 5 <= 5 /\ 5 <= 14
    OBVIOUS
  <2>3. /\ \A x \in StepsIn(a) \cup StepsIn(bcd) : x[1] \notin Cleanup
        /\ DropProxy \notin StepsIn(a)
    BY <1>8, <1>10, <1>11
  <2> QED  BY <1>1, <1>6, <1>11, <2>1, <2>2, <2>3, Queued
<1>13. StepsIn(a) \cup StepsIn(b) = Do("openvpn", MovedVpn \cup {"await"})
  BY <1>1, <1>2 DEF Do
<1>14. StepsIn(a \o bcd) = StepsIn(a) \cup StepsIn(b) \cup StepsIn(c) \cup StepsIn(d)
  BY <1>9, <1>11, <1>12
<1> QED  BY <1>0, <1>3, <1>12, <1>13, <1>14

-----------------------------------------------------------------------------
(* How an operation begins.                                                 *)

\* The names of the steps of S at s.
NamesAt(S, s) == {n \in Verbs : <<n, s>> \in S}

\* Begin, with a list in order.
Starts(flow, new, target, todo) ==
  /\ Begin(flow, new, target, todo)
  /\ todo # <<>> /\ Goes(todo)
  /\ flow \in Flows /\ new \subseteq Sockets /\ target \in Targets
  /\ trouble \subseteq trouble' /\ trouble' \subseteq Services \cup {"egress"}
  /\ doubt \subseteq doubt' /\ doubt' \subseteq Sockets
  /\ \A x \in StepsIn(todo) : Belongs(op', x)

\* The operation that began.
LEMMA Began ==
  ASSUME Typed, PlanOK, NEW flow, NEW new, NEW target, NEW todo, Starts(flow, new, target, todo)
  PROVE  /\ op = Resting /\ Left = {} /\ (\A n, s : ~Has(n, s)) /\ (\A n : ~Now(n))
         /\ op'.flow = flow /\ op'.new = new /\ op'.to = target /\ op'.todo = todo
         /\ op'.was = [s \in Of(todo) |-> file[s]]
         /\ Left' = StepsIn(todo)
         /\ \A x \in StepsIn(todo) : x[1] \in Verbs /\ x[2] \in Services /\ x[2] \in Of(todo)
                                       /\ x = <<x[1], x[2]>>
         /\ Of(todo) \subseteq Services
         /\ UNCHANGED <<file, to, services, rules, egress, meant>>
<1>1. op = Resting /\ Left = {}
  BY RestingOK DEF Starts, Begin, Left
<1>2. op' = [flow |-> flow, new |-> new, to |-> target, was |-> [s \in Of(todo) |-> file[s]],
        todo |-> todo]
  BY DEF Starts, Begin
<1>3. \A n : ~Now(n)
  BY <1>1 DEF Now, Resting
<1>4. todo \in Seq(Steps)
  BY DEF Starts, Goes
<1>5. \A i \in 1..Len(todo) : todo[i] \in Verbs \X Services
  BY <1>4 DEF Steps
<1>6. ASSUME NEW x \in StepsIn(todo)
      PROVE x[1] \in Verbs /\ x[2] \in Services /\ x[2] \in Of(todo) /\ x = <<x[1], x[2]>>
  <2>1. PICK i \in 1..Len(todo) : x = todo[i]
    BY DEF StepsIn
  <2> QED  BY <2>1, <1>5 DEF Of
<1>7. Of(todo) \subseteq Services
  BY <1>5 DEF Of
<1>8. Left' = StepsIn(todo)
  BY <1>2 DEF Left
<1>9. UNCHANGED <<file, to, services, rules, egress, meant>>
  BY DEF Starts, Begin
<1> QED  BY <1>1, <1>2, <1>3, <1>6, <1>7, <1>8, <1>9 DEF Has

\* Its steps.
LEMMA BeganHas ==
  ASSUME Typed, PlanOK, NEW flow, NEW new, NEW target, NEW todo, Starts(flow, new, target, todo),
         NEW n, NEW s
  PROVE  Has(n, s)' <=> n \in NamesAt(StepsIn(todo), s)
<1>1. Left' = StepsIn(todo) /\ \A x \in StepsIn(todo) : x[1] \in Verbs
  BY Began
<1> QED  BY <1>1 DEF Has, NamesAt

\* Types and order.
LEMMA BeginsTyped ==
  ASSUME Typed, PlanOK, NEW flow, NEW new, NEW target, NEW todo, Starts(flow, new, target, todo)
  PROVE  Typed' /\ PlanOK'
<1>1. /\ OpTyped(op) /\ FilesTyped /\ ServicesTyped /\ RulesTyped /\ RestTyped
  BY TypedBy
<1>2. /\ op'.flow = flow /\ op'.new = new /\ op'.to = target /\ op'.todo = todo
      /\ op'.was = [s \in Of(todo) |-> file[s]]
      /\ \A x \in StepsIn(todo) : x[2] \in Of(todo)
      /\ Of(todo) \subseteq Services
      /\ UNCHANGED <<file, to, services, rules, egress, meant>>
  BY Began
<1>3. [s \in Of(todo) |-> file[s]] \in [Of(todo) -> SUBSET Sockets]
  BY <1>1, <1>2 DEF FilesTyped
<1>4. [s \in Of(todo) |-> file[s]] \in Wases
  BY <1>2, <1>3 DEF Wases
<1>5. OpTyped(op')
  <2>1. op' = [flow |-> flow, new |-> new, to |-> target, was |-> [s \in Of(todo) |-> file[s]],
          todo |-> todo]
    BY DEF Starts, Begin
  <2>2. todo \in Seq(Steps) /\ flow \in Flows /\ new \in SUBSET Sockets /\ target \in Targets
    BY DEF Starts, Goes
  <2>3. op' \in Ops
    BY <2>1, <2>2, <1>4 DEF Ops
  <2>4. DOMAIN [s \in Of(todo) |-> file[s]] = Of(todo)
    OBVIOUS
  <2> QED  BY <2>3, <2>4, <1>2 DEF OpTyped
<1>6. FilesTyped' /\ ServicesTyped' /\ RulesTyped'
  BY <1>1, <1>2, TypedStays DEF services, rules
<1>7. RestTyped'
  <2>1. spent' \in 0..MaxSpent
    BY <1>1, SpendTyped DEF Starts, Begin
  <2> QED  BY <2>1, <1>1, <1>2 DEF Starts, RestTyped
<1>8. Typed'
  BY <1>5, <1>6, <1>7, TypedBy
<1>9. PlanOK'
  BY <1>2 DEF PlanOK, Fits, Starts
<1> QED  BY <1>8, <1>9

\* What names M at s need to keep UnitOK.
UnitReady(s, M) ==
  /\ "save" \in M => "restart" \in M \/ Quiet(s)
  /\ "dropUnit" \in M => "stop" \in M \/ Off(s)
  /\ "forget" \in M => "stop" \in M \/ Quiet(s)
  /\ s = "openvpn" /\ "wipe" \in M => "stop" \in M \/ Quiet(s)
  /\ "start" \in M \/ "restart" \in M => s \in unit \/ "unit" \in M

\* Units and processes.
LEMMA BeginsUnit ==
  ASSUME Typed, PlanOK, NEW flow, NEW new, NEW target, NEW todo, Starts(flow, new, target, todo),
         NEW s \in Services, UnitOK(s), NEW M, M = NamesAt(StepsIn(todo), s), UnitReady(s, M)
  PROVE  UnitOK(s)'
<1>1. /\ \A n : ~Has(n, s)
      /\ UNCHANGED <<file, to, services>>
  BY Began
<1>2. (Quiet(s)' <=> Quiet(s)) /\ (Off(s)' <=> Off(s)) /\ (Fresh(s)' <=> Fresh(s))
  BY <1>1 DEF Quiet, Off, Fresh, Listen, services
<1>3. Fresh(s) /\ (s \notin unit => Off(s)) /\ (s \in unit' <=> s \in unit)
  BY <1>1 DEF UnitOK, Restarts, services
<1>4. /\ Has("save", s)' <=> "save" \in M
      /\ Has("restart", s)' <=> "restart" \in M
      /\ Has("dropUnit", s)' <=> "dropUnit" \in M
      /\ Has("stop", s)' <=> "stop" \in M
      /\ Has("forget", s)' <=> "forget" \in M
      /\ Has("wipe", s)' <=> "wipe" \in M
      /\ Has("start", s)' <=> "start" \in M
      /\ Has("unit", s)' <=> "unit" \in M
  BY BeganHas
<1> QED  BY <1>2, <1>3, <1>4 DEF UnitOK, UnitReady

\* The same for OpenOK.
OpenReady(s, M, new) ==
  /\ "save" \in M => ("openLive" \in M /\ ("openLine" \in M \/ "netLines" \in M))
       \/ new \subseteq file[s]
  /\ "netLines" \in M => "openLive" \in M
  /\ "closeLive" \in M \/ "closeLine" \in M => "save" \in M \/ "forget" \in M
       \/ file[s] \subseteq new
  /\ "closeConf" \in M \/ "sweepLive" \in M \/ "sweepLines" \in M =>
       "forget" \in M \/ (s = "openvpn" /\ "wipe" \in M)

\* What is to be open.
LEMMA BeginsOpen ==
  ASSUME Typed, PlanOK, NEW flow, NEW new, NEW target, NEW todo, Starts(flow, new, target, todo),
         NEW s \in Claimants, OpenOK(s), NEW M, M = NamesAt(StepsIn(todo), s), OpenReady(s, M, new)
  PROVE  OpenOK(s)'
<1>1. /\ \A n : ~Has(n, s)
      /\ file' = file /\ live' = live /\ lines' = lines /\ op'.new = new /\ doubt \subseteq doubt'
  BY Began DEF rules, Starts
<1>2. file[s] \ doubt \subseteq live /\ file[s] \ doubt \subseteq lines
  BY <1>1 DEF OpenOK, Going, Opens
<1>3. /\ Has("save", s)' <=> "save" \in M
      /\ Has("openLive", s)' <=> "openLive" \in M
      /\ Has("openLine", s)' <=> "openLine" \in M
      /\ Has("netLines", s)' <=> "netLines" \in M
      /\ Has("closeLive", s)' <=> "closeLive" \in M
      /\ Has("closeLine", s)' <=> "closeLine" \in M
  BY BeganHas
<1>4. /\ Has("closeConf", s)' <=> "closeConf" \in M
      /\ Has("sweepLive", s)' <=> "sweepLive" \in M
      /\ Has("sweepLines", s)' <=> "sweepLines" \in M
      /\ Has("forget", s)' <=> "forget" \in M
      /\ Has("wipe", s)' <=> "wipe" \in M
  BY BeganHas
<1>5. Opens(s)' <=> "openLine" \in M \/ "netLines" \in M
  BY <1>3 DEF Opens
<1>6. Going(s)' <=> "forget" \in M \/ (s = "openvpn" /\ "wipe" \in M)
  BY <1>4 DEF Going
<1>7. (\A k \in file[s] \ doubt :
         /\ k \in live \/ Going(s) \/ (k \in op.new /\ Has("openLive", s))
         /\ k \in lines \/ Going(s) \/ (k \in op.new /\ Opens(s)))'
  BY <1>1, <1>2
<1>8. (Has("save", s) =>
         /\ Has("openLive", s) \/ op.new \ doubt \subseteq live
         /\ Opens(s) \/ op.new \ doubt \subseteq lines)'
  BY <1>1, <1>2, <1>3, <1>5 DEF OpenReady
<1>9. (/\ Has("netLines", s) => Has("openLive", s) \/ op.new \ doubt \subseteq live
       /\ Has("closeLive", s) \/ Has("closeLine", s) =>
            Has("save", s) \/ Has("forget", s) \/ file[s] \subseteq op.new
       /\ Has("closeConf", s) \/ Has("sweepLive", s) \/ Has("sweepLines", s) => Going(s))'
  BY <1>1, <1>3, <1>4, <1>6 DEF OpenReady
<1> QED  BY <1>7, <1>8, <1>9 DEF OpenOK

\* Who accounts for what is open.
LEMMA BeginsAccounted ==
  ASSUME Typed, PlanOK, NEW flow, NEW new, NEW target, NEW todo, Starts(flow, new, target, todo),
         Accounted
  PROVE  Accounted'
<1>1. /\ \A n, s : ~Has(n, s)
      /\ file' = file /\ live' = live /\ lines' = lines /\ doubt \subseteq doubt'
  BY Began DEF rules, Starts
<1>2. Pending = {} /\ Closing("closeLive") = {} /\ Closing("closeLine") = {}
  BY <1>1 DEF Pending, Saving, Closing
<1>3. Claimed' = Claimed
  BY <1>1 DEF Claimed
<1> QED  BY <1>1, <1>2, <1>3 DEF Accounted

\* The same for ShutOK.
ShutReady(s, M, new) ==
  /\ "save" \in M => file[s] \subseteq new \cup doubt' \/ ("closeLive" \in M /\ "closeLine" \in M)
  /\ M \cap {"openLive", "openLine", "netLines", "closeLive", "closeLine"} # {} =>
       "save" \in M \/ new \subseteq file[s] \cup doubt'
  /\ "forget" \in M => "closeLive" \in M /\ "closeLine" \in M

\* What is to be closed.
LEMMA BeginsShut ==
  ASSUME Typed, PlanOK, NEW flow, NEW new, NEW target, NEW todo, Starts(flow, new, target, todo),
         NEW s \in Claimants, NEW M, M = NamesAt(StepsIn(todo), s), ShutReady(s, M, new)
  PROVE  ShutOK(s)'
<1>1. file' = file /\ op'.new = new /\ op'.was = [r \in Of(todo) |-> file[r]]
  BY Began
<1>2. \A n \in Verbs : Has(n, s)' => file'[s] \subseteq op'.was[s] \cup op'.new
  <2> SUFFICES ASSUME NEW n \in Verbs, Has(n, s)' PROVE file'[s] \subseteq op'.was[s]
    OBVIOUS
  <2>1. <<n, s>> \in StepsIn(todo)
    BY BeganHas DEF NamesAt
  <2>2. \A x \in StepsIn(todo) : x[2] \in Of(todo)
    BY Began
  <2>3. <<n, s>>[2] \in Of(todo)
    BY <2>1, <2>2
  <2> QED  BY <1>1, <2>3
<1>3. /\ Has("save", s)' <=> "save" \in M
      /\ Has("openLive", s)' <=> "openLive" \in M
      /\ Has("openLine", s)' <=> "openLine" \in M
      /\ Has("netLines", s)' <=> "netLines" \in M
      /\ Has("closeLive", s)' <=> "closeLive" \in M
      /\ Has("closeLine", s)' <=> "closeLine" \in M
      /\ Has("forget", s)' <=> "forget" \in M
  BY BeganHas
<1>4. Opens(s)' <=> "openLine" \in M \/ "netLines" \in M
  BY <1>3 DEF Opens
<1>5. (Has("save", s) =>
         \/ file[s] \subseteq op.new \cup doubt
         \/ Has("closeLive", s) /\ Has("closeLine", s))'
  BY <1>1, <1>3 DEF ShutReady
<1>6. (Has("openLive", s) \/ Opens(s) \/ Has("closeLive", s) \/ Has("closeLine", s) =>
         Has("save", s) \/ op.new \subseteq file[s] \cup doubt)'
  BY <1>1, <1>3, <1>4 DEF ShutReady
<1>7. (Has("forget", s) => Has("closeLive", s) /\ Has("closeLine", s))'
  BY <1>3 DEF ShutReady
<1> QED  BY <1>2, <1>5, <1>6, <1>7 DEF ShutOK

\* The same for Wiping.
WipeReady(S) ==
  <<"wipe", "openvpn">> \in S =>
    /\ <<"closeConf", "openvpn">> \in S /\ <<"sweepLines", "openvpn">> \in S
    /\ <<"forget", "extra">> \in S \/ file["extra"] = {}

\* OpenVPN's removal.
LEMMA BeginsWiping ==
  ASSUME Typed, PlanOK, NEW flow, NEW new, NEW target, NEW todo, Starts(flow, new, target, todo),
         WipeReady(StepsIn(todo))
  PROVE  Wiping'
<1>1. file' = file /\ Left' = StepsIn(todo)
  BY Began
<1>2. Has("wipe", "openvpn")' =>
        Has("closeConf", "openvpn")' /\ Has("sweepLines", "openvpn")'
             /\ (Has("forget", "extra")' \/ file'["extra"] = {})
  BY <1>1 DEF WipeReady, Has
<1> QED  BY <1>2 DEF Wiping

\* The same for MasqOK.
MasqReady(v, M) ==
  /\ "save" \in M => ("masq" \in M /\ ("masqLine" \in M \/ "netLines" \in M)) \/ file[v] # {}
  /\ "forget" \in M \/ (v = "openvpn" /\ "wipe" \in M) =>
       "unmasq" \in M /\ ("unmasqLine" \in M \/ "dropLines" \in M)
  /\ "unmasq" \in M \/ "unmasqLine" \in M \/ "dropLines" \in M =>
       "forget" \in M \/ (v = "openvpn" /\ "wipe" \in M)
  /\ "masq" \in M \/ "masqLine" \in M \/ "netLines" \in M => "save" \in M \/ file[v] # {}

\* Masquerading.
LEMMA BeginsMasq ==
  ASSUME Typed, PlanOK, NEW flow, NEW new, NEW target, NEW todo, Starts(flow, new, target, todo),
         NEW v \in Vpns, MasqOK(v), NEW M, M = NamesAt(StepsIn(todo), v), MasqReady(v, M)
  PROVE  MasqOK(v)'
<1>1. /\ \A n : ~Has(n, v)
      /\ file' = file /\ live' = live /\ lines' = lines
  BY Began DEF rules
<1>2. Masq(v)' = Masq(v)
  BY DEF Masq
<1>3. /\ file[v] # {} => Masq(v) \in live /\ Masq(v) \in lines
      /\ file[v] = {} => Masq(v) \notin live \cup lines
  BY <1>1 DEF MasqOK, Going
<1>4. /\ Has("save", v)' <=> "save" \in M
      /\ Has("masq", v)' <=> "masq" \in M
      /\ Has("masqLine", v)' <=> "masqLine" \in M
      /\ Has("netLines", v)' <=> "netLines" \in M
      /\ Has("unmasq", v)' <=> "unmasq" \in M
  BY BeganHas
<1>5. /\ Has("unmasqLine", v)' <=> "unmasqLine" \in M
      /\ Has("dropLines", v)' <=> "dropLines" \in M
      /\ Has("forget", v)' <=> "forget" \in M
      /\ Has("wipe", v)' <=> "wipe" \in M
  BY BeganHas
<1>6. Going(v)' <=> "forget" \in M \/ (v = "openvpn" /\ "wipe" \in M)
  BY <1>5 DEF Going
<1>7. (/\ file[v] # {} \/ Has("save", v) => Masq(v) \in live \/ Has("masq", v) \/ Going(v)
       /\ file[v] # {} \/ Has("save", v) => Masq(v) \in lines \/ Has("masqLine", v)
            \/ Has("netLines", v) \/ Going(v)
       /\ file[v] = {} => Has("save", v) \/ Masq(v) \notin live \cup lines)'
  BY <1>1, <1>2, <1>3, <1>4 DEF MasqReady
<1>8. (/\ Going(v) => /\ Has("unmasq", v) \/ Masq(v) \notin live
                      /\ Has("unmasqLine", v) \/ Has("dropLines", v) \/ Masq(v) \notin lines
       /\ Has("unmasq", v) \/ Has("unmasqLine", v) \/ Has("dropLines", v) => Going(v)
       /\ Has("masq", v) \/ Has("masqLine", v) \/ Has("netLines", v) => Has("save", v)
            \/ file[v] # {})'
  BY <1>1, <1>4, <1>5, <1>6 DEF MasqReady
<1> QED  BY <1>7, <1>8 DEF MasqOK

\* The same for FollowParts.
FollowReady(S, flow, new) ==
  /\ (\E t \in Tunnels : <<"follow", t>> \in S) =>
       (\E n \in Verbs : <<n, "openvpn">> \in S)
            /\ (<<"save", "openvpn">> \in S \/ file["openvpn"] = new)
  /\ flow = "move" /\ <<"save", "openvpn">> \in S =>
       \/ new = file["openvpn"]
       \/ VpnTarget = {} /\ new \cap ({"tcp"} \X TcpPorts) = {}
            /\ ~\E t \in Tunnels : <<"follow", t>> \in S
       \/ \A t \in Tunnels : <<"follow", t>> \in S

\* The tunnels' targets.
LEMMA BeginsFollows ==
  ASSUME Typed, PlanOK, NEW flow, NEW new, NEW target, NEW todo, Starts(flow, new, target, todo),
         Follows,
         FollowReady(StepsIn(todo), flow, new)
  PROVE  Follows'
<1> SUFFICES ASSUME "openvpn" \notin trouble' PROVE FollowParts'
  BY DEF Follows
<1>1. /\ \A n, s : ~Has(n, s)
      /\ UNCHANGED <<file, to, meant>> /\ trouble \subseteq trouble'
      /\ op'.flow = flow /\ op'.new = new /\ Left' = StepsIn(todo)
      /\ op'.was = [r \in Of(todo) |-> file[r]]
      /\ \A x \in StepsIn(todo) : x[2] \in Of(todo)
  BY Began DEF Starts
<1>2. \A t \in meant \ trouble : to[t] \in VpnTarget
  BY <1>1 DEF Follows, FollowParts
<1>3. VpnTarget' = VpnTarget
  BY <1>1 DEF VpnTarget
<1>4. /\ Has("save", "openvpn")' <=> <<"save", "openvpn">> \in StepsIn(todo)
      /\ \A t \in Tunnels : Has("follow", t)' <=> <<"follow", t>> \in StepsIn(todo)
  BY <1>1 DEF Has
<1>5. (\E n \in Verbs : <<n, "openvpn">> \in StepsIn(todo)) => "openvpn" \in Of(todo)
  <2> SUFFICES ASSUME NEW n \in Verbs, <<n, "openvpn">> \in StepsIn(todo)
               PROVE "openvpn" \in Of(todo)
    OBVIOUS
  <2>1. <<n, "openvpn">>[2] \in Of(todo)
    BY <1>1
  <2> QED  BY <2>1
<1>6. (\A t \in meant \ trouble :
         \/ to[t] \in VpnTarget
         \/ Has("follow", t) /\ <<"tcp", to[t]>> \in op.was["openvpn"])'
  BY <1>1, <1>2, <1>3
<1>7. ((\E t \in Tunnels : Has("follow", t)) =>
         /\ "openvpn" \in DOMAIN op.was
         /\ Has("save", "openvpn") \/ file["openvpn"] = op.new)'
  <2>1. DOMAIN op'.was = Of(todo)
    BY <1>1
  <2> QED  BY <2>1, <1>1, <1>4, <1>5 DEF FollowReady
<1>8. (op.flow = "move" /\ Has("save", "openvpn") =>
         /\ file["openvpn"] = op.was["openvpn"]
         /\ \/ op.new = file["openvpn"]
            \/ VpnTarget = {} /\ op.new \cap ({"tcp"} \X TcpPorts) = {}
                 /\ ~\E t \in Tunnels : Has("follow", t)
            \/ \A t \in Tunnels \ trouble : Has("follow", t))'
  <2> SUFFICES ASSUME op'.flow = "move", Has("save", "openvpn")'
               PROVE  (/\ file["openvpn"] = op.was["openvpn"]
                       /\ \/ op.new = file["openvpn"]
                          \/ VpnTarget = {} /\ op.new \cap ({"tcp"} \X TcpPorts) = {}
                               /\ ~\E t \in Tunnels : Has("follow", t)
                          \/ \A t \in Tunnels \ trouble : Has("follow", t))'
    OBVIOUS
  <2>1. <<"save", "openvpn">> \in StepsIn(todo) /\ "save" \in Verbs
    BY <1>4 DEF Verbs
  <2>2. "openvpn" \in Of(todo)
    BY <2>1, <1>5
  <2>3. file'["openvpn"] = op'.was["openvpn"]
    BY <2>2, <1>1
  <2>4. \/ new = file["openvpn"]
        \/ VpnTarget = {} /\ new \cap ({"tcp"} \X TcpPorts) = {}
             /\ ~\E t \in Tunnels : <<"follow", t>> \in StepsIn(todo)
        \/ \A t \in Tunnels : <<"follow", t>> \in StepsIn(todo)
    BY <2>1, <1>1 DEF FollowReady
  <2>5. (\/ op.new = file["openvpn"]
         \/ VpnTarget = {} /\ op.new \cap ({"tcp"} \X TcpPorts) = {}
              /\ ~\E t \in Tunnels : Has("follow", t)
         \/ \A t \in Tunnels \ trouble : Has("follow", t))'
    BY <2>4, <1>1, <1>3, <1>4
  <2> QED  BY <2>3, <2>5
<1> QED  BY <1>6, <1>7, <1>8 DEF FollowParts

\* The chain.
LEMMA BeginsChain ==
  ASSUME Typed, PlanOK, NEW flow, NEW new, NEW target, NEW todo, Starts(flow, new, target, todo),
         ChainOK,
         Head(todo)[1] \notin {"accept", "drop"}
  PROVE  ChainOK'
<1>1. /\ \A n : ~Now(n)
      /\ op'.todo = todo /\ UNCHANGED <<fwd, fwdLines, egress>> /\ trouble \subseteq trouble'
  BY Began DEF rules, Starts
<1>2. ~Now("accept")' /\ ~Now("drop")'
  BY <1>1 DEF Now
<1>3. Forward(egress)' = Forward(egress)
  BY <1>1 DEF Forward
<1> QED  BY <1>1, <1>2, <1>3 DEF ChainOK

\* What an operation's names at one service need.
Ready(s, M, new) ==
  /\ s \notin trouble' => UnitReady(s, M)
  /\ s \in Claimants \ trouble' => OpenReady(s, M, new)
  /\ s \in Claimants => ShutReady(s, M, new)
  /\ s \in Vpns \ trouble' => MasqReady(s, M)

\* An operation whose services are ready keeps the invariant.
LEMMA Begins ==
  ASSUME IInv, NEW flow, NEW new, NEW target, NEW todo, Starts(flow, new, target, todo),
         \A s \in Services : Ready(s, NamesAt(StepsIn(todo), s), new),
         WipeReady(StepsIn(todo)), FollowReady(StepsIn(todo), flow, new),
         Head(todo)[1] \notin {"accept", "drop"}
  PROVE  IInv'
<1>0. /\ Typed /\ PlanOK /\ UnitsOK /\ Follows /\ Open /\ Accounted /\ Shut /\ Masqs /\ ChainOK
      /\ trouble \subseteq trouble'
  BY DEF IInv, Starts
<1>1. Typed' /\ PlanOK'
  BY <1>0, BeginsTyped
<1>2. UnitsOK'
  <2> SUFFICES ASSUME NEW s \in Services \ trouble' PROVE UnitOK(s)'
    BY DEF UnitsOK
  <2>1. UnitOK(s) /\ UnitReady(s, NamesAt(StepsIn(todo), s))
    BY <1>0 DEF UnitsOK, Ready
  <2> QED  BY <2>1, <1>0, BeginsUnit
<1>3. Open'
  <2> SUFFICES ASSUME NEW s \in Claimants \ trouble' PROVE OpenOK(s)'
    BY DEF Open
  <2>1. OpenOK(s) /\ OpenReady(s, NamesAt(StepsIn(todo), s), new)
    BY <1>0 DEF Open, Ready, Services
  <2> QED  BY <2>1, <1>0, BeginsOpen
<1>4. Shut'
  <2> SUFFICES ASSUME NEW s \in Claimants PROVE ShutOK(s)'
    BY DEF Shut
  <2>1. ShutReady(s, NamesAt(StepsIn(todo), s), new)
    BY DEF Ready, Services
  <2> QED  BY <2>1, <1>0, BeginsShut
<1>5. Masqs'
  <2> SUFFICES ASSUME NEW v \in Vpns \ trouble' PROVE MasqOK(v)'
    BY DEF Masqs
  <2>1. MasqOK(v) /\ MasqReady(v, NamesAt(StepsIn(todo), v))
    BY <1>0 DEF Masqs, Ready, Services, Claimants
  <2> QED  BY <2>1, <1>0, BeginsMasq
<1>6. Follows' /\ Accounted' /\ Wiping' /\ ChainOK'
  BY <1>0, BeginsFollows, BeginsAccounted, BeginsWiping, BeginsChain
<1> QED  BY <1>1, <1>2, <1>3, <1>4, <1>5, <1>6 DEF IInv

\* A service without a step needs nothing.
LEMMA NoNames ==
  ASSUME NEW s, NEW new
  PROVE  Ready(s, {}, new)
BY DEF Ready, UnitReady, OpenReady, ShutReady, MasqReady

\* The names of Do.
LEMMA NamesOf ==
  ASSUME NEW s, NEW N, N \subseteq Verbs, NEW r
  PROVE  NamesAt(Do(s, N), r) = IF r = s THEN N ELSE {}
BY DEF NamesAt, Do

\* An operation at one service.
LEMMA BeginsOne ==
  ASSUME IInv, NEW flow, NEW new, NEW target, NEW todo, NEW s \in Services, NEW N,
         N \subseteq Verbs,
         Starts(flow, new, target, todo), Listed(s, todo, N), Ready(s, N, new),
         "wipe" \notin N, "follow" \notin N,
         s = "openvpn" /\ "save" \in N => flow # "move" \/ new = file["openvpn"]
              \/ (VpnTarget = {} /\ new \cap ({"tcp"} \X TcpPorts) = {}),
         Head(todo)[1] \notin {"accept", "drop"}
  PROVE  IInv'
<1>1. StepsIn(todo) = Do(s, N)
  BY DEF Listed
<1>2. \A r \in Services : Ready(r, NamesAt(StepsIn(todo), r), new)
  <2>1. ASSUME NEW r \in Services PROVE Ready(r, NamesAt(StepsIn(todo), r), new)
    <3>1. NamesAt(StepsIn(todo), r) = IF r = s THEN N ELSE {}
      BY <1>1, NamesOf
    <3>2. Ready(r, {}, new)
      BY NoNames
    <3> QED  BY <3>1, <3>2
  <2> QED  BY <2>1
<1>3. \A n, r : <<n, r>> \in StepsIn(todo) <=> n \in N /\ r = s
  BY <1>1 DEF Do
<1>4. WipeReady(StepsIn(todo))
  BY <1>3 DEF WipeReady
<1>5. FollowReady(StepsIn(todo), flow, new)
  <2>1. \A t : <<"follow", t>> \notin StepsIn(todo)
    BY <1>3
  <2>2. <<"save", "openvpn">> \in StepsIn(todo) => "save" \in N /\ s = "openvpn"
    BY <1>3
  <2>3. flow = "move" /\ <<"save", "openvpn">> \in StepsIn(todo) =>
          \/ new = file["openvpn"]
          \/ VpnTarget = {} /\ new \cap ({"tcp"} \X TcpPorts) = {}
    BY <2>2
  <2> QED  BY <2>1, <2>3 DEF FollowReady
<1> QED  BY <1>2, <1>4, <1>5, Begins

-----------------------------------------------------------------------------
(* The operations, one by one.                                              *)

\* What the invariant says between two operations.
LEMMA AtRest ==
  ASSUME IInv, op = Resting, NEW s \in Services \ trouble
  PROVE  /\ Fresh(s) /\ (s \notin unit => Off(s)) /\ (Off(s) => Quiet(s))
         /\ (file[s] = {} /\ s # "ssh" => Quiet(s))
<1>1. UnitOK(s) /\ Left = {}
  BY RestingOK DEF IInv, UnitsOK, Left
<1>2. Fresh(s) /\ (s \notin unit => Off(s))
  BY <1>1 DEF UnitOK, Restarts, Has
<1>3. Off(s) => Quiet(s)
  BY DEF Off, Quiet
<1>4. file[s] = {} /\ s # "ssh" => Listen(s) = {}
  BY ListenType
<1>5. file[s] = {} /\ s # "ssh" => Quiet(s)
  BY <1>2, <1>4 DEF Fresh, Quiet
<1> QED  BY <1>2, <1>3, <1>5

\* What an operation may write down about what it cannot know.
Notes == /\ trouble \subseteq trouble' /\ trouble' \subseteq Services \cup {"egress"}
         /\ doubt \subseteq doubt' /\ doubt' \subseteq Sockets

\* It may note nothing.
LEMMA NotesNone ==
  ASSUME IInv, UNCHANGED <<trouble, doubt>> PROVE Notes
<1>1. trouble \subseteq Services \cup {"egress"} /\ doubt \subseteq Sockets
  BY DEF IInv, Typed, TypeOK
<1> QED  BY <1>1 DEF Notes

\* A list at one service.
LEMMA StartsOne ==
  ASSUME IInv, NEW flow \in Flows, NEW new \in SUBSET Sockets, NEW target \in Targets, NEW todo,
         NEW s \in Services, NEW N \in SUBSET Verbs, N # {},
         Begin(flow, new, target, todo), Listed(s, todo, N), Notes,
         op'.flow = flow /\ op'.new = new => \A n \in N : Belongs(op', <<n, s>>),
         Ready(s, N, new), "wipe" \notin N, "follow" \notin N,
         s = "openvpn" /\ "save" \in N => flow # "move" \/ new = file["openvpn"]
              \/ (VpnTarget = {} /\ new \cap ({"tcp"} \X TcpPorts) = {}),
         N \cap {"accept", "drop"} = {} \/ Head(todo)[1] = "unit"
  PROVE  IInv'
<1>1. Goes(todo) /\ StepsIn(todo) = Do(s, N)
  BY DEF Listed
<1>2. todo # <<>>
  BY <1>1, Nothing DEF Do
<1>3. op'.flow = flow /\ op'.new = new
  BY DEF Begin
<1>4. \A x \in StepsIn(todo) : Belongs(op', x)
  BY <1>1, <1>3 DEF Do
<1>5. Starts(flow, new, target, todo)
  BY <1>1, <1>2, <1>4 DEF Starts, Notes
<1>6. Head(todo)[1] \notin {"accept", "drop"}
  <2>1. 1 \in 1..Len(todo) /\ Head(todo) = todo[1]
    BY <1>1, <1>2, EmptySeq DEF Goes
  <2>2. Head(todo) \in Do(s, N)
    BY <2>1, <1>1 DEF StepsIn
  <2>3. Head(todo)[1] \in N
    BY <2>2, DoParts
  <2> QED  BY <2>3
<1> QED  BY <1>1, <1>5, <1>6, BeginsOne

\* Installation of a tunnel, the multiplexer or a proxy.
LEMMA FrontInstalled ==
  ASSUME IInv, NEW k \in Sockets, NEW t \in Targets, NEW s \in Tunnels \cup {"sslhmux"}, NEW todo,
         Listed(s, todo, {"save", "unit", "openLive", "openLine", "enable", "start"}),
         file[s] = {}, Pick("install", {k}, t, todo)
  PROVE  IInv'
<1> DEFINE N == {"save", "unit", "openLive", "openLine", "enable", "start"}
<1>1. /\ Begin("install", {k}, t, todo) /\ UNCHANGED <<trouble, doubt>> /\ op = Resting
      /\ s \in Services /\ s \in Claimants /\ s \notin Vpns /\ s # "openvpn" /\ s # "ssh"
  BY DEF Pick, Begin, Tunnels, Vpns, Services, Claimants
<1>2. N \in SUBSET Verbs /\ N # {} /\ "install" \in Flows /\ {k} \in SUBSET Sockets
  BY DEF Verbs, Flows
<1>3. op'.flow = "install" => \A n \in N : Belongs(op', <<n, s>>)
  BY <1>1 DEF Belongs, Demolition, Cleanup
<1>4. Ready(s, N, {k})
  <2>1. s \notin trouble' => Quiet(s)
    BY <1>1, AtRest
  <2>2. s \notin trouble' => UnitReady(s, N)
    BY <2>1 DEF UnitReady
  <2>3. OpenReady(s, N, {k}) /\ ShutReady(s, N, {k})
    BY DEF OpenReady, ShutReady
  <2> QED  BY <1>1, <2>2, <2>3 DEF Ready
<1>5. Notes
  BY <1>1, NotesNone
<1>6. N \cap {"accept", "drop"} = {} /\ "wipe" \notin N /\ "follow" \notin N
  OBVIOUS
<1> HIDE DEF N
<1>7. Listed(s, todo, N)
  BY DEF N
<1> QED  BY <1>1, <1>2, <1>3, <1>4, <1>5, <1>6, <1>7, StartsOne

\* The targets that the menus offer.
LEMMA TargetsThere ==
  ASSUME IInv
  PROVE  VpnTarget \subseteq TcpPorts /\ VpnTarget \cup {Elsewhere} \subseteq Targets
<1>1. file["openvpn"] \subseteq Sockets
  BY DEF IInv, Typed, TypeOK, Services, Managed
<1>2. VpnTarget \subseteq TcpPorts
  BY <1>1 DEF VpnTarget, Sockets
<1> QED  BY <1>2 DEF Targets

\* From the menus.
LEMMA BeginsInstallFront ==
  ASSUME IInv, NEW k \in Sockets, InstallFront(k)
  PROVE  IInv'
<1>1. CASE file["sslhmux"] = {} /\ Pick("install", {k}, Elsewhere, SslhInstall)
  BY <1>1, SslhInstallGoes, FrontInstalled DEF Targets
<1>2. CASE file["ssltunnel"] = {}
        /\ \E t \in VpnTarget \cup {Elsewhere} : Pick("install", {k}, t, TunnelInstall)
  <2>1. PICK t \in Targets : Pick("install", {k}, t, TunnelInstall)
    BY <1>2, TargetsThere
  <2> QED  BY <1>2, <2>1, TunnelInstallGoes, FrontInstalled DEF Tunnels
<1>3. CASE file["proxy"] = {}
        /\ \E t \in VpnTarget \cup {Elsewhere} : Pick("install", {k}, t, ProxyInstall)
  <2>1. PICK t \in Targets : Pick("install", {k}, t, ProxyInstall)
    BY <1>3, TargetsThere
  <2>2. {"save", "openLive", "openLine", "unit", "enable", "start"}
          = {"save", "unit", "openLive", "openLine", "enable", "start"}
    OBVIOUS
  <2>3. Listed("proxy", ProxyInstall, {"save", "unit", "openLive", "openLine", "enable", "start"})
    BY <2>2, ProxyInstallGoes
  <2> QED  BY <1>3, <2>1, <2>3, FrontInstalled DEF Tunnels
<1> QED  BY <1>1, <1>2, <1>3 DEF InstallFront

\* What comes first in a list stays first.
LEMMA FirstStays ==
  ASSUME NEW a \in Seq(Verbs), NEW b \in Seq(Verbs), 1 <= Len(a)
  PROVE  a \o b \in Seq(Verbs) /\ 1 <= Len(a \o b) /\ (a \o b)[1] = a[1]
<1>1. Len(a) \in Nat /\ Len(b) \in Nat
  OBVIOUS
<1>2. /\ a \o b \in Seq(Verbs) /\ Len(a \o b) = Len(a) + Len(b)
      /\ \A i \in 1..(Len(a) + Len(b)) : (a \o b)[i] = IF i <= Len(a) THEN a[i] ELSE b[i - Len(a)]
  BY ConcatProperties
<1>3. 1 \in 1..(Len(a) + Len(b))
  BY <1>1
<1> QED  BY <1>1, <1>2, <1>3

\* Lists that set up the chain begin with a unit.
LEMMA FirstIsUnit ==
  ASSUME NEW a \in Seq(Verbs), NEW b \in Seq(Verbs), 1 <= Len(a), a[1] = "unit", NEW s \in Services
  PROVE  Head(On(s, a \o InsertForward \o b))[1] = "unit"
<1> DEFINE l == a \o InsertForward \o b
<1>1. InsertForward \in Seq(Verbs)
  BY DEF InsertForward, Verbs
<1>2. a \o InsertForward \in Seq(Verbs) /\ 1 <= Len(a \o InsertForward)
        /\ (a \o InsertForward)[1] = "unit"
  BY <1>1, FirstStays
<1>3. l \in Seq(Verbs) /\ 1 <= Len(l) /\ l[1] = "unit"
  BY <1>2, FirstStays
<1> HIDE DEF l
<1>4. Len(l) \in Nat /\ 1 \in 1..Len(l)
  BY <1>3
<1>5. On(s, l) \in Seq(Steps) /\ Len(On(s, l)) = Len(l) /\ On(s, l)[1] = <<"unit", s>>
  BY <1>3, <1>4, OnList
<1>6. Head(On(s, l)) = On(s, l)[1]
  BY <1>3, <1>5
<1>7. Head(On(s, l))[1] = "unit"
  BY <1>5, <1>6
<1> QED  BY <1>7 DEF l

\* These two.
LEMMA UnitFirst ==
  /\ Head(VpnInstall)[1] = "unit"
  /\ Head(ExtraAdd)[1] = "unit"
<1>1. Head(VpnInstall)[1] = "unit"
  <2> DEFINE a == <<"unit", "save", "masq", "openLive", "mail">>
             b == <<"netLines", "enable", "start">>
  <2>1. a \in Seq(Verbs) /\ b \in Seq(Verbs) /\ 1 <= Len(a) /\ a[1] = "unit"
          /\ "openvpn" \in Services
    BY DEF Verbs, Services, Managed
  <2>2. VpnInstall = On("openvpn", a \o InsertForward \o b)
    BY DEF VpnInstall
  <2> HIDE DEF a, b
  <2> QED  BY <2>1, <2>2, FirstIsUnit
<1>2. Head(ExtraAdd)[1] = "unit"
  <2> DEFINE a == <<"unit", "masq", "masqLine">>
             b == <<"forwardLines", "openLive", "openLine", "save", "enable", "start">>
  <2>1. a \in Seq(Verbs) /\ b \in Seq(Verbs) /\ 1 <= Len(a) /\ a[1] = "unit" /\ "extra" \in Services
    BY DEF Verbs, Services, Claimants, Vpns
  <2>2. ExtraAdd = On("extra", a \o InsertForward \o b)
    BY DEF ExtraAdd
  <2> HIDE DEF a, b
  <2> QED  BY <2>1, <2>2, FirstIsUnit
<1> QED  BY <1>1, <1>2

\* Their names.
VpnInstalls == {"unit", "save", "masq", "openLive", "mail", "reply", "accept", "drop", "netLines",
     "enable", "start"}
ExtraAdds == {"unit", "masq", "masqLine", "reply", "accept", "drop", "forwardLines", "openLive",
     "openLine",
              "save", "enable", "start"}

\* OpenVPN.
LEMMA BeginsVpnInstall ==
  ASSUME IInv, NEW k \in Sockets, "openvpn" \notin unit,
         Begin("installBest", {k}, Elsewhere, VpnInstall),
         doubt' = doubt \cup (file["openvpn"] \ {k}), UNCHANGED trouble
  PROVE  IInv'
<1> DEFINE N == VpnInstalls
           s == "openvpn"
<1>1. op = Resting /\ s \in Services /\ s \in Claimants /\ s \in Vpns /\ file[s] \subseteq Sockets
  BY DEF Begin, Vpns, Services, Claimants, IInv, Typed, TypeOK
<1>2. N \in SUBSET Verbs /\ N # {} /\ "installBest" \in Flows /\ {k} \in SUBSET Sockets
        /\ Elsewhere \in Targets
  BY DEF Verbs, Flows, Targets, VpnInstalls
<1>3. op'.flow = "installBest" /\ op'.new = {k} => \A n \in N : Belongs(op', <<n, s>>)
  BY <1>1 DEF Belongs, Demolition, Cleanup, VpnInstalls
<1>4. Ready(s, N, {k})
  <2>1. s \notin trouble' => Quiet(s)
    BY <1>1, AtRest
  <2>2. s \notin trouble' => UnitReady(s, N)
    BY <2>1 DEF UnitReady, VpnInstalls
  <2>3. OpenReady(s, N, {k}) /\ ShutReady(s, N, {k}) /\ MasqReady(s, N)
    BY DEF OpenReady, ShutReady, MasqReady, VpnInstalls
  <2> QED  BY <1>1, <2>2, <2>3 DEF Ready
<1>5. Notes
  BY <1>1 DEF Notes, IInv, Typed, TypeOK
<1>6. "wipe" \notin N /\ "follow" \notin N
  BY DEF VpnInstalls
<1>7. Listed(s, VpnInstall, N)
  BY VpnInstallGoes DEF VpnInstalls
<1> HIDE DEF N
<1> QED  BY <1>1, <1>2, <1>3, <1>4, <1>5, <1>6, <1>7, UnitFirst, StartsOne

\* squid and dropbear.
LEMMA BeginsServiceInstall ==
  ASSUME IInv, NEW new \in SUBSET Sockets, NEW s \in {"squid", "dropbear"}, s \notin unit, NEW todo,
         Listed(s, todo, {"unit", "save", "enable", "start"}),
              Pick("installBest", new, Elsewhere, todo)
  PROVE  IInv'
<1> DEFINE N == {"unit", "save", "enable", "start"}
<1>1. /\ Begin("installBest", new, Elsewhere, todo) /\ UNCHANGED <<trouble, doubt>> /\ op = Resting
      /\ s \in Services /\ s \notin Claimants /\ s \notin Vpns /\ s # "openvpn"
  BY DEF Pick, Begin, Tunnels, Vpns, Services, Claimants, Managed
<1>2. N \in SUBSET Verbs /\ N # {} /\ "installBest" \in Flows /\ Elsewhere \in Targets
  BY DEF Verbs, Flows, Targets
<1>3. op'.flow = "installBest" => \A n \in N : Belongs(op', <<n, s>>)
  BY <1>1 DEF Belongs, Demolition, Cleanup
<1>4. Ready(s, N, new)
  <2>1. s \notin trouble' => Quiet(s)
    BY <1>1, AtRest
  <2>2. s \notin trouble' => UnitReady(s, N)
    BY <2>1 DEF UnitReady
  <2> QED  BY <1>1, <2>2 DEF Ready
<1>5. Notes
  BY <1>1, NotesNone
<1>6. N \cap {"accept", "drop"} = {} /\ "wipe" \notin N /\ "follow" \notin N
  OBVIOUS
<1> HIDE DEF N
<1>7. Listed(s, todo, N)
  BY DEF N
<1> QED  BY <1>1, <1>2, <1>3, <1>4, <1>5, <1>6, <1>7, StartsOne

\* dropbear's sockets.
LEMMA PopThere ==
  ASSUME NEW k \in Sockets, k[1] = "tcp"
  PROVE  {k} \in SUBSET Sockets /\ {k, <<"tcp", PopPort>>} \in SUBSET Sockets
BY ParametersOK DEF Sockets

\* InstallService.
LEMMA BeginsInstallService ==
  ASSUME IInv, NEW k \in Sockets, InstallService(k)
  PROVE  IInv'
<1>1. CASE /\ "openvpn" \notin unit
           /\ Begin("installBest", {k}, Elsewhere, VpnInstall)
           /\ doubt' = doubt \cup (file["openvpn"] \ {k})
           /\ UNCHANGED trouble
  BY <1>1, BeginsVpnInstall
<1>2. CASE "squid" \notin unit /\ k[1] = "tcp" /\ Pick("installBest", {k}, Elsewhere, SquidInstall)
  BY <1>2, PopThere, SquidInstallGoes, BeginsServiceInstall
<1>3. CASE /\ "dropbear" \notin unit /\ k[1] = "tcp"
           /\ Pick("installBest", {k, <<"tcp", PopPort>>}, Elsewhere, DropbearInstall)
  BY <1>3, PopThere, DropbearInstallGoes, BeginsServiceInstall
<1> QED  BY <1>1, <1>2, <1>3 DEF InstallService

\* An extra port.
LEMMA BeginsAddExtra ==
  ASSUME IInv, NEW k \in Sockets, AddExtra(k)
  PROVE  IInv'
<1> DEFINE N == ExtraAdds
           s == "extra"
<1>1. /\ op = Resting /\ s \in Services /\ s \in Claimants /\ s \in Vpns /\ file[s] = {}
      /\ Begin("installBest", {k}, Elsewhere, ExtraAdd) /\ UNCHANGED <<trouble, doubt>>
  BY DEF AddExtra, Pick, Begin, Vpns, Services, Claimants
<1>2. N \in SUBSET Verbs /\ N # {} /\ "installBest" \in Flows /\ {k} \in SUBSET Sockets
        /\ Elsewhere \in Targets
  BY DEF Verbs, Flows, Targets, ExtraAdds
<1>3. op'.flow = "installBest" /\ op'.new = {k} => \A n \in N : Belongs(op', <<n, s>>)
  BY <1>1 DEF Belongs, Demolition, Cleanup, ExtraAdds
<1>4. Ready(s, N, {k})
  <2>1. s \notin trouble' => Quiet(s)
    BY <1>1, AtRest
  <2>2. s \notin trouble' => UnitReady(s, N)
    BY <2>1 DEF UnitReady, ExtraAdds
  <2>3. OpenReady(s, N, {k}) /\ ShutReady(s, N, {k}) /\ MasqReady(s, N)
    BY <1>1 DEF OpenReady, ShutReady, MasqReady, ExtraAdds
  <2> QED  BY <1>1, <2>2, <2>3 DEF Ready
<1>5. Notes
  BY <1>1, NotesNone
<1>6. "wipe" \notin N /\ "follow" \notin N
  BY DEF ExtraAdds
<1>7. Listed(s, ExtraAdd, N)
  BY ExtraAddGoes DEF ExtraAdds
<1> HIDE DEF N
<1> QED  BY <1>1, <1>2, <1>3, <1>4, <1>5, <1>6, <1>7, UnitFirst, StartsOne

\* Types at hand.
LEMMA FilesThere ==
  ASSUME IInv
  PROVE  /\ file \in [Services -> SUBSET Sockets] /\ to \in [Tunnels -> Targets]
         /\ unit \subseteq Services /\ "ssh" \in unit
BY DEF IInv, Typed, TypeOK

\* `hexplus proxy add`.
LEMMA BeginsAddProxy ==
  ASSUME IInv, NEW k \in Sockets, AddProxy(k)
  PROVE  IInv'
<1> DEFINE N == {"save", "openLive", "openLine", "unit"}
<1>1. /\ op = Resting /\ "proxy" \in Services
      /\ Begin("installBest", {k}, Elsewhere, ProxyAdd)
      /\ trouble' = IF file["proxy"] = {} THEN trouble ELSE trouble \cup {"proxy"}
      /\ doubt' = doubt \cup file["proxy"]
      /\ "proxy" \in Claimants /\ "proxy" \notin Vpns
  BY DEF AddProxy, Begin, Services, Claimants, Managed, Vpns, Tunnels
<1>2. N \in SUBSET Verbs /\ N # {} /\ "installBest" \in Flows /\ {k} \in SUBSET Sockets
        /\ Elsewhere \in Targets
  BY DEF Verbs, Flows, Targets
<1>3. op'.flow = "installBest" /\ op'.new = {k} => \A n \in N : Belongs(op', <<n, "proxy">>)
  BY <1>1 DEF Belongs, Building, Demolition, Cleanup, Claimants, Vpns, Tunnels
<1>4. Ready("proxy", N, {k})
  <2>1. "proxy" \notin trouble' => Quiet("proxy")
    BY <1>1, AtRest
  <2>2. "proxy" \notin trouble' => UnitReady("proxy", N)
    BY <2>1 DEF UnitReady
  <2>3. OpenReady("proxy", N, {k}) /\ ShutReady("proxy", N, {k})
    BY <1>1 DEF OpenReady, ShutReady
  <2> QED  BY <1>1, <2>2, <2>3 DEF Ready
<1>5. Notes
  BY <1>1 DEF Notes, IInv, Typed, TypeOK
<1>6. N \cap {"accept", "drop"} = {} /\ "wipe" \notin N /\ "follow" \notin N
  BY DEF Verbs
<1>7. Listed("proxy", ProxyAdd, N)
  BY ProxyAddGoes
<1> HIDE DEF N
<1> QED  BY <1>1, <1>2, <1>3, <1>4, <1>5, <1>6, <1>7, StartsOne

\* `hexplus proxy remove`.
LEMMA BeginsRemoveProxy ==
  ASSUME IInv, RemoveProxy
  PROVE  IInv'
<1> DEFINE N == {"forget", "closeLive", "closeLine", "dropUnit"}
<1>1. /\ op = Resting /\ "proxy" \in Services
      /\ Begin("remove", {}, Elsewhere, ProxyRemove)
      /\ trouble' = IF proc["proxy"] = {} /\ "proxy" \notin due THEN trouble
           ELSE trouble \cup {"proxy"}
      /\ doubt' = doubt
      /\ "proxy" \in Claimants /\ "proxy" \notin Vpns
  BY DEF RemoveProxy, Begin, Services, Claimants, Managed, Vpns, Tunnels
<1>2. N \in SUBSET Verbs /\ N # {} /\ "remove" \in Flows /\ {} \in SUBSET Sockets
        /\ Elsewhere \in Targets
  BY DEF Verbs, Flows, Targets
<1>3. op'.flow = "remove" /\ op'.new = {} => \A n \in N : Belongs(op', <<n, "proxy">>)
  BY <1>1 DEF Belongs, Building, Demolition, Cleanup, Claimants, Vpns, Tunnels
<1>4. Ready("proxy", N, {})
  <2>1. "proxy" \notin trouble' => Off("proxy") /\ Quiet("proxy")
    BY <1>1 DEF Off, Quiet
  <2>2. "proxy" \notin trouble' => UnitReady("proxy", N)
    BY <2>1 DEF UnitReady
  <2>3. OpenReady("proxy", N, {}) /\ ShutReady("proxy", N, {})
    BY DEF OpenReady, ShutReady
  <2> QED  BY <1>1, <2>2, <2>3 DEF Ready
<1>5. Notes
  BY <1>1 DEF Notes, IInv, Typed, TypeOK
<1>6. N \cap {"accept", "drop"} = {} /\ "wipe" \notin N /\ "follow" \notin N
  BY DEF Verbs
<1>7. Listed("proxy", ProxyRemove, N)
  BY ProxyRemoveGoes
<1> HIDE DEF N
<1> QED  BY <1>1, <1>2, <1>3, <1>4, <1>5, <1>6, <1>7, StartsOne

\* A front end's removal, at once or in parts.
LEMMA FrontRemoved ==
  ASSUME IInv, NEW s \in Tunnels \cup {"sslhmux"}, NEW todo, Listed(s, todo, RemovedFront),
         Pick("remove", {}, Elsewhere, todo)
  PROVE  IInv'
<1> DEFINE N == RemovedFront
<1>1. /\ op = Resting /\ s \in Services
      /\ Begin("remove", {}, Elsewhere, todo) /\ UNCHANGED <<trouble, doubt>>
      /\ s \in Claimants /\ s \notin Vpns /\ s # "ssh" /\ s # "openvpn"
  BY DEF Pick, Begin, Services, Claimants, Managed, Vpns, Tunnels
<1>2. N \in SUBSET Verbs /\ N # {} /\ "remove" \in Flows /\ {} \in SUBSET Sockets
        /\ Elsewhere \in Targets
  BY DEF Verbs, Flows, Targets, RemovedFront
<1>3. op'.flow = "remove" /\ op'.new = {} => \A n \in N : Belongs(op', <<n, s>>)
  BY <1>1 DEF Belongs, Building, Demolition, Cleanup, Claimants, Vpns, Tunnels, RemovedFront
<1>4. Ready(s, N, {})
  <2>1. UnitReady(s, N)
    BY <1>1 DEF UnitReady, RemovedFront
  <2>2. OpenReady(s, N, {}) /\ ShutReady(s, N, {})
    BY DEF OpenReady, ShutReady, RemovedFront
  <2> QED  BY <1>1, <2>1, <2>2 DEF Ready
<1>5. Notes
  BY <1>1, NotesNone
<1>6. N \cap {"accept", "drop"} = {} /\ "wipe" \notin N /\ "follow" \notin N
  BY DEF Verbs, RemovedFront
<1>7. Listed(s, todo, N)
  BY <1>1
<1> HIDE DEF N
<1> QED  BY <1>1, <1>2, <1>3, <1>4, <1>5, <1>6, <1>7, StartsOne

\* From the menus.
LEMMA BeginsRemoveFront ==
  ASSUME IInv, RemoveFront
  PROVE  IInv'
<1>1. PICK s \in Tunnels \cup {"sslhmux"} : Pick("remove", {}, Elsewhere, FrontRemove(s))
  BY DEF RemoveFront
<1>2. Listed(s, FrontRemove(s), RemovedFront)
  BY TunnelFrontRemoveGoes, SslhFrontRemoveGoes, ProxiesFrontRemoveGoes DEF Tunnels, RemovedFront
<1> QED  BY <1>1, <1>2, FrontRemoved

\* An extra port's.
LEMMA BeginsExtraRemove ==
  ASSUME IInv, Pick("remove", {}, Elsewhere, ExtraRemove)
  PROVE  IInv'
<1> DEFINE N == RemovedExtra
<1>1. /\ op = Resting /\ "extra" \in Services
      /\ Begin("remove", {}, Elsewhere, ExtraRemove) /\ UNCHANGED <<trouble, doubt>>
      /\ "extra" \in Claimants /\ "extra" \in Vpns
  BY DEF Pick, Begin, Services, Claimants, Managed, Vpns, Tunnels
<1>2. N \in SUBSET Verbs /\ N # {} /\ "remove" \in Flows /\ {} \in SUBSET Sockets
        /\ Elsewhere \in Targets
  BY DEF Verbs, Flows, Targets, RemovedExtra
<1>3. op'.flow = "remove" /\ op'.new = {} => \A n \in N : Belongs(op', <<n, "extra">>)
  BY <1>1 DEF Belongs, Building, Demolition, Cleanup, Claimants, Vpns, Tunnels, RemovedExtra
<1>4. Ready("extra", N, {})
  <2>1. UnitReady("extra", N)
    BY DEF UnitReady, RemovedExtra
  <2>2. OpenReady("extra", N, {}) /\ ShutReady("extra", N, {}) /\ MasqReady("extra", N)
    BY DEF OpenReady, ShutReady, MasqReady, RemovedExtra
  <2> QED  BY <1>1, <2>1, <2>2 DEF Ready
<1>5. Notes
  BY <1>1, NotesNone
<1>6. N \cap {"accept", "drop"} = {} /\ "wipe" \notin N /\ "follow" \notin N
  BY DEF Verbs, RemovedExtra
<1>7. Listed("extra", ExtraRemove, N)
  BY ExtraRemoveGoes DEF RemovedExtra
<1> HIDE DEF N
<1> QED  BY <1>1, <1>2, <1>3, <1>4, <1>5, <1>6, <1>7, StartsOne

\* squid's and dropbear's.
LEMMA ConfRemoved ==
  ASSUME IInv, NEW s \in {"squid", "dropbear"}, NEW todo, NEW M,
         M \in {RemovedService, RemovedService \cup {"forget"}},
         Listed(s, todo, M), Pick("remove", {}, Elsewhere, todo)
  PROVE  IInv'
<1> DEFINE N == M
<1>1. /\ op = Resting /\ s \in Services
      /\ Begin("remove", {}, Elsewhere, todo) /\ UNCHANGED <<trouble, doubt>>
      /\ s \notin Claimants /\ s \notin Vpns /\ s # "ssh" /\ s # "openvpn"
  BY DEF Pick, Begin, Services, Claimants, Managed, Vpns, Tunnels
<1>2. N \in SUBSET Verbs /\ N # {} /\ "remove" \in Flows /\ {} \in SUBSET Sockets
        /\ Elsewhere \in Targets
  BY DEF Verbs, Flows, Targets, RemovedService
<1>3. op'.flow = "remove" /\ op'.new = {} => \A n \in N : Belongs(op', <<n, s>>)
  BY <1>1 DEF Belongs, Building, Demolition, Cleanup, Claimants, Vpns, Tunnels, RemovedService
<1>4. Ready(s, N, {})
  <2>1. UnitReady(s, N)
    BY <1>1 DEF UnitReady, RemovedService
  <2> QED  BY <1>1, <2>1 DEF Ready
<1>5. Notes
  BY <1>1, NotesNone
<1>6. N \cap {"accept", "drop"} = {} /\ "wipe" \notin N /\ "follow" \notin N
  BY DEF Verbs, RemovedService
<1>7. Listed(s, todo, N)
  BY <1>1
<1> HIDE DEF N
<1> QED  BY <1>1, <1>2, <1>3, <1>4, <1>5, <1>6, <1>7, StartsOne

\* A file changes, and its service restarts.
LEMMA ConfChanged ==
  ASSUME IInv, NEW s \in {"squid", "dropbear", "ssh"}, s \in unit, NEW new \in SUBSET Sockets,
         NEW todo,
         Listed(s, todo, {"save", "restart"}), Pick("change", new, Elsewhere, todo)
  PROVE  IInv'
<1> DEFINE N == {"save", "restart"}
<1>1. /\ op = Resting /\ s \in Services
      /\ Begin("change", new, Elsewhere, todo) /\ UNCHANGED <<trouble, doubt>>
      /\ s \notin Claimants /\ s \notin Vpns /\ s # "openvpn"
  BY DEF Pick, Begin, Services, Claimants, Managed, Vpns, Tunnels
<1>2. N \in SUBSET Verbs /\ N # {} /\ "change" \in Flows /\ new \in SUBSET Sockets
        /\ Elsewhere \in Targets
  BY DEF Verbs, Flows, Targets
<1>3. op'.flow = "change" /\ op'.new = new => \A n \in N : Belongs(op', <<n, s>>)
  BY <1>1 DEF Belongs, Building, Demolition, Cleanup, Claimants, Vpns, Tunnels
<1>4. Ready(s, N, new)
  <2>1. UnitReady(s, N)
    BY <1>1 DEF UnitReady
  <2> QED  BY <1>1, <2>1 DEF Ready
<1>5. Notes
  BY <1>1, NotesNone
<1>6. N \cap {"accept", "drop"} = {} /\ "wipe" \notin N /\ "follow" \notin N
  BY DEF Verbs
<1>7. Listed(s, todo, N)
  BY <1>1
<1> HIDE DEF N
<1> QED  BY <1>1, <1>2, <1>3, <1>4, <1>5, <1>6, <1>7, StartsOne

\* A single step.
LEMMA OneStepped ==
  ASSUME IInv, NEW s \in Services, NEW n \in {"restart", "start", "stop", "enable", "disable"},
         n \in {"restart", "start"} => s \in unit, Pick("change", {}, Elsewhere, On(s, <<n>>))
  PROVE  IInv'
<1> DEFINE N == {n}
<1>1. /\ op = Resting /\ s \in Services
      /\ Begin("change", {}, Elsewhere, On(s, <<n>>)) /\ UNCHANGED <<trouble, doubt>>
  BY DEF Pick, Begin
<1>2. N \in SUBSET Verbs /\ N # {} /\ "change" \in Flows /\ {} \in SUBSET Sockets
        /\ Elsewhere \in Targets
  BY DEF Verbs, Flows, Targets
<1>3. op'.flow = "change" /\ op'.new = {} => \A m \in N : Belongs(op', <<m, s>>)
  BY <1>1 DEF Belongs, Building, Demolition, Cleanup, Claimants, Vpns, Tunnels
<1>4. Ready(s, N, {})
  <2>1. UnitReady(s, N)
    BY <1>1 DEF UnitReady
  <2>2. OpenReady(s, N, {}) /\ ShutReady(s, N, {}) /\ MasqReady(s, N)
    BY DEF OpenReady, ShutReady, MasqReady
  <2> QED  BY <2>1, <2>2 DEF Ready
<1>5. Notes
  BY <1>1, NotesNone
<1>6. N \cap {"accept", "drop"} = {} /\ "wipe" \notin N /\ "follow" \notin N
  BY DEF Verbs
<1>7. Listed(s, On(s, <<n>>), N)
  BY <1>1, OneGoes DEF Verbs, Cleanup
<1> HIDE DEF N
<1> QED  BY <1>1, <1>2, <1>3, <1>4, <1>5, <1>6, <1>7, StartsOne

\* The tunnel's port.
LEMMA BeginsMoveTunnel ==
  ASSUME IInv, NEW k \in Sockets, MoveTunnel(k)
  PROVE  IInv'
<1> DEFINE N == {"save", "unit", "closeLive", "closeLine", "openLive", "openLine", "restart"}
<1>1. /\ op = Resting /\ "ssltunnel" \in Services
      /\ Begin("move", {k}, to["ssltunnel"], TunnelMove) /\ UNCHANGED <<trouble, doubt>>
      /\ "ssltunnel" \in Claimants /\ "ssltunnel" \notin Vpns
  BY DEF MoveTunnel, Pick, Begin, Services, Claimants, Managed, Vpns, Tunnels
<1>2. N \in SUBSET Verbs /\ N # {} /\ "move" \in Flows /\ {k} \in SUBSET Sockets
        /\ to["ssltunnel"] \in Targets
  BY FilesThere DEF Tunnels, Verbs, Flows, Targets
<1>3. op'.flow = "move" /\ op'.new = {k} => \A n \in N : Belongs(op', <<n, "ssltunnel">>)
  BY <1>1 DEF Belongs, Building, Demolition, Cleanup, Claimants, Vpns, Tunnels
<1>4. Ready("ssltunnel", N, {k})
  <2>1. UnitReady("ssltunnel", N)
    BY DEF UnitReady
  <2>2. OpenReady("ssltunnel", N, {k}) /\ ShutReady("ssltunnel", N, {k})
    BY DEF OpenReady, ShutReady
  <2> QED  BY <1>1, <2>1, <2>2 DEF Ready
<1>5. Notes
  BY <1>1, NotesNone
<1>6. N \cap {"accept", "drop"} = {} /\ "wipe" \notin N /\ "follow" \notin N
  BY DEF Verbs
<1>7. Listed("ssltunnel", TunnelMove, N)
  BY TunnelMoveGoes
<1> HIDE DEF N
<1> QED  BY <1>1, <1>2, <1>3, <1>4, <1>5, <1>6, <1>7, StartsOne

\* The tunnel's target.
LEMMA BeginsRetargetTunnel ==
  ASSUME IInv, RetargetTunnel
  PROVE  IInv'
<1> DEFINE N == {"save", "unit", "restart"}
<1>1. /\ op = Resting /\ "ssltunnel" \in Services
      /\ \E t \in VpnTarget \cup {Elsewhere} : Begin("change", file["ssltunnel"], t, TunnelTarget)
      /\ UNCHANGED <<trouble, doubt>>
      /\ "ssltunnel" \in Claimants /\ "ssltunnel" \notin Vpns
  BY DEF RetargetTunnel, Pick, Begin, Services, Claimants, Managed, Vpns, Tunnels
<1>2. N \in SUBSET Verbs /\ N # {} /\ "change" \in Flows /\ file["ssltunnel"] \in SUBSET Sockets
  BY <1>1, FilesThere DEF Verbs, Flows
<1>8. PICK t \in Targets : Begin("change", file["ssltunnel"], t, TunnelTarget)
  BY <1>1, TargetsThere
<1>3. op'.flow = "change" /\ op'.new = file["ssltunnel"]
        => \A n \in N : Belongs(op', <<n, "ssltunnel">>)
  BY <1>1 DEF Belongs, Building, Demolition, Cleanup, Claimants, Vpns, Tunnels
<1>4. Ready("ssltunnel", N, file["ssltunnel"])
  <2>1. UnitReady("ssltunnel", N)
    BY DEF UnitReady
  <2>2. OpenReady("ssltunnel", N, file["ssltunnel"]) /\ ShutReady("ssltunnel", N, file["ssltunnel"])
    BY DEF OpenReady, ShutReady
  <2> QED  BY <1>1, <2>1, <2>2 DEF Ready
<1>5. Notes
  BY <1>1, NotesNone
<1>6. N \cap {"accept", "drop"} = {} /\ "wipe" \notin N /\ "follow" \notin N
  BY DEF Verbs
<1>7. Listed("ssltunnel", TunnelTarget, N)
  BY TunnelTargetGoes
<1> HIDE DEF N
<1> QED  BY <1>1, <1>2, <1>3, <1>4, <1>5, <1>6, <1>7, <1>8, StartsOne

\* The first step is one.
LEMMA HeadIn ==
  ASSUME NEW todo, Goes(todo), todo # <<>>
  PROVE  Head(todo) \in StepsIn(todo)
<1>1. 1 \in 1..Len(todo) /\ Head(todo) = todo[1]
  BY EmptySeq DEF Goes
<1> QED  BY <1>1 DEF StepsIn

\* The names of two lists.
LEMMA NamesBoth ==
  ASSUME NEW A, NEW B, NEW r
  PROVE  NamesAt(A \cup B, r) = NamesAt(A, r) \cup NamesAt(B, r)
BY DEF NamesAt

\* A list with a step is not empty.
LEMMA SomeSteps ==
  ASSUME NEW todo, NEW A, NEW s, NEW N, N # {}, StepsIn(todo) = A \cup Do(s, N)
  PROVE  todo # <<>>
<1>1. PICK n \in N : TRUE
  OBVIOUS
<1>2. <<n, s>> \in StepsIn(todo)
  BY DEF Do
<1> QED  BY <1>2, Nothing

\* The removals' names.
LEMMA RemovedNames ==
  /\ RemovedExtra \subseteq Verbs /\ RemovedService \subseteq Verbs /\ RemovedFront \subseteq Verbs
  /\ CleanedUp \subseteq Verbs /\ RemovedService \cup CleanedUp \subseteq Verbs
  /\ RemovedService # {} /\ RemovedService \cup CleanedUp # {}
BY DEF RemovedExtra, RemovedService, RemovedFront, CleanedUp, Verbs

\* The extra port's.
LEMMA ExtraNames ==
  ASSUME NEW extras \in BOOLEAN, NEW r
  PROVE  NamesAt(ExtraSteps(extras), r) = IF extras /\ r = "extra" THEN RemovedExtra ELSE {}
<1>1. NamesAt(Do("extra", RemovedExtra), r) = IF r = "extra" THEN RemovedExtra ELSE {}
  BY NamesOf, RemovedNames
<1>2. NamesAt({}, r) = {}
  BY DEF NamesAt
<1> QED  BY <1>1, <1>2 DEF ExtraSteps

\* The names at one service belong and are ready.
LEMMA RemovalReady ==
  ASSUME NEW flow \in {"remove", "uninstall"}, op'.flow = flow, op'.new = {}
  PROVE  /\ Ready("extra", RemovedExtra, {}) /\ \A x \in Do("extra", RemovedExtra) : Belongs(op', x)
         /\ Ready("openvpn", RemovedService, {})
              /\ \A x \in Do("openvpn", RemovedService) : Belongs(op', x)
         /\ \A s \in {"squid", "dropbear"} :
              Ready(s, RemovedService, {}) /\ \A x \in Do(s, RemovedService) : Belongs(op', x)
         /\ \A s \in {"ssltunnel", "sslhmux", "proxy"} :
              Ready(s, RemovedFront, {}) /\ \A x \in Do(s, RemovedFront) : Belongs(op', x)
         /\ Ready("openvpn", RemovedService \cup CleanedUp, {})
         /\ \A x \in Do("openvpn", RemovedService \cup CleanedUp) : Belongs(op', x)
<1>1. Ready("extra", RemovedExtra, {})
  BY DEF Ready, UnitReady, OpenReady, ShutReady, MasqReady, RemovedExtra
<1>2. \A n \in RemovedExtra : Belongs(op', <<n, "extra">>)
  BY DEF Belongs, Building, Demolition, Cleanup, Claimants, Vpns, RemovedExtra
<1>3. Ready("openvpn", RemovedService, {})
  BY DEF Ready, UnitReady, OpenReady, ShutReady, MasqReady, RemovedService
<1>4. \A n \in RemovedService, s \in {"openvpn", "squid", "dropbear"} : Belongs(op', <<n, s>>)
  BY DEF Belongs, Building, Demolition, Cleanup, Claimants, Vpns, RemovedService
<1>5. \A s \in {"squid", "dropbear"} : Ready(s, RemovedService, {})
  BY DEF Ready, UnitReady, OpenReady, ShutReady, MasqReady, RemovedService
<1>6. \A s \in {"ssltunnel", "sslhmux", "proxy"} : Ready(s, RemovedFront, {})
  BY DEF Ready, UnitReady, OpenReady, ShutReady, MasqReady, RemovedFront, Vpns
<1>7. \A n \in RemovedFront, s \in {"ssltunnel", "sslhmux", "proxy"} : Belongs(op', <<n, s>>)
  BY DEF Belongs, Building, Demolition, Cleanup, Claimants, Tunnels, Vpns, RemovedFront
<1>8. Ready("openvpn", RemovedService \cup CleanedUp, {})
  BY DEF Ready, UnitReady, OpenReady, ShutReady, MasqReady, RemovedService, CleanedUp
<1>9. \A n \in RemovedService \cup CleanedUp : Belongs(op', <<n, "openvpn">>)
  BY DEF Belongs, Building, Demolition, Cleanup, Claimants, Vpns, RemovedService, CleanedUp
<1> QED  BY <1>1, <1>2, <1>3, <1>4, <1>5, <1>6, <1>7, <1>8, <1>9 DEF Do

\* OpenVPN, with its extra port.
LEMMA BeginsVpnRemove ==
  ASSUME IInv, Pick("remove", {}, Elsewhere, VpnRemove(file["extra"] # {}))
  PROVE  IInv'
<1> DEFINE extras == file["extra"] # {}
           todo == VpnRemove(extras)
           N == RemovedService \cup CleanedUp
           S == ExtraSteps(extras) \cup Do("openvpn", N)
<1>1. /\ Begin("remove", {}, Elsewhere, todo) /\ UNCHANGED <<trouble, doubt>>
      /\ op'.flow = "remove" /\ op'.new = {}
  BY DEF Pick, Begin
<1>2. Goes(todo) /\ StepsIn(todo) = S
  BY VpnRemoveGoes
<1> HIDE DEF todo
<1>3. todo # <<>>
  BY <1>2, SomeSteps, RemovedNames
<1>4. \A x \in S : Belongs(op', x)
  BY <1>1, RemovalReady DEF ExtraSteps
<1>5. Notes
  BY <1>1, NotesNone
<1>6. Starts("remove", {}, Elsewhere, todo)
  BY <1>1, <1>2, <1>3, <1>4, <1>5 DEF Starts, Notes, Flows, Targets
<1>7. \A s : NamesAt(StepsIn(todo), s) = (IF extras /\ s = "extra" THEN RemovedExtra ELSE {})
                                           \cup (IF s = "openvpn" THEN N ELSE {})
  <2> SUFFICES ASSUME NEW s
               PROVE  NamesAt(StepsIn(todo), s) = (IF extras /\ s = "extra" THEN RemovedExtra
                    ELSE {})
                                                    \cup (IF s = "openvpn" THEN N ELSE {})
    OBVIOUS
  <2> DEFINE A == ExtraSteps(extras)
             B == Do("openvpn", N)
  <2>1. NamesAt(StepsIn(todo), s) = NamesAt(A, s) \cup NamesAt(B, s)
    <3>1. StepsIn(todo) = A \cup B
      BY <1>2
    <3> HIDE DEF A, B
    <3> QED  BY <3>1, NamesBoth
  <2>2. NamesAt(ExtraSteps(extras), s) = IF extras /\ s = "extra" THEN RemovedExtra ELSE {}
    BY ExtraNames
  <2>3. NamesAt(Do("openvpn", N), s) = IF s = "openvpn" THEN N ELSE {}
    BY NamesOf, RemovedNames
  <2> QED  BY <2>1, <2>2, <2>3
<1>8. \A s \in Services : Ready(s, NamesAt(StepsIn(todo), s), {})
  <2>1. \A M : M \cup {} = M /\ {} \cup M = M
    OBVIOUS
  <2>2. ASSUME NEW s \in Services
        PROVE NamesAt(StepsIn(todo), s) = {}
             \/ (s = "extra" /\ NamesAt(StepsIn(todo), s) = RemovedExtra)
                 \/ (s = "openvpn" /\ NamesAt(StepsIn(todo), s) = N)
    BY <1>7, <2>1
  <2> QED  BY <2>2, <1>1, RemovalReady, NoNames
<1>9. \A x \in S : x[1] \notin {"save", "follow", "accept", "drop"}
  BY DoParts DEF ExtraSteps, RemovedExtra, RemovedService, CleanedUp
<1>10. WipeReady(StepsIn(todo))
  <2>1. <<"closeConf", "openvpn">> \in S /\ <<"sweepLines", "openvpn">> \in S
    BY DEF Do, CleanedUp
  <2>2. extras => <<"forget", "extra">> \in S
    BY DEF ExtraSteps, Do, RemovedExtra
  <2> QED  BY <1>2, <2>1, <2>2 DEF WipeReady
<1>11. FollowReady(StepsIn(todo), "remove", {})
  <2>1. \A t : <<"follow", t>>[1] = "follow"
    OBVIOUS
  <2>2. \A t : <<"follow", t>> \notin S
    BY <1>9, <2>1
  <2> QED  BY <1>2, <2>2 DEF FollowReady
<1>12. Head(todo)[1] \notin {"accept", "drop"}
  BY <1>2, <1>3, <1>9, HeadIn
<1> QED  BY <1>6, <1>8, <1>10, <1>11, <1>12, Begins

\* Everything.
LEMMA BeginsUninstall ==
  ASSUME IInv, UninstallAll
  PROVE  IInv'
<1> DEFINE extras == file["extra"] # {}
           todo == Uninstall(extras)
           A == ExtraSteps(extras)
           B == Do("openvpn", RemovedService)
           C == Do("squid", RemovedService)
           D == Do("dropbear", RemovedService)
           E == Do("ssltunnel", RemovedFront)
           F == Do("sslhmux", RemovedFront)
           G == Do("proxy", RemovedFront)
           S == A \cup B \cup C \cup D \cup E \cup F \cup G
<1>1. /\ Begin("uninstall", {}, Elsewhere, todo) /\ UNCHANGED <<trouble, doubt>>
      /\ op'.flow = "uninstall" /\ op'.new = {}
  BY DEF UninstallAll, Pick, Begin
<1>2. Goes(todo) /\ StepsIn(todo) = S
  BY UninstallGoes
<1> HIDE DEF todo
<1>3. todo # <<>>
  <2>1. StepsIn(todo) = (A \cup C \cup D \cup E \cup F \cup G) \cup Do("openvpn", RemovedService)
    BY <1>2
  <2> QED  BY <2>1, SomeSteps, RemovedNames
<1>4. \A x \in S : Belongs(op', x)
  BY <1>1, RemovalReady DEF ExtraSteps
<1>5. Notes
  BY <1>1, NotesNone
<1>6. Starts("uninstall", {}, Elsewhere, todo)
  BY <1>1, <1>2, <1>3, <1>4, <1>5 DEF Starts, Notes, Flows, Targets
<1>7. ASSUME NEW s \in Services
      PROVE  \/ NamesAt(StepsIn(todo), s) = {}
             \/ s = "extra" /\ NamesAt(StepsIn(todo), s) = RemovedExtra
             \/ s \in {"openvpn", "squid", "dropbear"} /\ NamesAt(StepsIn(todo), s) = RemovedService
             \/ s \in {"ssltunnel", "sslhmux", "proxy"} /\ NamesAt(StepsIn(todo), s) = RemovedFront
  <2>1. NamesAt(A, s) = IF extras /\ s = "extra" THEN RemovedExtra ELSE {}
    BY ExtraNames
  <2>2. /\ NamesAt(B, s) = IF s = "openvpn" THEN RemovedService ELSE {}
        /\ NamesAt(C, s) = IF s = "squid" THEN RemovedService ELSE {}
        /\ NamesAt(D, s) = IF s = "dropbear" THEN RemovedService ELSE {}
    BY NamesOf, RemovedNames
  <2>3. /\ NamesAt(E, s) = IF s = "ssltunnel" THEN RemovedFront ELSE {}
        /\ NamesAt(F, s) = IF s = "sslhmux" THEN RemovedFront ELSE {}
        /\ NamesAt(G, s) = IF s = "proxy" THEN RemovedFront ELSE {}
    BY NamesOf, RemovedNames
  <2> HIDE DEF A, B, C, D, E, F, G
  <2>4. NamesAt(S, s) = NamesAt(A, s) \cup NamesAt(B, s) \cup NamesAt(C, s) \cup NamesAt(D, s)
                          \cup NamesAt(E, s) \cup NamesAt(F, s) \cup NamesAt(G, s)
    BY DEF NamesAt
  <2> HIDE DEF S
  <2> QED  BY <1>2, <2>1, <2>2, <2>3, <2>4
<1>8. \A s \in Services : Ready(s, NamesAt(StepsIn(todo), s), {})
  BY <1>7, <1>1, RemovalReady, NoNames
<1>9. \A x \in S : x[1] \in RemovedExtra \cup RemovedService \cup RemovedFront
  BY DoParts DEF ExtraSteps
<1>10. \A x \in S : x[1] \notin {"save", "follow", "accept", "drop", "wipe"}
  BY <1>9 DEF RemovedExtra, RemovedService, RemovedFront
<1>11. WipeReady(StepsIn(todo)) /\ FollowReady(StepsIn(todo), "uninstall", {})
  <2>1. \A n, t : <<n, t>>[1] = n
    OBVIOUS
  <2>2. \A t : <<"follow", t>> \notin S /\ <<"wipe", t>> \notin S
    BY <1>10, <2>1
  <2> HIDE DEF S
  <2> QED  BY <1>2, <2>2 DEF FollowReady, WipeReady
<1>12. Head(todo)[1] \notin {"accept", "drop"}
  BY <1>2, <1>3, <1>10, HeadIn
<1> QED  BY <1>6, <1>8, <1>11, <1>12, Begins

\* From the menus.
LEMMA BeginsRemoveService ==
  ASSUME IInv, RemoveService
  PROVE  IInv'
<1>1. CASE Pick("remove", {}, Elsewhere, ExtraRemove)
  BY <1>1, BeginsExtraRemove
<1>2. CASE Pick("remove", {}, Elsewhere, VpnRemove(file["extra"] # {}))
  BY <1>2, BeginsVpnRemove
<1>3. CASE Pick("remove", {}, Elsewhere, SquidRemove)
  <2>1. RemovedService \cup {"forget"} = {"stop", "disable", "dropUnit", "binary", "forget"}
    BY DEF RemovedService
  <2>2. Listed("squid", SquidRemove, RemovedService \cup {"forget"})
    BY <2>1, SquidRemoveGoes
  <2> QED  BY <1>3, <2>2, ConfRemoved
<1>4. CASE Pick("remove", {}, Elsewhere, ServiceRemove("dropbear"))
  <2>1. Listed("dropbear", ServiceRemove("dropbear"), RemovedService)
    BY DropbearServiceRemoveGoes DEF RemovedService
  <2> QED  BY <1>4, <2>1, ConfRemoved
<1> QED  BY <1>1, <1>2, <1>3, <1>4 DEF RemoveService

\* OpenVPN's port moves.
LEMMA VpnMoveReady ==
  ASSUME IInv, NEW k \in Sockets, "openvpn" \in unit, file["openvpn"] # {}, op'.flow = "move",
         op'.new = {k},
         NEW N, MovedVpn \subseteq N, N \subseteq MovedVpn \cup {"await"}
  PROVE  /\ Ready("openvpn", N, {k})
         /\ \A n \in N : Belongs(op', <<n, "openvpn">>)
<1>1. \A n \in N : n \in MovedVpn \cup {"await"}
  OBVIOUS
<1>2. {"save", "closeLive", "closeLine", "openLive", "openLine", "restart"} \subseteq N
  BY DEF MovedVpn
<1>3. \A n \in Demolition \cup {"start", "masq", "masqLine", "netLines", "follow",
        "tryRestart"} : n \notin N
  BY DEF MovedVpn, Demolition, Cleanup
<1>4. Ready("openvpn", N, {k})
  <2>1. UnitReady("openvpn", N)
    BY <1>2, <1>3 DEF UnitReady, Demolition, Cleanup
  <2>2. OpenReady("openvpn", N, {k})
    BY <1>2, <1>3 DEF OpenReady, Demolition, Cleanup
  <2>3. ShutReady("openvpn", N, {k})
    BY <1>2, <1>3 DEF ShutReady, Demolition, Cleanup
  <2>4. MasqReady("openvpn", N)
    BY <1>3 DEF MasqReady, Demolition, Cleanup
  <2> QED  BY <2>1, <2>2, <2>3, <2>4 DEF Ready
<1>5. \A n \in MovedVpn \cup {"await"} : Belongs(op', <<n, "openvpn">>)
  BY DEF Belongs, Demolition, Cleanup, Claimants, Vpns, MovedVpn
<1> QED  BY <1>1, <1>4, <1>5

\* With the tunnels, if they have to follow.
LEMMA BeginsChangeVpnPort ==
  ASSUME IInv, NEW k \in Sockets, ChangeVpnPort(k)
  PROVE  IInv'
<1>1. PICK old \in file["openvpn"] :
        /\ "openvpn" \in unit /\ k[1] = old[1]
        /\ Pick("move", {k}, Elsewhere,
             VpnPort \o (IF k[1] = "tcp" /\ k # old THEN VpnFollowed ELSE <<>>))
  BY DEF ChangeVpnPort
<1>2. file["openvpn"] = {old} /\ old \in Sockets
  BY FilesThere DEF IInv, Typed, Services, Managed
<1>3. /\ "openvpn" \in Services /\ "move" \in Flows /\ {k} \in SUBSET Sockets
           /\ Elsewhere \in Targets
      /\ MovedVpn \in SUBSET Verbs /\ MovedVpn # {} /\ MovedVpn \cup {"await"} \subseteq Verbs
  BY DEF Services, Managed, Flows, Targets, MovedVpn, Verbs
<1>4. CASE ~(k[1] = "tcp" /\ k # old)
  <2>1. VpnPort \in Seq(Steps)
    BY VpnPortGoes DEF Listed, Goes
  <2>2. VpnPort \o <<>> = VpnPort
    BY <2>1, ConcatEmptySeq
  <2>3. Begin("move", {k}, Elsewhere, VpnPort) /\ UNCHANGED <<trouble, doubt>>
    BY <1>1, <1>4, <2>2 DEF Pick
  <2>4. op'.flow = "move" /\ op'.new = {k}
    BY <2>3 DEF Begin
  <2>5. Ready("openvpn", MovedVpn, {k}) /\ \A n \in MovedVpn : Belongs(op', <<n, "openvpn">>)
    BY <1>1, <1>2, <2>4, VpnMoveReady
  <2>6. {k} = file["openvpn"] \/ (VpnTarget = {} /\ {k} \cap ({"tcp"} \X TcpPorts) = {})
    <3>1. CASE k = old
      BY <3>1, <1>2
    <3>2. CASE k[1] # "tcp"
      <4>1. VpnTarget = {}
        BY <3>2, <1>1, <1>2 DEF VpnTarget
      <4>2. {k} \cap ({"tcp"} \X TcpPorts) = {}
        BY <3>2
      <4> QED  BY <4>1, <4>2
    <3> QED  BY <3>1, <3>2, <1>4
  <2>7. MovedVpn \cap {"accept", "drop"} = {} /\ "wipe" \notin MovedVpn /\ "follow" \notin MovedVpn
    BY DEF MovedVpn
  <2>8. Listed("openvpn", VpnPort, MovedVpn)
    BY VpnPortGoes DEF MovedVpn
  <2>9. Notes
    BY <2>3, NotesNone
  <2> QED  BY <1>3, <2>3, <2>5, <2>6, <2>7, <2>8, <2>9, StartsOne
<1>5. CASE k[1] = "tcp" /\ k # old
  <2> DEFINE todo == VpnPort \o VpnFollowed
             N == MovedVpn \cup {"await"}
             A == Do("openvpn", N)
             B == Do("ssltunnel", FollowSet)
             C == Do("proxy", FollowSet)
             S == A \cup B \cup C
  <2>1. /\ Begin("move", {k}, Elsewhere, todo) /\ UNCHANGED <<trouble, doubt>>
        /\ op'.flow = "move" /\ op'.new = {k}
    BY <1>1, <1>5 DEF Pick, Begin
  <2>2. Goes(todo) /\ StepsIn(todo) = S
    BY VpnPortFollowedGoes
  <2> HIDE DEF todo
  <2>3. todo # <<>>
    <3>1. StepsIn(todo) = (B \cup C) \cup Do("openvpn", N)
      BY <2>2
    <3>2. N # {}
      BY <1>3
    <3> HIDE DEF N
    <3> QED  BY <3>1, <3>2, SomeSteps
  <2>4. Ready("openvpn", N, {k}) /\ \A n \in N : Belongs(op', <<n, "openvpn">>)
    BY <1>1, <1>2, <2>1, VpnMoveReady
  <2>5. \A t \in Tunnels : Ready(t, FollowSet, {k})
    BY DEF Ready, UnitReady, OpenReady, ShutReady, MasqReady, FollowSet
  <2>6. \A t \in Tunnels, n \in FollowSet : Belongs(op', <<n, t>>)
    <3>1. {k} \subseteq {"tcp"} \X TcpPorts
      BY <1>5 DEF Sockets
    <3> QED  BY <2>1, <3>1 DEF Belongs, Demolition, Cleanup, Tunnels, Vpns, FollowSet
  <2>7. \A x \in S : Belongs(op', x)
    BY <2>4, <2>6 DEF Do, Tunnels
  <2>8. Notes
    BY <2>1, NotesNone
  <2>9. Starts("move", {k}, Elsewhere, todo)
    BY <1>3, <2>1, <2>2, <2>3, <2>7, <2>8 DEF Starts, Notes
  <2>10. ASSUME NEW s \in Services
         PROVE  \/ NamesAt(StepsIn(todo), s) = {}
                \/ s = "openvpn" /\ NamesAt(StepsIn(todo), s) = N
                \/ s \in Tunnels /\ NamesAt(StepsIn(todo), s) = FollowSet
    <3>1. FollowSet \subseteq Verbs
      BY DEF FollowSet, Verbs
    <3>2. /\ NamesAt(A, s) = IF s = "openvpn" THEN N ELSE {}
          /\ NamesAt(B, s) = IF s = "ssltunnel" THEN FollowSet ELSE {}
          /\ NamesAt(C, s) = IF s = "proxy" THEN FollowSet ELSE {}
      BY <1>3, <3>1, NamesOf
    <3> HIDE DEF A, B, C
    <3>3. NamesAt(S, s) = NamesAt(A, s) \cup NamesAt(B, s) \cup NamesAt(C, s)
      BY DEF NamesAt
    <3> HIDE DEF S
    <3> QED  BY <2>2, <3>2, <3>3 DEF Tunnels
  <2>11. \A s \in Services : Ready(s, NamesAt(StepsIn(todo), s), {k})
    BY <2>10, <2>4, <2>5, NoNames
  <2>12. \A x \in S : x[1] \notin {"accept", "drop", "wipe"}
    BY DoParts DEF MovedVpn, FollowSet
  <2>13. WipeReady(StepsIn(todo))
    <3>1. <<"wipe", "openvpn">> \notin S
      BY <2>12
    <3> QED  BY <2>2, <3>1 DEF WipeReady
  <2>14. FollowReady(StepsIn(todo), "move", {k})
    <3>1. <<"save", "openvpn">> \in S /\ \A t \in Tunnels : <<"follow", t>> \in S
      BY DEF Do, MovedVpn, FollowSet, Tunnels
    <3>2. "save" \in Verbs
      BY DEF Verbs
    <3> QED  BY <2>2, <3>1, <3>2 DEF FollowReady
  <2>15. Head(todo)[1] \notin {"accept", "drop"}
    BY <2>2, <2>3, <2>12, HeadIn
  <2> QED  BY <2>9, <2>11, <2>13, <2>14, <2>15, Begins
<1> QED  BY <1>4, <1>5

\* squid's and dropbear's port.
LEMMA BeginsChangeConfPort ==
  ASSUME IInv, NEW k \in Sockets, ChangeConfPort(k)
  PROVE  IInv'
<1>1. CASE "squid" \in unit /\ k[1] = "tcp" /\ Pick("change", {k}, Elsewhere, ConfChange("squid"))
  BY <1>1, PopThere, SquidConfChangeGoes, ConfChanged
<1>2. CASE "dropbear" \in unit /\ k[1] = "tcp"
             /\ Pick("change", {k, <<"tcp", PopPort>>}, Elsewhere, ConfChange("dropbear"))
  BY <1>2, PopThere, DropbearConfChangeGoes, ConfChanged
<1> QED  BY <1>1, <1>2 DEF ChangeConfPort

\* squid's and sshd's ports.
LEMMA BeginsChangePorts ==
  ASSUME IInv, NEW k \in Sockets, ChangePorts(k)
  PROVE  IInv'
<1>1. PICK s \in {"squid", "ssh"}, new \in SUBSET Sockets :
        s \in unit /\ Pick("change", new, Elsewhere, ConfChange(s))
  <2>1. /\ file["squid"] \subseteq Sockets /\ file["ssh"] \subseteq Sockets /\ "ssh" \in unit
        /\ <<"tcp", SshPort>> \in Sockets
    BY FilesThere, ParametersOK DEF Services, Managed, Sockets
  <2>2. Listen("ssh") \subseteq Sockets
    BY <2>1 DEF Listen
  <2>3. CASE "squid" \in unit /\ Pick("change", file["squid"] \cup {k}, Elsewhere,
          ConfChange("squid"))
    BY <2>1, <2>3
  <2>4. CASE "squid" \in unit /\ Pick("change", file["squid"] \ {k}, Elsewhere, ConfChange("squid"))
    BY <2>1, <2>4
  <2>5. CASE Pick("change", Listen("ssh") \cup {k}, Elsewhere, ConfChange("ssh"))
    BY <2>1, <2>2, <2>5
  <2>6. CASE Pick("change", file["ssh"] \ {k}, Elsewhere, ConfChange("ssh"))
    BY <2>1, <2>6
  <2> QED  BY <2>3, <2>4, <2>5, <2>6 DEF ChangePorts
<1>2. Listed(s, ConfChange(s), {"save", "restart"})
  BY SquidConfChangeGoes, SshConfChangeGoes
<1> QED  BY <1>1, <1>2, ConfChanged

\* Restart, start, stop, enable, disable.
LEMMA BeginsControl ==
  ASSUME IInv, Control
  PROVE  IInv'
<1>1. unit \subseteq Services
  BY FilesThere
<1>2. CASE \E s \in unit : Pick("change", {}, Elsewhere, On(s, <<"restart">>))
  BY <1>1, <1>2, OneStepped
<1>3. CASE \E s \in Managed \cap unit, verb \in {"start", "stop", "enable", "disable"} :
             Pick("change", {}, Elsewhere, On(s, <<verb>>))
  BY <1>1, <1>3, OneStepped
<1> QED  BY <1>2, <1>3 DEF Control

\* Every operation keeps the invariant when it begins.
LEMMA BeginsOperation ==
  ASSUME IInv, Operation
  PROVE  IInv'
<1>1. ASSUME NEW k \in Sockets,
             \/ InstallFront(k) \/ InstallService(k) \/ AddExtra(k) \/ AddProxy(k)
             \/ ChangeVpnPort(k) \/ ChangeConfPort(k) \/ MoveTunnel(k) \/ ChangePorts(k)
      PROVE  IInv'
  BY <1>1, BeginsInstallFront, BeginsInstallService, BeginsAddExtra, BeginsAddProxy,
       BeginsChangeVpnPort, BeginsChangeConfPort, BeginsMoveTunnel, BeginsChangePorts
<1>2. ASSUME RemoveFront \/ RemoveProxy \/ RemoveService \/ UninstallAll \/ RetargetTunnel
             \/ Control
      PROVE  IInv'
  BY <1>2, BeginsRemoveFront, BeginsRemoveProxy, BeginsRemoveService, BeginsUninstall,
       BeginsRetargetTunnel, BeginsControl
<1> QED  BY <1>1, <1>2 DEF Operation

-----------------------------------------------------------------------------
(* The steps, one by one.                                                   *)

\* The parts of the invariant.
LEMMA Sure ==
  ASSUME IInv
  PROVE  /\ Typed /\ PlanOK /\ UnitsOK /\ Follows /\ Open /\ Accounted /\ Shut /\ Wiping /\ Masqs
              /\ ChainOK
         /\ OpTyped(op) /\ file \in [Services -> SUBSET Sockets] /\ egress \in Egresses
BY TypedBy DEF IInv, FilesTyped, RestTyped

\* A file is written.
LEMMA NextSave ==
  ASSUME IInv, NEW s \in Services, Save(s)
  PROVE  IInv'
<1>1. /\ Typed /\ PlanOK /\ UnitsOK /\ Follows /\ Open /\ Accounted /\ Shut /\ Wiping /\ Masqs
           /\ ChainOK
      /\ OpTyped(op)
  BY Sure
<1>2. At("save", s) /\ Proceed /\ UNCHANGED <<trouble, egress, fwd, fwdLines>>
  BY DEF Save, Files, rules
<1>3. Typed' /\ UnitsOK' /\ Follows' /\ Open' /\ Accounted' /\ Shut' /\ Masqs'
  BY <1>1, TypedSave, UnitsSave, FollowsSave, OpenSave, AccountedSave, ShutSave, MasqsSave
<1>4. PlanOK'
  BY <1>1, <1>2, Proceeds
<1>5. Wiping'
  BY <1>1, <1>2, WipingBuilds DEF Building
<1>6. ChainOK'
  BY <1>1, <1>2, ChainKeeps
<1> QED  BY <1>3, <1>4, <1>5, <1>6 DEF IInv

\* A file is removed.
LEMMA NextForget ==
  ASSUME IInv, NEW s \in Services, Forget(s)
  PROVE  IInv'
<1>1. /\ Typed /\ PlanOK /\ UnitsOK /\ Follows /\ Open /\ Accounted /\ Shut /\ Wiping /\ Masqs
           /\ ChainOK
      /\ OpTyped(op)
  BY Sure
<1>2. At("forget", s) /\ Proceed /\ UNCHANGED <<trouble, egress, fwd, fwdLines>>
  BY DEF Forget, Files, rules
<1>3. Typed' /\ UnitsOK' /\ Follows' /\ Open' /\ Accounted' /\ Shut' /\ Wiping' /\ Masqs'
  BY <1>1, TypedForget, UnitsForget, FollowsForget, OpenForget, AccountedForget, ShutForget,
       WipingForget, MasqsForget
<1>4. PlanOK'
  BY <1>1, <1>2, Proceeds
<1>5. ChainOK'
  BY <1>1, <1>2, ChainKeeps
<1> QED  BY <1>3, <1>4, <1>5 DEF IInv

\* OpenVPN's directory is removed.
LEMMA NextWipe ==
  ASSUME IInv, Wipe
  PROVE  IInv'
<1>1. /\ Typed /\ PlanOK /\ UnitsOK /\ Follows /\ Open /\ Accounted /\ Shut /\ Wiping /\ Masqs
           /\ ChainOK
      /\ OpTyped(op)
  BY Sure
<1>2. At("wipe", "openvpn") /\ Proceed /\ UNCHANGED <<trouble, egress, fwd, fwdLines>>
  BY DEF Wipe, Files, rules
<1>3. Typed' /\ UnitsOK' /\ Follows' /\ Open' /\ Accounted' /\ Shut' /\ Wiping' /\ Masqs'
  BY <1>1, TypedWipe, UnitsWipe, FollowsWipe, OpenWipe, AccountedWipe, ShutWipe, WipingWipe,
       MasqsWipe
<1>4. PlanOK'
  BY <1>1, <1>2, Proceeds
<1>5. ChainOK'
  BY <1>1, <1>2, ChainKeeps
<1> QED  BY <1>3, <1>4, <1>5 DEF IInv

\* A tunnel is pointed at OpenVPN's new port.
LEMMA NextFollow ==
  ASSUME IInv, NEW t \in Tunnels, Follow(t)
  PROVE  IInv'
<1>1. /\ Typed /\ PlanOK /\ UnitsOK /\ Follows /\ Open /\ Accounted /\ Shut /\ Wiping /\ Masqs
           /\ ChainOK
      /\ OpTyped(op) /\ file \in [Services -> SUBSET Sockets]
  BY Sure
<1>2. Typed' /\ UnitsOK' /\ Follows' /\ ChainOK'
  BY <1>1, TypedFollow, UnitsFollow, FollowsFollow, ChainFollow
<1>3. /\ At("follow", t) /\ file' = file /\ live' = live /\ lines' = lines
           /\ UNCHANGED <<trouble, doubt>>
      /\ Proceed \/ op' = Then(Tail(Tail(op.todo)))
  BY DEF Follow, Files, rules
<1>4. \E N \in {{"follow"}, {"follow", "tryRestart"}} :
        PlanOK' /\ Shrinks(N) /\ \A x \in Left : x \in Left' \/ x[1] \in N
  <2>1. CASE Proceed
    <3>1. PlanOK' /\ Shrinks({"follow"}) /\ Left = Left' \cup {<<"follow", t>>}
      BY <1>1, <1>3, <2>1, Proceeds, Advances
    <3>2. \A x \in Left : x \in Left' \/ x[1] \in {"follow"}
      BY <3>1
    <3> QED  BY <3>1, <3>2
  <2>2. CASE op' = Then(Tail(Tail(op.todo)))
    <3>1. /\ PlanOK' /\ Shrinks({"follow", "tryRestart"})
          /\ \A x \in Left : x \in Left' \/ x = <<"follow", t>> \/ x = <<"tryRestart", t>>
      BY <1>1, <1>3, <2>2, FollowSkips
    <3>2. \A x \in Left : x \in Left' \/ x[1] \in {"follow", "tryRestart"}
      BY <3>1
    <3> QED  BY <3>1, <3>2
  <2> QED  BY <1>3, <2>1, <2>2
<1>5. PICK N : /\ N \in {{"follow"}, {"follow", "tryRestart"}}
               /\ PlanOK' /\ Shrinks(N) /\ \A x \in Left : x \in Left' \/ x[1] \in N
  BY <1>4
<1>6. N \cap {"openLive", "openLine", "netLines", "forget", "wipe", "save", "closeLive",
        "closeLine", "closeConf",
              "sweepLines", "masq", "masqLine", "unmasq", "unmasqLine", "dropLines"} = {}
  BY <1>5
<1>7. Open'
  BY <1>1, <1>3, <1>5, <1>6, OpenFrame
<1>8. Accounted'
  BY <1>1, <1>3, <1>5, <1>6, AccountedFrame
<1>9. Shut'
  BY <1>1, <1>3, <1>5, <1>6, ShutFrame
<1>10. Wiping'
  BY <1>1, <1>3, <1>5, <1>6, WipingFrame
<1>11. Masqs'
  <2>1. N \cap {"masq", "masqLine", "netLines", "save", "unmasq", "unmasqLine", "dropLines",
          "forget", "wipe"} = {}
    BY <1>6
  <2> QED  BY <1>1, <1>3, <1>5, <2>1, MasqsFrame
<1> QED  BY <1>2, <1>5, <1>7, <1>8, <1>9, <1>10, <1>11 DEF IInv

\* A step that touches units and processes only.
LEMMA UnitStep ==
  ASSUME IInv, NEW n, NEW s, At(n, s), Proceed, Units, Typed', UnitsOK',
         n \in {"unit", "dropUnit", "enable", "disable", "start", "stop", "restart", "tryRestart",
              "binary", "await"}
  PROVE  IInv'
<1>1. /\ Typed /\ PlanOK /\ UnitsOK /\ Follows /\ Open /\ Accounted /\ Shut /\ Wiping /\ Masqs
           /\ ChainOK
      /\ OpTyped(op) /\ file \in [Services -> SUBSET Sockets]
  BY Sure
<1>2. /\ file' = file /\ to' = to /\ meant' = meant /\ live' = live /\ lines' = lines /\ fwd' = fwd
      /\ fwdLines' = fwdLines /\ egress' = egress /\ UNCHANGED <<trouble, doubt>>
           /\ trouble' = trouble
  BY DEF Units, rules
<1>3. /\ PlanOK' /\ Shrinks({n}) /\ Left = Left' \cup {<<n, s>>}
  BY <1>1, <1>2, Proceeds, Advances
<1>4. \A x \in Left : x \in Left' \/ x[1] \in {n}
  BY <1>3
<1>5. {n} \cap {"openLive", "openLine", "netLines", "forget", "wipe", "save", "closeLive",
        "closeLine", "closeConf",
                "sweepLines", "masq", "masqLine", "unmasq", "unmasqLine", "dropLines",
                     "follow"} = {}
  OBVIOUS
<1>6. Follows'
  BY <1>1, <1>2, <1>3, <1>5, FollowsFrame
<1>7. Open'
  BY <1>1, <1>2, <1>3, <1>5, OpenFrame
<1>8. Accounted'
  BY <1>1, <1>2, <1>3, <1>5, AccountedFrame
<1>9. Shut'
  BY <1>1, <1>2, <1>3, <1>5, ShutFrame
<1>10. Wiping'
  BY <1>1, <1>2, <1>3, <1>4, <1>5, WipingFrame
<1>11. Masqs'
  <2>1. {n} \cap {"masq", "masqLine", "netLines", "save", "unmasq", "unmasqLine", "dropLines",
          "forget", "wipe"} = {}
    BY <1>5
  <2> QED  BY <1>1, <1>2, <1>3, <2>1, MasqsFrame
<1>12. ChainOK'
  BY <1>1, <1>2, ChainKeeps
<1> QED  BY <1>3, <1>6, <1>7, <1>8, <1>9, <1>10, <1>11, <1>12 DEF IInv

\* Its guards say nothing of processes.
LEMMA UnitsIdle ==
  ASSUME IInv, NEW n, NEW s, At(n, s), Proceed,
         UNCHANGED <<trouble, doubt, file, to, unit, due, proc, procTo>>,
         n \notin {"restart", "tryRestart", "stop", "unit"}
  PROVE  UnitsOK'
<1>1. Shrinks({n}) /\ UnitsOK
  BY Sure, Advances
<1>2. {n} \cap {"restart", "tryRestart", "stop", "unit"} = {}
  OBVIOUS
<1> QED  BY <1>1, <1>2, UnitsFrame

\* The steps at units and processes.
LEMMA NextUnits ==
  ASSUME IInv, NEW s \in Services,
         \/ WriteUnit(s) \/ RemoveUnit(s) \/ Enable(s) \/ Disable(s)
         \/ Start(s) \/ Stop(s) \/ Restart(s) \/ RemoveBinary(s)
  PROVE  IInv'
<1>0. Typed /\ PlanOK /\ UnitsOK
  BY Sure
<1>1. CASE WriteUnit(s)
  BY <1>0, <1>1, TypedUnit, UnitsWriteUnit, UnitStep DEF WriteUnit
<1>2. CASE RemoveUnit(s)
  BY <1>0, <1>2, TypedUnit, UnitsRemoveUnit, UnitStep DEF RemoveUnit
<1>3. CASE Enable(s)
  <2>1. Typed'
    BY <1>0, <1>3, TypedUnit
  <2>2. At("enable", s) /\ Proceed /\ Units
          /\ UNCHANGED <<trouble, doubt, file, to, unit, due, proc, procTo>>
    BY <1>3 DEF Enable, Units
  <2> QED  BY <2>1, <2>2, UnitsIdle, UnitStep
<1>4. CASE Disable(s)
  <2>1. Typed'
    BY <1>0, <1>4, TypedUnit
  <2>2. At("disable", s) /\ Proceed /\ Units
          /\ UNCHANGED <<trouble, doubt, file, to, unit, due, proc, procTo>>
    BY <1>4 DEF Disable, Units
  <2> QED  BY <2>1, <2>2, UnitsIdle, UnitStep
<1>5. CASE Start(s)
  BY <1>0, <1>5, TypedProcess, UnitsStart, UnitStep DEF Start
<1>6. CASE Stop(s)
  BY <1>0, <1>6, TypedProcess, UnitsStop, UnitStep DEF Stop
<1>7. CASE Restart(s)
  <2>1. Typed' /\ UnitsOK'
    BY <1>0, <1>7, TypedProcess, UnitsRestart
  <2>2. (At("restart", s) \/ At("tryRestart", s)) /\ Proceed /\ Units
    BY <1>7 DEF Restart
  <2> QED  BY <2>1, <2>2, UnitStep
<1>8. CASE RemoveBinary(s)
  <2>1. Typed'
    BY <1>0, <1>8, TypedProcess
  <2>2. At("binary", s) /\ Proceed /\ Units
          /\ UNCHANGED <<trouble, doubt, file, to, unit, due, proc, procTo>>
    BY <1>8 DEF RemoveBinary, Units, services
  <2> QED  BY <2>1, <2>2, UnitsIdle, UnitStep
<1> QED  BY <1>1, <1>2, <1>3, <1>4, <1>5, <1>6, <1>7, <1>8

\* OpenVPN is waited for.
LEMMA NextAwait ==
  ASSUME IInv, Await
  PROVE  IInv'
<1>1. Typed'
  BY Sure, TypedAwait
<1>2. At("await", "openvpn") /\ Proceed /\ Units
        /\ UNCHANGED <<trouble, doubt, file, to, unit, due, proc, procTo>>
  BY DEF Await, Units, services
<1> QED  BY <1>1, <1>2, UnitsIdle, UnitStep

\* A step that touches firewall rules only.
LEMMA NetStep ==
  ASSUME IInv, NEW n, NEW s, At(n, s), Proceed, Nets,
         n \notin {"restart", "tryRestart", "stop", "unit", "follow", "save"},
         Typed', Open', Accounted', Shut', Wiping', Masqs', ChainOK'
  PROVE  IInv'
<1>1. Typed /\ PlanOK /\ UnitsOK /\ Follows /\ OpTyped(op)
  BY Sure
<1>2. /\ file' = file /\ to' = to /\ meant' = meant /\ UNCHANGED <<trouble, doubt>>
      /\ UNCHANGED <<trouble, doubt, file, to, unit, due, proc, procTo>>
  BY DEF Nets, services
<1>3. PlanOK' /\ Shrinks({n})
  BY <1>1, <1>2, Proceeds, Advances
<1>4. UnitsOK'
  BY <1>2, UnitsIdle
<1>5. {n} \cap {"follow", "save"} = {}
  OBVIOUS
<1>6. Follows'
  BY <1>1, <1>2, <1>3, <1>5, FollowsFrame
<1> QED  BY <1>3, <1>4, <1>6 DEF IInv

\* One that leaves the sockets' rules alone, or takes some away.
LEMMA RulesStep ==
  ASSUME IInv, NEW n, NEW s, At(n, s), Proceed, Nets,
         n \notin {"openLive", "openLine", "netLines", "save", "forget", "wipe", "closeLive",
              "closeLine",
                  "closeConf", "sweepLines"},
         live' \cap Sockets \subseteq live, lines' \cap Sockets \subseteq lines
  PROVE  /\ Accounted' /\ Shut' /\ Wiping'
         /\ live \cap Sockets \subseteq live' /\ lines \cap Sockets \subseteq lines' => Open'
<1>1. /\ Typed /\ PlanOK /\ Open /\ Accounted /\ Shut /\ Wiping /\ OpTyped(op)
      /\ file \in [Services -> SUBSET Sockets]
  BY Sure
<1>2. file' = file /\ UNCHANGED <<trouble, doubt>>
  BY DEF Nets
<1>3. Shrinks({n}) /\ Left = Left' \cup {<<n, s>>}
  BY <1>1, <1>2, Proceeds, Advances
<1>4. \A x \in Left : x \in Left' \/ x[1] \in {n}
  BY <1>3
<1>5. /\ {n} \cap {"save", "closeLive", "closeLine"} = {}
      /\ {n} \cap {"closeConf", "sweepLines", "forget"} = {}
      /\ {n} \cap {"openLive", "openLine", "netLines", "forget", "wipe", "save"} = {}
  OBVIOUS
<1>6. Accounted'
  BY <1>1, <1>2, <1>3, <1>5, AccountedFrame
<1>7. Shut'
  BY <1>1, <1>2, <1>3, <1>5, ShutFrame
<1>8. Wiping'
  BY <1>1, <1>2, <1>3, <1>4, <1>5, WipingFrame
<1>9. live \cap Sockets \subseteq live' /\ lines \cap Sockets \subseteq lines' => Open'
  BY <1>1, <1>2, <1>3, <1>5, OpenFrame
<1> QED  BY <1>6, <1>7, <1>8, <1>9

\* One that leaves the masquerading rules alone.
LEMMA MasqsIdle ==
  ASSUME IInv, NEW n, NEW s, At(n, s), Proceed, Nets,
         n \notin {"masq", "masqLine", "netLines", "save", "unmasq", "unmasqLine", "dropLines",
              "forget", "wipe"},
         NEW A, NEW B, A \subseteq Sockets \cup {Mail}, B \subseteq Sockets \cup {Mail},
         live' \in {live, live \cup A, live \ A}, lines' \in {lines, lines \cup B, lines \ B}
  PROVE  Masqs'
<1>1. /\ Typed /\ PlanOK /\ Masqs /\ OpTyped(op)
  BY Sure
<1>2. file' = file /\ UNCHANGED <<trouble, doubt>>
  BY DEF Nets
<1>3. Shrinks({n})
  BY <1>1, <1>2, Advances
<1>4. {n} \cap {"masq", "masqLine", "netLines", "save", "unmasq", "unmasqLine", "dropLines",
        "forget", "wipe"} = {}
  OBVIOUS
<1>5. \A v \in Vpns : Masq(v) \notin Sockets \cup {Mail}
  BY NotSockets DEF Masq, Mail
<1>6. \A v \in Vpns : (Masq(v) \in live' <=> Masq(v) \in live)
        /\ (Masq(v) \in lines' <=> Masq(v) \in lines)
  BY <1>5
<1> QED  BY <1>1, <1>2, <1>3, <1>4, <1>6, MasqsFrame

\* One that leaves the chain alone.
LEMMA ChainIdle ==
  ASSUME IInv, NEW n, NEW s, At(n, s), Proceed, Nets, n \notin {"reply", "accept", "drop"},
         UNCHANGED <<fwd, fwdLines>>
  PROVE  ChainOK'
<1>1. Typed /\ PlanOK /\ ChainOK /\ OpTyped(op)
  BY Sure
<1>2. UNCHANGED <<trouble, egress>> /\ fwd' \in {fwd, <<>>} /\ fwdLines' = fwdLines
  BY DEF Nets
<1> QED  BY <1>1, <1>2, ChainKeeps

\* The sockets of a step are sockets.
LEMMA OpSockets ==
  ASSUME IInv, NEW s, s \in DOMAIN op.was
  PROVE  op.new \subseteq Sockets /\ op.was[s] \subseteq Sockets
BY Sure, OpParts

\* A rule is made.
LEMMA NextOpenLive ==
  ASSUME IInv, NEW s \in Services, OpenLive(s)
  PROVE  IInv'
<1>1. /\ Typed /\ PlanOK /\ Open /\ Accounted /\ Shut /\ Wiping /\ OpTyped(op)
  BY Sure
<1>2. /\ At("openLive", s) /\ Proceed /\ Nets /\ live' = live \cup op.new /\ lines' = lines
           /\ UNCHANGED <<fwd, fwdLines>>
      /\ UNCHANGED <<trouble, doubt>>
  BY DEF OpenLive, Nets
<1>3. op.new \subseteq Sockets /\ LetGo(s) \subseteq Sockets
  BY <1>1, <1>2, Proceeds, OpSockets DEF LetGo
<1>4. Typed' /\ Open' /\ Accounted' /\ Shut'
  BY <1>1, TypedOpens, OpenOpenLive, AccountedOpenLive, ShutOpenLive
<1>5. Wiping'
  BY <1>1, <1>2, WipingBuilds DEF Building
<1>6. Masqs'
  <2>1. LetGo(s) \subseteq Sockets \cup {Mail} /\ op.new \subseteq Sockets \cup {Mail}
    BY <1>3
  <2> QED  BY <1>2, <2>1, MasqsIdle
<1>7. ChainOK'
  BY <1>2, ChainIdle
<1> QED  BY <1>2, <1>4, <1>5, <1>6, <1>7, NetStep

\* A line is written.
LEMMA NextOpenLine ==
  ASSUME IInv, NEW s \in Services, OpenLine(s)
  PROVE  IInv'
<1>1. /\ Typed /\ PlanOK /\ Open /\ Accounted /\ Shut /\ Wiping /\ OpTyped(op)
  BY Sure
<1>2. /\ At("openLine", s) /\ Proceed /\ Nets /\ lines' = lines \cup op.new /\ live' = live
           /\ UNCHANGED <<fwd, fwdLines>>
      /\ UNCHANGED <<trouble, doubt>>
  BY DEF OpenLine, Nets
<1>3. op.new \subseteq Sockets /\ LetGo(s) \subseteq Sockets
  BY <1>1, <1>2, Proceeds, OpSockets DEF LetGo
<1>4. Typed' /\ Open' /\ Accounted' /\ Shut'
  BY <1>1, TypedOpens, OpenOpenLine, AccountedOpenLine, ShutOpenLine
<1>5. Wiping'
  BY <1>1, <1>2, WipingBuilds DEF Building
<1>6. Masqs'
  <2>1. LetGo(s) \subseteq Sockets \cup {Mail} /\ op.new \subseteq Sockets \cup {Mail}
    BY <1>3
  <2> QED  BY <1>2, <2>1, MasqsIdle
<1>7. ChainOK'
  BY <1>2, ChainIdle
<1> QED  BY <1>2, <1>4, <1>5, <1>6, <1>7, NetStep

\* A rule is deleted.
LEMMA NextCloseLive ==
  ASSUME IInv, NEW s \in Services, CloseLive(s)
  PROVE  IInv'
<1>1. /\ Typed /\ PlanOK /\ Open /\ Accounted /\ Shut /\ Wiping /\ OpTyped(op)
  BY Sure
<1>2. /\ At("closeLive", s) /\ Proceed /\ Nets /\ live' = live \ LetGo(s) /\ lines' = lines
           /\ UNCHANGED <<fwd, fwdLines>>
      /\ UNCHANGED <<trouble, doubt>>
  BY DEF CloseLive, Nets
<1>3. op.new \subseteq Sockets /\ LetGo(s) \subseteq Sockets
  BY <1>1, <1>2, Proceeds, OpSockets DEF LetGo
<1>4. Typed' /\ Open' /\ Accounted' /\ Shut'
  BY <1>1, TypedOpens, OpenCloseLive, AccountedCloseLive, ShutCloseLive
<1>5. Wiping'
  <2>1. Shrinks({"closeLive"}) /\ Left = Left' \cup {<<"closeLive", s>>}
    BY <1>1, <1>2, Proceeds, Advances
  <2>2. \A x \in Left : x \in Left' \/ x[1] \in {"closeLive"}
    BY <2>1
  <2>3. {"closeLive"} \cap {"closeConf", "sweepLines", "forget"} = {} /\ file' = file
    BY <1>2 DEF Nets
  <2>4. live' \cap Sockets \subseteq live /\ lines' \cap Sockets \subseteq lines
    BY <1>2
  <2> QED  BY <1>1, <1>2, <2>1, <2>2, <2>3, <2>4, WipingFrame
<1>6. Masqs'
  <2>1. LetGo(s) \subseteq Sockets \cup {Mail} /\ op.new \subseteq Sockets \cup {Mail}
    BY <1>3
  <2> QED  BY <1>2, <2>1, MasqsIdle
<1>7. ChainOK'
  BY <1>2, ChainIdle
<1> QED  BY <1>2, <1>4, <1>5, <1>6, <1>7, NetStep

\* A line is deleted.
LEMMA NextCloseLine ==
  ASSUME IInv, NEW s \in Services, CloseLine(s)
  PROVE  IInv'
<1>1. /\ Typed /\ PlanOK /\ Open /\ Accounted /\ Shut /\ Wiping /\ OpTyped(op)
  BY Sure
<1>2. /\ At("closeLine", s) /\ Proceed /\ Nets /\ lines' = lines \ LetGo(s) /\ live' = live
           /\ UNCHANGED <<fwd, fwdLines>>
      /\ UNCHANGED <<trouble, doubt>>
  BY DEF CloseLine, Nets
<1>3. op.new \subseteq Sockets /\ LetGo(s) \subseteq Sockets
  BY <1>1, <1>2, Proceeds, OpSockets DEF LetGo
<1>4. Typed' /\ Open' /\ Accounted' /\ Shut'
  BY <1>1, TypedOpens, OpenCloseLine, AccountedCloseLine, ShutCloseLine
<1>5. Wiping'
  <2>1. Shrinks({"closeLine"}) /\ Left = Left' \cup {<<"closeLine", s>>}
    BY <1>1, <1>2, Proceeds, Advances
  <2>2. \A x \in Left : x \in Left' \/ x[1] \in {"closeLine"}
    BY <2>1
  <2>3. {"closeLine"} \cap {"closeConf", "sweepLines", "forget"} = {} /\ file' = file
    BY <1>2 DEF Nets
  <2>4. live' \cap Sockets \subseteq live /\ lines' \cap Sockets \subseteq lines
    BY <1>2
  <2> QED  BY <1>1, <1>2, <2>1, <2>2, <2>3, <2>4, WipingFrame
<1>6. Masqs'
  <2>1. LetGo(s) \subseteq Sockets \cup {Mail} /\ op.new \subseteq Sockets \cup {Mail}
    BY <1>3
  <2> QED  BY <1>2, <2>1, MasqsIdle
<1>7. ChainOK'
  BY <1>2, ChainIdle
<1> QED  BY <1>2, <1>4, <1>5, <1>6, <1>7, NetStep

\* EnsureMasquerade and DeleteMasquerade.
LEMMA NextMasquerade ==
  ASSUME IInv, NEW v \in Vpns, Masquerade(v) \/ Unmasquerade(v)
  PROVE  IInv'
<1>1. /\ Typed /\ PlanOK /\ Masqs
  BY Sure
<1>2. Typed' /\ Masqs'
  BY <1>1, TypedRules, MasqsMasquerade
<1>3. PICK n \in {"masq", "masqLine", "unmasq", "unmasqLine"} :
        /\ At(n, v) /\ Proceed /\ Nets /\ UNCHANGED <<fwd, fwdLines>>
        /\ live' \in {live, live \cup {Masq(v)}, live \ {Masq(v)}}
        /\ lines' \in {lines, lines \cup {Masq(v)}, lines \ {Masq(v)}}
  BY DEF Masquerade, Unmasquerade
<1>4. Masq(v) \notin Sockets
  BY NotSockets
<1>5. /\ live' \cap Sockets \subseteq live /\ live \cap Sockets \subseteq live'
      /\ lines' \cap Sockets \subseteq lines /\ lines \cap Sockets \subseteq lines'
  BY <1>3, <1>4
<1>6. Accounted' /\ Shut' /\ Wiping' /\ Open'
  BY <1>3, <1>5, RulesStep
<1>7. ChainOK'
  BY <1>3, ChainIdle
<1> QED  BY <1>2, <1>3, <1>6, <1>7, NetStep

\* The mail rules.
LEMMA NextMailRules ==
  ASSUME IInv, MailRules
  PROVE  IInv'
<1>1. /\ Typed /\ PlanOK
  BY Sure
<1>2. Typed'
  BY <1>1, TypedRules
<1>3. PICK n \in {"mail", "unmail"} :
        /\ At(n, "openvpn") /\ Proceed /\ Nets /\ UNCHANGED <<fwd, fwdLines>>
        /\ live' \in {live, live \cup {Mail}, live \ {Mail}} /\ lines' = lines
  BY DEF MailRules
<1>4. /\ live' \cap Sockets \subseteq live /\ live \cap Sockets \subseteq live'
      /\ lines' \cap Sockets \subseteq lines /\ lines \cap Sockets \subseteq lines'
  BY <1>3, NotSockets
<1>5. Accounted' /\ Shut' /\ Wiping' /\ Open'
  BY <1>3, <1>4, RulesStep
<1>6. Masqs'
  <2>1. {Mail} \subseteq Sockets \cup {Mail}
    OBVIOUS
  <2> QED  BY <1>3, <2>1, MasqsIdle
<1>7. ChainOK'
  BY <1>3, ChainIdle
<1> QED  BY <1>2, <1>3, <1>5, <1>6, <1>7, NetStep

\* The chain, and the lines of an extra port.
LEMMA NextChain ==
  ASSUME IInv, (\E v \in Vpns : ApplyForward(v)) \/ Unforward \/ ForwardLines
  PROVE  IInv'
<1>1. Typed /\ PlanOK /\ ChainOK
  BY Sure
<1>2. Typed' /\ ChainOK'
  BY <1>1, TypedApplyForward, TypedLines, ChainApplyForward, ChainLines
<1>0. PICK n \in {"reply", "accept", "drop", "unforward", "forwardLines"} :
        \E s : At(n, s) /\ Proceed /\ Nets /\ live' = live /\ lines' = lines
  BY DEF ApplyForward, Unforward, ForwardLines
<1>3. PICK s : At(n, s) /\ Proceed /\ Nets /\ live' = live /\ lines' = lines
  BY <1>0
<1>4. Accounted' /\ Shut' /\ Wiping' /\ Open'
  BY <1>3, RulesStep
<1>5. Masqs'
  <2>1. {} \subseteq Sockets \cup {Mail}
    OBVIOUS
  <2> QED  BY <1>3, <2>1, MasqsIdle
<1> QED  BY <1>2, <1>3, <1>4, <1>5, NetStep

\* setupNetworking writes its lines.
LEMMA NextNetLines ==
  ASSUME IInv, NetLines
  PROVE  IInv'
<1>1. /\ Typed /\ PlanOK /\ Open /\ Accounted /\ Shut /\ Masqs /\ ChainOK /\ OpTyped(op)
  BY Sure
<1>2. At("netLines", "openvpn") /\ Proceed /\ Nets
  BY DEF NetLines
<1>3. Typed' /\ Open' /\ Accounted' /\ Shut' /\ Masqs' /\ ChainOK'
  BY <1>1, TypedLines, OpenNetLines, AccountedNetLines, ShutNetLines, MasqsNetLines, ChainLines
<1>4. Wiping'
  BY <1>1, <1>2, WipingBuilds DEF Building
<1> QED  BY <1>2, <1>3, <1>4, NetStep

\* cleanupOpenVPN removes them.
LEMMA NextDropLines ==
  ASSUME IInv, DropLines
  PROVE  IInv'
<1>1. /\ Typed /\ PlanOK /\ Masqs /\ ChainOK
  BY Sure
<1>2. Typed' /\ Masqs' /\ ChainOK'
  BY <1>1, TypedLines, MasqsDropLines, ChainLines
<1>3. /\ At("dropLines", "openvpn") /\ Proceed /\ Nets /\ live' = live
      /\ lines' = lines \ {Masq("openvpn"), Mail}
  BY DEF DropLines
<1>4. lines' \cap Sockets \subseteq lines /\ lines \cap Sockets \subseteq lines'
  BY <1>3, NotSockets DEF Vpns
<1>5. Accounted' /\ Shut' /\ Wiping' /\ Open'
  BY <1>3, <1>4, RulesStep
<1> QED  BY <1>2, <1>3, <1>5, NetStep

\* It closes the port in server.conf.
LEMMA NextCloseConf ==
  ASSUME IInv, CloseConf
  PROVE  IInv'
<1>1. /\ Typed /\ PlanOK /\ Open /\ Accounted /\ Shut /\ Wiping /\ OpTyped(op)
      /\ file \in [Services -> SUBSET Sockets]
  BY Sure
<1>2. /\ At("closeConf", "openvpn") /\ Proceed /\ Nets /\ UNCHANGED <<fwd, fwdLines>>
           /\ lines' = lines
      /\ live' = live \ (file["openvpn"] \ HeldByOther("openvpn"))
      /\ UNCHANGED <<trouble, doubt>> /\ file' = file
  BY DEF CloseConf, Nets
<1>3. Typed' /\ Open' /\ Wiping'
  BY <1>1, TypedRules, OpenCloseConf, WipingCloseConf
<1>4. Shrinks({"closeConf"}) /\ {"closeConf"} \cap {"save", "closeLive", "closeLine"} = {}
  BY <1>1, <1>2, Advances
<1>5. Accounted' /\ Shut'
  BY <1>1, <1>2, <1>4, AccountedFrame, ShutFrame
<1>6. Masqs'
  <2>1. file["openvpn"] \ HeldByOther("openvpn") \subseteq Sockets \cup {Mail}
    BY <1>1 DEF Services, Managed
  <2> QED  BY <1>2, <2>1, MasqsIdle
<1>7. ChainOK'
  BY <1>2, ChainIdle
<1> QED  BY <1>2, <1>3, <1>5, <1>6, <1>7, NetStep

\* It closes what rc.local opens.
LEMMA NextSweep ==
  ASSUME IInv, SweepLive \/ SweepLines
  PROVE  IInv'
<1>1. /\ Typed /\ PlanOK /\ Open /\ Accounted /\ Shut /\ Wiping /\ OpTyped(op)
      /\ file \in [Services -> SUBSET Sockets]
  BY Sure
<1>2. Swept \subseteq Sockets /\ Swept \subseteq Sockets \cup {Mail}
  BY DEF Swept
<1>3. CASE SweepLive
  <2>1. /\ At("sweepLive", "openvpn") /\ Proceed /\ Nets /\ UNCHANGED <<fwd, fwdLines>>
             /\ lines' = lines
        /\ live' = live \ Swept
    BY <1>3 DEF SweepLive
  <2>2. Typed' /\ Open'
    BY <1>1, <1>3, TypedRules, OpenSweepLive
  <2>3. Accounted' /\ Shut' /\ Wiping'
    BY <2>1, RulesStep
  <2>4. Masqs'
    BY <1>2, <2>1, MasqsIdle
  <2>5. ChainOK'
    BY <2>1, ChainIdle
  <2> QED  BY <2>1, <2>2, <2>3, <2>4, <2>5, NetStep
<1>4. CASE SweepLines
  <2>1. /\ At("sweepLines", "openvpn") /\ Proceed /\ Nets /\ UNCHANGED <<fwd, fwdLines>>
             /\ live' = live
        /\ lines' = lines \ Swept /\ UNCHANGED <<trouble, doubt>> /\ file' = file
    BY <1>4 DEF SweepLines, Nets
  <2>2. Typed' /\ Open' /\ Wiping'
    BY <1>1, <1>4, TypedRules, OpenSweepLines, WipingSweepLines
  <2>3. Shrinks({"sweepLines"}) /\ {"sweepLines"} \cap {"save", "closeLive", "closeLine"} = {}
    BY <1>1, <2>1, Advances
  <2>4. Accounted' /\ Shut'
    BY <1>1, <2>1, <2>3, AccountedFrame, ShutFrame
  <2>5. Masqs'
    BY <1>2, <2>1, MasqsIdle
  <2>6. ChainOK'
    BY <2>1, ChainIdle
  <2> QED  BY <2>1, <2>2, <2>4, <2>5, <2>6, NetStep
<1> QED  BY <1>3, <1>4

\* A step that leaves everything as it was, and something undone.
LEMMA FailsKeep ==
  ASSUME IInv, Fails, UNCHANGED <<file, to, unit, due, proc, procTo, live, lines, fwd, fwdLines,
         egress, meant>>, Typed'
  PROVE  IInv'
<1>1. /\ Typed /\ PlanOK /\ UnitsOK /\ Follows /\ Open /\ Accounted /\ Shut /\ Wiping /\ Masqs
           /\ ChainOK
      /\ OpTyped(op) /\ file \in [Services -> SUBSET Sockets] /\ egress \in Egresses
  BY Sure
<1>2. Shrinks({}) /\ PlanOK'
  BY FailsShrinks DEF Fails
<1>3. UnitsOK' /\ Follows'
  BY <1>1, <1>2, UnitsFrame, FollowsFrame
<1>4. Open'
  BY <1>1, <1>2, OpenFrame
<1>5. Accounted' /\ Shut'
  BY <1>1, <1>2, AccountedFrame, ShutFrame
<1>6. Wiping'
  BY <1>1, WipingFails
<1>7. Masqs'
  BY <1>1, <1>2, MasqsFrame
<1>8. ChainOK'
  BY <1>1, ChainFails
<1> QED  BY <1>2, <1>3, <1>4, <1>5, <1>6, <1>7, <1>8 DEF IInv

\* A failed step, a crash, or OpenVPN not coming up.
LEMMA NextStops ==
  ASSUME IInv, StepFails \/ Crash \/ AwaitTimeout
  PROVE  IInv'
<1>1. Typed /\ PlanOK /\ OpTyped(op)
  BY Sure
<1>2. Typed'
  BY <1>1, TypedStops
<1>3. UNCHANGED <<file, to, unit, due, proc, procTo, live, lines, fwd, fwdLines, egress, meant>>
  BY DEF StepFails, Crash, AwaitTimeout, services, rules
<1>4. Fails
  <2>1. CASE StepFails
    BY <1>1, <2>1, StepsOver
  <2>2. CASE Crash \/ AwaitTimeout
    BY <1>1, <2>2, Rests DEF Crash, AwaitTimeout
  <2> QED  BY <2>1, <2>2
<1> QED  BY <1>2, <1>3, <1>4, FailsKeep

\* The machine reboots.
LEMMA NextReboot ==
  ASSUME IInv, Reboot
  PROVE  IInv'
<1>1. /\ Typed /\ PlanOK /\ UnitsOK /\ Follows /\ Open /\ Accounted /\ Shut /\ Wiping /\ Masqs
           /\ ChainOK
      /\ OpTyped(op) /\ egress \in Egresses
  BY Sure
<1>2. Fails /\ Left' = {}
  BY <1>1, Rests DEF Reboot
<1>3. Shrinks({}) /\ PlanOK'
  BY <1>2, FailsShrinks DEF Fails
<1>4. Typed' /\ UnitsOK' /\ Open' /\ Accounted' /\ Masqs'
  BY <1>1, TypedReboot, UnitsReboot, OpenReboot, AccountedReboot, MasqsReboot
<1>5. Follows'
  BY <1>1, <1>3, FollowsFrame DEF Reboot
<1>6. Shut' /\ Wiping'
  BY <1>2, NothingLeft
<1>7. ChainOK'
  BY <1>1, <1>2, ChainFails DEF Reboot
<1> QED  BY <1>3, <1>4, <1>5, <1>6, <1>7 DEF IInv

\* The operation waits.
LEMMA SameOperation ==
  ASSUME op' = op, trouble \subseteq trouble', doubt \subseteq doubt'
  PROVE  Shrinks({}) /\ Left' = Left /\ (PlanOK => PlanOK')
<1>1. Left' = Left
  BY DEF Left
<1>2. Shrinks({})
  BY <1>1 DEF Shrinks
<1> QED  BY <1>1, <1>2 DEF PlanOK, Fits

\* A service comes up, or does not.
LEMMA NextComes ==
  ASSUME IInv, NEW s \in Services, Comes(s) \/ GivesUp(s)
  PROVE  IInv'
<1>1. /\ Typed /\ PlanOK /\ UnitsOK /\ Follows /\ Open /\ Accounted /\ Shut /\ Wiping /\ Masqs
           /\ ChainOK
      /\ OpTyped(op) /\ file \in [Services -> SUBSET Sockets]
  BY Sure
<1>2. /\ op' = op /\ file' = file /\ to' = to /\ meant' = meant /\ live' = live /\ lines' = lines
      /\ UNCHANGED <<trouble, doubt>> /\ UNCHANGED <<fwd, fwdLines, egress>>
  BY DEF Comes, GivesUp, rules
<1>3. Shrinks({}) /\ PlanOK' /\ Left' = Left
  BY <1>1, <1>2, SameOperation
<1>4. Typed' /\ UnitsOK'
  BY <1>1, TypedComes, UnitsComes, UnitsGivesUp
<1>5. Follows'
  BY <1>1, <1>2, <1>3, FollowsFrame
<1>6. Open'
  BY <1>1, <1>2, <1>3, OpenFrame
<1>7. Accounted' /\ Shut'
  BY <1>1, <1>2, <1>3, AccountedFrame, ShutFrame
<1>8. Wiping'
  BY <1>1, <1>2, <1>3, WipingFrame
<1>9. Masqs'
  BY <1>1, <1>2, <1>3, MasqsFrame
<1>10. ChainOK'
  BY <1>1, <1>2 DEF ChainOK, Now, Forward
<1> QED  BY <1>3, <1>4, <1>5, <1>6, <1>7, <1>8, <1>9, <1>10 DEF IInv

\* The egress moves.
LEMMA NextMoves ==
  ASSUME IInv, MoveEgress
  PROVE  IInv'
<1>1. /\ Typed /\ PlanOK /\ UnitsOK /\ Follows /\ Open /\ Accounted /\ Shut /\ Wiping /\ Masqs
           /\ ChainOK
      /\ OpTyped(op) /\ file \in [Services -> SUBSET Sockets]
  BY Sure
<1>2. /\ op' = op /\ file' = file /\ to' = to /\ meant' = meant /\ live' = live /\ lines' = lines
      /\ UNCHANGED <<file, to, unit, due, proc, procTo>>
      /\ trouble \subseteq trouble' /\ doubt \subseteq doubt'
  BY DEF MoveEgress, rules, services
<1>3. Shrinks({}) /\ PlanOK' /\ Left' = Left
  BY <1>1, <1>2, SameOperation
<1>4. Left = {}
  BY RestingOK DEF MoveEgress, Left
<1>5. Typed' /\ ChainOK'
  BY <1>1, TypedMoves, ChainMoves
<1>6. UnitsOK' /\ Follows'
  BY <1>1, <1>2, <1>3, UnitsFrame, FollowsFrame
<1>7. Open'
  BY <1>1, <1>2, <1>3, OpenFrame
<1>8. Accounted'
  BY <1>1, <1>2, <1>3, AccountedFrame
<1>9. Shut' /\ Wiping'
  BY <1>3, <1>4, NothingLeft
<1>10. Masqs'
  BY <1>1, <1>2, <1>3, MasqsFrame
<1> QED  BY <1>3, <1>5, <1>6, <1>7, <1>8, <1>9, <1>10 DEF IInv

\* Nothing happens.
LEMMA NextStutter ==
  ASSUME IInv, UNCHANGED vars
  PROVE  IInv'
<1>1. /\ Typed /\ PlanOK /\ UnitsOK /\ Follows /\ Open /\ Accounted /\ Shut /\ Wiping /\ Masqs
           /\ ChainOK
      /\ OpTyped(op) /\ file \in [Services -> SUBSET Sockets]
  BY Sure
<1>2. /\ op' = op /\ file' = file /\ to' = to /\ meant' = meant /\ live' = live /\ lines' = lines
      /\ UNCHANGED <<file, to, unit, due, proc, procTo>>
      /\ UNCHANGED <<trouble, doubt>> /\ UNCHANGED <<fwd, fwdLines, egress>>
           /\ UNCHANGED <<boot, spent>>
  BY DEF vars
<1>3. Shrinks({}) /\ PlanOK' /\ Left' = Left
  BY <1>1, <1>2, SameOperation
<1>4. Typed'
  BY <1>1, <1>2 DEF Typed, TypeOK, Left, NoTwice
<1>5. UnitsOK' /\ Follows'
  BY <1>1, <1>2, <1>3, UnitsFrame, FollowsFrame
<1>6. Open'
  BY <1>1, <1>2, <1>3, OpenFrame
<1>7. Accounted' /\ Shut'
  BY <1>1, <1>2, <1>3, AccountedFrame, ShutFrame
<1>8. Wiping'
  BY <1>1, <1>2, <1>3, WipingFrame
<1>9. Masqs'
  BY <1>1, <1>2, <1>3, MasqsFrame
<1>10. ChainOK'
  BY <1>1, <1>2 DEF ChainOK, Now, Forward
<1> QED  BY <1>3, <1>4, <1>5, <1>6, <1>7, <1>8, <1>9, <1>10 DEF IInv

\* Every step keeps the invariant.
LEMMA NextStep ==
  ASSUME IInv, Step
  PROVE  IInv'
<1>1. ASSUME NEW s \in Services,
             \/ Save(s) \/ Forget(s) \/ WriteUnit(s) \/ RemoveUnit(s) \/ Enable(s) \/ Disable(s)
             \/ Start(s) \/ Stop(s) \/ Restart(s) \/ RemoveBinary(s)
             \/ OpenLive(s) \/ OpenLine(s) \/ CloseLive(s) \/ CloseLine(s)
      PROVE  IInv'
  BY <1>1, NextSave, NextForget, NextUnits, NextOpenLive, NextOpenLine, NextCloseLive, NextCloseLine
<1>2. ASSUME \/ \E t \in Tunnels : Follow(t)
             \/ \E v \in Vpns : Masquerade(v) \/ Unmasquerade(v) \/ ApplyForward(v)
      PROVE  IInv'
  BY <1>2, NextFollow, NextMasquerade, NextChain
<1>3. ASSUME \/ Wipe \/ MailRules \/ Unforward \/ ForwardLines \/ NetLines
             \/ CloseConf \/ SweepLive \/ SweepLines \/ DropLines \/ Await \/ AwaitTimeout
                  \/ StepFails
      PROVE  IInv'
  BY <1>3, NextWipe, NextMailRules, NextChain, NextNetLines, NextCloseConf, NextSweep,
       NextDropLines, NextAwait, NextStops
<1> QED  BY <1>1, <1>2, <1>3 DEF Step

\* So does what happens meanwhile.
LEMMA NextWorld ==
  ASSUME IInv, World
  PROVE  IInv'
BY NextComes, NextStops, NextReboot, NextMoves DEF World

-----------------------------------------------------------------------------
(* The initial states.                                                      *)

\* rc.local's list of a complete chain.
LEMMA Backwards ==
  ASSUME NEW e PROVE Reverse(Forward(e)) = <<"reply", e, "drop">>
<1> DEFINE f == <<"drop", e, "reply">>
           g == <<"reply", e, "drop">>
<1>1. Len(f) = 3 /\ f[1] = "drop" /\ f[2] = e /\ f[3] = "reply"
      /\ Len(g) = 3 /\ g[1] = "reply" /\ g[2] = e /\ g[3] = "drop" /\ g = [i \in 1..3 |-> g[i]]
  OBVIOUS
<1>2. \A i \in 1..3 : g[i] = f[(3 - i) + 1]
  <2>1. \A i \in 1..3 : i = 1 \/ i = 2 \/ i = 3  OBVIOUS
  <2>2. (3 - 1) + 1 = 3 /\ (3 - 2) + 1 = 2 /\ (3 - 3) + 1 = 1  OBVIOUS
  <2> HIDE DEF f, g
  <2> QED  BY <1>1, <2>1, <2>2
<1>3. Reverse(f) = [i \in 1..3 |-> f[(3 - i) + 1]]
  BY <1>1 DEF Reverse
<1> HIDE DEF f, g
<1>4. [i \in 1..3 |-> f[(3 - i) + 1]] = [i \in 1..3 |-> g[i]]
  BY <1>2
<1>5. Reverse(f) = g
  BY <1>1, <1>3, <1>4
<1> QED  BY <1>5 DEF f, g, Forward

\* A complete chain.
LEMMA ForwardOnce ==
  ASSUME egress \in Egresses PROVE ListOK(Forward(egress))
<1>0. "drop" \in Specs /\ "reply" \in Specs /\ egress \in Specs /\ egress # "drop"
        /\ egress # "reply"
  BY SpecsOf
<1> DEFINE f == <<"drop", egress, "reply">>
<1>1. f \in Seq(Specs) /\ Len(f) = 3 /\ f[1] = "drop" /\ f[2] = egress /\ f[3] = "reply"
  BY <1>0
<1>2. \A i \in 1..3 : i = 1 \/ i = 2 \/ i = 3  OBVIOUS
<1>3. "drop" # "reply"  OBVIOUS
<1> HIDE DEF f
<1>4. NoTwice(f)
  BY <1>0, <1>1, <1>2, <1>3 DEF NoTwice
<1> QED  BY <1>1, <1>4 DEF f, Forward, ListOK

\* The initial states, part by part.
LEMMA AtInit ==
  ASSUME Init
  PROVE  \E inst \in SUBSET (Services \ {"ssh"}) :
           /\ file \in [Services -> SUBSET Sockets]
           /\ \A s \in Services : file[s] # {} <=> s \in inst
           /\ \A k, l \in file["openvpn"] : k = l
           /\ to \in [Tunnels -> VpnTarget \cup {Elsewhere}]
           /\ meant = {t \in Tunnels : to[t] # Elsewhere}
           /\ procTo = to
           /\ unit = inst \cup {"ssh"} /\ boot = unit /\ due = {}
           /\ proc \in [Services -> SUBSET Sockets]
           /\ \A s \in Services : proc[s] \in {{}, Listen(s)} /\ (s \notin unit => proc[s] = {})
           /\ egress \in Egresses
           /\ live = Claimed \cup {Masq(v) : v \in Vpns \cap inst}
                          \cup {m \in {Mail} : "openvpn" \in inst}
           /\ lines = live
           /\ fwd \in {<<>>, Forward(egress)} /\ fwdLines = Reverse(fwd)
           /\ op = Resting /\ trouble = {} /\ doubt = {} /\ spent = 0
<1>1. PICK inst \in SUBSET (Services \ {"ssh"}) :
        /\ Cardinality(inst) <= MaxInstalled
        /\ "extra" \in inst => "openvpn" \in inst
        /\ \E at \in [inst -> Sockets] :
             /\ \A s \in inst : at[s] \in Usable(s)
             /\ file = [s \in Services |-> IF s \notin inst THEN {}
                          ELSE IF s = "dropbear" THEN {at[s], <<"tcp", PopPort>>} ELSE {at[s]}]
        /\ to \in [Tunnels -> VpnTarget \cup {Elsewhere}]
        /\ \A t \in Tunnels \ inst : to[t] = Elsewhere
        /\ meant = {t \in Tunnels : to[t] # Elsewhere}
        /\ procTo = to
        /\ unit = inst \cup {"ssh"}
        /\ boot = unit
        /\ due = {}
        /\ \E up \in SUBSET unit :
             /\ "ssh" \in up /\ Cardinality(unit \ up) <= 1
             /\ \A r, s \in up : r # s => Listen(r) \cap Listen(s) = {}
             /\ proc = [s \in Services |-> IF s \in up THEN Listen(s) ELSE {}]
        /\ egress \in Egresses
        /\ live = Claimed \cup {Masq(v) : v \in Vpns \cap inst}
                       \cup {m \in {Mail} : "openvpn" \in inst}
        /\ lines = live
        /\ fwd = IF "openvpn" \in inst THEN Forward(egress) ELSE <<>>
        /\ fwdLines = Reverse(fwd)
        /\ op = Resting
        /\ trouble = {}
        /\ doubt = {}
        /\ spent = 0
  BY DEF Init
<1>2. PICK at \in [inst -> Sockets] :
        file = [s \in Services |-> IF s \notin inst THEN {}
                  ELSE IF s = "dropbear" THEN {at[s], <<"tcp", PopPort>>} ELSE {at[s]}]
  BY <1>1
<1>3. PICK up \in SUBSET unit : proc = [s \in Services |-> IF s \in up THEN Listen(s) ELSE {}]
  BY <1>1
<1>4. \A n \in TcpPorts : <<"tcp", n>> \in Sockets
  BY DEF Sockets
<1>5. <<"tcp", PopPort>> \in Sockets /\ <<"tcp", SshPort>> \in Sockets
  BY <1>4, ParametersOK
<1>6. /\ file \in [Services -> SUBSET Sockets]
      /\ \A s \in Services : file[s] # {} <=> s \in inst
  BY <1>2, <1>5
<1>7. \A k, l \in file["openvpn"] : k = l
  <2>1. "openvpn" \in Services
    BY DEF Services, Managed
  <2> QED  BY <1>2, <2>1
<1>8. \A s \in Services : Listen(s) \subseteq Sockets
  BY <1>5, <1>6 DEF Listen
<1>9. /\ proc \in [Services -> SUBSET Sockets]
      /\ \A s \in Services : proc[s] \in {{}, Listen(s)} /\ (s \notin unit => proc[s] = {})
  BY <1>3, <1>8
<1>10. fwd \in {<<>>, Forward(egress)}
  BY <1>1
<1>11. WITNESS inst \in SUBSET (Services \ {"ssh"})
<1> QED  BY <1>1, <1>6, <1>7, <1>9, <1>10

\* OpenVPN's TCP port is one.
LEMMA VpnPorts ==
  ASSUME file \in [Services -> SUBSET Sockets]
  PROVE  VpnTarget \subseteq TcpPorts
<1>1. "openvpn" \in Services
  BY DEF Services, Managed
<1>2. \A k \in file["openvpn"] : k \in Sockets
  BY <1>1
<1>3. \A k \in Sockets : k[1] = "tcp" => k[2] \in TcpPorts
  BY DEF Sockets
<1> QED  BY <1>2, <1>3 DEF VpnTarget

\* The invariant holds at the start.
LEMMA InitIInv ==
  ASSUME Init
  PROVE  IInv
<1>1. PICK inst \in SUBSET (Services \ {"ssh"}) :
        /\ file \in [Services -> SUBSET Sockets]
        /\ \A s \in Services : file[s] # {} <=> s \in inst
        /\ \A k, l \in file["openvpn"] : k = l
        /\ to \in [Tunnels -> VpnTarget \cup {Elsewhere}]
        /\ meant = {t \in Tunnels : to[t] # Elsewhere}
        /\ procTo = to
        /\ unit = inst \cup {"ssh"} /\ boot = unit /\ due = {}
        /\ proc \in [Services -> SUBSET Sockets]
        /\ \A s \in Services : proc[s] \in {{}, Listen(s)} /\ (s \notin unit => proc[s] = {})
        /\ egress \in Egresses
        /\ live = Claimed \cup {Masq(v) : v \in Vpns \cap inst}
                       \cup {m \in {Mail} : "openvpn" \in inst}
        /\ lines = live
        /\ fwd \in {<<>>, Forward(egress)} /\ fwdLines = Reverse(fwd)
        /\ op = Resting /\ trouble = {} /\ doubt = {} /\ spent = 0
  BY AtInit
<1>2. OpTyped(op) /\ Fits(op) /\ Left = {} /\ op.todo = <<>>
  BY <1>1, RestingOK DEF Left
<1>3. (\A n, s : ~Has(n, s)) /\ op.flow = "idle" /\ op.new = {}
  BY <1>1, <1>2 DEF Has, Resting
<1>4. Vpns \subseteq Services /\ Claimants \subseteq Services /\ Tunnels \subseteq Services
        /\ "ssh" \in Services
  BY DEF Services, Claimants
<1>5. FilesTyped
  <2>1. to \in [Tunnels -> Targets]
    BY <1>1, VpnPorts DEF Targets
  <2> QED  BY <1>1, <2>1 DEF FilesTyped
<1>6. ServicesTyped
  BY <1>1, <1>4, <1>5 DEF ServicesTyped, FilesTyped
<1>7. \A c \in Claimants : file[c] \subseteq Claimed
  BY DEF Claimed
<1>8. Claimed \subseteq Sockets
  BY <1>1, <1>4 DEF Claimed
<1>9. live \subseteq Rules /\ lines \subseteq Rules
  BY <1>1, <1>8 DEF Rules
<1>10. ListOK(fwd) /\ ListOK(fwdLines)
  <2>1. ListOK(fwd)
    BY <1>1, ForwardOnce, EmptyOnce
  <2> QED  BY <1>1, <2>1, ReversedOnce
<1>11. RestTyped
  BY <1>1, ParametersOK DEF RestTyped
<1>12. Typed /\ PlanOK
  BY <1>1, <1>2, <1>5, <1>6, <1>9, <1>10, <1>11, TypedBy DEF RulesTyped, PlanOK
<1>13. UnitsOK
  <2> SUFFICES ASSUME NEW s \in Services PROVE UnitOK(s)
    BY DEF UnitsOK
  <2>1. s \notin unit => Off(s)
    BY <1>1 DEF Off
  <2>2. Fresh(s)
    BY <1>1 DEF Fresh
  <2> QED  BY <1>3, <2>1, <2>2 DEF UnitOK
<1>14. Follows
  <2>1. \A t \in meant : to[t] \in VpnTarget
    BY <1>1
  <2>2. op.flow # "move"
    BY <1>3
  <2> QED  BY <1>3, <2>1, <2>2 DEF Follows, FollowParts
<1>15. Open
  <2>1. ASSUME NEW s \in Claimants PROVE OpenOK(s)
    <3>1. file[s] \subseteq live /\ file[s] \subseteq lines
      BY <1>1, <1>7
    <3> QED  BY <1>3, <3>1 DEF OpenOK
  <2> QED  BY <2>1 DEF Open
<1>16. Accounted
  <2>1. live \cap Sockets \subseteq Claimed
    BY <1>1, NotSockets
  <2> QED  BY <1>1, <2>1 DEF Accounted
<1>17. Shut
  BY <1>3 DEF Shut, ShutOK, Opens
<1>18. Wiping
  BY <1>3 DEF Wiping
<1>19. Masqs
  <2>1. ASSUME NEW v \in Vpns PROVE MasqOK(v)
    <3>1. file[v] # {} <=> v \in inst
      BY <1>1, <1>4
    <3>2. Masq(v) \in live <=> v \in inst
      <4>1. Masq(v) \notin Claimed /\ Masq(v) # Mail
        BY <1>8, NotSockets DEF Masq, Mail
      <4>2. \A w \in Vpns : Masq(w) = Masq(v) => w = v
        BY DEF Masq
      <4> QED  BY <1>1, <4>1, <4>2
    <3> QED  BY <1>1, <1>3, <3>1, <3>2 DEF MasqOK, Going
  <2> QED  BY <2>1 DEF Masqs
<1>20. ChainOK
  <2>1. fwdLines \in {<<>>, <<"reply", egress, "drop">>}
    BY <1>1, Backwards, Chains, EgressIsNoWord
  <2>2. \A n : ~Now(n)
    BY <1>2 DEF Now
  <2> QED  BY <1>1, <2>1, <2>2 DEF ChainOK
<1> QED  BY <1>12, <1>13, <1>14, <1>15, <1>16, <1>17, <1>18, <1>19, <1>20 DEF IInv

-----------------------------------------------------------------------------
(* The theorems.                                                            *)

\* Whatever happens keeps it.
LEMMA NextIInv ==
  ASSUME IInv, [Next]_vars PROVE IInv'
BY BeginsOperation, NextStep, NextWorld, NextStutter DEF Next

\* IInv holds in every reachable state.
THEOREM Invariance == Spec => []IInv
<1>1. Init => IInv
  BY InitIInv
<1>2. IInv /\ [Next]_vars => IInv'
  BY NextIInv
<1> QED  BY <1>1, <1>2, PTL DEF Spec

\* TypeOK: every variable has its type, and no FORWARD rule or line is there twice.
THEOREM TypeCorrect == Spec => []TypeOK
<1>1. IInv => TypeOK
  BY Sure DEF Typed
<1> QED  BY <1>1, Invariance, PTL

\* Between two operations nothing is left to do.
LEMMA NothingToDo ==
  ASSUME op = Resting
  PROVE  (\A n, s : ~Has(n, s)) /\ (\A n : ~Now(n)) /\ op.new = {}
<1>1. Left = {}
  BY RestingOK DEF Left
<1>2. \A n : ~Now(n)
  BY RestingOK DEF Now
<1> QED  BY <1>1, <1>2 DEF Has, Resting

\* What is to be open is, when nothing is left to do.
LEMMA RestClaims ==
  ASSUME IInv PROVE OpenAsClaimed
<1> SUFFICES ASSUME op = Resting
             PROVE  /\ \A s \in Claimants \ trouble : file[s] \ doubt \subseteq live \cap lines
                    /\ ((live \cup lines) \cap Sockets) \subseteq Claimed \cup doubt
                    /\ \A v \in Vpns \ trouble :
                         IF file[v] # {} THEN Masq(v) \in live \cap lines
                              ELSE Masq(v) \notin live \cup lines
  BY DEF OpenAsClaimed
<1>1. Open /\ Accounted /\ Masqs
  BY Sure
<1>2. (\A n, s : ~Has(n, s)) /\ op.new = {}
  BY NothingToDo
<1>3. ASSUME NEW s \in Claimants \ trouble PROVE file[s] \ doubt \subseteq live \cap lines
  BY <1>1, <1>2 DEF Open, OpenOK, Going
<1>4. (live \cup lines) \cap Sockets \subseteq Claimed \cup doubt
  <2>1. Closing("closeLive") = {} /\ Closing("closeLine") = {} /\ Pending = {}
    BY <1>2 DEF Closing, Pending, Saving
  <2> QED  BY <1>1, <2>1 DEF Accounted
<1>5. ASSUME NEW v \in Vpns \ trouble
      PROVE  IF file[v] # {} THEN Masq(v) \in live \cap lines ELSE Masq(v) \notin live \cup lines
  <2>1. MasqOK(v)
    BY <1>1 DEF Masqs
  <2> QED  BY <1>2, <2>1 DEF MasqOK, Going
<1> QED  BY <1>3, <1>4, <1>5

\* OpenAsClaimed: between two operations, the ports open now and after the next boot
\* are those in the services' configurations, but for what a failed step or a crash
\* has left in doubt; masquerading is there for the OpenVPNs there are.
THEOREM ClaimsKept == Spec => []OpenAsClaimed
<1>1. IInv => OpenAsClaimed
  BY RestClaims
<1> QED  BY <1>1, Invariance, PTL

\* What runs does so as configured, when nothing is left to do.
LEMMA RestConfigured ==
  ASSUME IInv PROVE RunsAsConfigured
<1> SUFFICES ASSUME op = Resting
             PROVE  /\ \A s \in unit \ (trouble \cup due) :
                         /\ proc[s] \subseteq Listen(s)
                         /\ s \in Tunnels /\ proc[s] # {} => procTo[s] = to[s]
                    /\ "openvpn" \notin trouble /\ VpnTarget # {} =>
                         \A t \in meant \ trouble : to[t] \in VpnTarget
  BY DEF RunsAsConfigured
<1>1. Follows /\ unit \subseteq Services
  BY Sure, TypedBy DEF ServicesTyped
<1>2. \A s \in unit \ trouble : Fresh(s)
  BY <1>1, AtRest
<1>3. \A n, s : ~Has(n, s)
  BY NothingToDo
<1>4. "openvpn" \notin trouble => \A t \in meant \ trouble : to[t] \in VpnTarget
  BY <1>1, <1>3 DEF Follows, FollowParts
<1> QED  BY <1>2, <1>4 DEF Fresh

\* RunsAsConfigured: what runs holds the ports, and forwards to the target, that its
\* configuration gives; and a tunnel pointed at OpenVPN has followed its port.
THEOREM Configured == Spec => []RunsAsConfigured
<1>1. IInv => RunsAsConfigured
  BY RestConfigured
<1> QED  BY <1>1, Invariance, PTL

\* The chain is complete or empty, when nothing is left to do.
LEMMA RestBlocked ==
  ASSUME IInv PROVE MailBlocked
<1> SUFFICES ASSUME op = Resting, trouble \cap (Vpns \cup {"egress"}) = {}
             PROVE  Blocks(fwd) /\ Blocks(Reverse(fwdLines))
  BY DEF MailBlocked
<1>1. ChainOK /\ egress \notin {"drop", "reply"}
  BY Sure, EgressIsNoWord
<1>2. \A n : ~Now(n)
  BY NothingToDo
<1>3. fwdLines \in {<<>>, <<"reply", egress, "drop">>} /\ fwd \in {<<>>, Forward(egress)}
  BY <1>1, <1>2 DEF ChainOK
<1>4. Reverse(fwdLines) \in {<<>>, Forward(egress)}
  BY <1>1, <1>3, Chains
<1>5. Blocks(<<>>)
  BY DEF Blocks
<1>6. Blocks(Forward(egress))
  <2> DEFINE f == <<"drop", egress, "reply">>
  <2>1. Len(f) = 3 /\ f[1] = "drop"
    OBVIOUS
  <2>2. \A i \in 1..3 : 1 \in 1..i
    OBVIOUS
  <2> HIDE DEF f
  <2>3. Blocks(f)
    BY <2>1, <2>2 DEF Blocks
  <2> QED  BY <2>3 DEF f, Forward
<1> QED  BY <1>3, <1>4, <1>5, <1>6

\* MailBlocked: the DROP of ForwardSpecs comes before the ACCEPT, in the kernel and
\* in what rc.local makes, as long as the egress has not moved.
THEOREM MailCut == Spec => []MailBlocked
<1>1. IInv => MailBlocked
  BY RestBlocked
<1> QED  BY <1>1, Invariance, PTL

\* No step but c's own takes away what c has open.
Safe ==
  \A c \in Claimants : \A k \in file[c] \cap live \cap lines :
    k \in live' \cap lines' \/ (op.todo # <<>> /\ Head(op.todo)[2] = c)

\* What another claimant has is held by another.
LEMMA HeldThere ==
  ASSUME NEW s, NEW c \in Claimants, c # s
  PROVE  file[c] \subseteq HeldByOther(s)
BY DEF HeldByOther

\* The step that an action takes is its service's.
LEMMA HereIs ==
  ASSUME OpTyped(op), NEW n, NEW s, At(n, s)
  PROVE  op.todo # <<>> /\ Head(op.todo)[2] = s /\ (s \in DOMAIN op.was)
<1>1. op.todo # <<>> /\ Head(op.todo) = <<n, s>>
  BY DEF At
<1>2. Head(op.todo)[2] = s
  BY <1>1
<1>3. op.todo \in Seq(Steps) /\ 1 \in 1..Len(op.todo) /\ Head(op.todo) = op.todo[1]
  BY <1>1, EmptySeq DEF OpTyped, Ops
<1>4. Head(op.todo) \in StepsIn(op.todo)
  BY <1>3 DEF StepsIn
<1> QED  BY <1>1, <1>2, <1>4 DEF OpTyped

\* Nothing is closed.
LEMMA StaysSafe ==
  ASSUME live \subseteq live', lines \subseteq lines' PROVE Safe
BY DEF Safe

\* Nothing of another's is closed.
LEMMA ClosesOwn ==
  ASSUME OpTyped(op), NEW n, NEW s, At(n, s),
         NEW gone, gone \cap HeldByOther(s) = {},
         live \ gone \subseteq live', lines \ gone \subseteq lines'
  PROVE  Safe
<1> SUFFICES ASSUME NEW c \in Claimants, NEW k \in file[c] \cap live \cap lines, c # s
             PROVE  k \in live' \cap lines'
  BY HereIs DEF Safe
<1>1. k \notin gone
  BY HeldThere
<1> QED  BY <1>1

\* ClosePort, MoveInput and RemovePersistedInput spare what others hold.
LEMMA StepSafe ==
  ASSUME IInv, Step PROVE Safe
<1>0. OpTyped(op) /\ file \in [Services -> SUBSET Sockets]
  BY Sure
<1>1. ASSUME NEW s \in Services,
             \/ Save(s) \/ Forget(s) \/ WriteUnit(s) \/ RemoveUnit(s) \/ Enable(s) \/ Disable(s)
             \/ Start(s) \/ Stop(s) \/ Restart(s) \/ RemoveBinary(s)
             \/ OpenLive(s) \/ OpenLine(s)
      PROVE  Safe
  <2>1. live \subseteq live' /\ lines \subseteq lines'
    BY <1>1 DEF Save, Forget, WriteUnit, RemoveUnit, Enable, Disable, Start, Stop, Restart,
         RemoveBinary, OpenLive, OpenLine, Files, Units, rules
  <2> QED  BY <2>1, StaysSafe
<1>2. ASSUME NEW s \in Services, CloseLive(s) \/ CloseLine(s) PROVE Safe
  <2>1. LetGo(s) \cap HeldByOther(s) = {}
    BY DEF LetGo
  <2>2. live \ LetGo(s) \subseteq live' /\ lines \ LetGo(s) \subseteq lines'
    BY <1>2 DEF CloseLive, CloseLine
  <2>3. At("closeLive", s) \/ At("closeLine", s)
    BY <1>2 DEF CloseLive, CloseLine
  <2> QED  BY <1>0, <2>1, <2>2, <2>3, ClosesOwn
<1>3. ASSUME \/ \E t \in Tunnels : Follow(t)
             \/ \E v \in Vpns : ApplyForward(v)
             \/ Wipe \/ Unforward \/ ForwardLines \/ NetLines \/ Await \/ AwaitTimeout \/ StepFails
      PROVE  Safe
  <2>1. live \subseteq live' /\ lines \subseteq lines'
    BY <1>3 DEF Follow, ApplyForward, Wipe, Unforward, ForwardLines, NetLines, Await, AwaitTimeout,
         StepFails, Files, Units, rules
  <2> QED  BY <2>1, StaysSafe
<1>4. \A k \in Sockets : k # Mail /\ \A v \in Vpns : k # Masq(v)
  BY NotSockets
<1>5. \A c \in Claimants : file[c] \subseteq Sockets
  BY <1>0 DEF Services
<1>6. ASSUME NEW gone, gone \subseteq {Mail} \cup {Masq(v) : v \in Vpns},
             live \ gone \subseteq live', lines \ gone \subseteq lines'
      PROVE  Safe
  BY <1>4, <1>5, <1>6 DEF Safe
<1>7. ASSUME NEW v \in Vpns, Masquerade(v) \/ Unmasquerade(v) PROVE Safe
  <2>1. live \ {Masq(v)} \subseteq live' /\ lines \ {Masq(v)} \subseteq lines'
    BY <1>7 DEF Masquerade, Unmasquerade
  <2> QED  BY <1>6, <2>1
<1>8. ASSUME MailRules \/ DropLines PROVE Safe
  <2>1. live \ {Masq("openvpn"), Mail} \subseteq live'
          /\ lines \ {Masq("openvpn"), Mail} \subseteq lines'
    BY <1>8 DEF MailRules, DropLines
  <2>2. "openvpn" \in Vpns
    BY DEF Vpns
  <2> QED  BY <1>6, <2>1, <2>2
<1>9. ASSUME CloseConf \/ SweepLive \/ SweepLines PROVE Safe
  <2> DEFINE gone == (file["openvpn"] \ HeldByOther("openvpn")) \cup Swept
  <2>1. gone \cap HeldByOther("openvpn") = {}
    BY DEF Swept
  <2>2. live \ gone \subseteq live' /\ lines \ gone \subseteq lines'
    BY <1>9 DEF CloseConf, SweepLive, SweepLines
  <2>3. \/ At("closeConf", "openvpn") \/ At("sweepLive", "openvpn") \/ At("sweepLines", "openvpn")
    BY <1>9 DEF CloseConf, SweepLive, SweepLines
  <2> HIDE DEF gone
  <2> QED  BY <1>0, <2>1, <2>2, <2>3, ClosesOwn
<1> QED  BY <1>1, <1>2, <1>3, <1>7, <1>8, <1>9 DEF Step

\* NeverClosesAnothers: no operation, failed step, crash or reboot closes a port that
\* another claimant has in its configuration and open, live and in rc.local.
THEOREM NeverClosed == Spec => NeverClosesAnothers
<1>1. IInv /\ [Next]_vars => [Safe]_vars
  <2> SUFFICES ASSUME IInv, Next PROVE Safe
    OBVIOUS
  <2>1. CASE Operation \/ World
    <3>1. CASE Reboot
      <4>1. live' = lines /\ lines' = lines
        BY <3>1 DEF Reboot
      <4> QED  BY <4>1 DEF Safe
    <3>2. CASE Operation
      <4>1. UNCHANGED rules
        BY <3>2 DEF Operation, InstallFront, InstallService, AddExtra, AddProxy, ChangeVpnPort,
             ChangeConfPort, MoveTunnel, ChangePorts, RemoveFront, RemoveProxy, RemoveService,
             UninstallAll, RetargetTunnel, Control, Pick, Begin
      <4> QED  BY <4>1, StaysSafe DEF rules
    <3>3. CASE (\E s \in Services : Comes(s) \/ GivesUp(s)) \/ Crash \/ MoveEgress
      <4>1. UNCHANGED rules
        BY <3>3 DEF Comes, GivesUp, Crash, MoveEgress
      <4> QED  BY <4>1, StaysSafe DEF rules
    <3> QED  BY <2>1, <3>1, <3>2, <3>3 DEF World
  <2>2. CASE Step
    BY <2>2, StepSafe
  <2> QED  BY <2>1, <2>2 DEF Next
<1>2. [][Safe]_vars => NeverClosesAnothers
  BY PTL DEF NeverClosesAnothers, Safe
<1> QED  BY <1>1, <1>2, Invariance, PTL DEF Spec

=============================================================================
