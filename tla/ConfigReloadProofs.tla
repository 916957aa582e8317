--------------------------- MODULE ConfigReloadProofs ---------------------------
(***************************************************************************)
(* NothingStranded for every set of clients, inbounds and handlers, and    *)
(* for every bound on writes and faults.                                   *)
(***************************************************************************)
EXTENDS ConfigReload, FiniteSetTheorems, TLAPS

-----------------------------------------------------------------------------
(* Types.                                                                  *)

\* There is a file that neither has a name nor is open: os.WriteFile can
\* always create one.
LEMMA FreeInodeExists ==
  ASSUME fd \in [Procs -> Inodes \cup {Gone}], final \in Inodes, tmp = Gone
  PROVE  FreeInode \in Inodes /\ FreeInode # final
<1> DEFINE Open == {fd[p] : p \in Procs}
           Taken == Open \cup {final}
<1>1. fd \in Surjection(Procs, Open)
  BY DEF Surjection
<1>2. IsFiniteSet(Open) /\ Cardinality(Open) <= Cardinality(Procs)
  BY <1>1, FS_Surjection, ParametersOK
<1>3. IsFiniteSet(Taken) /\ Cardinality(Taken) <= Cardinality(Open) + 1
  <2>1. Cardinality(Open) \in Nat
    BY <1>2, FS_CardinalityType
  <2>2. /\ IsFiniteSet(Taken)
        /\ Cardinality(Taken) = IF final \in Open THEN Cardinality(Open)
                                ELSE Cardinality(Open) + 1
    BY <1>2, FS_AddElement
  <2>3. QED
    BY <2>1, <2>2
<1>4. Cardinality(Taken) < Cardinality(Inodes)
  <2>1. /\ Cardinality(Taken) \in Nat /\ Cardinality(Open) \in Nat
        /\ Cardinality(Procs) \in Nat /\ Cardinality(Inodes) \in Nat
    BY <1>2, <1>3, FS_CardinalityType, ParametersOK
  <2>2. QED
    BY <1>2, <1>3, <2>1, ParametersOK
<1>5. ~ (Inodes \subseteq Taken)
  <2>1. /\ Cardinality(Taken) \in Nat /\ Cardinality(Inodes) \in Nat
    BY <1>3, FS_CardinalityType, ParametersOK
  <2>2. QED
    BY <1>3, <1>4, <2>1, FS_Subset
<1>6. PICK i \in Inodes : i \notin Taken
  BY <1>5
<1>7. i # final /\ i # tmp /\ \A p \in Procs : fd[p] # i
  BY <1>6, ParametersOK
<1>8. QED
  BY <1>7 DEF FreeInode

\* What the freed inodes lose leaves contents well typed.
LEMMA SurvivingType ==
  ASSUME NEW d \in [Inodes -> Configs \cup Bad], NEW t, NEW f, NEW o
  PROVE  /\ Surviving(d, t, f, o) \in [Inodes -> Configs \cup Bad]
         /\ \A i \in Inodes : i \in {t, f} => Surviving(d, t, f, o)[i] = d[i]
BY DEF Surviving, Bad

\* The daemon serves a configuration or nothing.
LEMMA StartDaemonType ==
  ASSUME TypeOK, StartDaemon
  PROVE  unit' \in {"active", "failing"} /\ running' \in Configs
         /\ (unit' = "active" => running' = data[final])
BY DEF TypeOK, StartDaemon, Starts, Configs, Nothing

\* The initial state is well typed.
LEMMA TypesAtInit == Init => TypeOK
<1> SUFFICES ASSUME Init PROVE TypeOK
  OBVIOUS
<1>1. Inodes # {}
  BY FS_EmptySet, FS_CardinalityType, ParametersOK
<1>2. final \in Inodes
  BY <1>1 DEF Init
<1>3. Image \in Configs /\ Nothing \in Configs
  BY DEF Init, Image, Configs, Nothing, Routes
<1>4. data \in [Inodes -> Configs \cup Bad]
  BY <1>3 DEF Init, Bad
<1>5. running \in Configs /\ conf \in [Procs -> Configs]
  BY <1>3 DEF Init
<1>6. QED
  BY <1>2, <1>4, <1>5, ParametersOK DEF Init, TypeOK, Routes

\* Every variable keeps its type; config.json and config.json.tmp are never one
\* file.
THEOREM TypeCorrect == Spec => []TypeOK
<1>1. TypeOK /\ [Next]_vars => TypeOK'
  <2> SUFFICES ASSUME TypeOK, [Next]_vars PROVE TypeOK'
    OBVIOUS
  <2> USE DEF Goto, Happens, EventNames, table, files, procs, daemon
  <2>1. ASSUME NEW p \in Handlers, Request(p) PROVE TypeOK'
    <3> p \in Procs
      BY DEF Procs
    <3>1. ASSUME NEW c \in Clients, ToggleClient(p, c) PROVE TypeOK'
      BY <3>1 DEF TypeOK, ToggleClient, Statement, Flip
    <3>2. ASSUME NEW c \in Clients, CreateClient(p, c) PROVE TypeOK'
      <4>1. cond' \in [Clients -> SUBSET Causes]
        BY <3>2 DEF TypeOK, CreateClient, Causes
      <4>2. QED
        BY <3>2, <4>1 DEF TypeOK, CreateClient, Statement
    <3>3. ASSUME NEW c \in Clients, UpdateClient(p, c) PROVE TypeOK'
      BY <3>3 DEF TypeOK, UpdateClient, Statement
    <3>4. ASSUME NEW c \in Clients, DeleteClient(p, c) PROVE TypeOK'
      BY <3>4 DEF TypeOK, DeleteClient, Statement
    <3>5. ASSUME NEW c \in Clients, ExtendClient(p, c) PROVE TypeOK'
      <4>1. cond' \in [Clients -> SUBSET Causes]
        BY <3>5 DEF TypeOK, ExtendClient, Causes
      <4>2. QED
        BY <3>5, <4>1 DEF TypeOK, ExtendClient, Statement
    <3>6. ASSUME NEW c \in Clients, ResetClient(p, c) PROVE TypeOK'
      BY <3>6 DEF TypeOK, ResetClient
    <3>7. ASSUME NEW c \in Clients, BulkReset(p, c) PROVE TypeOK'
      BY <3>7 DEF TypeOK, BulkReset, Statement
    <3>8. ASSUME NEW i \in Inbounds, SwitchInbound(p, i) PROVE TypeOK'
      BY <3>8 DEF TypeOK, SwitchInbound, Statement, Flip
    <3>9. ASSUME NEW i \in Inbounds, DeleteInbound(p, i) PROVE TypeOK'
      <4>1. cond' \in [Clients -> SUBSET Causes]
        BY <3>9 DEF TypeOK, DeleteInbound
      <4>2. QED
        BY <3>9, <4>1 DEF TypeOK, DeleteInbound, Statement
    <3>10. ASSUME NEW r \in Routes, WriteRoute(p, r) PROVE TypeOK'
      BY <3>10 DEF TypeOK, WriteRoute, Statement
    <3>11. ASSUME NEW o \in Outbounds, ProvisionWARP(p, o) PROVE TypeOK'
      BY <3>11 DEF TypeOK, ProvisionWARP, Statement, Routes
    <3>12. QED
      BY <2>1, <3>1, <3>2, <3>3, <3>4, <3>5, <3>6, <3>7, <3>8, <3>9, <3>10, <3>11
         DEF Request, OutboundRequest, RuleRequest, Routes
  <2>2. CASE Sweep
    BY <2>2 DEF TypeOK, Sweep, Banned, Procs
  <2>3. ASSUME NEW p \in Procs, BeginReload(p) PROVE TypeOK'
    BY <2>3 DEF TypeOK, BeginReload, Configs, Nothing
  <2>4. ASSUME NEW p \in Procs, ReadInbound(p) PROVE TypeOK'
    <3>1. conf' \in [Procs -> Configs]
      BY <2>4 DEF TypeOK, ReadInbound, Configs
    <3>2. QED
      BY <2>4, <3>1 DEF TypeOK, ReadInbound
  <2>5. ASSUME NEW p \in Procs, SkipInbound(p) PROVE TypeOK'
    <3>1. conf' \in [Procs -> Configs]
      BY <2>5 DEF TypeOK, SkipInbound, Configs
    <3>2. QED
      BY <2>5, <3>1 DEF TypeOK, SkipInbound
  <2>6. ASSUME NEW p \in Procs, OpenTmp(p) PROVE TypeOK'
    <3>1. tmp' \in Inodes /\ tmp' # final
      BY <2>6, FreeInodeExists DEF TypeOK, OpenTmp
    <3>2. data' \in [Inodes -> Configs \cup Bad]
      BY <2>6 DEF TypeOK, OpenTmp, Bad
    <3>3. QED
      BY <2>6, <3>1, <3>2 DEF TypeOK, OpenTmp
  <2>7. ASSUME NEW p \in Procs, FillTmp(p) PROVE TypeOK'
    <3>1. data' \in [Inodes -> Configs \cup Bad]
      <4>1. PICK d \in Configs \cup Bad :
              data' = Surviving([data EXCEPT ![fd[p]] = d], tmp, final, fd')
        BY <2>7 DEF TypeOK, FillTmp, Bad
      <4>2. [data EXCEPT ![fd[p]] = d] \in [Inodes -> Configs \cup Bad]
        BY DEF TypeOK
      <4>3. QED
        BY <4>1, <4>2, SurvivingType
    <3>2. conf' \in [Procs -> Configs]
      BY <2>7 DEF TypeOK, FillTmp, Configs, Nothing
    <3>3. QED
      BY <2>7, <3>1, <3>2 DEF TypeOK, FillTmp
  <2>8. ASSUME NEW p \in Procs, RenameTmp(p) PROVE TypeOK'
    <3>1. data' \in [Inodes -> Configs \cup Bad]
      BY <2>8, SurvivingType DEF TypeOK, RenameTmp
    <3>2. QED
      BY <2>8, <3>1 DEF TypeOK, RenameTmp
  <2>9. ASSUME NEW p \in Procs, RemoveTmp(p) PROVE TypeOK'
    <3>1. data' \in [Inodes -> Configs \cup Bad]
      BY <2>9, SurvivingType DEF TypeOK, RemoveTmp
    <3>2. QED
      BY <2>9, <3>1, ParametersOK DEF TypeOK, RemoveTmp
  <2>10. ASSUME NEW p \in Procs, Systemctl(p) PROVE TypeOK'
    BY <2>10, StartDaemonType DEF TypeOK, Systemctl
  <2>11. ASSUME NEW p \in Procs, ReloadFails(p) PROVE TypeOK'
    <3>1. data' \in [Inodes -> Configs \cup Bad]
      BY <2>11, SurvivingType DEF TypeOK, ReloadFails
    <3>2. conf' \in [Procs -> Configs]
      BY <2>11 DEF TypeOK, ReloadFails, Configs, Nothing
    <3>3. /\ pc' = [pc EXCEPT ![p] = "idle"] /\ todo' = [todo EXCEPT ![p] = {}]
          /\ fd' = [fd EXCEPT ![p] = Gone]
          /\ events' = [events EXCEPT !["trouble"] = @ + 1] /\ dirty' = TRUE
          /\ UNCHANGED <<rows, enabled, cond, open, routes, tmp, final, unit, running>>
      BY <2>11 DEF ReloadFails
    <3>4. QED
      BY ONLY TypeOK, <3>1, <3>2, <3>3 DEF TypeOK, EventNames
  <2>12. ASSUME NEW c \in Clients, NEW k \in Causes, BecomeDue(c, k) PROVE TypeOK'
    BY <2>12 DEF TypeOK, BecomeDue
  <2>13. CASE PanelCrash
    <3>1. data' \in [Inodes -> Configs \cup Bad]
      BY <2>13, SurvivingType DEF TypeOK, PanelCrash
    <3>2. conf' \in [Procs -> Configs]
      BY <2>13 DEF TypeOK, PanelCrash, Configs, Nothing
    <3>3. QED
      BY <2>13, <3>1, <3>2 DEF TypeOK, PanelCrash
  <2>14. CASE DaemonCrash
    BY <2>14 DEF TypeOK, DaemonCrash, Configs, Nothing
  <2>15. CASE AutoRestart
    BY <2>15, StartDaemonType DEF TypeOK, AutoRestart
  <2>16. CASE StartLimitHit
    BY <2>16 DEF TypeOK, StartLimitHit
  <2>17. CASE StopButton
    BY <2>17 DEF TypeOK, StopButton, Configs, Nothing
  <2>18. CASE RestartButton
    BY <2>18, StartDaemonType DEF TypeOK, RestartButton
  <2>19. CASE UNCHANGED vars
    BY <2>19 DEF TypeOK, vars
  <2>20. ASSUME NEW p \in Procs, ReadOutbounds(p) PROVE TypeOK'
    <3>1. conf' \in [Procs -> Configs]
      BY <2>20 DEF TypeOK, ReadOutbounds, Configs
    <3>2. QED
      BY <2>20, <3>1 DEF TypeOK, ReadOutbounds
  <2>21. ASSUME NEW p \in Procs, ReadRules(p) PROVE TypeOK'
    <3>1. conf' \in [Procs -> Configs]
      BY <2>21 DEF TypeOK, ReadRules, Configs
    <3>2. QED
      BY <2>21, <3>1 DEF TypeOK, ReadRules
  <2>22. QED
    BY <2>1, <2>2, <2>3, <2>4, <2>5, <2>6, <2>7, <2>8, <2>9, <2>10, <2>11, <2>12, <2>13,
       <2>14, <2>15, <2>16, <2>17, <2>18, <2>19, <2>20, <2>21 DEF Next, ReloadStep
<1>2. QED
  BY TypesAtInit, <1>1, PTL DEF Spec

-----------------------------------------------------------------------------
(* What a disturbed or finished reload leaves is put right by the next one *)
(* that runs alone.                                                        *)

\* A step that leaves tables, processes and files as they are, and starts the
\* daemon on the file, if at all.
LEMMA DaemonStepKeeps ==
  ASSUME IInv, UNCHANGED <<enabled, open, routes, pc, todo, conf, fd, data, tmp, final, dirty>>,
         unit' = "active" => (running' = data[final] \/ (unit = "active" /\ running' = running))
  PROVE  IInv'
<1>1. Image' = Image /\ Reloading' = Reloading /\ Pending' = Pending /\ Quiet' = Quiet
  BY DEF Image, Reloading, Pending, Quiet
<1>2. \A p \in Procs : Faithful(p)' = Faithful(p)
  BY <1>1 DEF Faithful, ReadSoFar
<1>3. Served => Served'
  BY <1>1 DEF Served
<1>4. QED
  BY <1>1, <1>2, <1>3 DEF IInv

\* A statement leaves a process that is still to reload.
LEMMA StatementKeeps ==
  ASSUME TypeOK, IInv, NEW p \in Procs, pc[p] \in {"idle", "written"},
         pc' = [pc EXCEPT ![p] = "written"], dirty' = dirty
  PROVE  IInv'
<1>1. Reloading' = Reloading
  BY DEF TypeOK, Reloading
<1>2. Pending'
  BY DEF TypeOK, Pending
<1>3. QED
  BY <1>1, <1>2 DEF IInv

\* Where nothing disturbs it, one step of the process that reloads is all there
\* is to look at: the others are idle, or one of them is still to reload.
LEMMA ReloadStepKeeps ==
  ASSUME TypeOK, IInv, NEW p \in Procs, p \in Reloading,
         NEW l, l # "written", pc' = [pc EXCEPT ![p] = l], dirty' = dirty,
         ~dirty /\ ~Pending /\ Faithful(p) => Faithful(p)' /\ (l = "idle" => Served')
  PROVE  IInv'
<1> SUFFICES ASSUME ~dirty PROVE IInv'
  BY DEF IInv
<1>1. pc'[p] = l /\ \A q \in Procs \ {p} : pc'[q] = pc[q]
  BY DEF TypeOK
<1>2. \A q \in Procs \ {p} : q \notin Reloading /\ pc[q] \in {"idle", "written"}
  BY DEF IInv, Reloading
<1>3. \A q, r \in Reloading' : q = r
  BY <1>1, <1>2 DEF Reloading
<1>4. CASE Pending
  <2>1. PICK q \in Procs : pc[q] = "written"
    BY <1>4 DEF Pending
  <2>2. q # p
    BY <2>1 DEF Reloading
  <2>3. Pending'
    BY <1>1, <2>1, <2>2 DEF Pending
  <2>4. QED
    BY <1>3, <2>3 DEF IInv
<1>5. CASE ~Pending
  <2>1. Faithful(p)' /\ (l = "idle" => Served')
    BY <1>5 DEF IInv
  <2>2. \A q \in Procs \ {p} : pc'[q] = "idle"
    BY <1>1, <1>2, <1>5 DEF Pending
  <2>3. \A q \in Procs \ {p} : Faithful(q)'
    BY <2>2 DEF Faithful
  <2>4. Quiet' => Served'
    BY <1>1, <2>1 DEF Quiet
  <2>5. QED
    BY <1>3, <2>1, <2>3, <2>4 DEF IInv
<1>6. QED
  BY <1>4, <1>5

\* What is built when every inbound has been read.
LEMMA ImageButRoutes ==
  [Image EXCEPT !.routes = {}]
    = [inbounds |-> open, clients |-> {c \in enabled : InboundOf[c] \in open}, routes |-> {}]
<1>1. \A cs : [[inbounds |-> open, clients |-> cs, routes |-> routes] EXCEPT !.routes = {}]
               = [inbounds |-> open, clients |-> cs, routes |-> {}]
  OBVIOUS
<1>2. QED
  BY <1>1, Zenon DEF Image

\* A reload that begins alone begins with the tables as they are, whatever the
\* files hold.
LEMMA BeginReloadKeeps ==
  ASSUME TypeOK, IInv, NEW p \in Procs, BeginReload(p)
  PROVE  IInv'
<1> SUFFICES ASSUME Reloading = {} PROVE IInv'
  BY DEF BeginReload, IInv
<1> USE DEF BeginReload, Goto, table, files, daemon
<1>1. /\ pc'[p] = IF open = {} THEN "outbounds" ELSE "reading"
      /\ \A q \in Procs \ {p} : pc'[q] = pc[q] /\ pc[q] \in {"idle", "written"}
  BY DEF TypeOK, Reloading
<1>2. \A q, r \in Reloading' : q = r
  BY <1>1 DEF Reloading
<1>3. todo'[p] = open /\ conf'[p] = [inbounds |-> open, clients |-> {}, routes |-> {}]
  BY DEF TypeOK, Nothing
<1>4. Image' = Image
  BY DEF Image
<1>5. Faithful(p)'
  <2>1. CASE open = {}
    <3>1. [Image EXCEPT !.routes = {}] = [inbounds |-> open, clients |-> {}, routes |-> {}]
      <4>1. {c \in enabled : InboundOf[c] \in open} = {}
        BY <2>1
      <4>2. QED
        BY <4>1, ImageButRoutes
    <3>2. QED
      BY <1>1, <1>3, <1>4, <2>1, <3>1 DEF Faithful
  <2>2. CASE open # {}
    <3>1. {c \in enabled : InboundOf[c] \in open \ open} = {}
      OBVIOUS
    <3>2. ReadSoFar(p)'
      BY <1>3, <2>2, <3>1 DEF ReadSoFar
    <3>3. QED
      BY <1>1, <2>2, <3>2 DEF Faithful
  <2>3. QED
    BY <2>1, <2>2
<1>6. \A q \in Procs \ {p} : Faithful(q)'
  BY <1>1 DEF Faithful
<1>7. ~Quiet'
  BY <1>1 DEF Quiet
<1>8. QED
  BY <1>2, <1>5, <1>6, <1>7 DEF IInv

\* Each query adds the clients of one inbound; the last one completes them.
LEMMA ReadInboundKeeps ==
  ASSUME TypeOK, IInv, NEW p \in Procs, ReadInbound(p)
  PROVE  IInv'
<1> DEFINE i == CHOOSE j \in todo[p] : TRUE
           l == IF todo[p] = {i} THEN "outbounds" ELSE "reading"
<1> USE DEF ReadInbound, Goto, table, files, daemon
<1>1. p \in Reloading /\ pc' = [pc EXCEPT ![p] = l] /\ pc'[p] = l /\ dirty' = dirty
  BY DEF Reloading, TypeOK
<1>2. ASSUME Faithful(p) PROVE Faithful(p)'
  <2>1. ReadSoFar(p) /\ i \in todo[p]
    BY <1>2 DEF Faithful, ReadSoFar
  <2>2. /\ todo'[p] = todo[p] \ {i}
        /\ conf'[p] = [inbounds |-> open,
                       clients  |-> {c \in enabled : InboundOf[c] \in open \ todo'[p]},
                       routes   |-> {}]
    <3>1. todo'[p] = todo[p] \ {i}
      BY DEF TypeOK
    <3>2. conf'[p] = [conf[p] EXCEPT !.clients = @ \cup {c \in enabled : InboundOf[c] = i}]
      BY DEF TypeOK
    <3>3. conf[p] = [inbounds |-> conf[p].inbounds, clients |-> conf[p].clients,
                     routes |-> conf[p].routes]
      BY DEF TypeOK, Configs
    <3>4. conf[p].clients \cup {c \in enabled : InboundOf[c] = i}
            = {c \in enabled : InboundOf[c] \in open \ todo'[p]}
      BY <2>1, <3>1 DEF ReadSoFar
    <3>5. conf'[p] = [inbounds |-> conf[p].inbounds,
                      clients  |-> conf[p].clients \cup {c \in enabled : InboundOf[c] = i},
                      routes   |-> conf[p].routes]
      BY <3>2, <3>3
    <3>6. QED
      BY <2>1, <3>1, <3>4, <3>5 DEF ReadSoFar
  <2>3. CASE todo[p] = {i}
    <3>1. todo'[p] = {}
      BY <2>2, <2>3
    <3>2. open \ todo'[p] = open /\ Image' = Image
      BY <3>1 DEF Image
    <3>3. conf'[p] = [inbounds |-> open, clients |-> {c \in enabled : InboundOf[c] \in open},
                      routes |-> {}]
      BY <2>2, <3>2
    <3>4. conf'[p] = [Image EXCEPT !.routes = {}]
      BY <3>3, ImageButRoutes
    <3>5. QED
      BY <1>1, <2>3, <3>2, <3>4 DEF Faithful
  <2>4. CASE todo[p] # {i}
    <3>1. ReadSoFar(p)'
      BY <2>1, <2>2, <2>4 DEF ReadSoFar
    <3>2. QED
      BY <1>1, <2>4, <3>1 DEF Faithful
  <2>5. QED
    BY <2>3, <2>4
<1>3. l # "written" /\ l # "idle"
  OBVIOUS
<1>4. QED
  BY ONLY TypeOK, IInv, p \in Procs, <1>1, <1>2, <1>3, ReloadStepKeeps

\* The outbounds follow, then the rules complete the image.
LEMMA ReadRoutesKeeps ==
  ASSUME TypeOK, IInv, NEW p \in Procs, ReadOutbounds(p) \/ ReadRules(p)
  PROVE  IInv'
<1>1. CASE ReadOutbounds(p)
  <2> USE <1>1 DEF ReadOutbounds, Goto, table, files, daemon
  <2>1. p \in Reloading /\ pc'[p] = "rules" /\ Image' = Image
    BY DEF Reloading, TypeOK, Image
  <2>2. ASSUME Faithful(p) PROVE Faithful(p)'
    <3>1. conf'[p] = [conf[p] EXCEPT !.routes = routes \cap Outbounds]
      BY DEF TypeOK
    <3>2. conf[p] = [Image EXCEPT !.routes = {}]
      BY <2>2 DEF Faithful
    <3>3. conf'[p] = [Image EXCEPT !.routes = routes \cap Outbounds]
      BY <3>1, <3>2 DEF Image
    <3>4. QED
      BY <2>1, <3>3 DEF Faithful
  <2>3. QED
    BY <2>1, <2>2, ReloadStepKeeps
<1>2. CASE ReadRules(p)
  <2> USE <1>2 DEF ReadRules, Goto, table, files, daemon
  <2>1. p \in Reloading /\ pc'[p] = "opening" /\ Image' = Image
    BY DEF Reloading, TypeOK, Image
  <2>2. ASSUME Faithful(p) PROVE Faithful(p)'
    <3>1. conf'[p] = [conf[p] EXCEPT !.routes = @ \cup (routes \cap Rules)]
      BY DEF TypeOK
    <3>2. conf[p] = [Image EXCEPT !.routes = routes \cap Outbounds]
      BY <2>2 DEF Faithful
    <3>3. (routes \cap Outbounds) \cup (routes \cap Rules) = routes
      BY DEF TypeOK, Routes
    <3>4. conf[p] = [inbounds |-> Image.inbounds, clients |-> Image.clients,
                     routes |-> routes \cap Outbounds]
      BY <3>2 DEF Image
    <3>5. conf'[p] = [inbounds |-> Image.inbounds, clients |-> Image.clients,
                      routes |-> routes]
      BY <3>1, <3>3, <3>4
    <3>6. conf'[p] = Image
      BY <3>5 DEF Image
    <3>7. QED
      BY <2>1, <3>6 DEF Faithful
  <2>3. QED
    BY <2>1, <2>2, ReloadStepKeeps
<1>3. QED
  BY <1>1, <1>2

\* The file is empty, and the process's own, until it is filled.
LEMMA OpenTmpKeeps ==
  ASSUME TypeOK, IInv, NEW p \in Procs, OpenTmp(p)
  PROVE  IInv'
<1> USE DEF OpenTmp, Goto, table, daemon
<1>1. p \in Reloading /\ pc'[p] = "filling"
  BY DEF Reloading, TypeOK
<1>2. tmp' \in Inodes /\ fd'[p] = tmp' /\ data'[tmp'] = Empty /\ conf'[p] = conf[p]
  BY FreeInodeExists DEF TypeOK
<1>3. Faithful(p) => Faithful(p)'
  <2>1. Image' = Image /\ tmp' # Gone
    BY <1>2, ParametersOK DEF Image
  <2>2. QED
    BY <1>1, <1>2, <2>1 DEF Faithful
<1>4. QED
  BY <1>1, <1>3, ReloadStepKeeps

\* Over an empty file the process writes its configuration whole.
LEMMA FillTmpKeeps ==
  ASSUME TypeOK, IInv, NEW p \in Procs, FillTmp(p)
  PROVE  IInv'
<1> USE DEF FillTmp, Goto, table, daemon
<1>1. p \in Reloading /\ pc'[p] = "renaming"
  BY DEF Reloading, TypeOK
<1>2. ASSUME Faithful(p) PROVE Faithful(p)'
  <2>1. conf[p] = Image /\ tmp # Gone /\ fd[p] = tmp /\ data[tmp] = Empty /\ tmp \in Inodes
    BY <1>2 DEF Faithful, TypeOK
  <2>2. data' = Surviving([data EXCEPT ![tmp] = Image], tmp, final, fd')
    BY <2>1
  <2>3. [data EXCEPT ![tmp] = Image][tmp] = Image
    BY <2>1 DEF TypeOK
  <2>4. data'[tmp] = Image
    BY <2>1, <2>2, <2>3 DEF Surviving
  <2>5. Image' = Image
    BY DEF Image
  <2>6. QED
    BY <1>1, <2>1, <2>4, <2>5 DEF Faithful
<1>3. QED
  BY <1>1, <1>2, ReloadStepKeeps

\* What is renamed over config.json is what was written.
LEMMA RenameTmpKeeps ==
  ASSUME TypeOK, IInv, NEW p \in Procs, RenameTmp(p)
  PROVE  IInv'
<1> USE DEF RenameTmp, Goto, table, files, daemon
<1>1. p \in Reloading /\ pc'[p] = IF tmp = Gone THEN "removing" ELSE "restarting"
  BY DEF Reloading, TypeOK
<1>2. ASSUME Faithful(p) PROVE Faithful(p)'
  <2>1. tmp # Gone /\ data[tmp] = Image /\ tmp \in Inodes
    BY <1>2 DEF Faithful, TypeOK
  <2>2. final' = tmp /\ data'[tmp] = Image
    BY <2>1 DEF Surviving
  <2>3. Image' = Image
    BY DEF Image
  <2>4. QED
    BY <1>1, <2>1, <2>2, <2>3 DEF Faithful
<1>3. QED
  BY <1>1, <1>2, ReloadStepKeeps

\* A rename that finds no temporary file is not met by a reload alone.
LEMMA RemoveTmpKeeps ==
  ASSUME TypeOK, IInv, NEW p \in Procs, RemoveTmp(p)
  PROVE  IInv'
<1>1. p \in Reloading /\ ~Faithful(p)
  BY DEF RemoveTmp, Reloading, Faithful
<1>2. QED
  BY <1>1, ReloadStepKeeps DEF RemoveTmp, Goto

\* The daemon, if it is up, is restarted on what was renamed.
LEMMA SystemctlKeeps ==
  ASSUME TypeOK, IInv, NEW p \in Procs, Systemctl(p)
  PROVE  IInv'
<1> USE DEF Systemctl, Goto, table, files, daemon
<1>1. p \in Reloading /\ pc'[p] = "idle"
  BY DEF Reloading, TypeOK
<1>2. ASSUME Faithful(p) PROVE Faithful(p)' /\ Served'
  <2>1. data[final] = Image /\ Image' = Image
    BY <1>2 DEF Faithful, Image
  <2>2. unit' = "active" => running' = data[final]
    BY StartDaemonType
  <2>3. QED
    BY <1>1, <2>1, <2>2 DEF Faithful, Served
<1>3. QED
  BY <1>1, <1>2, ReloadStepKeeps

\* The strengthened invariant that the run Reload checks.
THEOREM ReloadInvariant == Spec => []IInv
<1>1. Init => IInv
  BY TypesAtInit DEF Init, TypeOK, IInv, Reloading, Faithful, Quiet, Served, Image
<1>2. TypeOK /\ IInv /\ [Next]_vars => IInv'
  <2> SUFFICES ASSUME TypeOK, IInv, [Next]_vars PROVE IInv'
    OBVIOUS
  <2> USE DEF Goto, table, files, procs, daemon
  <2>1. ASSUME NEW p \in Handlers, Request(p) PROVE IInv'
    <3> p \in Procs
      BY DEF Procs
    <3>1. CASE Statement(p)
      BY <3>1, StatementKeeps DEF Statement
    <3>2. ASSUME NEW c \in Clients, ResetClient(p, c) PROVE IInv'
      BY <3>2, DaemonStepKeeps DEF ResetClient
    <3>3. QED
      BY <2>1, <3>1, <3>2 DEF Request, ToggleClient, CreateClient, UpdateClient,
         DeleteClient, ExtendClient, BulkReset, SwitchInbound, DeleteInbound,
         OutboundRequest, RuleRequest, WriteRoute, ProvisionWARP
  <2>2. CASE Sweep
    BY <2>2, StatementKeeps DEF Sweep, Procs
  <2>3. ASSUME NEW p \in Procs, SkipInbound(p) \/ ReloadFails(p) PROVE IInv'
    BY <2>3 DEF SkipInbound, ReloadFails, IInv
  <2>4. ASSUME NEW c \in Clients, NEW k \in Causes, BecomeDue(c, k) PROVE IInv'
    BY <2>4, DaemonStepKeeps DEF BecomeDue
  <2>5. CASE PanelCrash
    BY <2>5 DEF PanelCrash, IInv
  <2>6. CASE DaemonCrash \/ StartLimitHit \/ StopButton
    BY <2>6, DaemonStepKeeps DEF DaemonCrash, StartLimitHit, StopButton
  <2>7. CASE AutoRestart \/ RestartButton
    BY <2>7, DaemonStepKeeps, StartDaemonType DEF AutoRestart, RestartButton
  <2>8. CASE UNCHANGED vars
    BY <2>8, DaemonStepKeeps DEF vars
  <2>9. ASSUME NEW p \in Procs, ReloadStep(p) PROVE IInv'
    BY <2>9, BeginReloadKeeps, ReadInboundKeeps, ReadRoutesKeeps, OpenTmpKeeps, FillTmpKeeps,
       RenameTmpKeeps, RemoveTmpKeeps, SystemctlKeeps DEF ReloadStep
  <2>10. QED
    BY <2>1, <2>2, <2>3, <2>4, <2>5, <2>6, <2>7, <2>8, <2>9 DEF Next
<1>3. QED
  BY <1>1, <1>2, TypeCorrect, PTL DEF Spec

\* After a reload that ran alone and undisturbed, whenever nobody is at work the
\* daemon serves exactly what the tables say (GenerateAndWrite, Reload).
THEOREM ReloadServes == Spec => []NothingStranded
<1>1. IInv => NothingStranded
  BY DEF IInv, NothingStranded, Quiet, Pending
<1>2. QED
  BY <1>1, ReloadInvariant, PTL

=============================================================================
