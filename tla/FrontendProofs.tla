----------------------------- MODULE FrontendProofs -----------------------------
(***************************************************************************)
(* What the daemons guarantee for any number of connections, descriptors,  *)
(* configs and changes of them.                                            *)
(*                                                                         *)
(* A backend is looked up in several steps, while configs change and other *)
(* connections write the cache.  Each step keeps that what is known so far *)
(* was true at some moment the connection may be judged by: since it was   *)
(* accepted, or since the process started when a read of its failed.       *)
(***************************************************************************)
EXTENDS Frontend, FiniteSetTheorems, TLAPS

-----------------------------------------------------------------------------
(* The inductive invariant.                                                *)

\* What config f may have said to a connection in state r.
From(r) == IF r.blind THEN 1 ELSE r.since
At(r, f) == {past[i][f] : i \in From(r)..Len(past)}

\* Half-way through the lookup.
ReadingOK(r) ==
  r.stage \in {"read", "note"} =>
    /\ daemon = "sslhmux" /\ r.kind \in Kinds /\ r.step \in DOMAIN ConfigsOf(r.kind)
    /\ r.step = 2 => Missing \in At(r, ConfigsOf(r.kind)[1])
    /\ r.stage = "note" =>
         IF r.seen = Unread THEN r.blind ELSE r.seen \in At(r, ConfigsOf(r.kind)[r.step])

RouteOK(r) ==
  daemon = "sslhmux" /\ r.stage \in {"dialing", "bridged"} =>
    /\ r.target # Own
    /\ \E files \in [Files -> Contents] :
         (\A f \in Files : files[f] \in At(r, f)) /\ r.target = BackendOf(r.kind, files)

\* Only a connection that holds a descriptor knows when it came.
Opens(r) == r.stage \notin {"idle", "queued", "over"}

Fits(r) ==
  /\ r.since <= Len(past) /\ (Opens(r) \/ r.since = 1)
  /\ r.stage \in {"idle", "queued", "early"} => r.step = 1
  /\ ReadingOK(r) /\ RouteOK(r)

\* The cache never holds what no config said since the process started.
CacheOK == \A f \in Files : \E i \in 1..Len(past) : cache[f] = past[i][f]

IInv ==
  /\ TypeOK
  /\ IsFiniteSet(Open)
  /\ Len(past) <= events["edit"] + 1 /\ events["edit"] <= MaxEdits
  /\ CacheOK
  /\ \A c \in Conns : Fits(conn[c])

-----------------------------------------------------------------------------
(* What a lookup reads, and what it finds.                                 *)

\* A protocol has one config, or two.
LEMMA ConfigsOfKinds ==
  ASSUME NEW k \in Kinds
  PROVE  /\ DOMAIN ConfigsOf(k) = 1..Len(ConfigsOf(k))
         /\ Len(ConfigsOf(k)) \in {1, 2}
         /\ Len(ConfigsOf(k)) = 2 => ConfigsOf(k)[1] # ConfigsOf(k)[2]
         /\ \A i \in DOMAIN ConfigsOf(k) : ConfigsOf(k)[i] \in Files
<1>1. k \in {"ssh", "ssl", "http", "other"}
  BY ParametersOK
<1>2. \A i \in DOMAIN ConfigsOf(k) : ConfigsOf(k)[i] \in Files
  BY DEF Files
<1>3. CASE k # "other"
  <2>1. \E f : ConfigsOf(k) = <<f>>
    BY <1>1, <1>3 DEF ConfigsOf
  <2> QED
    BY <1>2, <2>1
<1>4. CASE k = "other"
  <2>1. ConfigsOf(k) = <<"server.conf", "server/server.conf">>
    BY <1>4 DEF ConfigsOf
  <2> QED
    BY <1>2, <2>1
<1> QED
  BY <1>3, <1>4

\* The lookup ends at the first config that is there, or at the last.
LEMMA FirstThereCounts ==
  ASSUME NEW k \in Kinds, NEW files \in [Files -> Contents], NEW step \in DOMAIN ConfigsOf(k),
         step = 2 => files[ConfigsOf(k)[1]] = Missing,
         files[ConfigsOf(k)[step]] # Missing \/ step = Len(ConfigsOf(k))
  PROVE  BackendOf(k, files) = Named(k, files[ConfigsOf(k)[step]])
<1> DEFINE cs == ConfigsOf(k)
           there == {i \in DOMAIN cs : files[cs[i]] # Missing}
<1>1. DOMAIN cs = 1..Len(cs) /\ Len(cs) \in {1, 2} /\ step \in 1..Len(cs)
  BY ConfigsOfKinds
<1>2. BackendOf(k, files) = IF there = {} THEN Default(k) ELSE Named(k, files[cs[Min(there)]])
  BY DEF BackendOf
<1>3. CASE files[cs[step]] = Missing
  <2>1. there = {}
    BY <1>1, <1>3
  <2> QED
    BY <1>2, <1>3, <2>1 DEF Named
<1>4. CASE files[cs[step]] # Missing
  <2>1. step \in there /\ \A i \in there : step <= i
    BY <1>1, <1>4
  <2> HIDE DEF there
  <2>2. Min(there) = step
    <3>1. there \subseteq Int
      BY <1>1 DEF there
    <3>2. \A m \in there : (\A i \in there : m <= i) => m = step
      BY <2>1, <3>1
    <3> QED
      BY <2>1, <3>2 DEF Min
  <2> QED
    BY <1>2, <2>1, <2>2
<1> QED
  BY <1>3, <1>4

\* History only grows while a connection lives.
LEMMA HistoryKeeps ==
  ASSUME NEW c \in Conns, Fits(conn[c]), conn'[c] = conn[c], daemon' = daemon, conn[c] \in Connections,
         Len(past) \in Nat, Len(past') \in Nat,
         Len(past) <= Len(past'), \A i \in 1..Len(past) : past'[i] = past[i]
  PROVE  Fits(conn[c])'
<1> DEFINE r == conn[c]
           old(f) == At(r, f)
           new(f) == At(r, f)'
<1>1. \A f : At(conn[c], f) \subseteq At(conn[c], f)'
  <2>1. From(conn[c]) \in Nat \ {0} /\ From(conn[c])' = From(conn[c])
    BY ParametersOK DEF From, Connections
  <2> QED
    BY <2>1 DEF At
<1>2. ReadingOK(conn[c])'
  BY <1>1 DEF Fits, ReadingOK
<1>3. RouteOK(conn[c])'
  <2> SUFFICES ASSUME daemon = "sslhmux", conn[c].stage \in {"dialing", "bridged"} PROVE
        /\ conn[c].target # Own
        /\ \E files \in [Files -> Contents] :
             /\ \A f \in Files : files[f] \in At(conn[c], f)'
             /\ conn[c].target = BackendOf(conn[c].kind, files)
    BY DEF RouteOK
  <2>1. PICK files \in [Files -> Contents] :
          /\ \A f \in Files : files[f] \in At(conn[c], f)
          /\ conn[c].target = BackendOf(conn[c].kind, files)
    BY DEF Fits, RouteOK
  <2> QED
    BY <1>1, <2>1 DEF Fits, RouteOK
<1>4. conn[c].since <= Len(past')
  BY DEF Fits, Connections
<1> QED
  BY <1>2, <1>3, <1>4 DEF Fits, Opens

-----------------------------------------------------------------------------
(* Descriptors.                                                            *)

\* Closing never takes one.
LEMMA FewerFit ==
  ASSUME IInv, Open' \subseteq Open, Bridged' \subseteq Bridged, limit' = limit
  PROVE  IsFiniteSet(Open)' /\ (Used <= limit)'
<1>1. IsFiniteSet(Open) /\ Bridged \subseteq Open
  BY DEF IInv, Open, Bridged
<1>2. /\ IsFiniteSet(Open') /\ IsFiniteSet(Bridged)
      /\ Cardinality(Open) \in Nat /\ Cardinality(Open') \in Nat
      /\ Cardinality(Open') <= Cardinality(Open)
  BY <1>1, FS_Subset, FS_CardinalityType
<1>3. /\ Cardinality(Bridged) \in Nat /\ Cardinality(Bridged') \in Nat
      /\ Cardinality(Bridged') <= Cardinality(Bridged)
  BY <1>2, FS_Subset, FS_CardinalityType
<1>4. limit \in Nat /\ 1 + Cardinality(Open) + Cardinality(Bridged) <= limit
  BY ParametersOK DEF IInv, TypeOK, Used
<1> QED
  BY <1>2, <1>3, <1>4 DEF Used

\* With one to spare, one may be taken.
LEMMA OneMoreFits ==
  ASSUME IInv, ~Full, limit' = limit, NEW c,
         \/ Open' \subseteq Open \cup {c} /\ Bridged' \subseteq Bridged
         \/ Open' \subseteq Open /\ Bridged' \subseteq Bridged \cup {c}
  PROVE  IsFiniteSet(Open)' /\ (Used <= limit)'
<1>1. IsFiniteSet(Open) /\ Bridged \subseteq Open
  BY DEF IInv, Open, Bridged
<1>2. IsFiniteSet(Bridged)
  BY <1>1, FS_Subset
<1>3. /\ Cardinality(Open) \in Nat /\ Cardinality(Bridged) \in Nat /\ limit \in Nat
      /\ 1 + Cardinality(Open) + Cardinality(Bridged) < limit
  <2>1. Cardinality(Open) \in Nat /\ Cardinality(Bridged) \in Nat
    BY <1>1, <1>2, FS_CardinalityType
  <2> QED
    BY <2>1, ParametersOK DEF IInv, TypeOK, Used, Full
<1>4. \A S, T : IsFiniteSet(S) /\ T \subseteq S \cup {c} =>
        /\ IsFiniteSet(T) /\ Cardinality(T) \in Nat
        /\ Cardinality(T) <= Cardinality(S) + 1
  <2> SUFFICES ASSUME NEW S, NEW T, IsFiniteSet(S), T \subseteq S \cup {c}
               PROVE  /\ IsFiniteSet(T) /\ Cardinality(T) \in Nat
                      /\ Cardinality(T) <= Cardinality(S) + 1
    OBVIOUS
  <2>1. /\ IsFiniteSet(S \cup {c}) /\ Cardinality(S) \in Nat
        /\ Cardinality(S \cup {c}) = IF c \in S THEN Cardinality(S) ELSE Cardinality(S) + 1
    BY FS_AddElement, FS_CardinalityType
  <2>2. IsFiniteSet(T) /\ Cardinality(T) <= Cardinality(S \cup {c})
    BY <2>1, FS_Subset
  <2>3. Cardinality(T) \in Nat
    BY <2>2, FS_CardinalityType
  <2> QED
    BY <2>1, <2>2, <2>3
<1>5. \A S, T : IsFiniteSet(S) /\ T \subseteq S =>
        /\ IsFiniteSet(T) /\ Cardinality(T) \in Nat /\ Cardinality(T) <= Cardinality(S)
  BY FS_Subset, FS_CardinalityType
<1>6. CASE Open' \subseteq Open \cup {c} /\ Bridged' \subseteq Bridged
  BY <1>1, <1>2, <1>3, <1>4, <1>5, <1>6 DEF Used
<1>7. CASE Open' \subseteq Open /\ Bridged' \subseteq Bridged \cup {c}
  BY <1>1, <1>2, <1>3, <1>4, <1>5, <1>7 DEF Used
<1> QED
  BY <1>6, <1>7

-----------------------------------------------------------------------------
(* The steps.                                                              *)

\* A connection at rest.
LEMMA NewConnFits ==
  ASSUME TypeOK, NEW st \in {"idle", "queued", "over"}
  PROVE  /\ NewConn(st) \in Connections /\ NewConn(st).stage = st /\ Fits(NewConn(st))
         /\ ~Opens(NewConn(st))
<1>1. NewConn(st) \in Connections
  BY ParametersOK DEF NewConn, Connections, Stages, Contents
<1>2. NewConn(st).stage = st /\ NewConn(st).since = 1 /\ NewConn(st).step = 1 /\ 1 <= Len(past)
  BY DEF NewConn, TypeOK
<1> QED
  BY <1>1, <1>2 DEF Fits, Opens, ReadingOK, RouteOK

\* Only an edit counts as one.
LEMMA HappensCounts ==
  ASSUME TypeOK, NEW e \in {"edit", "fault", "stop"}, Happens(e)
  PROVE  /\ events' \in [{"edit", "fault", "stop"} -> Nat]
         /\ events'["edit"] = IF e = "edit" THEN events["edit"] + 1 ELSE events["edit"]
BY DEF TypeOK, Happens

\* One connection goes on.
LEMMA OneConnKeeps ==
  ASSUME IInv, NEW c \in Conns, NEW r \in Connections, conn' = [conn EXCEPT ![c] = r],
         UNCHANGED <<daemon, limit, unit, ctx, past, events>>,
         Serving \/ r.stage \in {"idle", "over"},
         cache' \in [Files -> Contents], CacheOK', Fits(r),
         \/ (Opens(r) => Opens(conn[c])) /\ (r.stage = "bridged" => conn[c].stage = "bridged")
         \/ ~Full /\ (r.stage = "bridged" => conn[c].stage = "bridged")
         \/ ~Full /\ (Opens(r) => Opens(conn[c]))
  PROVE  IInv'
<1>1. TypeOK /\ conn \in [Conns -> Connections]
  BY DEF IInv, TypeOK
<1>2. /\ conn' \in [Conns -> Connections] /\ conn'[c] = r
      /\ \A d \in Conns : d # c => conn'[d] = conn[d]
  BY <1>1
<1>3. IsFiniteSet(Open)' /\ (Used <= limit)'
  <2>1. /\ (Opens(r) => Opens(conn[c])) => Open' \subseteq Open
        /\ (r.stage = "bridged" => conn[c].stage = "bridged") => Bridged' \subseteq Bridged
        /\ Open' \subseteq Open \cup {c} /\ Bridged' \subseteq Bridged \cup {c}
    BY <1>2 DEF Open, Opens, Bridged
  <2> QED
    BY <2>1, FewerFit, OneMoreFits
<1>4. TypeOK'
  <2>1. ~Serving' => \A d \in Conns : conn'[d].stage \in {"idle", "over"}
    BY <1>1, <1>2 DEF TypeOK, Serving
  <2> QED
    BY <1>1, <1>2, <1>3, <2>1 DEF TypeOK
<1>5. \A d \in Conns : Fits(conn[d])'
  <2> SUFFICES ASSUME NEW d \in Conns PROVE Fits(conn[d])'
    OBVIOUS
  <2>1. CASE d = c
    BY <1>2, <2>1 DEF Fits, Opens, ReadingOK, RouteOK, At, From
  <2>2. CASE d # c
    <3>1. conn'[d] = conn[d] /\ Fits(conn[d])
      BY <1>2, <2>2 DEF IInv
    <3> QED
      BY <3>1 DEF Fits, Opens, ReadingOK, RouteOK, At, From
  <2> QED
    BY <2>1, <2>2
<1> QED
  BY <1>3, <1>4, <1>5 DEF IInv

\* The loop or the operator does something that no connection sees.
LEMMA LoopKeeps ==
  ASSUME IInv, UNCHANGED <<daemon, limit, past, cache, conn>>,
         unit' \in {"accept", "backoff"}, Serving, ctx' \in {"live", "done"},
         events' \in [{"edit", "fault", "stop"} -> Nat], events'["edit"] = events["edit"]
  PROVE  IInv'
<1>1. TypeOK'
  BY DEF IInv, TypeOK, Serving, Used, Open, Bridged
<1>2. \A d \in Conns : Fits(conn[d])'
  BY DEF IInv, Fits, Opens, ReadingOK, RouteOK, At, From
<1>3. IsFiniteSet(Open)' /\ CacheOK'
  BY DEF IInv, Open, CacheOK
<1> QED
  BY <1>1, <1>2, <1>3 DEF IInv

\* The process ends, and every connection with it.
LEMMA ExitKeeps ==
  ASSUME IInv, NEW next \in {"restarting", "stopped"}, Exit(next),
         UNCHANGED <<daemon, limit, ctx, past, cache>>,
         events' \in [{"edit", "fault", "stop"} -> Nat], events'["edit"] = events["edit"]
  PROVE  IInv'
<1>1. TypeOK /\ conn \in [Conns -> Connections]
  BY DEF IInv, TypeOK
<1>2. \A d \in Conns : /\ conn'[d] \in {conn[d], NewConn("over")}
                       /\ conn'[d].stage \in {"idle", "over"}
  BY <1>1, NewConnFits DEF Exit
<1>3. conn' \in [Conns -> Connections]
  BY <1>1, NewConnFits DEF Exit
<1>4. IsFiniteSet(Open)' /\ (Used <= limit)'
  <2>1. Open' = {} /\ Bridged' = {}
    BY <1>2 DEF Open, Bridged
  <2> QED
    BY <2>1, FewerFit
<1>5. TypeOK'
  BY <1>1, <1>2, <1>3, <1>4 DEF TypeOK, Exit
<1>6. \A d \in Conns : Fits(conn[d])'
  <2> SUFFICES ASSUME NEW d \in Conns PROVE Fits(conn[d])'
    OBVIOUS
  <2>1. Fits(conn[d]) /\ Fits(NewConn("over"))
    BY <1>1, NewConnFits DEF IInv
  <2>2. CASE conn'[d] = conn[d]
    BY <2>1, <2>2 DEF Fits, Opens, ReadingOK, RouteOK, At, From
  <2>3. CASE conn'[d] = NewConn("over")
    BY <2>1, <2>3, <1>1, NewConnFits DEF Fits, Opens, ReadingOK, RouteOK
  <2> QED
    BY <1>2, <2>2, <2>3
<1>7. CacheOK'
  BY DEF IInv, CacheOK
<1> QED
  BY <1>4, <1>5, <1>6, <1>7 DEF IInv

\* A connection ends.
LEMMA DropKeeps ==
  ASSUME IInv, NEW c \in Conns, Drop(c), HandlerOnly, UNCHANGED cache
  PROVE  IInv'
<1>1. NewConn("over") \in Connections /\ Fits(NewConn("over"))
      /\ NewConn("over").stage = "over" /\ ~Opens(NewConn("over"))
  BY NewConnFits DEF IInv
<1>2. cache' \in [Files -> Contents] /\ CacheOK'
  BY DEF HandlerOnly, IInv, TypeOK, CacheOK
<1>3. conn' = [conn EXCEPT ![c] = NewConn("over")]
  BY DEF Drop
<1> QED
  BY <1>1, <1>2, <1>3, OneConnKeeps DEF HandlerOnly

\* A client waits in the listener's queue.
LEMMA ArriveKeeps ==
  ASSUME IInv, NEW c \in Conns, Arrive(c)
  PROVE  IInv'
<1> DEFINE r == [conn[c] EXCEPT !.stage = "queued"]
<1>1. conn[c] \in Connections /\ Fits(conn[c]) /\ conn[c].stage = "idle"
  BY DEF IInv, TypeOK, Arrive
<1>2. /\ r \in Connections /\ r.stage = "queued" /\ r.since = conn[c].since
      /\ r.step = conn[c].step
  BY <1>1 DEF Connections, Stages
<1>3. /\ conn' = [conn EXCEPT ![c] = r] /\ Serving
      /\ UNCHANGED <<daemon, limit, unit, ctx, past, cache, events>>
  BY DEF Arrive
<1> HIDE DEF r
<1>4. Fits(r) /\ ~Opens(r)
  BY <1>1, <1>2 DEF Fits, Opens, ReadingOK, RouteOK
<1>5. cache' \in [Files -> Contents] /\ CacheOK'
  BY <1>3 DEF IInv, TypeOK, CacheOK
<1> QED
  BY <1>2, <1>3, <1>4, <1>5, OneConnKeeps

\* A client is accepted: what it may be judged by begins now.
LEMMA AcceptKeeps ==
  ASSUME IInv, NEW c \in Conns, Accept(c)
  PROVE  IInv'
<1> DEFINE r == [conn[c] EXCEPT !.stage = "early", !.since = Len(past)]
<1>1. conn[c] \in Connections /\ Fits(conn[c]) /\ conn[c].stage = "queued" /\ ~Full
  BY DEF IInv, TypeOK, Accept
<1>2. Len(past) \in 1..(MaxEdits + 1)
  BY DEF IInv, TypeOK
<1>3. /\ r \in Connections /\ r.stage = "early" /\ r.since = Len(past)
      /\ r.step = conn[c].step
  BY <1>1, <1>2 DEF Connections, Stages
<1>4. /\ conn' = [conn EXCEPT ![c] = r] /\ Serving
      /\ UNCHANGED <<daemon, limit, unit, ctx, past, cache, events>>
  BY DEF Accept, Serving
<1> HIDE DEF r
<1>5. Fits(r) /\ r.stage # "bridged"
  BY <1>1, <1>2, <1>3 DEF Fits, Opens, ReadingOK, RouteOK
<1>6. cache' \in [Files -> Contents] /\ CacheOK'
  BY <1>4 DEF IInv, TypeOK, CacheOK
<1> QED
  BY <1>1, <1>3, <1>4, <1>5, <1>6, OneConnKeeps

\* A step of a handler that only takes a connection on, with the descriptors it has.
LEMMA HandlerKeeps ==
  ASSUME IInv, NEW c \in Conns, NEW r \in Connections, conn' = [conn EXCEPT ![c] = r], HandlerOnly,
         Opens(conn[c]), r.stage = "bridged" => ~Full,
         cache' \in [Files -> Contents], CacheOK', Fits(r)
  PROVE  IInv'
<1>1. Serving
  BY DEF IInv, TypeOK, Opens
<1> QED
  BY <1>1, OneConnKeeps DEF HandlerOnly

\* The first bytes, the handshake or the request.
LEMMA PeekKeeps ==
  ASSUME IInv, NEW c \in Conns, Peek(c) \/ Greet(c)
  PROVE  IInv'
<1>1. /\ conn[c] \in Connections /\ Fits(conn[c]) /\ conn[c].stage = "early" /\ Opens(conn[c])
      /\ HandlerOnly /\ UNCHANGED cache
  BY DEF IInv, TypeOK, Peek, Greet, Opens
<1>2. cache' \in [Files -> Contents] /\ CacheOK'
  BY <1>1 DEF IInv, TypeOK, CacheOK, HandlerOnly
<1>3. CASE Drop(c)
  BY <1>1, <1>3, DropKeeps
<1>4. ASSUME NEW k \in Kinds, daemon = "sslhmux",
             conn' = [conn EXCEPT ![c].stage = "read", ![c].kind = k]
      PROVE  IInv'
  <2> DEFINE r == [conn[c] EXCEPT !.stage = "read", !.kind = k]
  <2>1. /\ r \in Connections /\ r.stage = "read" /\ r.since = conn[c].since
        /\ r.step = conn[c].step /\ r.kind = k
    BY <1>1 DEF Connections, Stages
  <2>2. conn' = [conn EXCEPT ![c] = r]
    BY <1>4
  <2> HIDE DEF r
  <2>3. r.step = 1 /\ 1 \in DOMAIN ConfigsOf(k)
    BY <1>1, <2>1, ConfigsOfKinds DEF Fits
  <2>4. Fits(r)
    BY <1>1, <1>4, <2>1, <2>3 DEF Fits, Opens, ReadingOK, RouteOK
  <2> QED
    BY <1>1, <1>2, <2>1, <2>2, <2>4, HandlerKeeps
<1>5. CASE daemon # "sslhmux" /\ conn' = [conn EXCEPT ![c].stage = "dialing"]
  <2> DEFINE r == [conn[c] EXCEPT !.stage = "dialing"]
  <2>1. r \in Connections /\ r.stage = "dialing" /\ r.since = conn[c].since
    BY <1>1 DEF Connections, Stages
  <2>2. conn' = [conn EXCEPT ![c] = r]
    BY <1>5
  <2> HIDE DEF r
  <2>3. Fits(r)
    BY <1>1, <1>5, <2>1 DEF Fits, Opens, ReadingOK, RouteOK
  <2> QED
    BY <1>1, <1>2, <2>1, <2>2, <2>3, HandlerKeeps
<1> QED
  BY <1>3, <1>4, <1>5 DEF Peek, Greet

\* Without a descriptor the connection is judged by all that the process has seen.
LEMMA ReadKeeps ==
  ASSUME IInv, NEW c \in Conns, Read(c)
  PROVE  IInv'
<1> DEFINE f == ConfigOf(c)
           v == IF Full THEN Unread ELSE Now[f]
           r == [conn[c] EXCEPT !.stage = "note", !.seen = v, !.blind = conn[c].blind \/ Full]
<1>1. /\ conn[c] \in Connections /\ Fits(conn[c]) /\ conn[c].stage = "read" /\ Opens(conn[c])
      /\ HandlerOnly /\ UNCHANGED cache
  BY DEF IInv, TypeOK, Read, Opens
<1>2. cache' \in [Files -> Contents] /\ CacheOK'
  BY <1>1 DEF IInv, TypeOK, CacheOK, HandlerOnly
<1>3. /\ daemon = "sslhmux" /\ conn[c].kind \in Kinds /\ conn[c].step \in DOMAIN ConfigsOf(conn[c].kind)
      /\ conn[c].step = 2 => Missing \in At(conn[c], ConfigsOf(conn[c].kind)[1])
  BY <1>1 DEF Fits, ReadingOK
<1>4. f \in Files /\ f = ConfigsOf(conn[c].kind)[conn[c].step]
  BY <1>3, ConfigsOfKinds DEF ConfigOf
<1>5. Len(past) \in Nat /\ Now = past[Len(past)] /\ Now \in [Files -> Contents]
  BY DEF IInv, TypeOK, Now
<1>6. v \in Contents \cup {Unread} /\ (v = Unread <=> Full)
  BY <1>4, <1>5, ParametersOK
<1> HIDE DEF f
<1>7. conn' = [conn EXCEPT ![c] = r]
  BY <1>1 DEF Read, f, Connections
<1>8. ~Full => v = past[Len(past)][f]
  BY <1>5
<1> DEFINE b == conn[c].blind \/ Full
<1> HIDE DEF v, b
<1>9. r = [conn[c] EXCEPT !.stage = "note", !.seen = v, !.blind = b] /\ b \in BOOLEAN
  BY DEF b
<1>10. /\ r \in Connections /\ r.stage = "note" /\ r.since = conn[c].since
       /\ r.step = conn[c].step /\ r.kind = conn[c].kind /\ r.seen = v /\ r.blind = b
  BY <1>1, <1>6, <1>9 DEF Connections, Stages
<1> HIDE DEF r
<1>11. /\ From(r) \in 1..Len(past) /\ From(r) <= From(conn[c])
       /\ From(conn[c]) \in Nat
  BY <1>1, <1>5, <1>10, ParametersOK DEF From, Fits, Connections, b
<1>12. \A g : At(conn[c], g) \subseteq At(r, g)
  BY <1>5, <1>11 DEF At
<1>13. ReadingOK(r)
  <2>1. ~Full => v \in At(r, f)
    BY <1>5, <1>8, <1>11 DEF At
  <2> QED
    BY <1>3, <1>4, <1>6, <1>10, <1>12, <2>1 DEF ReadingOK, b
<1>14. Fits(r)
  BY <1>1, <1>10, <1>13 DEF Fits, Opens, RouteOK
<1> QED
  BY <1>1, <1>2, <1>7, <1>10, <1>14, HandlerKeeps

\* The next config, or the end of the lookup.
LEMMA LookupTypes ==
  ASSUME NEW x \in Connections, NEW n \in 1..2, NEW t \in Contents \cup {"default"}
  PROVE  /\ [x EXCEPT !.stage = "read", !.step = n] \in Connections
         /\ [x EXCEPT !.stage = "dialing", !.target = t, !.step = n, !.seen = Unread] \in Connections
BY DEF Connections, Stages

\* What was read may be another connection's; every config's last word goes to
\* the cache.
LEMMA NoteKeeps ==
  ASSUME IInv, NEW c \in Conns, Note(c)
  PROVE  IInv'
<1> DEFINE cs == ConfigsOf(conn[c].kind)
           f == ConfigOf(c)
           v == IF conn[c].seen = Unread THEN cache[f] ELSE conn[c].seen
           last == conn[c].step = Len(cs)
           next == [conn[c] EXCEPT !.stage = "read", !.step = conn[c].step + 1]
           t == Named(conn[c].kind, v)
<1>1. /\ TypeOK /\ conn[c] \in Connections /\ Fits(conn[c]) /\ conn[c].stage = "note" /\ Opens(conn[c])
      /\ HandlerOnly
  BY DEF IInv, TypeOK, Note, Opens
<1>2. /\ daemon = "sslhmux" /\ conn[c].kind \in Kinds /\ conn[c].step \in DOMAIN cs
      /\ conn[c].step = 2 => Missing \in At(conn[c], cs[1])
      /\ IF conn[c].seen = Unread THEN conn[c].blind ELSE conn[c].seen \in At(conn[c], f)
  BY <1>1 DEF Fits, ReadingOK, ConfigOf
<1>3. /\ f \in Files /\ f = cs[conn[c].step] /\ DOMAIN cs = 1..Len(cs) /\ Len(cs) \in {1, 2}
      /\ Len(cs) = 2 => cs[1] # cs[2]
      /\ cs[1] \in Files
  BY <1>2, ConfigsOfKinds DEF ConfigOf
<1>4. /\ Len(past) \in Nat \ {0} /\ past[Len(past)] \in [Files -> Contents]
      /\ \A i \in 1..Len(past) : past[i] \in [Files -> Contents]
  BY <1>1 DEF TypeOK
<1>5. From(conn[c]) \in 1..Len(past)
  BY <1>1, <1>4, ParametersOK DEF From, Fits, Connections
\* What it goes by was said at a moment it may be judged by.
<1>6. v \in At(conn[c], f)
  <2>1. CASE conn[c].seen = Unread
    <3>1. PICK i \in 1..Len(past) : cache[f] = past[i][f]
      BY <1>3 DEF IInv, CacheOK
    <3> QED
      BY <1>2, <2>1, <3>1 DEF At, From
  <2>2. CASE conn[c].seen # Unread
    BY <1>2, <2>2
  <2> QED
    BY <2>1, <2>2
<1>7. PICK i \in 1..Len(past) : v = past[i][f]
  BY <1>4, <1>5, <1>6 DEF At
<1>8. v \in Contents
  BY <1>3, <1>4, <1>7
<1>9. /\ cache' = [cache EXCEPT ![f] = v]
      /\ conn' = [conn EXCEPT ![c] = IF v = Missing /\ ~last THEN next ELSE Routed(c, t)]
  <2>1. cache' = [cache EXCEPT ![f] = v]
    BY DEF Note
  <2>2. conn' = [conn EXCEPT ![c] = IF v = Missing /\ ~last THEN next ELSE Routed(c, t)]
    BY DEF Note
  <2> QED
    BY <2>1, <2>2
<1>10. cache' \in [Files -> Contents] /\ CacheOK'
  <2> HIDE DEF f, v
  <2>1. cache \in [Files -> Contents]
    BY <1>1 DEF TypeOK
  <2> QED
    BY <1>1, <1>3, <1>7, <1>8, <1>9, <2>1 DEF HandlerOnly, IInv, CacheOK
<1>11. CASE v = Missing /\ ~last
  <2>1. conn' = [conn EXCEPT ![c] = next]
    BY <1>9, <1>11
  <2>2. conn[c].step = 1 /\ Len(cs) = 2
    <3>1. conn[c].step \in 1..Len(cs) /\ conn[c].step # Len(cs) /\ Len(cs) \in {1, 2}
      BY <1>2, <1>3, <1>11
    <3>2. Len(cs) = 2
      BY <3>1
    <3> QED
      BY <3>1, <3>2
  <2>3. /\ next \in Connections /\ next.stage = "read" /\ next.step = 2 /\ next.kind = conn[c].kind
        /\ next.since = conn[c].since /\ next.blind = conn[c].blind
    <3>1. next = [conn[c] EXCEPT !.stage = "read", !.step = 2]
      BY <2>2
    <3> HIDE DEF next
    <3>2. conn[c] \in Connections
      BY <1>1
    <3>3. /\ next.stage = "read" /\ next.step = 2 /\ next.kind = conn[c].kind
          /\ next.since = conn[c].since /\ next.blind = conn[c].blind
      BY <3>1, <3>2 DEF Connections
    <3>4. 2 \in 1..2 /\ Missing \in Contents \cup {"default"}
      BY DEF Contents
    <3>5. next \in Connections
      BY <3>1, <3>2, <3>4, LookupTypes
    <3> QED
      BY <3>3, <3>5
  <2>4. Missing \in At(conn[c], cs[1])
    BY <1>3, <1>6, <1>11, <2>2
  <2> HIDE DEF next
  <2>5. At(next, cs[1]) = At(conn[c], cs[1])
    BY <2>3 DEF At, From
  <2>6. ReadingOK(next)
    BY <1>2, <1>3, <2>2, <2>3, <2>4, <2>5 DEF ReadingOK
  <2>7. Fits(next)
    BY <1>1, <2>3, <2>6 DEF Fits, Opens, RouteOK
  <2> QED
    BY <1>1, <1>10, <2>1, <2>3, <2>7, HandlerKeeps
<1>12. CASE ~ (v = Missing /\ ~last)
  <2>1. conn' = [conn EXCEPT ![c] = Routed(c, t)]
    BY <1>9, <1>12
  <2>2. CASE t = NoPort \/ PointsAtSelf(t)
    <3>1. Routed(c, t) = NewConn("over")
      BY <2>2 DEF Routed
    <3> QED
      BY <1>1, <1>10, <2>1, <3>1, NewConnFits, HandlerKeeps
  <2>3. CASE ~ (t = NoPort \/ PointsAtSelf(t))
    <3> DEFINE r == [conn[c] EXCEPT !.stage = "dialing", !.target = t, !.step = 1, !.seen = Unread]
    <3>1. conn' = [conn EXCEPT ![c] = r] /\ t # Own
      BY <2>1, <2>3 DEF Routed, PointsAtSelf
    <3>2. t \in Contents \cup {"default"}
      BY <1>8 DEF Named, Default, Contents
    <3> HIDE DEF t, v, f
    <3>3. /\ r \in Connections /\ r.stage = "dialing" /\ r.target = t /\ r.kind = conn[c].kind
          /\ r.since = conn[c].since /\ r.blind = conn[c].blind
      <4>1. conn[c] \in Connections
        BY <1>1
      <4>2. /\ r.stage = "dialing" /\ r.target = t /\ r.kind = conn[c].kind
            /\ r.since = conn[c].since /\ r.blind = conn[c].blind
        BY <4>1 DEF Connections
      <4>3. 1 \in 1..2
        OBVIOUS
      <4>4. r \in Connections
        BY <3>2, <4>1, <4>3, LookupTypes
      <4> QED
        BY <4>2, <4>4
    <3> HIDE DEF r
    <3>4. \A g : At(r, g) = At(conn[c], g)
      BY <3>3 DEF At, From
    <3> DEFINE files == [g \in Files |-> IF g = f THEN v
                                        ELSE IF conn[c].step = 2 /\ g = cs[1] THEN Missing
                                        ELSE past[Len(past)][g]]
    <3>5. files \in [Files -> Contents]
      BY <1>4, <1>8 DEF Contents
    <3>6. \A g \in Files : files[g] \in At(r, g)
      <4>1. \A g \in Files : past[Len(past)][g] \in At(conn[c], g)
        BY <1>4, <1>5 DEF At
      <4> QED
        BY <1>2, <1>6, <3>4, <4>1
    <3>7. files[cs[conn[c].step]] = v /\ (conn[c].step = 2 => files[cs[1]] = Missing)
      BY <1>2, <1>3
    <3> HIDE DEF files
    <3>8. t = BackendOf(r.kind, files)
      BY <1>2, <1>12, <3>3, <3>5, <3>7, FirstThereCounts DEF t
    <3>9. Fits(r)
      BY <1>1, <3>1, <3>3, <3>5, <3>6, <3>8 DEF Fits, Opens, ReadingOK, RouteOK
    <3> QED
      BY <1>1, <1>10, <3>1, <3>3, <3>9, HandlerKeeps
  <2> QED
    BY <2>2, <2>3
<1> QED
  BY <1>11, <1>12

\* The backend answers, or not, and the session ends.
LEMMA DialKeeps ==
  ASSUME IInv, NEW c \in Conns, Dial(c) \/ Finish(c)
  PROVE  IInv'
<1>1. /\ conn[c] \in Connections /\ Fits(conn[c]) /\ conn[c].stage \in {"dialing", "bridged"}
      /\ Opens(conn[c]) /\ HandlerOnly /\ UNCHANGED cache
  BY DEF IInv, TypeOK, Dial, Finish, Opens
<1>2. cache' \in [Files -> Contents] /\ CacheOK'
  BY <1>1 DEF IInv, TypeOK, CacheOK, HandlerOnly
<1>3. CASE Drop(c)
  BY <1>1, <1>3, DropKeeps
<1>4. CASE ~Full /\ conn' = [conn EXCEPT ![c].stage = "bridged"]
  <2> DEFINE r == [conn[c] EXCEPT !.stage = "bridged"]
  <2>1. /\ r \in Connections /\ r.stage = "bridged" /\ r.since = conn[c].since
        /\ r.kind = conn[c].kind /\ r.target = conn[c].target /\ r.blind = conn[c].blind
    BY <1>1 DEF Connections, Stages
  <2>2. conn' = [conn EXCEPT ![c] = r]
    BY <1>4
  <2> HIDE DEF r
  <2>3. Fits(r)
    BY <1>1, <2>1 DEF Fits, Opens, ReadingOK, RouteOK, At, From
  <2> QED
    BY <1>1, <1>2, <1>4, <2>1, <2>2, <2>3, HandlerKeeps
<1> QED
  BY <1>3, <1>4 DEF Dial, Finish

\* A config changes: what it said before stays in the history.
LEMMA EditKeeps ==
  ASSUME IInv, NEW f \in Files, NEW v \in Contents, Edit(f, v)
  PROVE  IInv'
<1> DEFINE files == [Now EXCEPT ![f] = v]
<1>1. /\ TypeOK /\ past \in Seq([Files -> Contents]) /\ Len(past) \in Nat \ {0}
      /\ Len(past) <= events["edit"] + 1
  BY DEF IInv, TypeOK
<1>2. /\ UNCHANGED <<daemon, limit, unit, ctx, cache, conn>>
      /\ past' = Append(past, files) /\ events["edit"] < MaxEdits /\ Happens("edit")
  BY DEF Edit
<1>3. files \in [Files -> Contents]
  BY <1>1 DEF Now
<1> HIDE DEF files
<1>4. /\ past' \in Seq([Files -> Contents]) /\ Len(past') = Len(past) + 1
      /\ \A i \in 1..Len(past) : past'[i] = past[i]
  BY <1>1, <1>2, <1>3
<1>5. /\ events' \in [{"edit", "fault", "stop"} -> Nat] /\ events'["edit"] = events["edit"] + 1
      /\ events["edit"] \in Nat
  BY <1>1, <1>2, HappensCounts DEF TypeOK
<1>6. TypeOK'
  BY <1>1, <1>2, <1>4, <1>5, ParametersOK DEF TypeOK, Serving, Used, Open, Bridged
<1>7. IsFiniteSet(Open)'
  BY <1>2 DEF IInv, Open
<1>8. CacheOK'
  BY <1>1, <1>2, <1>4 DEF IInv, CacheOK
<1>9. \A c \in Conns : Fits(conn[c])'
  <2> SUFFICES ASSUME NEW c \in Conns PROVE Fits(conn[c])'
    OBVIOUS
  <2>1. conn[c] \in Connections /\ Fits(conn[c])
    BY DEF IInv, TypeOK
  <2> QED
    BY <1>1, <1>2, <1>4, <2>1, HistoryKeeps
<1>10. Len(past') <= events'["edit"] + 1 /\ events'["edit"] <= MaxEdits
  BY <1>1, <1>2, <1>4, <1>5, ParametersOK
<1> QED
  BY <1>6, <1>7, <1>8, <1>9, <1>10 DEF IInv

\* A new process remembers nothing of the old one.
LEMMA StartKeeps ==
  ASSUME IInv, Start
  PROVE  IInv'
<1>1. TypeOK /\ Now \in [Files -> Contents] /\ events["edit"] \in Nat
  BY DEF IInv, TypeOK, Now
<1>2. /\ UNCHANGED <<daemon, limit, conn, events>> /\ unit' = "accept" /\ ctx' = "live"
      /\ past' = <<Now>> /\ cache' = Now
  BY <1>1 DEF Start, Detected
<1>3. past' \in Seq([Files -> Contents]) /\ Len(past') = 1 /\ past'[1] = Now
  BY <1>1, <1>2
<1>4. TypeOK'
  BY <1>1, <1>2, <1>3, ParametersOK DEF TypeOK, Serving, Used, Open, Bridged
<1>5. IsFiniteSet(Open)' /\ CacheOK'
  BY <1>2, <1>3 DEF IInv, Open, CacheOK
<1>6. \A c \in Conns : Fits(conn[c])'
  <2> SUFFICES ASSUME NEW c \in Conns PROVE Fits(conn[c])'
    OBVIOUS
  <2>1. conn[c].stage \in {"idle", "over"} /\ Fits(conn[c])
    BY DEF IInv, TypeOK, Start
  <2> QED
    BY <1>2, <1>3, <2>1 DEF Fits, Opens, ReadingOK, RouteOK
<1> QED
  BY <1>1, <1>2, <1>3, <1>4, <1>5, <1>6 DEF IInv

-----------------------------------------------------------------------------
(* Theorems.                                                               *)

\* The invariant holds when the process starts.
LEMMA Initially == Init => IInv
<1> SUFFICES ASSUME Init PROVE IInv
  OBVIOUS
<1>1. PICK files \in AtFirst : past = <<files>> /\ cache = Detected(files)
  BY DEF Init
<1>2. files \in [Files -> Contents]
  BY ParametersOK
<1>3. past \in Seq([Files -> Contents]) /\ Len(past) = 1 /\ past[1] = files /\ cache = files
  BY <1>1, <1>2 DEF Detected
<1>4. Open = {} /\ Bridged = {}
  BY DEF Init, Open, Bridged, NewConn
<1>5. Used = 1
  BY <1>4, FS_EmptySet DEF Used
<1>6. NewConn("idle") \in Connections
  BY ParametersOK DEF NewConn, Connections, Stages, Contents
<1>7. TypeOK
  BY <1>2, <1>3, <1>5, <1>6, ParametersOK DEF Init, TypeOK, Serving
<1>8. \A c \in Conns : Fits(conn[c])
  BY <1>7, NewConnFits DEF Init
<1>9. events["edit"] = 0 /\ IsFiniteSet(Open) /\ CacheOK
  BY <1>3, <1>4, FS_EmptySet DEF Init, CacheOK
<1> QED
  BY <1>3, <1>7, <1>8, <1>9, ParametersOK DEF IInv

\* Every step.
LEMMA StepKeeps ==
  ASSUME IInv, [Next]_vars
  PROVE  IInv'
<1>1. ASSUME NEW c \in Conns, Arrive(c) \/ Accept(c) \/ Handle(c)
      PROVE  IInv'
  BY <1>1, ArriveKeeps, AcceptKeeps, PeekKeeps, ReadKeeps, NoteKeeps, DialKeeps DEF Handle
<1>2. ASSUME NEW f \in Files, NEW v \in Contents, Edit(f, v)
      PROVE  IInv'
  BY <1>2, EditKeeps
<1>3. TypeOK /\ events \in [{"edit", "fault", "stop"} -> Nat]
  BY DEF IInv, TypeOK
<1>4. CASE AcceptFails \/ AcceptBreaks
  <2>1. UNCHANGED events \/ Happens("fault")
    BY <1>4 DEF AcceptFails, AcceptBreaks
  <2>2. events' \in [{"edit", "fault", "stop"} -> Nat] /\ events'["edit"] = events["edit"]
    BY <1>3, <2>1, HappensCounts
  <2>3. UNCHANGED <<daemon, limit, ctx, past, cache>> /\ Serving /\ ctx \in {"live", "done"}
    BY <1>3, <1>4 DEF AcceptFails, AcceptBreaks, Serving, TypeOK
  <2>4. CASE Exit("restarting") \/ Exit("stopped")
    BY <2>2, <2>3, <2>4, ExitKeeps
  <2>5. CASE unit' = "backoff" /\ UNCHANGED conn
    BY <2>2, <2>3, <2>5, LoopKeeps
  <2> QED
    BY <1>4, <2>4, <2>5 DEF AcceptFails, AcceptBreaks
<1>5. CASE Retry \/ Stop
  <2>1. UNCHANGED events \/ Happens("stop")
    BY <1>5 DEF Retry, Stop
  <2>2. events' \in [{"edit", "fault", "stop"} -> Nat] /\ events'["edit"] = events["edit"]
    BY <1>3, <2>1, HappensCounts
  <2>3. /\ UNCHANGED <<daemon, limit, past, cache, conn>> /\ Serving
        /\ ctx' \in {"live", "done"} /\ unit' \in {"accept", "backoff"}
    BY <1>3, <1>5 DEF Retry, Stop, Serving, TypeOK
  <2> QED
    BY <2>2, <2>3, LoopKeeps
<1>6. CASE Stopped
  BY <1>3, <1>6, ExitKeeps DEF Stopped
<1>7. CASE Start
  BY <1>7, StartKeeps
<1>8. CASE UNCHANGED vars
  <2>1. UNCHANGED <<daemon, limit, unit, ctx, past, cache, conn, events>>
    BY <1>8 DEF vars
  <2>2. TypeOK'
    BY <1>3, <2>1 DEF TypeOK, Serving, Used, Open, Bridged
  <2>3. \A c \in Conns : Fits(conn[c])'
    BY <2>1 DEF IInv, Fits, Opens, ReadingOK, RouteOK, At, From
  <2> QED
    BY <2>1, <2>2, <2>3 DEF IInv, CacheOK, Open
<1> QED
  BY <1>1, <1>2, <1>4, <1>5, <1>6, <1>7, <1>8 DEF Next, Loop

\* The invariant the theorems rest on.
THEOREM Invariance == Spec => []IInv
<1>1. IInv /\ [Next]_vars => IInv'
  BY StepKeeps
<1> QED
  BY Initially, <1>1, PTL DEF Spec

\* The process never holds more descriptors than it may (acceptloop.Serve), and
\* no session or waiting client outlives it.
THEOREM TypeCorrect == Spec => []TypeOK
<1>1. IInv => TypeOK
  BY DEF IInv
<1> QED
  BY Invariance, <1>1, PTL

\* A client of the multiplexer is sent where its protocol's configs say, whatever
\* other connections read and note while they change (detect.go, readLive).
THEOREM ConfiguredRoutes == Spec => []RoutedAsConfigured
<1>1. IInv => RoutedAsConfigured
  BY DEF IInv, Fits, RouteOK, At, From, RoutedAsConfigured, RoutedBy
<1> QED
  BY Invariance, <1>1, PTL

-----------------------------------------------------------------------------
(* One bridged connection (module Bridge, whose state is declared here to   *)
(* instantiate it): its counters keep their order, for any number of bytes, *)
(* window and peek.                                                         *)

CONSTANTS MaxUp, MaxDown, Window, PeekLen
VARIABLES server, stage, client, backend, csock, bsock, up, down

B == INSTANCE Bridge WITH daemon <- server

UpRecords == [pc : {"copy", "eof", "close", "closing", "done"},
              read : Nat, taken : Nat, put : Nat, kept : Nat]

Records ==
  /\ client \in [sent : Nat, end : {"open", "fin", "reset"}, got : Nat]
  /\ backend \in [sent : Nat, end : {"open", "answered", "quit", "reset"}, got : Nat,
                  eof : BOOLEAN]
  /\ up \in UpRecords
  /\ down \in [pc : {"copy", "close", "closing", "done"}, taken : Nat, put : Nat]

\* What TypeOK says of the counters, with the fact that makes it inductive: a
\* proxy that reads its request has read nothing before.
Counters ==
  /\ backend.got <= B!Passed /\ up.put <= up.taken
  /\ up.taken <= up.put + 1 /\ up.taken <= up.read /\ up.read <= client.sent
  /\ client.got <= down.put /\ down.put <= down.taken
  /\ down.taken <= down.put + 1 /\ down.taken <= backend.sent

NothingRead ==
  stage = "early" /\ server = "proxy" => up.read = 0 /\ up.taken = 0 /\ up.put = 0

Controls ==
  /\ server \in {"ssltunnel", "sslhmux", "proxy"}
  /\ stage \in {"early", "split", "dialing", "replying", "bridging", "over"}
  /\ csock \in {"open", "half", "closed", "reset"}
  /\ bsock \in {"none", "open", "half", "closed", "reset"}

BridgeInv == Records /\ Controls /\ Counters /\ NothingRead

LEMMA BridgeStarts == B!Init => BridgeInv
  BY DEF B!Init, BridgeInv, Records, UpRecords, Controls, Counters, NothingRead, B!Passed

\* The peers' steps.
LEMMA PeersKeep ==
  ASSUME BridgeInv,
         \/ B!ClientSend \/ B!ClientFin \/ B!ClientReset \/ B!ClientRead
         \/ B!BackendSend \/ B!BackendRead \/ B!BackendEof \/ B!BackendEnd \/ B!BackendReset
  PROVE  BridgeInv'
<1> USE DEF BridgeInv, Records, UpRecords, Controls, Counters, NothingRead, B!Passed, B!AfterClose
<1>1. CASE B!ClientSend
  BY <1>1 DEF B!ClientSend
<1>2. CASE B!ClientFin
  BY <1>2 DEF B!ClientFin
<1>3. CASE B!ClientReset
  BY <1>3 DEF B!ClientReset
<1>4. CASE B!ClientRead
  BY <1>4 DEF B!ClientRead
<1>5. CASE B!BackendSend
  BY <1>5 DEF B!BackendSend
<1>6. CASE B!BackendRead
  BY <1>6 DEF B!BackendRead
<1>7. CASE B!BackendEof
  <2>1. backend' = [backend EXCEPT !.eof = TRUE]
    BY <1>7 DEF B!BackendEof
  <2>2. /\ backend' \in [sent : Nat, end : {"open", "answered", "quit", "reset"}, got : Nat,
                          eof : BOOLEAN]
        /\ backend'.sent = backend.sent /\ backend'.got = backend.got
    BY <2>1
  <2> QED
    BY <1>7, <2>2 DEF B!BackendEof
<1>8. CASE B!BackendEnd
  BY <1>8 DEF B!BackendEnd
<1>9. CASE B!BackendReset
  BY <1>9 DEF B!BackendReset
<1> QED
  BY <1>1, <1>2, <1>3, <1>4, <1>5, <1>6, <1>7, <1>8, <1>9

Kept(n) ==
  /\ up' \in UpRecords
  /\ up'.read = up.read + n /\ up'.taken = up.taken + n
  /\ up'.put = up.put + n /\ up'.kept = up.kept + n

\* The request counts as read, taken, written and withheld alike.
LEMMA KeepAddsAlike ==
  ASSUME NEW n \in Nat, up \in UpRecords, B!Keep(n)
  PROVE  Kept(n)
<1>1. up' = [up EXCEPT !.read = up.read + n, !.taken = up.taken + n, !.put = up.put + n,
                       !.kept = up.kept + n]
  BY DEF B!Keep
<1>2. /\ up.read + n \in Nat /\ up.taken + n \in Nat
      /\ up.put + n \in Nat /\ up.kept + n \in Nat
  BY DEF UpRecords
<1>3. up' \in UpRecords
  BY <1>1, <1>2 DEF UpRecords
<1>4. up'.read = up.read + n /\ up'.taken = up.taken + n
  BY <1>1 DEF UpRecords
<1>5. up'.put = up.put + n /\ up'.kept = up.kept + n
  BY <1>1 DEF UpRecords
<1> QED
  BY <1>3, <1>4, <1>5 DEF Kept

\* The handler's steps before the bridge.
LEMMA EarlyKeeps ==
  ASSUME BridgeInv, B!PeekByte \/ B!Early
  PROVE  BridgeInv'
<1> USE DEF BridgeInv, Records, UpRecords, Controls, Counters, NothingRead, B!Passed
<1>1. CASE B!PeekByte
  <2>1. up' = [up EXCEPT !.read = @ + 1] /\ up.read < client.sent /\ server = "sslhmux"
    BY <1>1 DEF B!PeekByte
  <2>2. /\ up' \in UpRecords
        /\ up'.read = up.read + 1 /\ up'.taken = up.taken
        /\ up'.put = up.put /\ up'.kept = up.kept
    BY <2>1
  <2>3. UNCHANGED <<server, stage, client, backend, csock, bsock, down>>
    BY <1>1 DEF B!PeekByte, B!peers
  <2>4. up'.read <= client'.sent
    BY <2>1, <2>2, <2>3
  <2> QED
    BY <2>1, <2>2, <2>3, <2>4
<1>2. CASE B!EndPeek
  BY <1>2 DEF B!EndPeek, B!GiveUp, B!GoOn, B!ClosedClient, B!Live, B!peers
<1>3. CASE B!Handshake
  BY <1>3 DEF B!Handshake, B!GiveUp, B!GoOn, B!ClosedClient, B!Live, B!peers
<1>4. CASE B!ReadRequest
  <2>1. CASE B!GiveUp
    BY <2>1 DEF B!GiveUp, B!ClosedClient, B!Live, B!peers
  <2>2. ASSUME NEW n \in 1..client.sent, B!Keep(n), stage' \in B!AfterRequest,
               UNCHANGED <<server, B!peers, csock, bsock, down>>,
               server = "proxy", stage = "early"
        PROVE  BridgeInv'
    <3>1. n \in Nat /\ n <= client.sent /\ up.read = 0 /\ up.taken = 0 /\ up.put = 0
      BY <2>2
    <3>2. Kept(n)
      BY <2>2, <3>1, KeepAddsAlike
    <3>3. /\ stage' \in {"split", "dialing"}
          /\ UNCHANGED <<server, client, backend, csock, bsock, down>>
      BY <2>2 DEF B!AfterRequest, B!peers
    <3> QED
      BY <3>1, <3>2, <3>3 DEF Kept
  <2> QED
    BY <1>4, <2>1, <2>2 DEF B!ReadRequest
<1>5. CASE B!ReadSplit
  <2>1. stage' = "dialing" /\ UNCHANGED <<server, B!peers, csock, bsock, down>>
    BY <1>5 DEF B!ReadSplit
  <2>2. CASE UNCHANGED up
    BY <2>1, <2>2 DEF B!peers
  <2>3. ASSUME NEW n \in 1..(client.sent - up.read), B!Keep(n)
        PROVE  BridgeInv'
    <3>1. n \in Nat /\ up.read + n <= client.sent
      BY <2>3
    <3>2. Kept(n)
      BY <2>3, <3>1, KeepAddsAlike
    <3>3. stage' = "dialing" /\ UNCHANGED <<server, client, backend, csock, bsock, down>>
      BY <2>1 DEF B!peers
    <3> QED
      BY <3>1, <3>2, <3>3 DEF Kept
  <2> QED
    BY <1>5, <2>2, <2>3 DEF B!ReadSplit
<1>6. CASE B!Dial
  BY <1>6 DEF B!Dial, B!GiveUp, B!GoOn, B!ClosedClient, B!Live, B!peers
<1>7. CASE B!Reply
  BY <1>7 DEF B!Reply, B!ClosedClient, B!ClosedBackend, B!Live, B!peers
<1> QED
  BY <1>1, <1>2, <1>3, <1>4, <1>5, <1>6, <1>7 DEF B!Early

\* A piece read from the socket counts as read and as taken.
Took ==
  /\ up' \in UpRecords
  /\ up'.read = up.read + 1 /\ up'.taken = up.taken + 1
  /\ up'.put = up.put /\ up'.kept = up.kept

LEMMA TakesOne ==
  ASSUME up \in UpRecords, up' = [up EXCEPT !.read = @ + 1, !.taken = @ + 1]
  PROVE  Took
<1>1. up.read + 1 \in Nat /\ up.taken + 1 \in Nat
  BY DEF UpRecords
<1>2. up' = [up EXCEPT !.read = up.read + 1, !.taken = up.taken + 1]
  OBVIOUS
<1>3. up' \in UpRecords
  BY <1>1, <1>2 DEF UpRecords
<1>4. up'.read = up.read + 1 /\ up'.taken = up.taken + 1
  BY <1>2 DEF UpRecords
<1>5. up'.put = up.put /\ up'.kept = up.kept
  BY <1>2 DEF UpRecords
<1> QED
  BY <1>3, <1>4, <1>5 DEF Took

\* The two goroutines, and the return.
LEMMA PipeKeeps ==
  ASSUME BridgeInv, B!UpStep \/ B!DownStep \/ B!Return
  PROVE  BridgeInv'
<1> USE DEF BridgeInv, Records, UpRecords, Controls, Counters, NothingRead, B!Passed, B!Copying,
            B!InHand, B!Live, B!peers, B!UpGoes, B!DownGoes
<1>1. CASE B!UpRead
  <2>1. /\ up.put = up.taken /\ stage = "bridging"
        /\ UNCHANGED <<server, stage, client, backend, csock, bsock, down>>
    BY <1>1 DEF B!UpRead
  <2>2. CASE up.taken < up.read /\ up' = [up EXCEPT !.taken = @ + 1]
    <3>1. /\ up' \in UpRecords /\ up'.read = up.read /\ up'.taken = up.taken + 1
          /\ up'.put = up.put /\ up'.kept = up.kept
      BY <2>2
    <3> QED
      BY <2>1, <2>2, <3>1
  <2>3. CASE /\ up.taken = up.read /\ up.read < client.sent
             /\ up' = [up EXCEPT !.read = @ + 1, !.taken = @ + 1]
    <3>1. Took
      BY <2>3, TakesOne
    <3> QED
      BY <2>1, <2>3, <3>1 DEF Took
  <2> QED
    BY <1>1, <2>2, <2>3 DEF B!UpRead
<1>2. CASE B!UpWrite
  BY <1>2 DEF B!UpWrite
<1>3. CASE B!UpFails
  BY <1>3 DEF B!UpFails
<1>4. CASE B!UpEof
  BY <1>4 DEF B!UpEof
<1>5. CASE B!CloseWrite
  BY <1>5 DEF B!CloseWrite
<1>6. CASE B!UpCloses
  BY <1>6 DEF B!UpCloses, B!CloseBoth, B!ClosedClient, B!ClosedBackend
<1>7. CASE B!DownRead
  BY <1>7 DEF B!DownRead
<1>8. CASE B!DownWrite
  BY <1>8 DEF B!DownWrite
<1>9. CASE B!DownEnds
  BY <1>9 DEF B!DownEnds
<1>10. CASE B!DownCloses
  BY <1>10 DEF B!DownCloses, B!CloseBoth, B!ClosedClient, B!ClosedBackend
<1>11. CASE B!Return
  BY <1>11 DEF B!Return, B!ClosedClient, B!ClosedBackend
<1> QED
  BY <1>1, <1>2, <1>3, <1>4, <1>5, <1>6, <1>7, <1>8, <1>9, <1>10, <1>11 DEF B!UpStep, B!DownStep

\* Bytes are copied in order and once: no goroutine writes what it has not read
\* or reads what was not sent, each holds one piece at a time, and no peer gets
\* more than was written for it (Pipe, handleMuxConn, handleConn).
THEOREM CountersInOrder == B!Spec => []B!TypeOK
<1>1. B!Init => BridgeInv
  BY BridgeStarts
<1>2. BridgeInv /\ [B!Next]_(B!vars) => BridgeInv'
  <2> SUFFICES ASSUME BridgeInv, [B!Next]_(B!vars)
               PROVE  BridgeInv'
    OBVIOUS
  <2>1. CASE UNCHANGED B!vars
    BY <2>1 DEF B!vars, B!peers, BridgeInv, Records, Controls, Counters, NothingRead, B!Passed
  <2>2. CASE B!Next
    BY <2>2, PeersKeep, EarlyKeeps, PipeKeeps DEF B!Next
  <2> QED
    BY <2>1, <2>2
<1>3. BridgeInv => B!TypeOK
  <2> SUFFICES ASSUME BridgeInv
               PROVE  B!TypeOK
    OBVIOUS
  <2>1. backend.eof \in BOOLEAN /\ backend.end \in {"open", "answered", "quit", "reset"}
    BY DEF BridgeInv, Records
  <2>2. client.end \in {"open", "fin", "reset"} /\ 0 <= client.got /\ 0 <= backend.got
    BY DEF BridgeInv, Records
  <2>3. /\ up.pc \in {"copy", "eof", "close", "closing", "done"} /\ 0 <= up.kept
        /\ down.pc \in {"copy", "close", "closing", "done"}
    BY DEF BridgeInv, Records, UpRecords
  <2> QED
    BY <2>1, <2>2, <2>3 DEF BridgeInv, Controls, Counters, B!TypeOK
<1> QED
  BY <1>1, <1>2, <1>3, PTL DEF B!Spec

==============================================================================
