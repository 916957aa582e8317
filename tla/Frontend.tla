------------------------------- MODULE Frontend -------------------------------
(***************************************************************************)
(* One of the daemons at the door: the SSLH multiplexer, the SSL tunnel or *)
(* an HTTP proxy, with the connections it accepts.  Its process and unit,  *)
(* the accept loop and its errors (acceptloop.Serve, proxy.Serve), the     *)
(* descriptors the process may hold, and the backend each connection is    *)
(* given: the multiplexer reads it from the configs of the services behind *)
(* it while they are being edited (sslhmux/detect.go).  What one bridged   *)
(* connection does is module Bridge.                                       *)
(*                                                                         *)
(* A config is its port, NoPort when it names none, or Missing.  An open   *)
(* fails only for want of a descriptor.                                    *)
(***************************************************************************)
EXTENDS Integers, Sequences, FiniteSetsExt

CONSTANTS
  Conns,      \* connections to come, each once
  Daemons,    \* which daemons Init chooses from
  Kinds,      \* protocols that clients speak: of "ssh", "ssl", "http", "other"
  Limits,     \* Init chooses how many descriptors the process may hold
  Ports, Own, \* ports in configs, and the multiplexer's own
  NoPort, Missing, Unread,
  AtFirst,    \* bound: what the configs may say when the multiplexer starts
  MaxEdits,   \* bound: changes of a config
  MaxFaults,  \* bound: accept errors that do not come from the descriptors
  MaxStops    \* bound: stops and restarts by the operator

Contents == Ports \cup {Own, NoPort, Missing}

\* The configs that tell a protocol's backend, the first that is there counts.
ConfigsOf(kind) ==
  CASE kind = "ssh"   -> <<"sshd_config">>
    [] kind = "ssl"   -> <<"ssltunnel.json">>
    [] kind = "http"  -> <<"squid.conf">>
    [] kind = "other" -> <<"server.conf", "server/server.conf">>

Files == UNION {{ConfigsOf(k)[i] : i \in DOMAIN ConfigsOf(k)} : k \in Kinds}

ASSUME ParametersOK ==
  /\ Kinds \subseteq {"ssh", "ssl", "http", "other"}
  /\ Daemons \subseteq {"sslhmux", "ssltunnel", "proxy"}
  /\ Limits \subseteq Nat \ {0}
  /\ Missing \notin Ports \cup {Own, NoPort} /\ Unread \notin Contents
  /\ AtFirst \subseteq [Files -> Contents] /\ MaxEdits \in Nat /\ MaxFaults \in Nat /\ MaxStops \in Nat

VARIABLES
  daemon, limit,
  unit,    \* "accept" and "backoff" while the process serves; "restarting"
           \* after an error, "stopped" after a stop
  ctx,     \* "live", or "done" after SIGTERM
  past,    \* the configs since the process started, in order; the last are now's
  cache,   \* lastConf and lastTunnelPort, of this process
  conn,    \* of each connection: its stage and, from accept, what is below
  events   \* how often what was bounded above has happened

vars == <<daemon, limit, unit, ctx, past, cache, conn, events>>

\* kind: its protocol; step: which config it reads next; seen: what it just
\* read; since: the state of the configs it was accepted in; blind: a read of
\* its failed; target: its backend.
NewConn(stage) ==
  [stage |-> stage, kind |-> "none", step |-> 1, seen |-> Unread,
   since |-> 1, blind |-> FALSE, target |-> Missing]

Stages == {"idle", "queued", "early", "read", "note", "dialing", "bridged", "over"}

Serving == unit \in {"accept", "backoff"}
Now == past[Len(past)]

\* The listener, one descriptor per connection, two once it has a backend.
Open == {c \in Conns : conn[c].stage \notin {"idle", "queued", "over"}}
Bridged == {c \in Conns : conn[c].stage = "bridged"}
Used == 1 + Cardinality(Open) + Cardinality(Bridged)
Full == Used >= limit

Happens(e) == events' = [events EXCEPT ![e] = @ + 1]

\* Detect at the start reads every config.
Detected(files) == [f \in Files |-> files[f]]

Init ==
  /\ daemon \in Daemons /\ limit \in Limits
  /\ unit = "accept" /\ ctx = "live"
  /\ \E files \in AtFirst : past = <<files>> /\ cache = Detected(files)
  /\ daemon # "sslhmux" => \A f \in Files : Now[f] = Missing
  /\ conn = [c \in Conns |-> NewConn("idle")]
  /\ events = [e \in {"edit", "fault", "stop"} |-> 0]

-----------------------------------------------------------------------------
(* Clients, and the operator who edits configs (Ports models the menus).   *)

Arrive(c) ==
  /\ conn[c].stage = "idle" /\ Serving
  /\ conn' = [conn EXCEPT ![c].stage = "queued"]
  /\ UNCHANGED <<daemon, limit, unit, ctx, past, cache, events>>

Edit(f, v) ==
  /\ daemon = "sslhmux" /\ events["edit"] < MaxEdits /\ Now[f] # v
  /\ past' = Append(past, [Now EXCEPT ![f] = v])
  /\ Happens("edit")
  /\ UNCHANGED <<daemon, limit, unit, ctx, cache, conn>>

-----------------------------------------------------------------------------
(* The accept loop.                                                        *)

\* MUTANT: the loop ends and the handlers go on.
ExitAlone(next) ==
  /\ unit' = next
  /\ UNCHANGED conn

\* The process is gone, with its sessions and whoever was in the listener's queue.
Exit(next) ==
  /\ unit' = next
  /\ conn' = [c \in Conns |-> IF conn[c].stage \in {"idle", "over"} THEN conn[c]
                              ELSE NewConn("over")]

Accept(c) ==
  /\ unit = "accept" /\ conn[c].stage = "queued" /\ ~Full
  /\ conn' = [conn EXCEPT ![c].stage = "early", ![c].since = Len(past)]
  /\ UNCHANGED <<daemon, limit, unit, ctx, past, cache, events>>

\* MUTANT: EMFILE ends the loop like an error of the listener.
AcceptFailsHard ==
  /\ unit = "accept" /\ Full
  /\ Exit("restarting")
  /\ UNCHANGED <<daemon, limit, ctx, past, cache, events>>

\* A temporary error: no descriptor is left, or a client gave up in the queue.
\* After a stop, the end.
AcceptFails ==
  /\ unit = "accept"
  /\ \/ Full /\ UNCHANGED events
     \/ events["fault"] < MaxFaults /\ Happens("fault")
  /\ IF ctx = "live" THEN unit' = "backoff" /\ UNCHANGED conn ELSE Exit("stopped")
  /\ UNCHANGED <<daemon, limit, ctx, past, cache>>

\* Any other error is returned, and systemd restarts the unit.
AcceptBreaks ==
  /\ unit = "accept" /\ events["fault"] < MaxFaults
  /\ Happens("fault")
  /\ IF ctx = "live" THEN Exit("restarting") ELSE Exit("stopped")
  /\ UNCHANGED <<daemon, limit, ctx, past, cache>>

Retry ==
  /\ unit = "backoff"
  /\ unit' = "accept"
  /\ UNCHANGED <<daemon, limit, ctx, past, cache, conn, events>>

\* SIGTERM, which cancels the context.
Stop ==
  /\ Serving /\ ctx = "live" /\ events["stop"] < MaxStops
  /\ ctx' = "done" /\ Happens("stop")
  /\ UNCHANGED <<daemon, limit, unit, past, cache, conn>>

\* The listener is closed and Accept returns; the sleep of acceptloop ends with
\* the context, that of the proxy does not.
Stopped ==
  /\ ctx = "done"
  /\ \/ unit = "accept"
     \/ unit = "backoff" /\ daemon # "proxy"
  /\ Exit("stopped")
  /\ UNCHANGED <<daemon, limit, ctx, past, cache, events>>

\* By systemd after an error, by the operator after a stop.
Start ==
  /\ ~Serving
  /\ unit' = "accept" /\ ctx' = "live"
  /\ past' = <<Now>> /\ cache' = Detected(Now)
  /\ UNCHANGED <<daemon, limit, conn, events>>

-----------------------------------------------------------------------------
(* One connection.                                                         *)

Drop(c) == conn' = [conn EXCEPT ![c] = NewConn("over")]

HandlerOnly == UNCHANGED <<daemon, limit, unit, ctx, past, events>>

\* classify: any first bytes may come, and a short or strange beginning counts
\* as the protocol without a mark of its own.  Nothing at all, and it is over.
Peek(c) ==
  /\ daemon = "sslhmux" /\ conn[c].stage = "early"
  /\ \/ \E k \in Kinds : conn' = [conn EXCEPT ![c].stage = "read", ![c].kind = k]
     \/ Drop(c)
  /\ HandlerOnly /\ UNCHANGED cache

\* The tunnel's handshake, the proxy's request: the backend is not looked up.
Greet(c) ==
  /\ daemon # "sslhmux" /\ conn[c].stage = "early"
  /\ \/ conn' = [conn EXCEPT ![c].stage = "dialing"]
     \/ Drop(c)
  /\ HandlerOnly /\ UNCHANGED cache

ConfigOf(c) == ConfigsOf(conn[c].kind)[conn[c].step]

\* readConf, outside the mutex.
Read(c) ==
  /\ conn[c].stage = "read"
  /\ conn' = [conn EXCEPT ![c].stage = "note",
                          ![c].seen = IF Full THEN Unread ELSE Now[ConfigOf(c)],
                          ![c].blind = @ \/ Full]
  /\ HandlerOnly /\ UNCHANGED cache

\* The port where a service listens whose config names none, or is not there.
Default(kind) == IF kind \in {"ssh", "other"} THEN "default" ELSE NoPort

Named(kind, v) == IF v \in {NoPort, Missing} THEN Default(kind) ELSE v

PointsAtSelf(t) == t = Own

\* handleMuxConn: no backend, or the multiplexer itself.
Routed(c, t) ==
  IF t = NoPort \/ PointsAtSelf(t) THEN NewConn("over")
  ELSE [conn[c] EXCEPT !.stage = "dialing", !.target = t, !.step = 1, !.seen = Unread]

\* MUTANT: an unreadable config counts as missing.
NoteBlindly(c) ==
  /\ conn[c].stage = "note"
  /\ LET v == IF conn[c].seen = Unread THEN Missing ELSE conn[c].seen
         last == conn[c].step = Len(ConfigsOf(conn[c].kind)) IN
       /\ cache' = [cache EXCEPT ![ConfigOf(c)] = v]
       /\ conn' = [conn EXCEPT ![c] =
            IF v = Missing /\ ~last THEN [conn[c] EXCEPT !.stage = "read", !.step = @ + 1]
            ELSE Routed(c, Named(conn[c].kind, v))]
  /\ HandlerOnly

\* readLive under its mutex: what was read is kept for those who cannot read.
Note(c) ==
  /\ conn[c].stage = "note"
  /\ LET v == IF conn[c].seen = Unread THEN cache[ConfigOf(c)] ELSE conn[c].seen
         last == conn[c].step = Len(ConfigsOf(conn[c].kind)) IN
       /\ cache' = [cache EXCEPT ![ConfigOf(c)] = v]
       /\ conn' = [conn EXCEPT ![c] =
            IF v = Missing /\ ~last THEN [conn[c] EXCEPT !.stage = "read", !.step = @ + 1]
            ELSE Routed(c, Named(conn[c].kind, v))]
  /\ HandlerOnly

\* It fails without a descriptor, and for the backend's reasons.
Dial(c) ==
  /\ conn[c].stage = "dialing"
  /\ \/ ~Full /\ conn' = [conn EXCEPT ![c].stage = "bridged"]
     \/ Drop(c)
  /\ HandlerOnly /\ UNCHANGED cache

\* Bridge!EndsWithPeers.
Finish(c) ==
  /\ conn[c].stage = "bridged"
  /\ Drop(c)
  /\ HandlerOnly /\ UNCHANGED cache

Handle(c) == Peek(c) \/ Greet(c) \/ Read(c) \/ Note(c) \/ Dial(c) \/ Finish(c)

-----------------------------------------------------------------------------
Loop == (\E c \in Conns : Accept(c)) \/ AcceptFails \/ Retry

Next ==
  \/ \E c \in Conns : Arrive(c) \/ Handle(c)
  \/ \E f \in Files, v \in Contents : Edit(f, v)
  \/ Loop \/ AcceptBreaks \/ Stop \/ Stopped \/ Start

Spec == Init /\ [][Next]_vars

\* The loop and the handlers run, sessions end (their peers do, Bridge), and the
\* closed listener makes Accept return.
Fairness ==
  /\ WF_vars(Loop) /\ WF_vars(Stopped)
  /\ \A c \in Conns : WF_vars(Handle(c))

FairSpec == Spec /\ Fairness

-----------------------------------------------------------------------------
(* Properties.                                                             *)

Connections ==
  [stage : Stages, kind : Kinds \cup {"none"}, step : 1..2, seen : Contents \cup {Unread},
   since : 1..(MaxEdits + 1), blind : BOOLEAN, target : Contents \cup {"default"}]

\* The variables hold what the code can put there; the process never holds more
\* descriptors than it may, and no session or waiting client outlives it.
TypeOK ==
  /\ daemon \in Daemons /\ limit \in Limits
  /\ unit \in {"accept", "backoff", "restarting", "stopped"} /\ ctx \in {"live", "done"}
  /\ past \in Seq([Files -> Contents]) /\ Len(past) \in 1..(MaxEdits + 1)
  /\ cache \in [Files -> Contents]
  /\ conn \in [Conns -> Connections]
  /\ ~Serving => \A c \in Conns : conn[c].stage \in {"idle", "over"}
  /\ Used <= limit
  /\ events \in [{"edit", "fault", "stop"} -> Nat]

\* What detect.go promises of a protocol's backend when the configs are files.
BackendOf(kind, files) ==
  LET cs == ConfigsOf(kind)
      there == {i \in DOMAIN cs : files[cs[i]] # Missing} IN
  IF there = {} THEN Default(kind)
  ELSE Named(kind, files[cs[Min(there)]])

\* The states of the configs connection c may have been routed by: those since
\* it was accepted or, if it found one unreadable, those since the process
\* started; each config may have been read in another of them.
RoutedBy(c) ==
  LET from == IF conn[c].blind THEN 1 ELSE conn[c].since
      at(f) == {past[i][f] : i \in from..Len(past)} IN
  {files \in [Files -> Contents] : \A f \in Files : files[f] \in at(f)}

\* A client is sent where its protocol's config says, as it is now and not when
\* the multiplexer started; while configs cannot be opened, where it said before,
\* never to a default port the service was moved away from; and never back to
\* the multiplexer (detect.go:14-18, 41-45, 199-202), whatever other connections
\* read and note meanwhile.
RoutedAsConfigured ==
  \A c \in Conns :
    daemon = "sslhmux" /\ conn[c].stage \in {"dialing", "bridged"}
      => /\ conn[c].target # Own
         /\ \E files \in RoutedBy(c) : conn[c].target = BackendOf(conn[c].kind, files)

\* acceptloop.go:1-4, 42-49: running out of descriptors neither ends the daemon
\* nor keeps clients out for good: one that waits is accepted once descriptors
\* are free again, unless an error of another kind or a stop intervenes; and a
\* stop is not held up by live sessions or a backoff (handler.go:95-98).
AcceptsOrStops ==
  /\ \A c \in Conns :
       conn[c].stage = "queued"
         ~> \/ conn[c].stage \notin {"queued", "over"}
            \/ events["fault"] > 0 \/ events["stop"] > 0
  /\ ctx = "done" ~> ctx = "live" \/ ~Serving

=============================================================================
