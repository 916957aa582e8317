--------------------------- MODULE TrafficAccounting ---------------------------
(***************************************************************************)
(* How bytes counted by the xray daemon become `clients.used_bytes`.       *)
(*                                                                         *)
(* The daemon keeps one absolute counter per user and direction; the       *)
(* panel's stats loop reads them every ten seconds through a subprocess,   *)
(* turns them into deltas against the in-memory map `prev`, and adds the   *)
(* deltas to every client row with that email                              *)
(* (src/internal/xray/stats.go).  Three other actors touch the same        *)
(* numbers: an admin resetting clients (api_client_ops.go,                 *)
(* api_inbound_ops.go), a restart of the daemon, which zeroes its          *)
(* counters, and a restart of the panel, which forgets `prev`.             *)
(*                                                                         *)
(* One byte of the model is any amount of traffic.  The history variables  *)
(* record what happened: the bounds and the properties read them, no       *)
(* condition of the program does.                                          *)
(***************************************************************************)
EXTENDS Integers

CONSTANTS
  Clients,           \* rows of the clients table
  Emails,            \* user names the daemon counts under
  EmailOf,           \* the email column of each row; two rows may share one
  MaxBytes,          \* bound: bytes carried per counter
  MaxXrayRestarts,   \* bound: restarts of the daemon
  MaxPanelRestarts,  \* bound: restarts of the panel
  MaxResets,         \* bound: admin resets
  MaxResetFaults,    \* bound: reset subprocesses the daemon does not answer
  MaxPollFaults,     \* bound: polls that fail after the daemon answered
  MaxPersistFaults   \* bound: polls whose database transaction fails

ASSUME RowsHaveEmails == Clients # {} /\ EmailOf \in [Clients -> Emails]

ASSUME BoundsAreNat ==
  /\ MaxBytes \in Nat        /\ MaxXrayRestarts \in Nat
  /\ MaxPanelRestarts \in Nat /\ MaxResets \in Nat
  /\ MaxResetFaults \in Nat  /\ MaxPollFaults \in Nat
  /\ MaxPersistFaults \in Nat

Directions == {"uplink", "downlink"}
Keys       == Emails \X Directions    \* "user>>>email>>>traffic>>>direction"
RowDirs    == Clients \X Directions

VARIABLES
  counter,   \* the daemon's absolute counters
  prev,      \* the panel's last-seen counters; an absent entry reads 0
  poll,      \* the stats loop: where it is, what it read, what it will add
  used,      \* clients.used_bytes
  reset,     \* the admin request: where it is, its rows, the emails left
  carried,   \* history: bytes ever carried per counter
  since,     \* history: bytes carried for a row since its last reset began
  billed,    \* history: deltas accepted for a row since its last reset began
  events,    \* history: how often each environment event has happened
  crossed    \* history: has a poll ever overlapped a reset

history == <<carried, since, billed, events, crossed>>
vars == <<counter, prev, poll, used, reset, history>>

EventNames ==
  {"xrayRestart", "panelRestart", "reset", "resetFault", "pollFault", "persistFault"}
Happened(e) == events' = [events EXCEPT ![e] = @ + 1]

KeyOf(r)   == <<EmailOf[r[1]], r[2]>>     \* the counter a row is charged from
Total(f, x) == f[<<x, "uplink">>] + f[<<x, "downlink">>]

NoBytes == [k \in Keys |-> 0]
Idle    == [pc |-> "idle", snap |-> NoBytes, delta |-> NoBytes]
NoReset == [pc |-> "idle", rows |-> {}, todo |-> {}]

Init ==
  /\ counter = NoBytes
  /\ prev = NoBytes
  /\ poll = Idle
  /\ used = [c \in Clients |-> 0]
  /\ reset = NoReset
  /\ carried = NoBytes
  /\ since = [r \in RowDirs |-> 0]
  /\ billed = [r \in RowDirs |-> 0]
  /\ events = [e \in EventNames |-> 0]
  /\ crossed = FALSE

-----------------------------------------------------------------------------
(* The daemon.                                                             *)

\* A user moves traffic in one direction.
Carry(k) ==
  /\ carried[k] < MaxBytes
  /\ counter' = [counter EXCEPT ![k] = @ + 1]
  /\ carried' = [carried EXCEPT ![k] = @ + 1]
  /\ since' = [r \in RowDirs |-> IF KeyOf(r) = k THEN since[r] + 1 ELSE since[r]]
  /\ UNCHANGED <<prev, poll, used, reset, billed, events, crossed>>

\* The counters live in the daemon's memory; every Reload restarts it.
XrayRestart ==
  /\ events["xrayRestart"] < MaxXrayRestarts
  /\ counter' = NoBytes
  /\ Happened("xrayRestart")
  /\ UNCHANGED <<prev, poll, used, reset, carried, since, billed, crossed>>

-----------------------------------------------------------------------------
(* The stats loop.  The subprocess that reads the counters holds no lock:  *)
(* anything may happen between Query and ParseStats.                       *)

\* MUTANT: no rule for a counter that went backwards.
DeltaPlain(cur, last) == cur - last

\* MUTANT: an unchanged counter counts as one that went backwards.
DeltaOffByOne(cur, last) == IF cur - last <= 0 THEN cur ELSE cur - last

\* A counter that went backwards is taken whole.
Delta(cur, last) == IF cur - last < 0 THEN cur ELSE cur - last

Query ==
  /\ poll.pc = "idle"
  /\ poll' = [poll EXCEPT !.pc = "read", !.snap = counter]
  /\ crossed' = (crossed \/ reset.pc # "idle")
  /\ UNCHANGED <<counter, prev, used, reset, carried, since, billed, events>>

\* The subprocess times out, or its answer does not decode.
PollFails ==
  /\ poll.pc = "read"
  /\ events["pollFault"] < MaxPollFaults
  /\ poll' = Idle
  /\ Happened("pollFault")
  /\ UNCHANGED <<counter, prev, used, reset, carried, since, billed, crossed>>

\* prevMu makes the pass over the answer one step.  A counter at zero may be
\* missing from the answer, or come without a value: its baseline stays.  With
\* no sample to write Persist returns at once.
ParseStats ==
  /\ poll.pc = "read"
  /\ LET delta == [k \in Keys |-> Delta(poll.snap[k], prev[k])]
     IN /\ poll' = IF delta = NoBytes THEN Idle
                   ELSE [pc |-> "parsed", snap |-> NoBytes, delta |-> delta]
        /\ billed' = [r \in RowDirs |-> billed[r] + delta[KeyOf(r)]]
  /\ \E missing \in SUBSET {k \in Keys : poll.snap[k] = 0} :
       prev' = [k \in Keys |-> IF k \in missing THEN prev[k] ELSE poll.snap[k]]
  /\ UNCHANGED <<counter, used, reset, carried, since, events, crossed>>

\* MUTANT: only one of the rows with the email is charged.
PersistOneRow ==
  /\ poll.pc = "parsed"
  /\ used' = [c \in Clients |->
                IF c = (CHOOSE d \in Clients : EmailOf[d] = EmailOf[c])
                THEN used[c] + Total(poll.delta, EmailOf[c]) ELSE used[c]]
  /\ poll' = Idle
  /\ UNCHANGED <<counter, prev, reset, history>>

\* One transaction; every row with the email is charged.
Persist ==
  /\ poll.pc = "parsed"
  /\ used' = [c \in Clients |-> used[c] + Total(poll.delta, EmailOf[c])]
  /\ poll' = Idle
  /\ UNCHANGED <<counter, prev, reset, history>>

\* Begin or Commit fails: the samples are dropped, `prev` has moved on.
PersistFails ==
  /\ poll.pc = "parsed"
  /\ events["persistFault"] < MaxPersistFaults
  /\ poll' = Idle
  /\ Happened("persistFault")
  /\ UNCHANGED <<counter, prev, used, reset, carried, since, billed, crossed>>

-----------------------------------------------------------------------------
(* The admin request: zero the rows, then per email reset both counters in *)
(* the daemon and forget the baseline.                                     *)

\* One row, or the rows of one inbound, whose emails are distinct.
ResettableRows ==
  {S \in SUBSET Clients : S # {} /\ \A c, d \in S : EmailOf[c] = EmailOf[d] => c = d}

ResetRows(S) ==
  /\ reset.pc = "idle"
  /\ events["reset"] < MaxResets
  /\ used' = [c \in Clients |-> IF c \in S THEN 0 ELSE used[c]]
  /\ reset' = [pc |-> "uplink", rows |-> S, todo |-> {EmailOf[c] : c \in S}]
  /\ since' = [r \in RowDirs |-> IF r[1] \in S THEN 0 ELSE since[r]]
  /\ billed' = [r \in RowDirs |-> IF r[1] \in S THEN 0 ELSE billed[r]]
  /\ crossed' = (crossed \/ poll.pc # "idle")
  /\ Happened("reset")
  /\ UNCHANGED <<counter, prev, poll, carried>>

Target == CHOOSE e \in reset.todo : TRUE

\* MUTANT: only the uplink counter is reset.
NextPhaseUplinkOnly(d) == "forget"

NextPhase(d) == IF d = "uplink" THEN "downlink" ELSE "forget"

\* `xray api stats -reset` for one direction; a failure is passed over.
ResetCounter(d) ==
  /\ reset.pc = d
  /\ reset' = [reset EXCEPT !.pc = NextPhase(d)]
  /\ \/ /\ counter' = [counter EXCEPT ![<<Target, d>>] = 0]
        /\ UNCHANGED events
     \/ /\ events["resetFault"] < MaxResetFaults
        /\ Happened("resetFault")
        /\ UNCHANGED counter
  /\ UNCHANGED <<prev, poll, used, carried, since, billed, crossed>>

\* forgetCounter drops both baselines of the email.
ForgetBaseline ==
  /\ reset.pc = "forget"
  /\ prev' = [k \in Keys |-> IF k[1] = Target THEN 0 ELSE prev[k]]
  /\ reset' = IF reset.todo = {Target} THEN NoReset
              ELSE [reset EXCEPT !.pc = "uplink", !.todo = @ \ {Target}]
  /\ UNCHANGED <<counter, poll, used, history>>

-----------------------------------------------------------------------------
\* The panel process restarts while the daemon, a unit of its own, runs on:
\* `prev`, the poll and the request in flight are gone.
PanelRestart ==
  /\ events["panelRestart"] < MaxPanelRestarts
  /\ prev' = NoBytes
  /\ poll' = Idle
  /\ reset' = NoReset
  /\ Happened("panelRestart")
  /\ UNCHANGED <<counter, used, carried, since, billed, crossed>>

Next ==
  \/ \E k \in Keys : Carry(k)
  \/ XrayRestart
  \/ PanelRestart
  \/ Query \/ PollFails \/ ParseStats \/ Persist \/ PersistFails
  \/ \E S \in ResettableRows : ResetRows(S)
  \/ \E d \in Directions : ResetCounter(d)
  \/ ForgetBaseline

Spec == Init /\ [][Next]_vars

\* The ticker keeps firing and a poll that started is carried through; the
\* handler of a request runs to its end.
Fairness ==
  /\ WF_vars(Query)
  /\ WF_vars(ParseStats)
  /\ WF_vars(Persist)
  /\ WF_vars(\E d \in Directions : ResetCounter(d))
  /\ WF_vars(ForgetBaseline)

FairSpec == Spec /\ Fairness

-----------------------------------------------------------------------------
(* Properties.                                                             *)

TypeOK ==
  /\ counter \in [Keys -> Nat] /\ prev \in [Keys -> Nat]
  /\ poll \in [pc : {"idle", "read", "parsed"}, snap : [Keys -> Nat], delta : [Keys -> Nat]]
  /\ used \in [Clients -> Nat]
  /\ reset \in [pc : {"idle", "uplink", "downlink", "forget"},
                rows : SUBSET Clients, todo : SUBSET Emails]
  /\ carried \in [Keys -> Nat]
  /\ since \in [RowDirs -> Nat] /\ billed \in [RowDirs -> Nat]
  /\ events \in [EventNames -> Nat] /\ crossed \in BOOLEAN

\* No row is ever charged more than was carried for it since its last reset
\* began; rows of a reset still running are left out.
NeverOvercharged ==
  \A c \in Clients \ reset.rows : used[c] <= Total(since, c)

\* The panel has not restarted, no reset overlapped a poll, and the daemon
\* answered every reset.
Undisturbed ==
  /\ events["panelRestart"] = 0
  /\ events["resetFault"] = 0
  /\ ~crossed

\* Billing is safe through restarts of the daemon at any moment of a poll,
\* failed polls, failed transactions and resets between polls: no byte is
\* charged twice (the delta rule of parseStatsJSON with forgetCounter).
ChargedAtMostOnce == Undisturbed => NeverOvercharged

\* Whatever was carried for a row reaches used_bytes once the loop has run,
\* whatever polls fail, unless a daemon restarts, a transaction fails or an
\* admin resets meanwhile.
TrafficReachesRow ==
  \A c \in Clients : \A n \in 1..(2 * MaxBytes) :
    (Total(since, c) >= n)
      ~> (used[c] >= n \/ \E e \in EventNames \ {"pollFault"} : events[e] > 0)

-----------------------------------------------------------------------------
(* The inductive invariant behind ChargedAtMostOnce.  For a row r and the  *)
(* counter k it is charged from, since[r] - counter[k] bounds from below   *)
(* what earlier lives of the counter carried.                              *)

\* Nothing of what the daemon counts now has been accepted yet.
NoneAccepted(r) == billed[r] <= since[r] - counter[KeyOf(r)]

\* The baseline was read from the counter's present life.
BaselineLive(r) ==
  /\ prev[KeyOf(r)] <= counter[KeyOf(r)]
  /\ billed[r] <= since[r] - counter[KeyOf(r)] + prev[KeyOf(r)]

\* The same two cases for the snapshot in flight, with the delta it will give.
Pending(r) == billed[r] + Delta(poll.snap[KeyOf(r)], prev[KeyOf(r)])

SnapshotStale(r) == Pending(r) <= since[r] - counter[KeyOf(r)]

SnapshotLive(r) ==
  /\ poll.snap[KeyOf(r)] <= counter[KeyOf(r)]
  /\ Pending(r) <= since[r] - counter[KeyOf(r)] + poll.snap[KeyOf(r)]

\* The directions of Target the reset has zeroed in the daemon so far.
ZeroedDirs ==
  {d \in Directions : \/ reset.pc = "forget"
                      \/ reset.pc = "downlink" /\ d = "uplink"}

\* The reset in progress is done with the counter this row is charged from.
CounterReset(r) ==
  \/ r[1] \in reset.rows /\ EmailOf[r[1]] \notin reset.todo
  \/ reset.todo # {} /\ EmailOf[r[1]] = Target /\ r[2] \in ZeroedDirs

ControlInv ==
  /\ reset.pc = "idle" => reset = NoReset
  /\ reset.pc # "idle" => reset.todo # {}
  /\ poll.pc # "parsed" => poll.delta = NoBytes

BaselineInv ==
  \A r \in RowDirs : r[1] \notin reset.rows => NoneAccepted(r) \/ BaselineLive(r)

SnapshotInv ==
  poll.pc = "read" => \A r \in RowDirs : SnapshotStale(r) \/ SnapshotLive(r)

ZeroedInv == \A r \in RowDirs : CounterReset(r) => NoneAccepted(r)

RowInv ==
  \A c \in Clients : used[c] + Total(poll.delta, EmailOf[c]) <= Total(billed, c)

ClearedInv ==
  \A c \in reset.rows : used[c] = 0 /\ \A d \in Directions : billed[<<c, d>>] = 0

BillingInv ==
  /\ reset.pc # "idle" => poll.pc = "idle"
  /\ BaselineInv /\ SnapshotInv /\ ZeroedInv /\ RowInv /\ ClearedInv

IInv == ControlInv /\ (Undisturbed => BillingInv)

=============================================================================
