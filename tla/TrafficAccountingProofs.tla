------------------------ MODULE TrafficAccountingProofs ------------------------
(***************************************************************************)
(* ChargedAtMostOnce for every number of rows, emails and bytes and for    *)
(* every bound on restarts, resets and faults.                             *)
(***************************************************************************)
EXTENDS TrafficAccounting, TLAPS

USE RowsHaveEmails, BoundsAreNat DEF Directions

\* The initial state is well typed.
LEMMA TypesAtInit == Init => TypeOK
<1> USE DEF TypeOK, Keys, RowDirs, EventNames, KeyOf, Total, NoBytes, Idle, NoReset,
            Happened, history
<1> SUFFICES ASSUME Init PROVE TypeOK
  OBVIOUS
<1>1. Idle \in [pc : {"idle", "read", "parsed"}, snap : [Keys -> Nat], delta : [Keys -> Nat]]
  OBVIOUS
<1>2. NoReset \in [pc : {"idle", "uplink", "downlink", "forget"},
                   rows : SUBSET Clients, todo : SUBSET Emails]
  OBVIOUS
<1>3. poll = Idle /\ reset = NoReset
  BY DEF Init
<1>4. /\ counter \in [Keys -> Nat] /\ prev \in [Keys -> Nat]
      /\ used \in [Clients -> Nat]
      /\ carried \in [Keys -> Nat]
      /\ since \in [RowDirs -> Nat] /\ billed \in [RowDirs -> Nat]
      /\ events \in [EventNames -> Nat]
  BY DEF Init
<1>5. crossed \in BOOLEAN
  BY DEF Init
<1>6. QED
  BY ONLY <1>1, <1>2, <1>3, <1>4, <1>5 DEF TypeOK

\* Every variable keeps its type (no counter, delta or charge goes negative).
THEOREM TypeCorrect == Spec => []TypeOK
<1> USE DEF TypeOK, Keys, RowDirs, EventNames, KeyOf, Total, NoBytes, Idle, NoReset,
            Happened, history
<1>1. Init => TypeOK
  BY ONLY TypesAtInit
<1>2. TypeOK /\ [Next]_vars => TypeOK'
  <2> SUFFICES ASSUME TypeOK, [Next]_vars PROVE TypeOK'
    OBVIOUS
  <2>1. ASSUME NEW k \in Keys, Carry(k) PROVE TypeOK'
    BY <2>1 DEF Carry
  <2>2. CASE XrayRestart
    BY <2>2 DEF XrayRestart
  <2>3. CASE PanelRestart
    BY <2>3 DEF PanelRestart
  <2>4. CASE Query
    BY <2>4 DEF Query
  <2>5. CASE PollFails
    BY <2>5 DEF PollFails
  <2>6. CASE ParseStats
    BY <2>6 DEF ParseStats, Delta
  <2>7. CASE Persist
    BY <2>7 DEF Persist
  <2>8. CASE PersistFails
    BY <2>8 DEF PersistFails
  <2>9. ASSUME NEW S \in ResettableRows, ResetRows(S) PROVE TypeOK'
    BY <2>9 DEF ResetRows, ResettableRows
  <2>10. ASSUME NEW d \in Directions, ResetCounter(d) PROVE TypeOK'
    <3>1. reset' \in [pc : {"idle", "uplink", "downlink", "forget"},
                      rows : SUBSET Clients, todo : SUBSET Emails]
      BY <2>10 DEF ResetCounter, NextPhase
    <3>2. \/ counter' = [counter EXCEPT ![<<Target, d>>] = 0] /\ events' = events
          \/ counter' = counter /\ events' = [events EXCEPT !["resetFault"] = @ + 1]
      BY <2>10 DEF ResetCounter
    <3>3. counter' \in [Keys -> Nat]
      <4>1. \A f \in [Keys -> Nat] : \A x : [f EXCEPT ![x] = 0] \in [Keys -> Nat]
        BY ONLY TRUE
      <4>2. counter \in [Keys -> Nat]
        BY ONLY TypeOK DEF TypeOK
      <4>3. [counter EXCEPT ![<<Target, d>>] = 0] \in [Keys -> Nat]
        BY ONLY <4>1, <4>2
      <4>4. QED
        BY ONLY <3>2, <4>2, <4>3
    <3>4. events' \in [EventNames -> Nat]
      BY <3>2
    <3>5. QED
      BY <2>10, <3>1, <3>3, <3>4 DEF ResetCounter
  <2>11. CASE ForgetBaseline
    BY <2>11 DEF ForgetBaseline
  <2>12. CASE UNCHANGED vars
    BY <2>12 DEF vars
  <2>13. QED
    BY <2>1, <2>2, <2>3, <2>4, <2>5, <2>6, <2>7, <2>8, <2>9, <2>10, <2>11, <2>12 DEF Next
<1>3. QED
  BY <1>1, <1>2, PTL DEF Spec

-----------------------------------------------------------------------------
(* Facts about one row and the counter it is charged from.                 *)

\* A row and a direction have one counter, and the totals of a row are numbers.
LEMMA RowFacts ==
  ASSUME TypeOK, NEW r \in RowDirs
  PROVE  /\ KeyOf(r) \in Keys /\ r[1] \in Clients /\ r[2] \in Directions
         /\ KeyOf(r)[1] = EmailOf[r[1]] /\ KeyOf(r)[2] = r[2] /\ r = <<r[1], r[2]>>
         /\ billed[r] \in Nat /\ since[r] \in Nat
         /\ counter[KeyOf(r)] \in Nat /\ prev[KeyOf(r)] \in Nat
         /\ poll.snap[KeyOf(r)] \in Nat /\ poll.delta[KeyOf(r)] \in Nat
<1>1. /\ KeyOf(r) \in Keys /\ r[1] \in Clients /\ r[2] \in Directions
      /\ KeyOf(r)[1] = EmailOf[r[1]] /\ KeyOf(r)[2] = r[2] /\ r = <<r[1], r[2]>>
  BY DEF RowDirs, Keys, KeyOf
<1>2. QED
  BY <1>1 DEF TypeOK

\* A delta is never negative, and never more than the counter.
LEMMA DeltaFacts ==
  ASSUME NEW cur \in Nat, NEW last \in Nat
  PROVE  /\ Delta(cur, last) \in Nat /\ Delta(cur, last) <= cur
         /\ last <= cur => Delta(cur, last) = cur - last
BY DEF Delta

\* The history of disturbances only grows.
LEMMA UndisturbedBackwards ==
  ASSUME TypeOK, [Next]_vars, Undisturbed'
  PROVE  Undisturbed
BY DEF TypeOK, EventNames, Next, vars, history, Undisturbed, Happened, Carry, XrayRestart,
       PanelRestart, Query, PollFails, ParseStats, Persist, PersistFails, ResetRows,
       ResetCounter, ForgetBaseline

-----------------------------------------------------------------------------
\* A parsed batch exists only while a poll is between its reads and its
\* transaction, and a reset holds its target from the UPDATE to its answer.
THEOREM ControlInductive == Spec => []ControlInv
<1> USE DEF ControlInv
<1>1. Init => ControlInv
  BY DEF Init, Idle, NoReset
<1>2. ControlInv /\ TypeOK /\ [Next]_vars => ControlInv'
  <2> SUFFICES ASSUME ControlInv, TypeOK, [Next]_vars PROVE ControlInv'
    OBVIOUS
  <2> USE DEF Idle, NoReset, history
  <2>1. ASSUME NEW k \in Keys, Carry(k) PROVE ControlInv'
    BY <2>1 DEF Carry
  <2>2. CASE XrayRestart
    BY <2>2 DEF XrayRestart
  <2>3. CASE PanelRestart
    BY <2>3 DEF PanelRestart
  <2>4. CASE Query
    BY <2>4 DEF Query, TypeOK
  <2>5. CASE PollFails
    BY <2>5 DEF PollFails
  <2>6. CASE ParseStats
    BY <2>6 DEF ParseStats
  <2>7. CASE Persist
    BY <2>7 DEF Persist
  <2>8. CASE PersistFails
    BY <2>8 DEF PersistFails
  <2>9. ASSUME NEW S \in ResettableRows, ResetRows(S) PROVE ControlInv'
    BY <2>9 DEF ResetRows, ResettableRows
  <2>10. ASSUME NEW d \in Directions, ResetCounter(d) PROVE ControlInv'
    BY <2>10 DEF ResetCounter, NextPhase, TypeOK
  <2>11. CASE ForgetBaseline
    BY <2>11 DEF ForgetBaseline, TypeOK
  <2>12. CASE UNCHANGED vars
    BY <2>12 DEF vars
  <2>13. QED
    BY <2>1, <2>2, <2>3, <2>4, <2>5, <2>6, <2>7, <2>8, <2>9, <2>10, <2>11, <2>12 DEF Next
<1>3. QED
  BY <1>1, <1>2, TypeCorrect, PTL DEF Spec

-----------------------------------------------------------------------------
(* BillingInv is preserved, one action at a time.                          *)

\* Traffic moves a counter and the bytes carried since together.
LEMMA CarryKeepsBilling ==
  ASSUME TypeOK, TypeOK', BillingInv, NEW k \in Keys, Carry(k)
  PROVE  BillingInv'
<1>1. UNCHANGED <<prev, poll, used, reset, billed>>
  BY DEF Carry
<1>2. ASSUME NEW r \in RowDirs
      PROVE  /\ since'[r] - counter'[KeyOf(r)] = since[r] - counter[KeyOf(r)]
             /\ counter[KeyOf(r)] <= counter'[KeyOf(r)]
             /\ NoneAccepted(r) => NoneAccepted(r)'
             /\ BaselineLive(r) => BaselineLive(r)'
             /\ SnapshotStale(r) => SnapshotStale(r)'
             /\ SnapshotLive(r) => SnapshotLive(r)'
             /\ CounterReset(r)' = CounterReset(r)
  <2>1. /\ KeyOf(r) \in Keys /\ counter[KeyOf(r)] \in Nat /\ since[r] \in Nat
        /\ billed[r] \in Nat /\ prev[KeyOf(r)] \in Nat /\ poll.snap[KeyOf(r)] \in Nat
    BY RowFacts
  <2>2. since'[r] = IF KeyOf(r) = k THEN since[r] + 1 ELSE since[r]
    BY DEF Carry
  <2>3. counter'[KeyOf(r)] = IF KeyOf(r) = k THEN counter[KeyOf(r)] + 1 ELSE counter[KeyOf(r)]
    BY <2>1 DEF Carry, TypeOK
  <2>4. since'[r] - counter'[KeyOf(r)] = since[r] - counter[KeyOf(r)]
    BY <2>1, <2>2, <2>3
  <2>5. counter[KeyOf(r)] <= counter'[KeyOf(r)]
    BY <2>1, <2>3
  <2>6. counter'[KeyOf(r)] \in Nat
    BY <2>1, <2>3
  <2>7. NoneAccepted(r) => NoneAccepted(r)'
    BY <1>1, <2>4 DEF NoneAccepted, KeyOf
  <2>8. BaselineLive(r) => BaselineLive(r)'
    BY <1>1, <2>1, <2>4, <2>5, <2>6 DEF BaselineLive, KeyOf
  <2>9. SnapshotStale(r) => SnapshotStale(r)'
    BY <1>1, <2>4 DEF SnapshotStale, Pending, KeyOf
  <2>10. SnapshotLive(r) => SnapshotLive(r)'
    BY <1>1, <2>1, <2>4, <2>5, <2>6 DEF SnapshotLive, Pending, KeyOf
  <2>11. CounterReset(r)' = CounterReset(r)
    BY <1>1 DEF CounterReset, ZeroedDirs, Target
  <2>12. QED
    BY <2>4, <2>5, <2>7, <2>8, <2>9, <2>10, <2>11
<1>3. BaselineInv'
  BY <1>1, <1>2 DEF BillingInv, BaselineInv
<1>4. SnapshotInv'
  BY <1>1, <1>2 DEF BillingInv, SnapshotInv
<1>5. ZeroedInv'
  BY <1>2 DEF BillingInv, ZeroedInv
<1>6. RowInv' /\ ClearedInv'
  BY <1>1 DEF BillingInv, RowInv, ClearedInv
<1>7. QED
  BY <1>1, <1>3, <1>4, <1>5, <1>6 DEF BillingInv

\* A daemon restart zeroes the counters; what they held stays accounted for.
LEMMA XrayRestartKeepsBilling ==
  ASSUME TypeOK, TypeOK', ControlInv, BillingInv, XrayRestart
  PROVE  BillingInv'
<1>1. UNCHANGED <<prev, poll, used, reset, billed, since>> /\ counter' = NoBytes
  BY DEF XrayRestart
<1>2. ASSUME NEW r \in RowDirs
      PROVE  /\ NoneAccepted(r) \/ BaselineLive(r) => NoneAccepted(r)'
             /\ SnapshotStale(r) \/ SnapshotLive(r) => SnapshotStale(r)'
             /\ CounterReset(r)' = CounterReset(r)
  <2>1. /\ KeyOf(r) \in Keys /\ counter[KeyOf(r)] \in Nat /\ since[r] \in Nat
        /\ billed[r] \in Nat /\ prev[KeyOf(r)] \in Nat /\ poll.snap[KeyOf(r)] \in Nat
    BY RowFacts
  <2>2. counter'[KeyOf(r)] = 0
    BY <1>1, <2>1 DEF NoBytes
  <2>3. Pending(r) \in Nat /\ Pending(r)' = Pending(r)
    <3>1. Delta(poll.snap[KeyOf(r)], prev[KeyOf(r)]) \in Nat
      BY <2>1, DeltaFacts
    <3>2. Pending(r) \in Nat
      BY <2>1, <3>1 DEF Pending
    <3>3. Pending(r)' = Pending(r)
      BY <1>1 DEF Pending, KeyOf, Delta
    <3>4. QED
      BY <3>2, <3>3
  <2>4. NoneAccepted(r) \/ BaselineLive(r) => NoneAccepted(r)'
    BY <1>1, <2>1, <2>2 DEF NoneAccepted, BaselineLive, KeyOf
  <2>5. SnapshotStale(r) \/ SnapshotLive(r) => SnapshotStale(r)'
    BY <1>1, <2>1, <2>2, <2>3 DEF SnapshotStale, SnapshotLive, KeyOf
  <2>6. CounterReset(r)' = CounterReset(r)
    BY <1>1 DEF CounterReset, ZeroedDirs, Target
  <2>7. QED
    BY <2>4, <2>5, <2>6
<1>3. BaselineInv'
  BY <1>1, <1>2 DEF BillingInv, BaselineInv
<1>4. SnapshotInv'
  BY <1>1, <1>2 DEF BillingInv, SnapshotInv
<1>5. ZeroedInv'
  BY <1>2 DEF BillingInv, ZeroedInv
<1>6. RowInv' /\ ClearedInv'
  BY <1>1 DEF BillingInv, RowInv, ClearedInv
<1>7. QED
  BY <1>1, <1>3, <1>4, <1>5, <1>6 DEF BillingInv

\* The subprocess's answer is a snapshot of the counters.
LEMMA QueryKeepsBilling ==
  ASSUME TypeOK, TypeOK', ControlInv, BillingInv, Query, Undisturbed'
  PROVE  BillingInv'
<1>1. UNCHANGED <<counter, prev, used, reset, since, billed>> /\ reset.pc = "idle"
  BY DEF Query, Undisturbed, TypeOK
<1>2. poll'.snap = counter /\ poll'.delta = poll.delta
  BY DEF Query, TypeOK
<1>3. BaselineInv' /\ ZeroedInv'
  BY <1>1 DEF BillingInv, BaselineInv, ZeroedInv, NoneAccepted, BaselineLive, CounterReset,
              ZeroedDirs, Target, KeyOf
<1>4. SnapshotInv'
  <2> SUFFICES ASSUME NEW r \in RowDirs PROVE SnapshotStale(r)' \/ SnapshotLive(r)'
    BY DEF SnapshotInv
  <2>1. /\ KeyOf(r) \in Keys /\ counter[KeyOf(r)] \in Nat /\ since[r] \in Nat
        /\ billed[r] \in Nat /\ prev[KeyOf(r)] \in Nat
    BY RowFacts
  <2>2. NoneAccepted(r) \/ BaselineLive(r)
    BY <1>1 DEF BillingInv, BaselineInv, ControlInv, NoReset
  <2>3. SnapshotLive(r)' <=>
          billed[r] + Delta(counter[KeyOf(r)], prev[KeyOf(r)])
            <= since[r] - counter[KeyOf(r)] + counter[KeyOf(r)]
    BY <1>1, <1>2, <2>1 DEF SnapshotLive, Pending, KeyOf, Delta
  <2>4. /\ Delta(counter[KeyOf(r)], prev[KeyOf(r)]) \in Nat
        /\ Delta(counter[KeyOf(r)], prev[KeyOf(r)]) <= counter[KeyOf(r)]
        /\ prev[KeyOf(r)] <= counter[KeyOf(r)] =>
             Delta(counter[KeyOf(r)], prev[KeyOf(r)]) = counter[KeyOf(r)] - prev[KeyOf(r)]
    BY <2>1, DeltaFacts
  <2>5. CASE NoneAccepted(r)
    BY <2>1, <2>3, <2>4, <2>5 DEF NoneAccepted
  <2>6. CASE BaselineLive(r)
    BY <2>1, <2>3, <2>4, <2>6 DEF BaselineLive
  <2>7. QED
    BY <2>2, <2>5, <2>6
<1>5. RowInv' /\ ClearedInv'
  BY <1>1, <1>2 DEF BillingInv, RowInv, ClearedInv, Total
<1>6. QED
  BY <1>1, <1>3, <1>4, <1>5 DEF BillingInv

\* parseStatsJSON moves the baseline to the snapshot and takes the difference.
LEMMA ParseStatsKeepsBilling ==
  ASSUME TypeOK, TypeOK', ControlInv, BillingInv, ParseStats
  PROVE  BillingInv'
<1> DEFINE delta == [k \in Keys |-> Delta(poll.snap[k], prev[k])]
<1>1. /\ UNCHANGED <<counter, used, reset, since>>
      /\ reset = NoReset /\ poll.pc = "read" /\ poll.delta = NoBytes
      /\ \A k \in Keys : \/ prev'[k] = poll.snap[k]
                         \/ poll.snap[k] = 0
  BY DEF ParseStats, BillingInv, ControlInv
<1>2. poll'.pc # "read" /\ poll'.delta = delta
  BY DEF ParseStats, Idle
<1>3. ASSUME NEW r \in RowDirs
      PROVE  /\ KeyOf(r) \in Keys /\ delta[KeyOf(r)] \in Nat
             /\ billed'[r] = billed[r] + delta[KeyOf(r)]
             /\ billed'[r] = Pending(r)
  <2>1. KeyOf(r) \in Keys /\ poll.snap[KeyOf(r)] \in Nat /\ prev[KeyOf(r)] \in Nat
    BY RowFacts
  <2>2. billed'[r] = billed[r] + delta[KeyOf(r)]
    BY DEF ParseStats
  <2>3. QED
    BY <2>1, <2>2, DeltaFacts DEF Pending
<1>4. BaselineInv'
  <2> SUFFICES ASSUME NEW r \in RowDirs PROVE NoneAccepted(r)' \/ BaselineLive(r)'
    BY DEF BaselineInv
  <2>1. SnapshotStale(r) \/ SnapshotLive(r)
    BY <1>1 DEF BillingInv, SnapshotInv
  <2>2. /\ counter[KeyOf(r)] \in Nat /\ since[r] \in Nat /\ poll.snap[KeyOf(r)] \in Nat
        /\ billed'[r] = Pending(r) /\ KeyOf(r) \in Keys /\ KeyOf(r)' = KeyOf(r)
        /\ counter' = counter /\ since' = since /\ Pending(r) \in Int
    <3>1. /\ counter[KeyOf(r)] \in Nat /\ since[r] \in Nat /\ poll.snap[KeyOf(r)] \in Nat
          /\ billed[r] \in Nat /\ KeyOf(r) \in Keys
      BY RowFacts
    <3>2. KeyOf(r)' = KeyOf(r)
      BY DEF KeyOf
    <3>3. billed'[r] = Pending(r) /\ Pending(r) = billed[r] + delta[KeyOf(r)]
          /\ delta[KeyOf(r)] \in Nat
      BY <1>3
    <3> HIDE DEF delta
    <3>4. QED
      BY <1>1, <3>1, <3>2, <3>3
  <2>3. CASE SnapshotStale(r)
    BY <2>2, <2>3 DEF SnapshotStale, NoneAccepted
  <2>4. CASE SnapshotLive(r) /\ prev'[KeyOf(r)] = poll.snap[KeyOf(r)]
    BY <2>2, <2>4 DEF SnapshotLive, BaselineLive
  <2>5. CASE SnapshotLive(r) /\ poll.snap[KeyOf(r)] = 0
    BY <2>2, <2>5 DEF SnapshotLive, NoneAccepted
  <2>6. QED
    BY <1>1, <2>1, <2>2, <2>3, <2>4, <2>5
<1>5. SnapshotInv'
  BY <1>2 DEF SnapshotInv
<1>6. ZeroedInv' /\ ClearedInv'
  BY <1>1 DEF ZeroedInv, ClearedInv, CounterReset, NoReset
<1>7. RowInv'
  <2> SUFFICES ASSUME NEW c \in Clients
               PROVE  used[c] + Total(delta, EmailOf[c]) <= Total(billed', c)
    BY <1>1, <1>2 DEF RowInv, Total
  <2>1. <<c, "uplink">> \in RowDirs /\ <<c, "downlink">> \in RowDirs
    BY DEF RowDirs
  <2>2. /\ KeyOf(<<c, "uplink">>) = <<EmailOf[c], "uplink">>
        /\ KeyOf(<<c, "downlink">>) = <<EmailOf[c], "downlink">>
    BY DEF KeyOf
  <2>3. used[c] <= Total(billed, c)
    <3>1. used[c] + Total(NoBytes, EmailOf[c]) <= Total(billed, c)
      BY <1>1 DEF BillingInv, RowInv
    <3>2. Total(NoBytes, EmailOf[c]) = 0
      <4>1. <<EmailOf[c], "uplink">> \in Keys /\ <<EmailOf[c], "downlink">> \in Keys
        BY DEF Keys
      <4>2. QED
        BY <4>1 DEF Total, NoBytes
    <3>3. QED
      BY <3>1, <3>2 DEF TypeOK
  <2>4. Total(billed', c) = Total(billed, c) + Total(delta, EmailOf[c])
    <3>1. /\ billed'[<<c, "uplink">>] = billed[<<c, "uplink">>] + delta[<<EmailOf[c], "uplink">>]
          /\ billed'[<<c, "downlink">>]
               = billed[<<c, "downlink">>] + delta[<<EmailOf[c], "downlink">>]
          /\ delta[<<EmailOf[c], "uplink">>] \in Nat
          /\ delta[<<EmailOf[c], "downlink">>] \in Nat
      BY <1>3, <2>1, <2>2
    <3>2. billed[<<c, "uplink">>] \in Nat /\ billed[<<c, "downlink">>] \in Nat
      BY <2>1, RowFacts
    <3> HIDE DEF delta
    <3>3. QED
      BY <3>1, <3>2 DEF Total
  <2>5. /\ delta[<<EmailOf[c], "uplink">>] \in Nat /\ delta[<<EmailOf[c], "downlink">>] \in Nat
        /\ billed[<<c, "uplink">>] \in Nat /\ billed[<<c, "downlink">>] \in Nat
        /\ used[c] \in Nat
    BY <1>3, <2>1, <2>2, RowFacts DEF TypeOK
  <2> HIDE DEF delta
  <2>6. QED
    BY <2>3, <2>4, <2>5 DEF Total
<1>8. QED
  BY <1>1, <1>4, <1>5, <1>6, <1>7 DEF BillingInv, NoReset

\* A poll or a transaction that fails charges nothing.
LEMMA PollEndKeepsBilling ==
  ASSUME TypeOK, TypeOK', ControlInv, BillingInv, PollFails \/ PersistFails
  PROVE  BillingInv'
<1>1. UNCHANGED <<counter, prev, used, reset, since, billed>> /\ poll' = Idle
  BY DEF PollFails, PersistFails
<1>2. BaselineInv' /\ ZeroedInv' /\ ClearedInv'
  BY <1>1 DEF BillingInv, BaselineInv, ZeroedInv, ClearedInv, NoneAccepted, BaselineLive,
              CounterReset, ZeroedDirs, Target, KeyOf
<1>3. SnapshotInv'
  BY <1>1 DEF SnapshotInv, Idle
<1>4. RowInv'
  <2> SUFFICES ASSUME NEW c \in Clients
               PROVE  used[c] + Total(NoBytes, EmailOf[c]) <= Total(billed, c)
    BY <1>1 DEF RowInv, Idle, Total
  <2>1. <<EmailOf[c], "uplink">> \in Keys /\ <<EmailOf[c], "downlink">> \in Keys
    BY DEF Keys
  <2>2. <<c, "uplink">> \in RowDirs /\ <<c, "downlink">> \in RowDirs
    BY DEF RowDirs
  <2>3. used[c] + Total(poll.delta, EmailOf[c]) <= Total(billed, c)
    BY DEF BillingInv, RowInv
  <2>4. /\ poll.delta[<<EmailOf[c], "uplink">>] \in Nat
        /\ poll.delta[<<EmailOf[c], "downlink">>] \in Nat
        /\ billed[<<c, "uplink">>] \in Nat /\ billed[<<c, "downlink">>] \in Nat
        /\ used[c] \in Nat
    BY <2>1, <2>2 DEF TypeOK
  <2>5. Total(NoBytes, EmailOf[c]) = 0
    BY <2>1 DEF Total, NoBytes
  <2>6. QED
    BY <2>3, <2>4, <2>5 DEF Total
<1>5. QED
  BY <1>1, <1>2, <1>3, <1>4 DEF BillingInv, Idle

\* Persist charges the deltas to every row of the email.
LEMMA PersistKeepsBilling ==
  ASSUME TypeOK, TypeOK', ControlInv, BillingInv, Persist
  PROVE  BillingInv'
<1>1. UNCHANGED <<counter, prev, reset, since, billed>> /\ poll' = Idle /\ reset = NoReset
  BY DEF Persist, history, BillingInv, ControlInv
<1>2. BaselineInv' /\ ZeroedInv'
  BY <1>1 DEF BillingInv, BaselineInv, ZeroedInv, NoneAccepted, BaselineLive,
              CounterReset, ZeroedDirs, Target, KeyOf
<1>3. SnapshotInv' /\ ClearedInv'
  BY <1>1 DEF SnapshotInv, Idle, ClearedInv, NoReset
<1>4. RowInv'
  <2> SUFFICES ASSUME NEW c \in Clients
               PROVE  used'[c] + Total(NoBytes, EmailOf[c]) <= Total(billed, c)
    BY <1>1 DEF RowInv, Idle, Total
  <2>1. <<EmailOf[c], "uplink">> \in Keys /\ <<EmailOf[c], "downlink">> \in Keys
    BY DEF Keys
  <2>2. used[c] + Total(poll.delta, EmailOf[c]) <= Total(billed, c)
    BY DEF BillingInv, RowInv
  <2>3. Total(NoBytes, EmailOf[c]) = 0
    BY <2>1 DEF Total, NoBytes
  <2>4. used'[c] = used[c] + Total(poll.delta, EmailOf[c])
    BY DEF Persist
  <2>5. used'[c] \in Nat
    BY DEF TypeOK
  <2>6. QED
    BY <2>2, <2>3, <2>4, <2>5
<1>5. QED
  BY <1>1, <1>2, <1>3, <1>4 DEF BillingInv, Idle

\* The UPDATE of a reset zeroes the row and starts its account afresh.
LEMMA ResetRowsKeepsBilling ==
  ASSUME TypeOK, TypeOK', ControlInv, BillingInv, NEW S \in ResettableRows, ResetRows(S),
         Undisturbed'
  PROVE  BillingInv'
<1>1. /\ UNCHANGED <<counter, prev, poll>>
      /\ reset = NoReset /\ poll.pc = "idle" /\ poll.delta = NoBytes
      /\ reset'.rows = S /\ reset'.pc = "uplink" /\ reset'.todo = {EmailOf[c] : c \in S}
      /\ S \subseteq Clients
  BY DEF ResetRows, Undisturbed, TypeOK, ControlInv, ResettableRows
<1>2. ASSUME NEW r \in RowDirs
      PROVE  /\ r[1] \in S => since'[r] = 0 /\ billed'[r] = 0
             /\ r[1] \notin S => since'[r] = since[r] /\ billed'[r] = billed[r]
  BY DEF ResetRows
<1>3. BaselineInv'
  <2> SUFFICES ASSUME NEW r \in RowDirs, r[1] \notin S
               PROVE  NoneAccepted(r)' \/ BaselineLive(r)'
    BY <1>1 DEF BaselineInv
  <2>1. NoneAccepted(r) \/ BaselineLive(r)
    BY <1>1 DEF BillingInv, BaselineInv, NoReset
  <2>2. QED
    BY <1>1, <1>2, <2>1 DEF NoneAccepted, BaselineLive, KeyOf
<1>4. SnapshotInv'
  BY <1>1 DEF SnapshotInv
<1>5. ZeroedInv'
  <2>1. ZeroedDirs' = {}
    BY <1>1 DEF ZeroedDirs
  <2>2. ASSUME NEW r \in RowDirs PROVE ~CounterReset(r)'
    BY <1>1, <2>1 DEF CounterReset
  <2>3. QED
    BY <2>2 DEF ZeroedInv
<1>6. ClearedInv'
  <2> SUFFICES ASSUME NEW c \in S
               PROVE  used'[c] = 0 /\ \A d \in Directions : billed'[<<c, d>>] = 0
    BY <1>1 DEF ClearedInv
  <2>1. used'[c] = 0
    BY <1>1 DEF ResetRows
  <2>2. ASSUME NEW d \in Directions PROVE billed'[<<c, d>>] = 0
    BY <1>1, <1>2 DEF RowDirs
  <2>3. QED
    BY <2>1, <2>2
<1>7. RowInv'
  <2> SUFFICES ASSUME NEW c \in Clients
               PROVE  used'[c] + Total(NoBytes, EmailOf[c]) <= Total(billed', c)
    BY <1>1 DEF RowInv, Total
  <2>1. <<EmailOf[c], "uplink">> \in Keys /\ <<EmailOf[c], "downlink">> \in Keys
    BY DEF Keys
  <2>2. Total(NoBytes, EmailOf[c]) = 0
    BY <2>1 DEF Total, NoBytes
  <2>3. <<c, "uplink">> \in RowDirs /\ <<c, "downlink">> \in RowDirs
    BY DEF RowDirs
  <2>4. CASE c \in S
    BY <1>2, <2>2, <2>3, <2>4 DEF ResetRows, Total
  <2>5. CASE c \notin S
    <3>1. used'[c] = used[c]
      BY <2>5 DEF ResetRows
    <3>2. Total(billed', c) = Total(billed, c)
      BY <1>2, <2>3, <2>5 DEF Total
    <3>3. used[c] + Total(NoBytes, EmailOf[c]) <= Total(billed, c)
      BY <1>1 DEF BillingInv, RowInv
    <3>4. QED
      BY <3>1, <3>2, <3>3
  <2>6. QED
    BY <2>4, <2>5
<1>8. QED
  BY <1>1, <1>3, <1>4, <1>5, <1>6, <1>7 DEF BillingInv

\* The reset of one counter at the daemon, answered or not.
LEMMA ResetCounterKeepsBilling ==
  ASSUME TypeOK, TypeOK', ControlInv, BillingInv, NEW d \in Directions, ResetCounter(d),
         Undisturbed'
  PROVE  BillingInv'
<1>1. /\ UNCHANGED <<prev, poll, used, since, billed>>
      /\ reset.pc = d /\ reset.todo # {} /\ poll.pc = "idle"
      /\ reset'.rows = reset.rows /\ reset'.todo = reset.todo /\ reset'.pc = NextPhase(d)
  BY DEF ResetCounter, ControlInv, BillingInv, TypeOK
<1>2. counter' = [counter EXCEPT ![<<Target, d>>] = 0]
  BY DEF ResetCounter, Happened, Undisturbed, TypeOK, EventNames
<1>3. ASSUME NEW r \in RowDirs
      PROVE  /\ NoneAccepted(r) => NoneAccepted(r)'
             /\ NoneAccepted(r) \/ BaselineLive(r) => NoneAccepted(r)' \/ BaselineLive(r)'
             /\ EmailOf[r[1]] = Target /\ r[2] = d /\ (NoneAccepted(r) \/ BaselineLive(r))
                  => NoneAccepted(r)'
  <2>1. /\ KeyOf(r) \in Keys /\ counter[KeyOf(r)] \in Nat /\ since[r] \in Nat
        /\ billed[r] \in Nat /\ prev[KeyOf(r)] \in Nat
    BY RowFacts
  <2>2. counter'[KeyOf(r)] = IF KeyOf(r) = <<Target, d>> THEN 0 ELSE counter[KeyOf(r)]
    BY <1>2, <2>1 DEF TypeOK
  <2>3. EmailOf[r[1]] = Target /\ r[2] = d => KeyOf(r) = <<Target, d>>
    BY DEF KeyOf
  <2>4. KeyOf(r)' = KeyOf(r) /\ since'[r] = since[r] /\ billed'[r] = billed[r] /\ prev' = prev
    BY <1>1 DEF KeyOf
  <2>5. CASE KeyOf(r) = <<Target, d>>
    <3>1. counter'[KeyOf(r)] = 0
      BY <2>2, <2>5
    <3>2. NoneAccepted(r) \/ BaselineLive(r) => NoneAccepted(r)'
      BY <2>1, <2>4, <3>1 DEF NoneAccepted, BaselineLive
    <3>3. QED
      BY <3>2
  <2>6. CASE KeyOf(r) # <<Target, d>>
    <3>1. counter'[KeyOf(r)] = counter[KeyOf(r)]
      BY <2>2, <2>6
    <3>2. NoneAccepted(r)' = NoneAccepted(r) /\ BaselineLive(r)' = BaselineLive(r)
      BY <2>4, <3>1 DEF NoneAccepted, BaselineLive
    <3>3. QED
      BY <2>3, <2>6, <3>2
  <2>7. QED
    BY <2>5, <2>6
<1>4. BaselineInv'
  BY <1>1, <1>3 DEF BillingInv, BaselineInv
<1>5. SnapshotInv'
  BY <1>1 DEF SnapshotInv
<1>6. ZeroedInv'
  <2> SUFFICES ASSUME NEW r \in RowDirs, CounterReset(r)' PROVE NoneAccepted(r)'
    BY DEF ZeroedInv
  <2>1. ZeroedDirs' = ZeroedDirs \cup {d}
    BY <1>1 DEF ZeroedDirs, NextPhase
  <2>2. Target' = Target
    BY <1>1 DEF Target
  <2>3. CounterReset(r) \/ (EmailOf[r[1]] = Target /\ r[2] = d)
    BY <1>1, <2>1, <2>2 DEF CounterReset
  <2>4. CASE CounterReset(r)
    BY <1>3, <2>4 DEF BillingInv, ZeroedInv
  <2>5. CASE EmailOf[r[1]] = Target /\ r[2] = d
    <3>1. CASE r[1] \in reset.rows
      <4>1. billed[r] = 0
        BY <3>1, RowFacts DEF BillingInv, ClearedInv
      <4>2. counter'[KeyOf(r)] = 0
        <5>1. KeyOf(r) = <<Target, d>>
          BY <2>5 DEF KeyOf
        <5>2. KeyOf(r) \in Keys
          BY RowFacts
        <5>3. QED
          BY <1>2, <5>1, <5>2 DEF TypeOK
      <4>3. since[r] \in Nat
        BY RowFacts
      <4>4. QED
        BY <1>1, <4>1, <4>2, <4>3 DEF NoneAccepted, KeyOf
    <3>2. CASE r[1] \notin reset.rows
      BY <1>3, <2>5, <3>2 DEF BillingInv, BaselineInv
    <3>3. QED
      BY <3>1, <3>2
  <2>6. QED
    BY <2>3, <2>4, <2>5
<1>7. RowInv' /\ ClearedInv'
  BY <1>1 DEF BillingInv, RowInv, ClearedInv
<1>8. QED
  BY <1>1, <1>4, <1>5, <1>6, <1>7 DEF BillingInv

\* forgetCounter drops a baseline whose counter was zeroed.
LEMMA ForgetBaselineKeepsBilling ==
  ASSUME TypeOK, TypeOK', ControlInv, BillingInv, ForgetBaseline
  PROVE  BillingInv'
<1>1. /\ UNCHANGED <<counter, poll, used, since, billed>>
      /\ reset.pc = "forget" /\ reset.todo # {} /\ poll.pc = "idle"
      /\ prev' = [k \in Keys |-> IF k[1] = Target THEN 0 ELSE prev[k]]
  BY DEF ForgetBaseline, history, ControlInv, BillingInv
<1>2. \/ reset' = NoReset /\ reset.todo = {Target}
      \/ /\ reset'.rows = reset.rows /\ reset'.pc = "uplink"
         /\ reset'.todo = reset.todo \ {Target}
  BY DEF ForgetBaseline, TypeOK
<1>3. ASSUME NEW r \in RowDirs
      PROVE  /\ NoneAccepted(r)' = NoneAccepted(r)
             /\ EmailOf[r[1]] = Target => NoneAccepted(r)
             /\ EmailOf[r[1]] # Target => BaselineLive(r)' = BaselineLive(r)
  <2>1. KeyOf(r) \in Keys /\ r[2] \in Directions /\ KeyOf(r)[1] = EmailOf[r[1]]
    BY RowFacts
  <2>2. NoneAccepted(r)' = NoneAccepted(r)
    BY <1>1 DEF NoneAccepted, KeyOf
  <2>3. EmailOf[r[1]] = Target => NoneAccepted(r)
    BY <1>1, <2>1 DEF BillingInv, ZeroedInv, CounterReset, ZeroedDirs
  <2>4. EmailOf[r[1]] # Target => prev'[KeyOf(r)] = prev[KeyOf(r)]
    BY <1>1, <2>1
  <2>5. EmailOf[r[1]] # Target => BaselineLive(r)' = BaselineLive(r)
    BY <1>1, <2>4 DEF BaselineLive, KeyOf
  <2>6. QED
    BY <2>2, <2>3, <2>5
<1>4. ASSUME NEW r \in RowDirs, r[1] \in reset.rows, EmailOf[r[1]] \notin reset.todo \ {Target}
      PROVE  NoneAccepted(r)
  BY <1>3, <1>4 DEF BillingInv, ZeroedInv, CounterReset
<1>5. BaselineInv'
  <2> SUFFICES ASSUME NEW r \in RowDirs, r[1] \notin reset'.rows
               PROVE  NoneAccepted(r)' \/ BaselineLive(r)'
    BY DEF BaselineInv
  <2>1. CASE r[1] \in reset.rows
    BY <1>2, <1>3, <1>4, <2>1
  <2>2. CASE r[1] \notin reset.rows
    BY <1>3, <2>2 DEF BillingInv, BaselineInv
  <2>3. QED
    BY <2>1, <2>2
<1>6. SnapshotInv'
  BY <1>1 DEF SnapshotInv
<1>7. ZeroedInv'
  <2> SUFFICES ASSUME NEW r \in RowDirs, CounterReset(r)' PROVE NoneAccepted(r)'
    BY DEF ZeroedInv
  <2>1. r[1] \in reset.rows /\ EmailOf[r[1]] \notin reset.todo \ {Target}
    BY <1>2 DEF CounterReset, ZeroedDirs, NoReset
  <2>2. QED
    BY <1>3, <1>4, <2>1
<1>8. RowInv' /\ ClearedInv'
  BY <1>1, <1>2 DEF BillingInv, RowInv, ClearedInv, NoReset
<1>9. QED
  BY <1>1, <1>5, <1>6, <1>7, <1>8 DEF BillingInv

-----------------------------------------------------------------------------
\* The strengthened invariant that Traffic_inbound_reset checks.
THEOREM Billing == Spec => []IInv
<1>1. Init => IInv
  <2> SUFFICES ASSUME Init PROVE IInv
    OBVIOUS
  <2>1. TypeOK
    BY TypesAtInit
  <2>2. /\ poll = Idle /\ reset = NoReset /\ prev = NoBytes /\ counter = NoBytes
        /\ used = [c \in Clients |-> 0]
        /\ since = [r \in RowDirs |-> 0] /\ billed = [r \in RowDirs |-> 0]
    BY DEF Init
  <2>3. BaselineInv /\ ZeroedInv
    <3>1. ASSUME NEW r \in RowDirs PROVE NoneAccepted(r)
      BY <2>2, RowFacts, <2>1 DEF NoneAccepted, NoBytes
    <3>2. QED
      BY <3>1 DEF BaselineInv, ZeroedInv
  <2>4. SnapshotInv /\ ClearedInv /\ ControlInv
    BY <2>2 DEF SnapshotInv, ClearedInv, ControlInv, Idle, NoReset
  <2>5. RowInv
    <3> SUFFICES ASSUME NEW c \in Clients
                 PROVE  used[c] + Total(NoBytes, EmailOf[c]) <= Total(billed, c)
      BY <2>2 DEF RowInv, Idle
    <3>1. /\ <<EmailOf[c], "uplink">> \in Keys /\ <<EmailOf[c], "downlink">> \in Keys
          /\ <<c, "uplink">> \in RowDirs /\ <<c, "downlink">> \in RowDirs
      BY DEF Keys, RowDirs
    <3>2. QED
      BY <2>2, <3>1 DEF Total, NoBytes
  <2>6. QED
    BY <2>2, <2>3, <2>4, <2>5 DEF IInv, BillingInv, NoReset
<1>2. IInv /\ TypeOK /\ TypeOK' /\ ControlInv' /\ [Next]_vars => IInv'
  <2> SUFFICES ASSUME IInv, TypeOK, TypeOK', [Next]_vars, Undisturbed' PROVE BillingInv'
    BY DEF IInv
  <2>0. ControlInv /\ BillingInv
    BY UndisturbedBackwards DEF IInv
  <2>1. ASSUME NEW k \in Keys, Carry(k) PROVE BillingInv'
    BY <2>0, <2>1, CarryKeepsBilling
  <2>2. CASE XrayRestart
    BY <2>0, <2>2, XrayRestartKeepsBilling
  <2>3. CASE PanelRestart
    BY <2>3 DEF PanelRestart, Happened, Undisturbed, TypeOK, EventNames
  <2>4. CASE Query
    BY <2>0, <2>4, QueryKeepsBilling
  <2>5. CASE ParseStats
    BY <2>0, <2>5, ParseStatsKeepsBilling
  <2>6. CASE PollFails \/ PersistFails
    BY <2>0, <2>6, PollEndKeepsBilling
  <2>7. CASE Persist
    BY <2>0, <2>7, PersistKeepsBilling
  <2>8. ASSUME NEW S \in ResettableRows, ResetRows(S) PROVE BillingInv'
    BY <2>0, <2>8, ResetRowsKeepsBilling
  <2>9. ASSUME NEW d \in Directions, ResetCounter(d) PROVE BillingInv'
    BY <2>0, <2>9, ResetCounterKeepsBilling
  <2>10. CASE ForgetBaseline
    BY <2>0, <2>10, ForgetBaselineKeepsBilling
  <2>11. CASE UNCHANGED vars
    BY <2>0, <2>11 DEF vars, history, BillingInv, BaselineInv, SnapshotInv, ZeroedInv, RowInv,
        ClearedInv, NoneAccepted, BaselineLive, SnapshotStale, SnapshotLive, Pending,
        CounterReset, ZeroedDirs, Target, KeyOf, Delta, Total
  <2>12. QED
    BY <2>1, <2>2, <2>3, <2>4, <2>5, <2>6, <2>7, <2>8, <2>9, <2>10, <2>11 DEF Next
<1>3. QED
  BY <1>1, <1>2, TypeCorrect, ControlInductive, PTL DEF Spec

\* No row is charged a byte twice as long as the panel process lives, resets
\* do not overlap a poll and the daemon answers them, whatever the daemon's
\* restarts, failed polls and failed transactions (stats.go, ResetUserCounter).
THEOREM NoDoubleCharge == Spec => []ChargedAtMostOnce
<1>1. IInv /\ TypeOK => ChargedAtMostOnce
  <2> SUFFICES ASSUME TypeOK, BillingInv, NEW c \in Clients \ reset.rows
               PROVE  used[c] <= Total(since, c)
    BY DEF IInv, ChargedAtMostOnce, NeverOvercharged
  <2>1. /\ <<c, "uplink">> \in RowDirs /\ <<c, "downlink">> \in RowDirs
        /\ <<EmailOf[c], "uplink">> \in Keys /\ <<EmailOf[c], "downlink">> \in Keys
    BY DEF RowDirs, Keys
  <2>2. ASSUME NEW r \in RowDirs, r[1] = c PROVE billed[r] <= since[r]
    <3>1. /\ counter[KeyOf(r)] \in Nat /\ since[r] \in Nat
          /\ billed[r] \in Nat /\ prev[KeyOf(r)] \in Nat
      BY RowFacts
    <3>2. NoneAccepted(r) \/ BaselineLive(r)
      BY <2>2 DEF BillingInv, BaselineInv
    <3>3. QED
      BY <3>1, <3>2 DEF NoneAccepted, BaselineLive
  <2>3. used[c] + Total(poll.delta, EmailOf[c]) <= Total(billed, c)
    BY DEF BillingInv, RowInv
  <2>4. /\ poll.delta[<<EmailOf[c], "uplink">>] \in Nat
        /\ poll.delta[<<EmailOf[c], "downlink">>] \in Nat
        /\ billed[<<c, "uplink">>] \in Nat /\ billed[<<c, "downlink">>] \in Nat
        /\ since[<<c, "uplink">>] \in Nat /\ since[<<c, "downlink">>] \in Nat
        /\ used[c] \in Nat
    BY <2>1 DEF TypeOK
  <2>5. /\ billed[<<c, "uplink">>] <= since[<<c, "uplink">>]
        /\ billed[<<c, "downlink">>] <= since[<<c, "downlink">>]
    BY <2>1, <2>2
  <2>6. QED
    BY <2>3, <2>4, <2>5 DEF Total
<1>2. QED
  BY <1>1, Billing, TypeCorrect, PTL

=============================================================================
