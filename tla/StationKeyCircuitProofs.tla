---------------------- MODULE StationKeyCircuitProofs ----------------------
(***************************************************************************)
(* Proofs about the durable station-key circuit, for every set of keys and *)
(* requests, every policy and every bound.                                 *)
(***************************************************************************)
EXTENDS StationKeyCircuit, TLAPS

(***************************************************************************)
(* The reducer.                                                            *)
(***************************************************************************)
\* The cooldown is a natural number whatever the level.
LEMMA CooldownType ==
    ASSUME NEW level, NEW wait, NEW config \in Policies
    PROVE  Cooldown(level, wait, config) \in Nat
  BY MaxCooldownAssumption, RecoveryWaitAssumption DEF Cooldown, Greatest

\* Opening a row gives a row without a lease.
LEMMA OpenWithPolicyType ==
    ASSUME NEW rw \in Row, NEW config \in Policies, NEW now \in Nat,
           NEW fails \in Nat, NEW pol \in Policies
    PROVE  /\ OpenWithPolicy(rw, config, now, fails, pol) \in Row
           /\ OpenWithPolicy(rw, config, now, fails, pol).st = "open"
           /\ OpenWithPolicy(rw, config, now, fails, pol).lease = NoLease
  <1>1. Cooldown(rw.level + 1, RecoveryWait[pol], config) \in Nat
    BY CooldownType
  <1> QED
    BY <1>1 DEF OpenWithPolicy, OpenRow, NoPolicy, Row

\* Creating the row of a key that has none keeps every promise.
LEMMA EnsureStateFacts ==
    ASSUME NEW rw \in Row, LeaseShape(rw), NEW pol \in Policies
    PROVE  /\ EnsureState(rw, pol) \in Row
           /\ LeaseShape(EnsureState(rw, pol))
           /\ EnsureState(rw, pol).st # "absent"
           /\ EnsureState(rw, pol).lease = rw.lease
           /\ rw.lease # NoLease => EnsureState(rw, pol) = rw
           /\ rw.rev <= EnsureState(rw, pol).rev \/ rw.st = "absent"
  BY PoliciesAssumption DEF EnsureState, ClosedRow, LeaseShape, NoPolicy, Row

\* An allowed half-open admission leases a row that had no lease, under a new
\* revision; any other admission leaves a leased row as it is and grants none.
LEMMA AdmitRowFacts ==
    ASSUME NEW rw \in Row, LeaseShape(rw), rw.st # "absent",
           NEW config \in Policies, NEW now \in Nat,
           NEW deadline \in Nat, NEW a \in Attempts
    PROVE  LET new == AdmitRow(rw, config, now, deadline, a)
               verdict == AdmitVerdict(rw, config, now)
           IN  /\ new \in Row
               /\ LeaseShape(new)
               /\ new.st # "absent"
               /\ rw.rev <= new.rev
               /\ verdict = "allowed_half_open" =>
                     /\ rw.lease = NoLease
                     /\ new.lease = a
                     /\ ~new.crossed
                     /\ new.leaseRev = new.rev
                     /\ rw.rev < new.rev
               /\ verdict # "allowed_half_open" =>
                     /\ new.lease = rw.lease
                     /\ rw.lease # NoLease => new = rw
  <1> DEFINE new == AdmitRow(rw, config, now, deadline, a)
             verdict == AdmitVerdict(rw, config, now)
             adopted == AdoptPolicy(rw, config)
  <1>1. /\ adopted \in Row
        /\ rw.rev <= adopted.rev
        /\ adopted.lease = rw.lease /\ adopted.crossed = rw.crossed
        /\ adopted.st = rw.st
    <2>1. CASE rw.policy = config
      BY <2>1 DEF AdoptPolicy, Row
    <2>2. CASE rw.policy # config
      <3>1. adopted = [rw EXCEPT !.policy = config, !.rev = rw.rev + 1]
        BY <2>2 DEF AdoptPolicy
      <3>2. rw.rev \in Nat /\ rw.rev + 1 \in Nat
        BY DEF Row
      <3>3. adopted \in Row
        BY <3>1, <3>2 DEF Row
      <3> QED
        BY <3>1, <3>2, <3>3 DEF Row
    <2> QED
      BY <2>1, <2>2
  <1>2. CASE verdict = "opens"
    <2>1. rw.st = "closed" /\ rw.lease = NoLease
      BY <1>2 DEF AdmitVerdict, LeaseShape
    <2>2. new = OpenWithPolicy(rw, config, now, rw.fails, config)
      BY <1>2 DEF AdmitRow
    <2>3. rw.fails \in Nat
      BY DEF Row
    <2>4. new \in Row /\ new.lease = NoLease /\ ~new.crossed
                      /\ new.rev = rw.rev + 1 /\ new.st = "open"
      BY <2>2, <2>3, OpenWithPolicyType DEF OpenWithPolicy, OpenRow
    <2> QED
      BY <1>2, <2>1, <2>4 DEF LeaseShape, Row
  <1>3. CASE verdict = "allowed_closed" \/ verdict = "cooling"
    <2>1. rw.lease = NoLease
      BY <1>3 DEF AdmitVerdict, LeaseShape
    <2>2. new = adopted
      BY <1>3 DEF AdmitRow
    <2> QED
      BY <1>1, <1>3, <2>1, <2>2 DEF LeaseShape
  <1>4. CASE verdict = "occupied"
    <2>1. new = rw
      BY <1>4 DEF AdmitRow
    <2> QED
      BY <1>4, <2>1 DEF Row
  <1>5. CASE verdict = "allowed_half_open"
    <2>1. rw.lease = NoLease
      BY <1>5 DEF AdmitVerdict, LeaseShape, Row
    <2>2. PICK rev \in Nat, succ \in Nat :
             /\ rw.rev < rev
             /\ new = LeasedRow(rev, config, rw.level, succ, a, deadline)
      <3>1. CASE rw.st = "open"
        <4>1. new = LeasedRow(adopted.rev + 1, config, rw.level, 0, a, deadline)
          BY <1>5, <3>1 DEF AdmitRow
        <4> QED
          BY <4>1, <1>1 DEF Row
      <3>2. CASE rw.st # "open"
        <4>1. new = LeasedRow(rw.rev + 1, config, rw.level, rw.succ, a, deadline)
          BY <1>5, <3>2 DEF AdmitRow
        <4> QED
          BY <4>1 DEF Row
      <3> QED
        BY <3>1, <3>2
    <2>3. new \in Row
      BY <2>2 DEF LeasedRow, Row
    <2> QED
      BY <1>5, <2>1, <2>2, <2>3, NoLeaseAssumption
      DEF LeasedRow, LeaseShape, Row
  <1>6. verdict \in {"opens", "allowed_closed", "cooling", "occupied",
                     "allowed_half_open"}
    BY DEF AdmitVerdict
  <1> QED
    BY <1>2, <1>3, <1>4, <1>5, <1>6

\* A result of attempt a changes a leased row only if a holds the lease, and
\* then the lease ends; no result grants a lease.
LEMMA FinishRowFacts ==
    ASSUME NEW rw \in Row, LeaseShape(rw), rw.st # "absent",
           NEW config \in Policies, NEW now \in Nat, NEW a \in Attempts,
           NEW success \in BOOLEAN, NEW counts \in BOOLEAN
    PROVE  LET new == FinishRow(rw, config, now, a, success, counts)
           IN  /\ new \in Row
               /\ LeaseShape(new)
               /\ new.st # "absent"
               /\ rw.rev <= new.rev
               /\ rw.lease = a => new.lease = NoLease
               /\ rw.lease # a => new.lease = rw.lease
               /\ rw.lease # a /\ rw.lease # NoLease => new = rw
  <1> DEFINE new == FinishRow(rw, config, now, a, success, counts)
             transition ==
                 FinishTransition(rw, config, now, a, success, counts)
  <1>1. CASE transition \in {"ignored", "observed"}
    <2>1. new = rw
      BY <1>1 DEF FinishRow
    <2>2. rw.lease # a
      BY <1>1, NoLeaseAssumption DEF FinishTransition, LeaseShape
    <2> QED
      BY <2>1, <2>2 DEF Row
  <1>2. CASE transition \in {"reset", "counted", "opened"}
    <2>1. rw.st = "closed" /\ rw.lease = NoLease
      BY <1>2 DEF FinishTransition, LeaseShape
    <2>2. CASE transition = "reset"
      <3>1. new = ClosedRow(rw.rev + 1, config, 0, rw.level)
        BY <2>2 DEF FinishRow
      <3> QED
        BY <2>1, <3>1, NoLeaseAssumption DEF ClosedRow, LeaseShape, Row, NoPolicy
    <2>3. CASE transition = "counted"
      <3>1. new = ClosedRow(rw.rev + 1, config, rw.fails + 1, rw.level)
        BY <2>3 DEF FinishRow
      <3> QED
        BY <2>1, <3>1, NoLeaseAssumption DEF ClosedRow, LeaseShape, Row, NoPolicy
    <2>4. CASE transition = "opened"
      <3>1. new = OpenWithPolicy(rw, config, now, rw.fails + 1, config)
        BY <2>4 DEF FinishRow
      <3>2. rw.fails + 1 \in Nat
        BY DEF Row
      <3>3. new \in Row /\ new.lease = NoLease /\ ~new.crossed
                        /\ new.rev = rw.rev + 1 /\ new.st = "open"
        BY <3>1, <3>2, OpenWithPolicyType DEF OpenWithPolicy, OpenRow
      <3> QED
        BY <2>1, <3>3, NoLeaseAssumption DEF LeaseShape, Row
    <2> QED
      BY <1>2, <2>2, <2>3, <2>4
  <1>3. CASE transition \in {"released", "reopened", "closed", "recovering"}
    <2>1. rw.st = "half_open" /\ rw.lease = a /\ rw.leasePolicy \in Policies
      BY <1>3, NoLeaseAssumption DEF FinishTransition, LeaseShape, Row
    <2>2. CASE transition = "released"
      <3>1. new = IdleRow(rw.rev, rw.policy, rw.level, rw.succ)
        BY <2>2 DEF FinishRow
      <3> QED
        BY <2>1, <3>1 DEF IdleRow, LeaseShape, Row, NoPolicy
    <2>3. CASE transition = "reopened"
      <3>1. new = OpenWithPolicy(rw, config, now, 0, rw.leasePolicy)
        BY <2>3 DEF FinishRow
      <3>2. new \in Row /\ new.lease = NoLease /\ ~new.crossed
                        /\ new.rev = rw.rev + 1 /\ new.st = "open"
        BY <2>1, <3>1, OpenWithPolicyType DEF OpenWithPolicy, OpenRow
      <3> QED
        BY <2>1, <3>2 DEF LeaseShape, Row
    <2>4. CASE transition = "closed"
      <3>1. new = ClosedRow(rw.rev + 1, rw.leasePolicy, 0, 0)
        BY <2>4 DEF FinishRow
      <3> QED
        BY <2>1, <3>1 DEF ClosedRow, LeaseShape, Row, NoPolicy
    <2>5. CASE transition = "recovering"
      <3>1. new = IdleRow(rw.rev + 1, rw.leasePolicy, rw.level, rw.succ + 1)
        BY <2>5 DEF FinishRow
      <3> QED
        BY <2>1, <3>1 DEF IdleRow, LeaseShape, Row, NoPolicy
    <2> QED
      BY <1>3, <2>2, <2>3, <2>4, <2>5
  <1>4. transition \in {"ignored", "observed", "reset", "counted", "opened",
                        "released", "reopened", "closed", "recovering"}
    BY DEF FinishTransition
  <1> QED
    BY <1>1, <1>2, <1>3, <1>4

\* Reaping an expired lease ends it.
LEMMA ReapRowFacts ==
    ASSUME NEW rw \in Row, LeaseShape(rw), NEW config \in Policies,
           NEW now \in Nat, Expired(rw, now)
    PROVE  LET new == ReapRow(rw, config, now)
           IN  /\ new \in Row
               /\ LeaseShape(new)
               /\ new.st # "absent"
               /\ rw.rev <= new.rev
               /\ new.lease = NoLease
  <1>1. rw.lease \in Attempts /\ rw.leasePolicy \in Policies
          /\ rw.st = "half_open"
    BY DEF Expired, LeaseShape, Row
  <1>2. CASE rw.crossed
    <2> DEFINE new == OpenWithPolicy(rw, config, now, 0, rw.leasePolicy)
    <2>1. ReapRow(rw, config, now) = new
      BY <1>2 DEF ReapRow
    <2>2. new \in Row /\ new.lease = NoLease /\ new.st = "open"
      BY <1>1, OpenWithPolicyType
    <2>3. ~new.crossed /\ new.rev = rw.rev + 1
      BY DEF OpenWithPolicy, OpenRow
    <2> QED
      BY <2>1, <2>2, <2>3 DEF LeaseShape, Row
  <1>3. CASE ~rw.crossed
    <2> DEFINE new == FinishRow(rw, config, now, rw.lease, FALSE, FALSE)
    <2>1. ReapRow(rw, config, now) = new
      BY <1>3 DEF ReapRow
    <2>2. /\ new \in Row
          /\ LeaseShape(new)
          /\ new.st # "absent"
          /\ rw.rev <= new.rev
          /\ new.lease = NoLease
      BY <1>1, FinishRowFacts
    <2> HIDE DEF new
    <2> QED
      BY <2>1, <2>2
  <1> QED
    BY <1>2, <1>3

(***************************************************************************)
(* The state machine.                                                      *)
(***************************************************************************)
\* The current attempt of a request is one of its attempts.
LEMMA CurrentFacts ==
    ASSUME TypeOK, NEW r \in Requests
    PROVE  Current(r) \in Attempts /\ Current(r)[1] = r
  BY AttemptsAssumption DEF TypeOK, Current

\* The attempt of a request belongs to that request.
LEMMA AttemptOwner ==
    ASSUME NEW a \in Attempts PROVE a[1] \in Requests
  BY AttemptsAssumption

\* The logical time of a transaction is a natural number.
LEMMA LogicalNowType ==
    ASSUME TypeOK, NEW t \in Time
    PROVE  LogicalNow(t) \in Nat
  BY MaxTimeAssumption DEF TypeOK, LogicalNow, Greatest, Time

\* The empty tables and idle executors of a fresh installation.
LEMMA InitInv == Init => CircuitInv
  <1> SUFFICES ASSUME Init PROVE CircuitInv
    OBVIOUS
  <1>1. AbsentRow \in Row /\ LeaseShape(AbsentRow) /\ AbsentRow.lease = NoLease
    BY DEF AbsentRow, Row, LeaseShape, NoPolicy
  <1>2. NoSlot \in Slot /\ NoSlot.st = "none"
    BY DEF NoSlot, Slot
  <1>3. NoHistory \in History
    BY DEF NoHistory, History
  <1>4. TypeOK
    BY <1>1, <1>2, <1>3, FirstPolicyAssumption, MaxIndexAssumption
    DEF Init, TypeOK, Indices
  <1> QED
    BY <1>1, <1>2, <1>4 DEF Init, CircuitInv, SlotsValid, LeaseOwnership,
       PendingProbeAccounted, OnePending, FinalizedSettled

\* Steps of the executors, of finalization and of the operating system that
\* leave the circuit tables alone.
LEMMA QuietStep ==
    ASSUME CircuitInv, UNCHANGED <<row, ledger, evt, leaseEvt>>,
           TypeOK', OnePending', FinalizedSettled'
    PROVE  CircuitInv'
  <1>1. SlotsValid'
    BY DEF CircuitInv, SlotsValid
  <1>2. LeaseOwnership'
    BY DEF CircuitInv, LeaseOwnership
  <1>3. PendingProbeAccounted'
    BY DEF CircuitInv, PendingProbeAccounted
  <1> QED
    BY <1>1, <1>2, <1>3 DEF CircuitInv

\* The circuit half of a terminal or of a recovery, together with the ledger.
LEMMA FinishStep ==
    ASSUME CircuitInv, NEW a \in Attempts, ledger[a].st = "pending",
           NEW success \in BOOLEAN, NEW counts \in BOOLEAN, NEW t \in Time,
           NEW st \in {"success", "failure", "excluded"},
           ledger' = [ledger EXCEPT ![a].st = st],
           FinishCircuit(a, success, counts, t),
           leaseEvt' = leaseEvt
    PROVE  /\ row' \in [Keys -> Row]
           /\ clock' \in Nat
           /\ ledger' \in [Attempts -> Slot]
           /\ evt' \in [Attempts -> {"none", "applied", "ignored"}]
           /\ hist' \in [Keys -> History]
           /\ \A k \in Keys : LeaseShape(row[k])'
           /\ SlotsValid'
           /\ LeaseOwnership'
           /\ PendingProbeAccounted'
           /\ \A b \in Attempts : ledger'[b].st = "pending" =>
                 b # a /\ ledger[b].st = "pending"
           /\ \A j \in Keys : row'[j].lease \in {row[j].lease, NoLease}
  <1> DEFINE k == ledger[a].key
             now == LogicalNow(t)
             loaded == EnsureState(row[k], policy)
             transition ==
                 FinishTransition(loaded, policy, now, a, success, counts)
             new == FinishRow(loaded, policy, now, a, success, counts)
  <1>1. k \in Keys /\ row[k].st # "absent" /\ evt[a] = "none"
    BY DEF CircuitInv, SlotsValid
  <1>2. TypeOK /\ row[k] \in Row /\ LeaseShape(row[k]) /\ policy \in Policies
    BY <1>1 DEF CircuitInv, TypeOK
  <1>3. loaded = row[k]
    BY <1>1 DEF EnsureState
  <1>4. now \in Nat
    BY <1>2, LogicalNowType
  <1>5. /\ new \in Row
        /\ LeaseShape(new)
        /\ new.st # "absent"
        /\ row[k].rev <= new.rev
        /\ row[k].lease = a => new.lease = NoLease
        /\ row[k].lease # a => new.lease = row[k].lease
        /\ row[k].lease # a /\ row[k].lease # NoLease => new = row[k]
    <2> HIDE DEF now, k
    <2> QED BY <1>1, <1>2, <1>3, <1>4, FinishRowFacts
  <1>6. /\ clock' = now
        /\ row' = [row EXCEPT ![k] = new]
        /\ evt' = [evt EXCEPT ![a] =
                IF transition = "ignored" THEN "ignored" ELSE "applied"]
        /\ hist' = [hist EXCEPT ![k] = HistFinish(@, transition, a)]
    BY <1>1 DEF FinishCircuit
  <1>7. HistFinish(hist[k], transition, a) \in History
    <2>1. hist[k] \in History
      BY <1>1, <1>2 DEF TypeOK
    <2> QED
      BY <2>1 DEF HistFinish, History
  <1> HIDE DEF k, now, transition, new
  <1>8. /\ row' \in [Keys -> Row]
        /\ clock' \in Nat
        /\ ledger' \in [Attempts -> Slot]
        /\ evt' \in [Attempts -> {"none", "applied", "ignored"}]
        /\ hist' \in [Keys -> History]
    BY <1>2, <1>4, <1>5, <1>6, <1>7 DEF TypeOK, Slot
  <1>9. \A b \in Attempts :
           /\ ledger'[b] = IF b = a THEN [ledger[a] EXCEPT !.st = st]
                           ELSE ledger[b]
           /\ b # a => evt'[b] = evt[b]
    BY <1>2, <1>6 DEF TypeOK
  <1>10. \A j \in Keys : row'[j] = IF j = k THEN new ELSE row[j]
    BY <1>2, <1>6 DEF TypeOK
  <1>11. \A j \in Keys : LeaseShape(row[j])'
    BY <1>5, <1>10 DEF CircuitInv, LeaseShape
  <1>12. /\ ledger'[a].st = st /\ ledger'[a].key = k
         /\ ledger'[a].leaseRev = ledger[a].leaseRev
    BY <1>2, <1>9 DEF TypeOK, Slot, k
  <1>13. SlotsValid'
    <2> SUFFICES ASSUME NEW b \in Attempts
                 PROVE  IF ledger'[b].st = "none"
                        THEN ledger'[b] = NoSlot /\ evt'[b] = "none"
                        ELSE /\ ledger'[b].key \in Keys
                             /\ ledger'[b].leaseRev <= row'[ledger'[b].key].rev
                             /\ row'[ledger'[b].key].st # "absent"
                             /\ ledger'[b].st = "pending" => evt'[b] = "none"
      BY DEF SlotsValid
    <2>1. CASE b = a
      <3>1. ledger[a].leaseRev <= row[k].rev
        BY DEF CircuitInv, SlotsValid, k
      <3>2. ledger[a].leaseRev \in Nat /\ row[k].rev \in Nat /\ new.rev \in Nat
        BY <1>2, <1>5 DEF TypeOK, Slot, Row
      <3> QED
        BY <2>1, <1>1, <1>5, <1>10, <1>12, <3>1, <3>2
    <2>2. CASE b # a
      <3>1. ledger'[b] = ledger[b] /\ evt'[b] = evt[b]
        BY <2>2, <1>9
      <3>2. CASE ledger[b].st = "none"
        BY <3>1, <3>2 DEF CircuitInv, SlotsValid
      <3>3. CASE ledger[b].st # "none"
        <4>1. /\ ledger[b].key \in Keys
              /\ ledger[b].leaseRev <= row[ledger[b].key].rev
              /\ row[ledger[b].key].st # "absent"
              /\ ledger[b].st = "pending" => evt[b] = "none"
          BY <3>3 DEF CircuitInv, SlotsValid
        <4>2. ledger[b].leaseRev \in Nat /\ row[k].rev \in Nat
                /\ new.rev \in Nat
          BY <1>2, <1>5 DEF TypeOK, Slot, Row
        <4> QED
          BY <3>1, <3>3, <4>1, <4>2, <1>5, <1>10
      <3> QED
        BY <3>2, <3>3
    <2> QED
      BY <2>1, <2>2
  <1>14. LeaseOwnership'
    <2> SUFFICES ASSUME NEW j \in Keys, row'[j].lease # NoLease
                 PROVE  LET slot == ledger'[row'[j].lease] IN
                        /\ slot.key = j
                        /\ slot.st = "pending"
                        /\ slot.leaseRev = row'[j].leaseRev
                        /\ slot.crossed = row'[j].crossed
      BY DEF LeaseOwnership
    <2>1. row'[j] = row[j] /\ row[j].lease # a
      <3>1. CASE j = k
        BY <3>1, <1>5, <1>10
      <3>2. CASE j # k
        <4>1. row'[j] = row[j]
          BY <3>2, <1>10
        <4>2. row[j].lease # a
          BY <3>2, <4>1 DEF CircuitInv, LeaseOwnership, k
        <4> QED
          BY <4>1, <4>2
      <3> QED
        BY <3>1, <3>2
    <2>2. row[j].lease \in Attempts
      BY <1>2, <2>1 DEF TypeOK, Row
    <2>3. ledger'[row[j].lease] = ledger[row[j].lease]
      BY <1>9, <2>1, <2>2
    <2> QED
      BY <2>1, <2>3 DEF CircuitInv, LeaseOwnership
  <1>15. PendingProbeAccounted'
    <2> SUFFICES ASSUME NEW b \in Attempts, ledger'[b].st = "pending",
                        ledger'[b].leaseRev # 0
                 PROVE  \/ row'[ledger'[b].key].lease = b
                        \/ leaseEvt'[b] # "none"
      BY DEF PendingProbeAccounted
    <2>1. b # a /\ ledger'[b] = ledger[b]
      BY <1>9, <1>12
    <2>2. \/ row[ledger[b].key].lease = b
          \/ leaseEvt[b] # "none"
      BY <2>1 DEF CircuitInv, PendingProbeAccounted
    <2>3. CASE leaseEvt[b] # "none"
      BY <2>3
    <2>4. CASE row[ledger[b].key].lease = b
      <3>1. ledger[b].key \in Keys
        BY <2>1 DEF CircuitInv, SlotsValid
      <3>2. row'[ledger[b].key].lease = b
        BY <2>1, <2>4, <3>1, <1>5, <1>10, NoLeaseAssumption
      <3> QED
        BY <2>1, <3>2
    <2> QED
      BY <2>2, <2>3, <2>4
  <1>16. \A b \in Attempts : ledger'[b].st = "pending" =>
            b # a /\ ledger[b].st = "pending"
    BY <1>9, <1>12
  <1>17. \A j \in Keys : row'[j].lease \in {row[j].lease, NoLease}
    BY <1>5, <1>10
  <1> QED
    BY <1>8, <1>11, <1>13, <1>14, <1>15, <1>16, <1>17

\* The circuit half of an admission.
LEMMA AdmitCircuitFacts ==
    ASSUME CircuitInv, NEW r \in Requests, NEW k \in Keys, NEW t \in Time,
           AdmitCircuit(r, k, t)
    PROVE  LET new == AdmittedRow(r, k, t)
               verdict == Verdict(r, k, t)
           IN  /\ new \in Row
               /\ LeaseShape(new)
               /\ new.st # "absent"
               /\ row[k].st # "absent" => row[k].rev <= new.rev
               /\ verdict = "allowed_half_open" =>
                     /\ row[k].lease = NoLease
                     /\ new.lease = Current(r)
                     /\ ~new.crossed
                     /\ new.leaseRev = new.rev
                     /\ row[k].st # "absent" => row[k].rev < new.rev
               /\ verdict # "allowed_half_open" =>
                     /\ new.lease = row[k].lease
                     /\ row[k].lease # NoLease => new = row[k]
               /\ clock' \in Nat
               /\ row' \in [Keys -> Row]
               /\ hist' \in [Keys -> History]
               /\ \A j \in Keys : row'[j] = IF j = k THEN new ELSE row[j]
               /\ \A j \in Keys : LeaseShape(row[j])'
  <1> DEFINE a == Current(r)
             now == LogicalNow(t)
             pol == budget[r]
             deadline == AdmissionDeadline(r, t)
             loaded == EnsureState(row[k], pol)
             verdict == AdmitVerdict(loaded, pol, now)
             new == AdmitRow(loaded, pol, now, deadline, a)
  <1>1. TypeOK /\ row[k] \in Row /\ LeaseShape(row[k]) /\ pol \in Policies
    BY DEF CircuitInv, TypeOK
  <1>2. a \in Attempts
    BY <1>1, CurrentFacts
  <1>3. now \in Nat
    BY <1>1, LogicalNowType
  <1>4. deadline \in Nat
    BY DeadlineAssumption, MaxTimeAssumption
    DEF AdmissionDeadline, Greatest, Time
  <1>5. AdmittedRow(r, k, t) = new /\ Verdict(r, k, t) = verdict
    BY DEF AdmittedRow, Verdict, LoadedRow
  <1>6. /\ clock' = now
        /\ row' = [row EXCEPT ![k] = new]
        /\ hist' = [hist EXCEPT ![k] = HistAdmit(@, loaded, new, a)]
    BY DEF AdmitCircuit, AdmittedRow, LoadedRow
  <1>7. HistAdmit(hist[k], loaded, new, a) \in History
    <2>1. hist[k] \in History
      BY <1>1 DEF TypeOK
    <2> HIDE DEF loaded, new, a
    <2> QED
      BY <1>2, <2>1 DEF HistAdmit, History
  <1> HIDE DEF a, now, pol, deadline
  <1>8. /\ loaded \in Row
        /\ LeaseShape(loaded)
        /\ loaded.st # "absent"
        /\ loaded.lease = row[k].lease
        /\ row[k].lease # NoLease => loaded = row[k]
        /\ row[k].rev <= loaded.rev \/ row[k].st = "absent"
    BY <1>1, EnsureStateFacts
  <1> HIDE DEF loaded
  <1>9. /\ new \in Row
        /\ LeaseShape(new)
        /\ new.st # "absent"
        /\ loaded.rev <= new.rev
        /\ verdict = "allowed_half_open" =>
              /\ loaded.lease = NoLease
              /\ new.lease = a
              /\ ~new.crossed
              /\ new.leaseRev = new.rev
              /\ loaded.rev < new.rev
        /\ verdict # "allowed_half_open" =>
              /\ new.lease = loaded.lease
              /\ loaded.lease # NoLease => new = loaded
    <2>1. pol \in Policies /\ loaded \in Row /\ LeaseShape(loaded)
            /\ loaded.st # "absent"
      BY <1>1, <1>8
    <2> QED
      BY <1>2, <1>3, <1>4, <2>1, AdmitRowFacts, SMT
  <1> HIDE DEF new, verdict
  <1>10. row[k].rev \in Nat /\ loaded.rev \in Nat /\ new.rev \in Nat
    BY <1>1, <1>8, <1>9 DEF Row
  <1>11. /\ row[k].st # "absent" => row[k].rev <= new.rev
         /\ verdict = "allowed_half_open" =>
              (row[k].st # "absent" => row[k].rev < new.rev)
    BY <1>8, <1>9, <1>10
  <1>12. \A j \in Keys : row'[j] = IF j = k THEN new ELSE row[j]
    BY <1>1, <1>6 DEF TypeOK
  <1>13. \A j \in Keys : LeaseShape(row[j])'
    BY <1>9, <1>12 DEF CircuitInv, LeaseShape
  <1>14. /\ clock' \in Nat
         /\ row' \in [Keys -> Row]
         /\ hist' \in [Keys -> History]
    BY <1>1, <1>3, <1>6, <1>7, <1>9 DEF TypeOK
  <1>15. a = Current(r)
    BY DEF a
  <1> QED
    BY <1>5, <1>8, <1>9, <1>11, <1>12, <1>13, <1>14, <1>15

\* An allowed admission: a pending slot for the current attempt, and the lease
\* with it when the circuit was half-open.
LEMMA AdmitStep ==
    ASSUME CircuitInv, NEW r \in Requests, NEW k \in Keys, NEW t \in Time,
           AdmitCircuit(r, k, t), InsertSlot(r, k, t),
           UNCHANGED <<evt, leaseEvt>>
    PROVE  /\ row' \in [Keys -> Row]
           /\ clock' \in Nat
           /\ ledger' \in [Attempts -> Slot]
           /\ hist' \in [Keys -> History]
           /\ \A j \in Keys : LeaseShape(row[j])'
           /\ SlotsValid'
           /\ LeaseOwnership'
           /\ PendingProbeAccounted'
           /\ \A b \in Attempts : ledger'[b].st = "pending" =>
                 b = Current(r) \/ ledger[b].st = "pending"
  <1> DEFINE a == Current(r)
             new == AdmittedRow(r, k, t)
             leased == Verdict(r, k, t) = "allowed_half_open"
             slot == [key |-> k, st |-> "pending", crossed |-> FALSE,
                      leaseRev |-> IF leased THEN new.leaseRev ELSE 0]
  <1>1. TypeOK /\ a \in Attempts
    BY CurrentFacts DEF CircuitInv
  <1>2. ledger[a].st = "none" /\ ledger' = [ledger EXCEPT ![a] = slot]
    BY DEF InsertSlot
  <1>3. evt[a] = "none"
    BY <1>1, <1>2 DEF CircuitInv, SlotsValid
  <1>4. /\ new \in Row
        /\ new.st # "absent"
        /\ row[k].st # "absent" => row[k].rev <= new.rev
        /\ leased =>
              /\ row[k].lease = NoLease
              /\ new.lease = a
              /\ ~new.crossed
              /\ new.leaseRev = new.rev
        /\ ~leased =>
              /\ new.lease = row[k].lease
              /\ row[k].lease # NoLease => new = row[k]
        /\ clock' \in Nat
        /\ row' \in [Keys -> Row]
        /\ hist' \in [Keys -> History]
        /\ \A j \in Keys : row'[j] = IF j = k THEN new ELSE row[j]
        /\ \A j \in Keys : LeaseShape(row[j])'
    BY AdmitCircuitFacts
  <1> HIDE DEF a, new, leased
  <1>5. new.rev \in Nat /\ new.leaseRev \in Nat /\ slot \in Slot
    BY <1>4 DEF Row, Slot
  <1>6. /\ ledger' \in [Attempts -> Slot]
        /\ \A b \in Attempts : ledger'[b] = IF b = a THEN slot ELSE ledger[b]
    BY <1>1, <1>2, <1>5 DEF TypeOK
  <1>7. \A j \in Keys : row[j].lease # a
    BY <1>1, <1>2, NoLeaseAssumption DEF CircuitInv, LeaseOwnership
  <1>8. SlotsValid'
    <2> SUFFICES ASSUME NEW b \in Attempts
                 PROVE  IF ledger'[b].st = "none"
                        THEN ledger'[b] = NoSlot /\ evt'[b] = "none"
                        ELSE /\ ledger'[b].key \in Keys
                             /\ ledger'[b].leaseRev <= row'[ledger'[b].key].rev
                             /\ row'[ledger'[b].key].st # "absent"
                             /\ ledger'[b].st = "pending" => evt'[b] = "none"
      BY DEF SlotsValid
    <2>1. CASE b = a
      BY <2>1, <1>3, <1>4, <1>5, <1>6
    <2>2. CASE b # a
      <3>1. ledger'[b] = ledger[b] /\ evt'[b] = evt[b]
        BY <2>2, <1>6
      <3>2. CASE ledger[b].st = "none"
        BY <3>1, <3>2 DEF CircuitInv, SlotsValid
      <3>3. CASE ledger[b].st # "none"
        <4>1. /\ ledger[b].key \in Keys
              /\ ledger[b].leaseRev <= row[ledger[b].key].rev
              /\ row[ledger[b].key].st # "absent"
              /\ ledger[b].st = "pending" => evt[b] = "none"
          BY <3>3 DEF CircuitInv, SlotsValid
        <4>2. ledger[b].leaseRev \in Nat /\ row[k].rev \in Nat
          BY <1>1 DEF TypeOK, Slot, Row
        <4> QED
          BY <3>1, <3>3, <4>1, <4>2, <1>4, <1>5
      <3> QED
        BY <3>2, <3>3
    <2> QED
      BY <2>1, <2>2
  <1>9. LeaseOwnership'
    <2> SUFFICES ASSUME NEW j \in Keys, row'[j].lease # NoLease
                 PROVE  LET held == ledger'[row'[j].lease] IN
                        /\ held.key = j
                        /\ held.st = "pending"
                        /\ held.leaseRev = row'[j].leaseRev
                        /\ held.crossed = row'[j].crossed
      BY DEF LeaseOwnership
    <2>1. CASE j = k /\ leased
      <3>1. row'[j] = new /\ ledger'[new.lease] = slot
        BY <2>1, <1>1, <1>4, <1>6
      <3>2. new.crossed = FALSE
        <4>1. new.crossed \in BOOLEAN
          BY <1>4 DEF Row
        <4> QED
          BY <2>1, <4>1, <1>4, Zenon
      <3>3. slot.key = k /\ slot.st = "pending" /\ slot.crossed = FALSE
              /\ slot.leaseRev = new.leaseRev
        BY <2>1
      <3> QED
        BY <2>1, <3>1, <3>2, <3>3, Zenon
    <2>2. CASE ~(j = k /\ leased)
      <3>1. row'[j] = row[j]
        BY <2>2, <1>4
      <3>2. row[j].lease \in Attempts
        BY <1>1, <3>1 DEF TypeOK, Row
      <3>3. ledger'[row[j].lease] = ledger[row[j].lease]
        BY <1>6, <1>7, <3>2
      <3> QED
        BY <3>1, <3>3 DEF CircuitInv, LeaseOwnership
    <2> QED
      BY <2>1, <2>2
  <1>10. PendingProbeAccounted'
    <2> SUFFICES ASSUME NEW b \in Attempts, ledger'[b].st = "pending",
                        ledger'[b].leaseRev # 0
                 PROVE  \/ row'[ledger'[b].key].lease = b
                        \/ leaseEvt'[b] # "none"
      BY DEF PendingProbeAccounted
    <2>1. CASE b = a
      BY <2>1, <1>4, <1>6
    <2>2. CASE b # a
      <3>1. ledger'[b] = ledger[b]
        BY <2>2, <1>6
      <3>2. \/ row[ledger[b].key].lease = b
            \/ leaseEvt[b] # "none"
        BY <3>1 DEF CircuitInv, PendingProbeAccounted
      <3>3. ledger[b].key \in Keys
        BY <3>1 DEF CircuitInv, SlotsValid
      <3> QED
        BY <3>1, <3>2, <3>3, <1>4, NoLeaseAssumption
    <2> QED
      BY <2>1, <2>2
  <1>11. \A b \in Attempts : ledger'[b].st = "pending" =>
            b = Current(r) \/ ledger[b].st = "pending"
    BY <1>6 DEF a
  <1> QED
    BY <1>4, <1>6, <1>8, <1>9, <1>10, <1>11

\* A refused admission may open the circuit or adopt a policy, nothing else.
LEMMA DeniedStep ==
    ASSUME CircuitInv, NEW r \in Requests, NEW k \in Keys, NEW t \in Time,
           AdmitCircuit(r, k, t), ~Allowed(Verdict(r, k, t)),
           UNCHANGED <<ledger, evt, leaseEvt>>
    PROVE  /\ row' \in [Keys -> Row]
           /\ clock' \in Nat
           /\ hist' \in [Keys -> History]
           /\ \A j \in Keys : LeaseShape(row[j])'
           /\ SlotsValid'
           /\ LeaseOwnership'
           /\ PendingProbeAccounted'
  <1> DEFINE new == AdmittedRow(r, k, t)
  <1>1. TypeOK
    BY DEF CircuitInv
  <1>2. /\ new \in Row
        /\ new.st # "absent"
        /\ row[k].st # "absent" => row[k].rev <= new.rev
        /\ new.lease = row[k].lease
        /\ row[k].lease # NoLease => new = row[k]
        /\ clock' \in Nat
        /\ row' \in [Keys -> Row]
        /\ hist' \in [Keys -> History]
        /\ \A j \in Keys : row'[j] = IF j = k THEN new ELSE row[j]
        /\ \A j \in Keys : LeaseShape(row[j])'
    <2>1. Verdict(r, k, t) # "allowed_half_open"
      BY DEF Allowed
    <2> QED
      BY <2>1, AdmitCircuitFacts
  <1> HIDE DEF new
  <1>3. SlotsValid'
    <2> SUFFICES ASSUME NEW b \in Attempts, ledger[b].st # "none"
                 PROVE  /\ ledger[b].leaseRev <= row'[ledger[b].key].rev
                        /\ row'[ledger[b].key].st # "absent"
      BY DEF CircuitInv, SlotsValid
    <2>1. /\ ledger[b].key \in Keys
          /\ ledger[b].leaseRev <= row[ledger[b].key].rev
          /\ row[ledger[b].key].st # "absent"
      BY DEF CircuitInv, SlotsValid
    <2>2. ledger[b].leaseRev \in Nat /\ row[k].rev \in Nat /\ new.rev \in Nat
      BY <1>1, <1>2 DEF TypeOK, Slot, Row
    <2> QED
      BY <2>1, <2>2, <1>2
  <1>4. LeaseOwnership'
    <2>1. \A j \in Keys : row'[j].lease # NoLease => row'[j] = row[j]
      BY <1>2
    <2> QED
      BY <2>1 DEF CircuitInv, LeaseOwnership
  <1>5. PendingProbeAccounted'
    <2> SUFFICES ASSUME NEW b \in Attempts, ledger[b].st = "pending",
                        row[ledger[b].key].lease = b
                 PROVE  row'[ledger[b].key].lease = b
      BY DEF CircuitInv, PendingProbeAccounted
    <2>1. ledger[b].key \in Keys
      BY DEF CircuitInv, SlotsValid
    <2> QED
      BY <2>1, <1>2
  <1> QED
    BY <1>2, <1>3, <1>4, <1>5

\* The outbound boundary marks the slot and, for a half-open attempt, the
\* lease it holds.
LEMMA BoundaryStep ==
    ASSUME CircuitInv, NEW a \in Attempts, NEW t \in Time,
           MarkBoundary(a, t), UNCHANGED <<evt, leaseEvt>>
    PROVE  /\ row' \in [Keys -> Row]
           /\ clock' \in Nat
           /\ ledger' \in [Attempts -> Slot]
           /\ \A j \in Keys : LeaseShape(row[j])'
           /\ SlotsValid'
           /\ LeaseOwnership'
           /\ PendingProbeAccounted'
           /\ \A b \in Attempts : ledger'[b].st = ledger[b].st
           /\ \A j \in Keys : row'[j].lease = row[j].lease
  <1> DEFINE k == ledger[a].key
             slot == [ledger[a] EXCEPT !.crossed = TRUE]
  <1>1. TypeOK
    BY DEF CircuitInv
  <1>2. /\ ledger[a].st = "pending"
        /\ k \in Keys
        /\ ledger' = [ledger EXCEPT ![a].crossed = TRUE]
    BY DEF MarkBoundary, CircuitInv, SlotsValid
  <1>3. /\ ledger' \in [Attempts -> Slot]
        /\ \A b \in Attempts : ledger'[b] = IF b = a THEN slot ELSE ledger[b]
    <2>1. ledger \in [Attempts -> Slot]
      BY <1>1 DEF TypeOK
    <2>2. slot \in Slot
      BY <2>1 DEF Slot
    <2>3. ledger' = [ledger EXCEPT ![a] = slot]
      BY <1>2
    <2> HIDE DEF slot
    <2> QED
      BY <2>1, <2>2, <2>3
  <1>4. /\ slot.key = k /\ slot.st = "pending" /\ slot.crossed = TRUE
        /\ slot.leaseRev = ledger[a].leaseRev
    BY <1>1, <1>2 DEF TypeOK, Slot
  <1>5. \A b \in Attempts :
           /\ ledger'[b].st = ledger[b].st
           /\ ledger'[b].key = ledger[b].key
           /\ ledger'[b].leaseRev = ledger[b].leaseRev
    BY <1>2, <1>3, <1>4
  <1>6. /\ row' \in [Keys -> Row]
        /\ clock' \in Nat
        /\ \A j \in Keys :
              /\ row'[j].lease = row[j].lease
              /\ row'[j].leaseRev = row[j].leaseRev
              /\ row'[j].rev = row[j].rev
              /\ row'[j].st = row[j].st
              /\ row'[j].leasePolicy = row[j].leasePolicy
              /\ row[j].lease = a => row'[j].crossed = TRUE
              /\ row[j].lease # a => row'[j].crossed = row[j].crossed
    <2>1. CASE ledger[a].leaseRev # 0
      <3>1. row[k].lease = a
        BY <2>1 DEF MarkBoundary, LeaseMarkable
      <3>2. \A j \in Keys : row[j].lease = a => j = k
        BY NoLeaseAssumption DEF CircuitInv, LeaseOwnership
      <3>3. row' = [row EXCEPT ![k].crossed = TRUE] /\ clock' = LogicalNow(t)
        BY <2>1 DEF MarkBoundary
      <3>4. clock' \in Nat
        BY <1>1, <3>3, LogicalNowType
      <3> DEFINE marked == [row[k] EXCEPT !.crossed = TRUE]
      <3>5. /\ marked \in Row
            /\ marked.lease = row[k].lease
            /\ marked.leaseRev = row[k].leaseRev
            /\ marked.rev = row[k].rev
            /\ marked.st = row[k].st
            /\ marked.leasePolicy = row[k].leasePolicy
            /\ marked.crossed = TRUE
        <4>1. row[k] \in Row
          BY <1>1, <1>2 DEF TypeOK
        <4> QED
          BY <4>1 DEF Row
      <3>6. row' = [row EXCEPT ![k] = marked]
        BY <3>3
      <3> HIDE DEF k, marked
      <3>7. /\ row' \in [Keys -> Row]
            /\ \A j \in Keys : row'[j] = IF j = k THEN marked ELSE row[j]
        BY <1>1, <1>2, <3>5, <3>6 DEF TypeOK
      <3> QED
        BY <3>1, <3>2, <3>4, <3>5, <3>7
    <2>2. CASE ledger[a].leaseRev = 0
      <3>1. row' = row /\ clock' = clock
        BY <2>2 DEF MarkBoundary
      <3>2. ASSUME NEW j \in Keys PROVE row[j].lease # a
        <4> SUFFICES ASSUME row[j].lease = a PROVE FALSE
          OBVIOUS
        <4>1. ledger[a].leaseRev = row[j].leaseRev
          BY NoLeaseAssumption DEF CircuitInv, LeaseOwnership
        <4>2. row[j].leaseRev \in 1 .. row[j].rev
          BY NoLeaseAssumption DEF CircuitInv, LeaseShape
        <4>3. row[j].rev \in Nat
          BY <1>1 DEF TypeOK, Row
        <4> QED
          BY <2>2, <4>1, <4>2, <4>3
      <3> QED
        BY <1>1, <3>1, <3>2 DEF TypeOK
    <2> QED
      BY <2>1, <2>2
  <1> HIDE DEF k, slot
  <1>7. \A j \in Keys : LeaseShape(row[j])'
    <2> SUFFICES ASSUME NEW j \in Keys PROVE LeaseShape(row'[j])
      OBVIOUS
    <2>1. LeaseShape(row[j])
      BY DEF CircuitInv
    <2>2. row'[j].lease = NoLease => row'[j].crossed = row[j].crossed
      BY <1>6, NoLeaseAssumption
    <2> QED
      BY <2>1, <2>2, <1>6 DEF LeaseShape
  <1>8. SlotsValid'
    <2> SUFFICES ASSUME NEW b \in Attempts
                 PROVE  IF ledger'[b].st = "none"
                        THEN ledger'[b] = NoSlot /\ evt'[b] = "none"
                        ELSE /\ ledger'[b].key \in Keys
                             /\ ledger'[b].leaseRev <= row'[ledger'[b].key].rev
                             /\ row'[ledger'[b].key].st # "absent"
                             /\ ledger'[b].st = "pending" => evt'[b] = "none"
      BY DEF SlotsValid
    <2>1. CASE ledger[b].st = "none"
      BY <2>1, <1>2, <1>3 DEF CircuitInv, SlotsValid
    <2>2. CASE ledger[b].st # "none"
      <3>1. /\ ledger[b].key \in Keys
            /\ ledger[b].leaseRev <= row[ledger[b].key].rev
            /\ row[ledger[b].key].st # "absent"
            /\ ledger[b].st = "pending" => evt[b] = "none"
        BY <2>2 DEF CircuitInv, SlotsValid
      <3>2. /\ ledger'[b].key = ledger[b].key
            /\ ledger'[b].st = ledger[b].st
            /\ ledger'[b].leaseRev = ledger[b].leaseRev
        BY <1>5
      <3>3. /\ row'[ledger[b].key].rev = row[ledger[b].key].rev
            /\ row'[ledger[b].key].st = row[ledger[b].key].st
        BY <3>1, <1>6
      <3> QED
        BY <2>2, <3>1, <3>2, <3>3
    <2> QED
      BY <2>1, <2>2
  <1>9. LeaseOwnership'
    <2> SUFFICES ASSUME NEW j \in Keys, row'[j].lease # NoLease
                 PROVE  LET held == ledger'[row'[j].lease] IN
                        /\ held.key = j
                        /\ held.st = "pending"
                        /\ held.leaseRev = row'[j].leaseRev
                        /\ held.crossed = row'[j].crossed
      BY DEF LeaseOwnership
    <2>0. row'[j].lease = row[j].lease /\ row'[j].leaseRev = row[j].leaseRev
      BY <1>6
    <2>1. LET held == ledger[row[j].lease] IN
             /\ held.key = j
             /\ held.st = "pending"
             /\ held.leaseRev = row[j].leaseRev
             /\ held.crossed = row[j].crossed
      BY <2>0 DEF CircuitInv, LeaseOwnership
    <2>2. row[j].lease \in Attempts
      BY <1>1, <2>0 DEF TypeOK, Row
    <2>3. CASE row[j].lease = a
      <3>1. ledger'[a] = slot /\ row'[j].crossed = TRUE
        BY <2>3, <1>3, <1>6
      <3>2. slot.key = j /\ slot.leaseRev = row[j].leaseRev
        BY <2>1, <2>3, <1>4 DEF k
      <3> QED
        BY <2>0, <2>3, <3>1, <3>2, <1>4, Zenon
    <2>4. CASE row[j].lease # a
      BY <2>0, <2>1, <2>2, <2>4, <1>3, <1>6
    <2> QED
      BY <2>3, <2>4
  <1>10. PendingProbeAccounted'
    <2> SUFFICES ASSUME NEW b \in Attempts, ledger[b].st = "pending",
                        row[ledger[b].key].lease = b
                 PROVE  row'[ledger[b].key].lease = b
      BY <1>5 DEF CircuitInv, PendingProbeAccounted
    <2>1. ledger[b].key \in Keys
      BY DEF CircuitInv, SlotsValid
    <2> QED
      BY <2>1, <1>6
  <1> QED
    BY <1>3, <1>5, <1>6, <1>7, <1>8, <1>9, <1>10

\* The reaper ends every expired lease and logs how it ended.
LEMMA ReapStep ==
    ASSUME CircuitInv, NEW t \in Time, Reap(t)
    PROVE  CircuitInv'
  <1> DEFINE now == LogicalNow(t)
             reaped(k) == ReapRow(row[k], policy, now)
  <1>1. TypeOK /\ policy \in Policies /\ now \in Nat
    BY LogicalNowType DEF CircuitInv, TypeOK
  <1>2. /\ clock' = now
        /\ row' = [k \in Keys |-> IF Expired(row[k], now)
                                  THEN reaped(k) ELSE row[k]]
        /\ leaseEvt' = [a \in Attempts |-> ReapedEvent(a, now)]
        /\ hist' = [k \in Keys |->
                      IF Expired(row[k], now) /\ row[k].crossed
                      THEN HistFinish(hist[k], "reopened", row[k].lease)
                      ELSE hist[k]]
        /\ UNCHANGED <<ledger, evt, reqLog, finalized, policy, volatile>>
    BY DEF Reap
  <1> HIDE DEF now
  <1>3. ASSUME NEW k \in Keys, Expired(row[k], now)
        PROVE  /\ reaped(k) \in Row
               /\ LeaseShape(reaped(k))
               /\ reaped(k).st # "absent"
               /\ row[k].rev <= reaped(k).rev
               /\ reaped(k).lease = NoLease
    <2>1. row[k] \in Row /\ LeaseShape(row[k])
      BY <1>1 DEF CircuitInv, TypeOK
    <2> QED
      BY <1>1, <1>3, <2>1, ReapRowFacts
  <1> HIDE DEF reaped
  <1>4. \A k \in Keys :
           /\ row'[k] = IF Expired(row[k], now) THEN reaped(k) ELSE row[k]
           /\ row'[k] \in Row
           /\ LeaseShape(row'[k])
           /\ row[k].st # "absent" => row'[k].st # "absent"
           /\ row'[k].lease # NoLease => row'[k] = row[k]
    BY <1>1, <1>2, <1>3 DEF CircuitInv, TypeOK
  <1>5. \A k \in Keys : row[k].rev <= row'[k].rev
    <2> SUFFICES ASSUME NEW k \in Keys PROVE row[k].rev <= row'[k].rev
      OBVIOUS
    <2>1. row[k].rev \in Nat
      BY <1>1 DEF TypeOK, Row
    <2> QED
      BY <2>1, <1>3, <1>4
  <1>6. \A a \in Attempts :
           leaseEvt'[a] \in {"none", "reopened", "released"}
    BY <1>1, <1>2 DEF ReapedEvent, TypeOK
  <1>7. \A k \in Keys : hist'[k] \in History
    <2> SUFFICES ASSUME NEW k \in Keys,
                        Expired(row[k], now) /\ row[k].crossed
                 PROVE  HistFinish(hist[k], "reopened", row[k].lease) \in History
      BY <1>1, <1>2 DEF TypeOK
    <2>1. row[k].lease \in Attempts
      BY <1>1 DEF TypeOK, Row, Expired
    <2>2. hist[k] \in History
      BY <1>1 DEF TypeOK
    <2> QED
      BY <2>1, <2>2 DEF HistFinish, History
  <1>8. TypeOK'
    BY <1>1, <1>2, <1>4, <1>6, <1>7 DEF TypeOK, volatile
  <1>9. SlotsValid'
    <2> SUFFICES ASSUME NEW b \in Attempts, ledger[b].st # "none"
                 PROVE  /\ ledger[b].leaseRev <= row'[ledger[b].key].rev
                        /\ row'[ledger[b].key].st # "absent"
      BY <1>2 DEF CircuitInv, SlotsValid
    <2>1. /\ ledger[b].key \in Keys
          /\ ledger[b].leaseRev <= row[ledger[b].key].rev
          /\ row[ledger[b].key].st # "absent"
      BY DEF CircuitInv, SlotsValid
    <2>2. ledger[b].leaseRev \in Nat /\ row[ledger[b].key].rev \in Nat
            /\ row'[ledger[b].key].rev \in Nat
      BY <1>1, <1>4, <2>1 DEF TypeOK, Slot, Row
    <2> QED
      BY <2>1, <2>2, <1>4, <1>5
  <1>10. LeaseOwnership'
    BY <1>2, <1>4 DEF CircuitInv, LeaseOwnership
  <1>11. PendingProbeAccounted'
    <2> SUFFICES ASSUME NEW b \in Attempts, ledger[b].st = "pending",
                        ledger[b].leaseRev # 0
                 PROVE  \/ row'[ledger[b].key].lease = b
                        \/ leaseEvt'[b] # "none"
      BY <1>2 DEF PendingProbeAccounted
    <2>1. ledger[b].key \in Keys
      BY DEF CircuitInv, SlotsValid
    <2>2. leaseEvt'[b] = ReapedEvent(b, now)
      BY <1>2
    <2>3. CASE row[ledger[b].key].lease = b /\ Expired(row[ledger[b].key], now)
      <3>1. ReapedEvent(b, now) \in {"reopened", "released"}
        BY <2>1, <2>3 DEF ReapedEvent
      <3> QED
        BY <2>2, <3>1
    <2>4. CASE row[ledger[b].key].lease = b /\ ~Expired(row[ledger[b].key], now)
      BY <2>1, <2>4, <1>4
    <2>5. CASE row[ledger[b].key].lease # b
      <3>1. leaseEvt[b] # "none"
        BY <2>5 DEF CircuitInv, PendingProbeAccounted
      <3>2. leaseEvt'[b] = leaseEvt[b]
        BY <2>2, <2>5 DEF ReapedEvent
      <3> QED
        BY <3>1, <3>2
    <2> QED
      BY <2>3, <2>4, <2>5
  <1>12. OnePending' /\ FinalizedSettled'
    BY <1>2 DEF CircuitInv, OnePending, FinalizedSettled, volatile, Current
  <1> QED
    BY <1>4, <1>8, <1>9, <1>10, <1>11, <1>12 DEF CircuitInv

(***************************************************************************)
(* One lemma per kind of step, for the whole invariant.                    *)
(***************************************************************************)
\* An admission that is granted, with or without its acknowledgement.
LEMMA AdmitInv ==
    ASSUME CircuitInv, NEW r \in Requests, NEW k \in Keys, NEW t \in Time,
           Admit(r, k, t) \/ AdmitLostAck(r, k, t)
    PROVE  CircuitInv'
  <1>1. TypeOK /\ Current(r) \in Attempts /\ Current(r)[1] = r
    BY CurrentFacts DEF CircuitInv
  <1>2. /\ AdmitCircuit(r, k, t) /\ InsertSlot(r, k, t)
        /\ phase[r] = "routing" /\ r \notin finalized
        /\ UNCHANGED <<evt, leaseEvt, reqLog, finalized, policy, idx, budget>>
    BY DEF Admit, AdmitLostAck, MaySelect, AdmitCircuit
  <1>3. /\ row' \in [Keys -> Row]
        /\ clock' \in Nat
        /\ ledger' \in [Attempts -> Slot]
        /\ hist' \in [Keys -> History]
        /\ \A j \in Keys : LeaseShape(row[j])'
        /\ SlotsValid'
        /\ LeaseOwnership'
        /\ PendingProbeAccounted'
        /\ \A b \in Attempts : ledger'[b].st = "pending" =>
              b = Current(r) \/ ledger[b].st = "pending"
    BY <1>2, AdmitStep
  <1>4. /\ phase' \in [Requests -> Live \cup {"new", "done", "crashed"}]
        /\ phase'[r] \in {"routing", "admitted"}
        /\ \A q \in Requests : q # r => phase'[q] = phase[q]
        /\ excluded' \in [Requests -> SUBSET Keys]
    BY <1>1, <1>2 DEF Admit, AdmitLostAck, Exclude, TypeOK, Live
  <1>5. TypeOK'
    BY <1>1, <1>2, <1>3, <1>4 DEF TypeOK
  <1>6. \A b \in Attempts : b[1] = r /\ ledger'[b].st = "pending"
                               => b = Current(r)
    BY <1>2, <1>3 DEF CircuitInv, OnePending, Live
  <1>7. \A b \in Attempts : b[1] \in Requests /\ b[1] # r =>
           (ledger'[b].st = "pending" => ledger[b].st = "pending")
    BY <1>1, <1>3
  <1>8. OnePending'
    <2>1. \A a, b \in Attempts :
            a[1] = b[1] /\ ledger'[a].st = "pending" /\ ledger'[b].st = "pending"
               => a = b
      BY <1>6, <1>7, AttemptOwner DEF CircuitInv, OnePending
    <2>2. \A a \in Attempts :
            phase'[a[1]] \in Live /\ ledger'[a].st = "pending"
               => a = Current(a[1])
      BY <1>4, <1>6, <1>7, AttemptOwner DEF CircuitInv, OnePending
    <2>3. \A a \in Attempts : phase'[a[1]] = "new" => ledger'[a].st # "pending"
      BY <1>4, <1>6, <1>7, AttemptOwner DEF CircuitInv, OnePending
    <2>4. \A q \in Requests :
            phase'[q] \in {"admitted", "outbound", "abandoning"}
               => ledger'[Current(q)].st # "none"
      <3> SUFFICES ASSUME NEW q \in Requests,
                          phase'[q] \in {"admitted", "outbound", "abandoning"}
                   PROVE  ledger'[Current(q)].st # "none"
        OBVIOUS
      <3>1. Current(q) \in Attempts /\ Current(q)[1] = q
        BY <1>1, CurrentFacts
      <3>2. CASE q = r
        BY <3>2, <1>1, <1>2 DEF InsertSlot, TypeOK
      <3>3. CASE q # r
        <4>1. ledger'[Current(q)] = ledger[Current(q)]
          BY <3>1, <3>3, <1>1, <1>2 DEF InsertSlot, TypeOK
        <4> QED
          BY <3>3, <4>1, <1>4 DEF CircuitInv, OnePending
      <3> QED
        BY <3>2, <3>3
    <2> QED
      BY <1>2, <2>1, <2>2, <2>3, <2>4 DEF OnePending, Current
  <1>9. FinalizedSettled'
    BY <1>2, <1>4, <1>6, <1>7, AttemptOwner DEF CircuitInv, FinalizedSettled
  <1> QED
    BY <1>3, <1>5, <1>8, <1>9 DEF CircuitInv

\* An admission that the circuit refuses.
LEMMA DeniedInv ==
    ASSUME CircuitInv, NEW r \in Requests, NEW k \in Keys, NEW t \in Time,
           AdmitDenied(r, k, t)
    PROVE  CircuitInv'
  <1>1. TypeOK
    BY DEF CircuitInv
  <1>2. /\ AdmitCircuit(r, k, t) /\ ~Allowed(Verdict(r, k, t))
        /\ UNCHANGED <<ledger, evt, leaseEvt, reqLog, finalized, policy,
                       phase, idx, budget>>
        /\ excluded' = [excluded EXCEPT ![r] = @ \cup {k}]
    BY DEF AdmitDenied, Exclude
  <1>3. /\ row' \in [Keys -> Row]
        /\ clock' \in Nat
        /\ hist' \in [Keys -> History]
        /\ \A j \in Keys : LeaseShape(row[j])'
        /\ SlotsValid'
        /\ LeaseOwnership'
        /\ PendingProbeAccounted'
    BY <1>2, DeniedStep
  <1>4. TypeOK'
    BY <1>1, <1>2, <1>3 DEF TypeOK
  <1>5. OnePending' /\ FinalizedSettled'
    BY <1>2 DEF CircuitInv, OnePending, FinalizedSettled, Current
  <1> QED
    BY <1>3, <1>4, <1>5 DEF CircuitInv

\* The boundary mark, whether or not the executor learns of it.
LEMMA BoundaryInv ==
    ASSUME CircuitInv, NEW r \in Requests, NEW t \in Time,
           CrossBoundary(r, t) \/ CrossLost(r, t)
    PROVE  CircuitInv'
  <1>1. TypeOK /\ Current(r) \in Attempts
    BY CurrentFacts DEF CircuitInv
  <1>2. /\ MarkBoundary(Current(r), t)
        /\ phase[r] = "admitted"
        /\ UNCHANGED <<evt, leaseEvt, reqLog, finalized, policy,
                       idx, excluded, budget, hist>>
    BY DEF CrossBoundary, CrossLost
  <1>3. /\ row' \in [Keys -> Row]
        /\ clock' \in Nat
        /\ ledger' \in [Attempts -> Slot]
        /\ \A j \in Keys : LeaseShape(row[j])'
        /\ SlotsValid'
        /\ LeaseOwnership'
        /\ PendingProbeAccounted'
        /\ \A b \in Attempts : ledger'[b].st = ledger[b].st
    BY <1>1, <1>2, BoundaryStep
  <1>4. /\ phase' \in [Requests -> Live \cup {"new", "done", "crashed"}]
        /\ \A q \in Requests :
              /\ phase'[q] \in Live => phase[q] \in Live
              /\ phase'[q] = "new" => phase[q] = "new"
    BY <1>1, <1>2 DEF CrossBoundary, CrossLost, TypeOK, Live
  <1>5. TypeOK'
    BY <1>1, <1>2, <1>3, <1>4 DEF TypeOK
  <1>6. FinalizedSettled'
    BY <1>2, <1>3, <1>4 DEF CircuitInv, FinalizedSettled
  <1>7. \A q \in Requests :
           phase'[q] \in {"admitted", "outbound", "abandoning"}
              => ledger'[Current(q)].st # "none"
    <2>1. \A q \in Requests : Current(q) \in Attempts
      BY <1>1, CurrentFacts
    <2>2. \A q \in Requests :
             phase'[q] \in {"admitted", "outbound", "abandoning"}
                => phase[q] \in {"admitted", "outbound", "abandoning"}
      BY <1>1, <1>2 DEF CrossBoundary, CrossLost, TypeOK
    <2> QED
      BY <2>1, <2>2, <1>3 DEF CircuitInv, OnePending
  <1>8. OnePending'
    BY <1>2, <1>3, <1>4, <1>7, AttemptOwner
    DEF CircuitInv, OnePending, Current
  <1> QED
    BY <1>3, <1>5, <1>6, <1>8 DEF CircuitInv

\* A terminal result: of a finalized request nothing but the executor moves,
\* otherwise the only pending slot of the request is settled.
LEMMA TerminalInv ==
    ASSUME CircuitInv, NEW r \in Requests, NEW t \in Time,
           NEW outcome \in Outcomes, NEW sameKey \in BOOLEAN,
           LastTerminal(r, outcome, t) \/ RetryTerminal(r, sameKey, t)
    PROVE  CircuitInv'
  <1>1. TypeOK /\ Current(r) \in Attempts /\ Current(r)[1] = r
    BY CurrentFacts DEF CircuitInv
  <1>2. PICK result \in Outcomes :
           /\ PersistTerminal(Current(r), result, t)
           /\ phase[r] \in Live
           /\ UNCHANGED <<leaseEvt, reqLog, finalized, policy, budget>>
    BY DEF LastTerminal, RetryTerminal, Outcomes, Live, EndExecution
  <1>3. /\ phase' \in [Requests -> Live \cup {"new", "done", "crashed"}]
        /\ phase'[r] # "new"
        /\ \A q \in Requests : q # r => phase'[q] = phase[q]
    BY <1>1 DEF LastTerminal, RetryTerminal, EndExecution, TypeOK, Live
  <1>4. /\ idx' \in [Requests -> Indices]
        /\ \A q \in Requests : q # r => idx'[q] = idx[q]
    BY <1>1, MaxIndexAssumption
    DEF LastTerminal, RetryTerminal, EndExecution, TypeOK, Indices
  <1>5. excluded' \in [Requests -> SUBSET Keys]
    <2>1. CASE LastTerminal(r, outcome, t)
      BY <1>1, <2>1 DEF LastTerminal, EndExecution, TypeOK
    <2>2. CASE RetryTerminal(r, sameKey, t)
      <3>1. ledger[Current(r)].key \in Keys
        <4>1. ledger[Current(r)].st # "none"
          BY <2>2 DEF RetryTerminal, CircuitInv, OnePending
        <4> QED
          BY <1>1, <4>1 DEF CircuitInv, SlotsValid
      <3> QED
        BY <1>1, <2>2, <3>1 DEF RetryTerminal, TypeOK
    <2> QED
      BY <2>1, <2>2
  <1>6. \A q \in Requests : q # r => Current(q)' = Current(q)
    BY <1>4 DEF Current
  <1>7. CASE r \in finalized
    <2>1. UNCHANGED <<row, clock, ledger, evt, hist>>
      BY <1>1, <1>2, <1>7 DEF PersistTerminal
    <2>2. \A b \in Attempts : b[1] = r => ledger[b].st # "pending"
      BY <1>7 DEF CircuitInv, FinalizedSettled
    <2>3. TypeOK'
      BY <1>1, <1>2, <1>3, <1>4, <1>5, <2>1 DEF TypeOK
    <2>4. phase'[r] \notin {"admitted", "outbound", "abandoning"}
      BY <1>1 DEF LastTerminal, RetryTerminal, EndExecution, TypeOK
    <2>5. OnePending'
      BY <1>3, <1>6, <2>1, <2>2, <2>4, AttemptOwner DEF CircuitInv, OnePending
    <2>6. FinalizedSettled'
      BY <1>2, <1>3, <2>1 DEF CircuitInv, FinalizedSettled
    <2> QED
      BY <1>2, <2>1, <2>3, <2>5, <2>6, QuietStep
  <1>8. CASE r \notin finalized
    <2> DEFINE a == Current(r)
               st == CanonicalTerminal(result, ledger[a].crossed)
               success == result = "success"
               counts == ledger[a].crossed /\ AffectsCircuit(result)
    <2>1. /\ ledger[a].st = "pending"
          /\ ledger' = [ledger EXCEPT ![a].st = st]
          /\ FinishCircuit(a, success, counts, t)
      BY <1>1, <1>2, <1>8 DEF PersistTerminal
    <2>2. st \in {"success", "failure", "excluded"}
      BY DEF CanonicalTerminal
    <2>3. success \in BOOLEAN /\ counts \in BOOLEAN
      OBVIOUS
    <2> HIDE DEF st, success, counts, a
    <2>4. /\ row' \in [Keys -> Row]
          /\ clock' \in Nat
          /\ ledger' \in [Attempts -> Slot]
          /\ evt' \in [Attempts -> {"none", "applied", "ignored"}]
          /\ hist' \in [Keys -> History]
          /\ \A k \in Keys : LeaseShape(row[k])'
          /\ SlotsValid'
          /\ LeaseOwnership'
          /\ PendingProbeAccounted'
          /\ \A b \in Attempts : ledger'[b].st = "pending" =>
                b # a /\ ledger[b].st = "pending"
      <3>1. a \in Attempts
        BY <1>1 DEF a
      <3> QED
        BY <1>2, <2>1, <2>2, <2>3, <3>1, FinishStep
    <2>5. TypeOK'
      BY <1>1, <1>2, <1>3, <1>4, <1>5, <2>4 DEF TypeOK
    <2>6. \A b \in Attempts : b[1] = r => ledger'[b].st # "pending"
      BY <1>1, <2>1, <2>4 DEF CircuitInv, OnePending, a
    <2>7. phase'[r] \notin {"admitted", "outbound", "abandoning"}
      BY <1>1 DEF LastTerminal, RetryTerminal, EndExecution, TypeOK
    <2>8. ASSUME NEW q \in Requests, q # r
          PROVE  ledger'[Current(q)] = ledger[Current(q)]
      BY <1>1, <2>1, <2>8, CurrentFacts DEF TypeOK, a
    <2>9. OnePending'
      <3>1. \A b, c \in Attempts :
              b[1] = c[1] /\ ledger'[b].st = "pending"
                          /\ ledger'[c].st = "pending" => b = c
        BY <2>4 DEF CircuitInv, OnePending
      <3>2. \A b \in Attempts :
              phase'[b[1]] \in Live /\ ledger'[b].st = "pending"
                 => b = Current(b[1])'
        BY <1>3, <1>6, <2>4, <2>6, AttemptOwner DEF CircuitInv, OnePending
      <3>3. \A b \in Attempts :
              phase'[b[1]] = "new" => ledger'[b].st # "pending"
        BY <1>3, <2>4, AttemptOwner DEF CircuitInv, OnePending
      <3>4. \A q \in Requests :
              phase'[q] \in {"admitted", "outbound", "abandoning"}
                 => ledger'[Current(q)'].st # "none"
        BY <1>3, <1>6, <2>7, <2>8 DEF CircuitInv, OnePending
      <3> QED
        BY <3>1, <3>2, <3>3, <3>4 DEF OnePending
    <2>10. FinalizedSettled'
      BY <1>2, <1>3, <2>4 DEF CircuitInv, FinalizedSettled
    <2> QED
      BY <2>4, <2>5, <2>9, <2>10 DEF CircuitInv
  <1> QED
    BY <1>7, <1>8

\* Recovery, whether the request belongs to a dead process or to this one.
LEMMA RecoverInv ==
    ASSUME CircuitInv, NEW r \in Requests, NEW t \in Time, Recover(r, t)
    PROVE  CircuitInv'
  <1>1. TypeOK
    BY DEF CircuitInv
  <1>2. /\ reqLog' = [reqLog EXCEPT ![r] = "terminal"]
        /\ finalized \subseteq finalized' /\ finalized' \subseteq finalized \cup {r}
        /\ UNCHANGED <<leaseEvt, policy, phase, idx, excluded, budget>>
    BY DEF Recover, volatile
  <1>3. /\ reqLog' \in [Requests -> {"none", "in_progress", "terminal"}]
        /\ finalized' \in SUBSET Requests
        /\ \A q \in finalized' : reqLog'[q] = "terminal"
        /\ \A q \in Requests : phase[q] = "new" => reqLog'[q] = "none"
    BY <1>1, <1>2 DEF TypeOK, CircuitInv, FinalizedSettled, Recover
  <1>4. CASE PendingOf(r) = {}
    <2>1. UNCHANGED <<row, ledger, evt, hist>>
      BY <1>4 DEF Recover
    <2>2. TypeOK'
      <3>1. clock' = LogicalNow(t) \/ clock' = clock
        BY <1>4 DEF Recover
      <3>2. clock' \in Nat
        BY <1>1, <3>1, LogicalNowType DEF TypeOK
      <3> QED
        BY <1>1, <1>2, <1>3, <2>1, <3>2 DEF TypeOK
    <2>3. OnePending'
      BY <1>2, <2>1 DEF CircuitInv, OnePending, Current
    <2>4. \A b \in Attempts : b[1] = r => ledger[b].st # "pending"
      BY <1>4 DEF PendingOf, AttemptsOf
    <2>5. FinalizedSettled'
      BY <1>2, <1>3, <2>1, <2>4 DEF CircuitInv, FinalizedSettled
    <2> QED
      BY <1>2, <2>1, <2>2, <2>3, <2>5, QuietStep
  <1>5. CASE PendingOf(r) # {}
    <2>1. PICK a \in PendingOf(r) : RecoverSlot(a, t)
      BY <1>5 DEF Recover
    <2>2. a \in Attempts /\ a[1] = r /\ ledger[a].st = "pending"
      BY DEF PendingOf, AttemptsOf
    <2> DEFINE st == IF ledger[a].crossed THEN "failure" ELSE "excluded"
               counts == ledger[a].crossed
    <2>3. /\ ledger' = [ledger EXCEPT ![a].st = st]
          /\ FinishCircuit(a, FALSE, counts, t)
          /\ counts \in BOOLEAN
          /\ st \in {"success", "failure", "excluded"}
      BY <1>1, <2>1, <2>2 DEF RecoverSlot, TypeOK, Slot
    <2> HIDE DEF st, counts
    <2>4. /\ row' \in [Keys -> Row]
          /\ clock' \in Nat
          /\ ledger' \in [Attempts -> Slot]
          /\ evt' \in [Attempts -> {"none", "applied", "ignored"}]
          /\ hist' \in [Keys -> History]
          /\ \A k \in Keys : LeaseShape(row[k])'
          /\ SlotsValid'
          /\ LeaseOwnership'
          /\ PendingProbeAccounted'
          /\ \A b \in Attempts : ledger'[b].st = "pending" =>
                b # a /\ ledger[b].st = "pending"
      BY <1>2, <2>2, <2>3, FinishStep
    <2>5. TypeOK'
      BY <1>1, <1>2, <1>3, <2>4 DEF TypeOK
    <2>6. \A b \in Attempts : ledger'[b].st = "none" => ledger[b].st = "none"
      BY <1>1, <2>2, <2>3 DEF TypeOK, Slot
    <2>7. OnePending'
      <3>1. \A q \in Requests : Current(q) \in Attempts
        BY <1>1, CurrentFacts
      <3> QED
        BY <1>2, <2>4, <2>6, <3>1 DEF CircuitInv, OnePending, Current
    <2>8. \A b \in Attempts : b[1] = r => ledger'[b].st # "pending"
      BY <2>2, <2>4 DEF CircuitInv, OnePending
    <2>9. FinalizedSettled'
      BY <1>2, <1>3, <2>4, <2>8 DEF CircuitInv, FinalizedSettled
    <2> QED
      BY <2>4, <2>5, <2>7, <2>9 DEF CircuitInv
  <1> QED
    BY <1>4, <1>5

\* Steps that touch neither the circuit nor the attempt ledger.
LEMMA LocalInv ==
    ASSUME CircuitInv,
           \/ \E r \in Requests : LocalStep(r)
           \/ \E r \in Requests, k \in Keys, t \in Time : AdmitRejected(r, k, t)
           \/ SetPolicy \/ Crash \/ UNCHANGED vars
    PROVE  CircuitInv'
  <1>1. TypeOK
    BY DEF CircuitInv
  <1> DEFINE Quiet ==
               /\ UNCHANGED <<row, ledger, evt, leaseEvt>>
               /\ TypeOK'
               /\ \A q \in Requests :
                     /\ phase'[q] \in Live => phase[q] \in Live \cup {"new"}
                     /\ phase'[q] \in Live => idx'[q] = idx[q]
                     /\ phase'[q] = "new" => phase[q] = "new"
                     /\ phase'[q] \in {"admitted", "outbound", "abandoning"}
                           => phase[q] \in {"admitted", "outbound", "abandoning"}
                     /\ phase'[q] = "new" => reqLog'[q] = "none"
               /\ \A q \in finalized' : reqLog'[q] = "terminal"
               /\ \A q \in finalized' \ finalized : PendingOf(q) = {}
  <1>2. ASSUME NEW r \in Requests, Begin(r) PROVE Quiet
    <2>1. r \notin finalized
      BY <1>2 DEF Begin, CircuitInv, FinalizedSettled
    <2>2. TypeOK'
      BY <1>1, <1>2 DEF Begin, TypeOK, Live
    <2> QED
      BY <1>1, <1>2, <2>1, <2>2
      DEF Begin, TypeOK, Live, CircuitInv, FinalizedSettled
  <1>3. ASSUME NEW r \in Requests, EndExecution(r), UNCHANGED <<durable, hist>>
        PROVE  Quiet
    <2>1. TypeOK'
      BY <1>1, <1>3, MaxIndexAssumption
      DEF EndExecution, durable, TypeOK, Live, Indices
    <2> QED
      BY <1>1, <1>3, <2>1
      DEF EndExecution, durable, TypeOK, Live, CircuitInv, FinalizedSettled
  <1>4. ASSUME NEW r \in Requests, FailBeforeOutbound(r) PROVE Quiet
    <2>1. TypeOK'
      BY <1>1, <1>4 DEF FailBeforeOutbound, durable, TypeOK, Live
    <2> QED
      BY <1>1, <1>4, <2>1
      DEF FailBeforeOutbound, durable, TypeOK, Live, CircuitInv, FinalizedSettled
  <1>5. ASSUME NEW r \in Requests, Finalize(r) PROVE Quiet
    <2>1. TypeOK'
      BY <1>1, <1>5 DEF Finalize, volatile, TypeOK
    <2> QED
      BY <1>1, <1>5, <2>1
      DEF Finalize, volatile, TypeOK, CircuitInv, FinalizedSettled
  <1>6. ASSUME NEW r \in Requests, NEW k \in Keys, AdmitUnavailable(r, k)
        PROVE  Quiet
    <2>1. TypeOK'
      BY <1>1, <1>6 DEF AdmitUnavailable, Exclude, durable, TypeOK
    <2> QED
      BY <1>6, <2>1
      DEF AdmitUnavailable, durable, CircuitInv, FinalizedSettled
  <1>7. ASSUME SetPolicy PROVE Quiet
    <2>1. TypeOK'
      BY <1>1, <1>7 DEF SetPolicy, volatile, TypeOK
    <2> QED
      BY <1>7, <2>1 DEF SetPolicy, volatile, CircuitInv, FinalizedSettled
  <1>8. ASSUME Crash PROVE Quiet
    <2>1. TypeOK'
      BY <1>1, <1>8, MaxIndexAssumption DEF Crash, durable, TypeOK, Indices
    <2> QED
      BY <1>1, <1>8, <2>1
      DEF Crash, durable, TypeOK, Live, CircuitInv, FinalizedSettled
  <1>9. ASSUME UNCHANGED vars PROVE Quiet
    <2>1. TypeOK'
      BY <1>1, <1>9 DEF vars, durable, volatile, TypeOK
    <2> QED
      BY <1>9, <2>1 DEF vars, durable, volatile, CircuitInv, FinalizedSettled
  <1> HIDE DEF Quiet
  <1>10. Quiet
    BY <1>2, <1>3, <1>4, <1>5, <1>6, <1>7, <1>8, <1>9
    DEF LocalStep, GiveUp, TerminalLost, AdmitRejected
  <1> USE DEF Quiet
  <1>11. OnePending'
    <2>1. \A a, b \in Attempts :
             a[1] = b[1] /\ ledger'[a].st = "pending" /\ ledger'[b].st = "pending"
                => a = b
      BY <1>10 DEF CircuitInv, OnePending
    <2>2. \A a \in Attempts :
             phase'[a[1]] \in Live /\ ledger'[a].st = "pending"
                => a = Current(a[1])'
      BY <1>10, AttemptOwner DEF CircuitInv, OnePending, Current
    <2>3. \A a \in Attempts : phase'[a[1]] = "new" => ledger'[a].st # "pending"
      BY <1>10, AttemptOwner DEF CircuitInv, OnePending
    <2>4. \A q \in Requests :
             phase'[q] \in {"admitted", "outbound", "abandoning"}
                => ledger'[Current(q)'].st # "none"
      BY <1>10 DEF CircuitInv, OnePending, Current, Live
    <2> QED
      BY <2>1, <2>2, <2>3, <2>4 DEF OnePending
  <1>12. FinalizedSettled'
    <2>1. \A a \in Attempts : a[1] \in finalized' => ledger'[a].st # "pending"
      BY <1>10 DEF CircuitInv, FinalizedSettled, PendingOf, AttemptsOf
    <2> QED
      BY <1>10, <2>1 DEF FinalizedSettled
  <1> QED
    BY <1>10, <1>11, <1>12, QuietStep

(***************************************************************************)
(* The theorems.                                                           *)
(***************************************************************************)
\* Every transaction and every local step keeps the invariant.
LEMMA NextInv == CircuitInv /\ [Next]_vars => CircuitInv'
  <1> SUFFICES ASSUME CircuitInv, [Next]_vars PROVE CircuitInv'
    OBVIOUS
  <1>1. ASSUME NEW r \in Requests, NEW k \in Keys, NEW t \in Time,
               Admission(r, k, t)
        PROVE  CircuitInv'
    BY <1>1, AdmitInv, DeniedInv, LocalInv DEF Admission
  <1>2. ASSUME NEW r \in Requests, NEW t \in Time, Outbound(r, t)
        PROVE  CircuitInv'
    <2>1. CASE CrossBoundary(r, t) \/ CrossLost(r, t)
      BY <2>1, BoundaryInv
    <2>2. CASE \E outcome \in Outcomes : LastTerminal(r, outcome, t)
      BY <2>2, TerminalInv
    <2>3. CASE \E sameKey \in BOOLEAN : RetryTerminal(r, sameKey, t)
      <3>1. "failure" \in Outcomes
        BY DEF Outcomes
      <3> QED
        BY <2>3, <3>1, TerminalInv
    <2>4. CASE Recover(r, t)
      BY <2>4, RecoverInv
    <2> QED
      BY <1>2, <2>1, <2>2, <2>3, <2>4 DEF Outbound
  <1>3. ASSUME NEW t \in Time, Reap(t) PROVE CircuitInv'
    BY <1>3, ReapStep
  <1>4. CASE \/ \E r \in Requests : LocalStep(r)
             \/ SetPolicy \/ Crash \/ UNCHANGED vars
    BY <1>4, LocalInv
  <1> QED
    BY <1>1, <1>2, <1>3, <1>4 DEF Next

\* The lease invariant holds in every reachable state, whatever the number of
\* keys, requests, attempts and policies.
THEOREM CircuitInvariance == Spec => []CircuitInv
  <1>1. Init => CircuitInv
    BY InitInv
  <1>2. CircuitInv /\ [Next]_vars => CircuitInv'
    BY NextInv
  <1> QED
    BY <1>1, <1>2, PTL DEF Spec

\* The tables, the clock and the executors' locals keep their types.
THEOREM TypeCorrectness == Spec => []TypeOK
  <1>1. CircuitInv => TypeOK
    BY DEF CircuitInv
  <1> QED
    BY <1>1, CircuitInvariance, PTL

\* The lease of every half-open circuit belongs to one pending attempt slot of
\* that key, and both tables agree on its revision and its outbound boundary.
THEOREM LeaseOwnershipHolds == Spec => []LeaseOwnership
  <1>1. CircuitInv => LeaseOwnership
    BY DEF CircuitInv
  <1> QED
    BY <1>1, CircuitInvariance, PTL

\* A pending half-open admission still holds its lease, unless the reaper has
\* logged the end of it.
THEOREM PendingProbesAccounted == Spec => []PendingProbeAccounted
  <1>1. CircuitInv => PendingProbeAccounted
    BY DEF CircuitInv
  <1> QED
    BY <1>1, CircuitInvariance, PTL

\* No step changes a slot of a finalized request or the verdict on it.
LEMMA NextFrozen ==
    ASSUME CircuitInv, [Next]_vars, NEW a \in Attempts, a[1] \in finalized
    PROVE  ledger'[a] = ledger[a] /\ evt'[a] = evt[a]
  <1>1. TypeOK /\ ledger[a].st # "pending"
    BY DEF CircuitInv, FinalizedSettled
  <1>2. ASSUME NEW r \in Requests, NEW k \in Keys, NEW t \in Time,
               Admission(r, k, t)
        PROVE  ledger'[a] = ledger[a] /\ evt'[a] = evt[a]
    <2>1. CASE Admit(r, k, t) \/ AdmitLostAck(r, k, t)
      <3>1. r \notin finalized /\ Current(r)[1] = r
        BY <2>1, <1>1, CurrentFacts DEF Admit, AdmitLostAck, AdmitCircuit
      <3> QED
        BY <2>1, <3>1, <1>1 DEF Admit, AdmitLostAck, InsertSlot, TypeOK
    <2>2. CASE AdmitDenied(r, k, t) \/ AdmitRejected(r, k, t)
      BY <2>2 DEF AdmitDenied, AdmitRejected, durable
    <2> QED
      BY <1>2, <2>1, <2>2 DEF Admission
  <1>3. ASSUME NEW b \in Attempts, NEW success, NEW counts, NEW t \in Time,
               NEW st, b # a,
               ledger' = [ledger EXCEPT ![b].st = st],
               FinishCircuit(b, success, counts, t)
        PROVE  ledger'[a] = ledger[a] /\ evt'[a] = evt[a]
    <2>1. ledger'[a] = ledger[a]
      BY <1>1, <1>3 DEF TypeOK
    <2>2. evt' = evt \/ \E v : evt' = [evt EXCEPT ![b] = v]
      BY <1>3 DEF FinishCircuit
    <2> QED
      BY <2>1, <2>2, <1>1, <1>3 DEF TypeOK
  <1>4. ASSUME NEW r \in Requests, NEW t \in Time, NEW outcome \in Outcomes,
               PersistTerminal(Current(r), outcome, t)
        PROVE  ledger'[a] = ledger[a] /\ evt'[a] = evt[a]
    <2>1. Current(r) \in Attempts /\ Current(r)[1] = r
      BY <1>1, CurrentFacts
    <2>2. CASE r \in finalized
      BY <1>4, <2>1, <2>2 DEF PersistTerminal
    <2>3. CASE r \notin finalized
      BY <1>3, <1>4, <2>1, <2>3 DEF PersistTerminal
    <2> QED
      BY <2>2, <2>3
  <1>5. ASSUME NEW r \in Requests, NEW t \in Time, Outbound(r, t)
        PROVE  ledger'[a] = ledger[a] /\ evt'[a] = evt[a]
    <2>1. CASE CrossBoundary(r, t) \/ CrossLost(r, t)
      BY <2>1, <1>1 DEF CrossBoundary, CrossLost, MarkBoundary, TypeOK
    <2>2. CASE \/ \E outcome \in Outcomes : LastTerminal(r, outcome, t)
               \/ \E sameKey \in BOOLEAN : RetryTerminal(r, sameKey, t)
      BY <2>2, <1>4 DEF LastTerminal, RetryTerminal, Outcomes
    <2>3. CASE Recover(r, t)
      <3>1. CASE PendingOf(r) = {}
        BY <2>3, <3>1 DEF Recover
      <3>2. CASE PendingOf(r) # {}
        <4>1. PICK b \in PendingOf(r) : RecoverSlot(b, t)
          BY <2>3, <3>2 DEF Recover
        <4>2. b \in Attempts /\ b # a
          BY <1>1 DEF PendingOf, AttemptsOf
        <4> QED
          BY <4>1, <4>2, <1>3 DEF RecoverSlot
      <3> QED
        BY <3>1, <3>2
    <2> QED
      BY <1>5, <2>1, <2>2, <2>3 DEF Outbound
  <1>6. ASSUME NEW r \in Requests, LocalStep(r)
        PROVE  ledger'[a] = ledger[a] /\ evt'[a] = evt[a]
    BY <1>6 DEF LocalStep, Begin, GiveUp, FailBeforeOutbound, TerminalLost,
                Finalize, AdmitUnavailable, durable
  <1>7. CASE \/ \E t \in Time : Reap(t)
             \/ SetPolicy \/ Crash \/ UNCHANGED vars
    BY <1>7 DEF Reap, SetPolicy, Crash, vars, durable
  <1> QED
    BY <1>2, <1>5, <1>6, <1>7 DEF Next

\* Once a request is finalized, its slots and their circuit effects never
\* change again: late terminals and recoveries are audit only.
THEOREM FinalizedFrozenHolds == Spec => FinalizedFrozen
  <1>1. CircuitInv /\ [Next]_vars =>
           [\A a \in Attempts : a[1] \in finalized =>
               /\ ledger'[a] = ledger[a]
               /\ evt'[a] = evt[a]]_vars
    BY NextFrozen
  <1> QED
    BY <1>1, CircuitInvariance, PTL DEF Spec, FinalizedFrozen

\* Only an admission gives a key a new lease.
LEMMA NoNewLease ==
    ASSUME CircuitInv, NEW k \in Keys,
           \/ \E r \in Requests, t \in Time : Outbound(r, t)
           \/ \E r \in Requests : LocalStep(r)
           \/ \E t \in Time : Reap(t)
           \/ SetPolicy \/ Crash \/ UNCHANGED vars
    PROVE  row'[k].lease \in {row[k].lease, NoLease}
  <1>1. TypeOK
    BY DEF CircuitInv
  <1>2. ASSUME NEW r \in Requests, NEW t \in Time, NEW outcome \in Outcomes,
               PersistTerminal(Current(r), outcome, t), leaseEvt' = leaseEvt
        PROVE  row'[k].lease \in {row[k].lease, NoLease}
    <2> DEFINE a == Current(r)
               st == CanonicalTerminal(outcome, ledger[a].crossed)
               success == outcome = "success"
               counts == ledger[a].crossed /\ AffectsCircuit(outcome)
    <2>1. a \in Attempts /\ st \in {"success", "failure", "excluded"}
            /\ success \in BOOLEAN /\ counts \in BOOLEAN
      BY <1>1, CurrentFacts DEF CanonicalTerminal
    <2>2. CASE a[1] \in finalized
      BY <1>2, <2>2 DEF PersistTerminal
    <2>3. CASE a[1] \notin finalized
      <3>1. /\ ledger[a].st = "pending"
            /\ ledger' = [ledger EXCEPT ![a].st = st]
            /\ FinishCircuit(a, success, counts, t)
        BY <1>2, <2>3 DEF PersistTerminal
      <3> HIDE DEF a, st, success, counts
      <3> QED
        BY <1>2, <2>1, <3>1, FinishStep
    <2> QED
      BY <2>2, <2>3
  <1>3. ASSUME NEW r \in Requests, NEW t \in Time, Outbound(r, t)
        PROVE  row'[k].lease \in {row[k].lease, NoLease}
    <2>1. CASE CrossBoundary(r, t) \/ CrossLost(r, t)
      <3>1. Current(r) \in Attempts
        BY <1>1, CurrentFacts
      <3>2. MarkBoundary(Current(r), t) /\ UNCHANGED <<evt, leaseEvt>>
        BY <2>1 DEF CrossBoundary, CrossLost
      <3> QED
        BY <3>1, <3>2, BoundaryStep
    <2>2. CASE \/ \E outcome \in Outcomes : LastTerminal(r, outcome, t)
               \/ \E sameKey \in BOOLEAN : RetryTerminal(r, sameKey, t)
      BY <2>2, <1>2 DEF LastTerminal, RetryTerminal, Outcomes
    <2>3. CASE Recover(r, t)
      <3>1. CASE PendingOf(r) = {}
        BY <2>3, <3>1 DEF Recover
      <3>2. CASE PendingOf(r) # {}
        <4>1. PICK a \in PendingOf(r) : RecoverSlot(a, t)
          BY <2>3, <3>2 DEF Recover
        <4> DEFINE st == IF ledger[a].crossed THEN "failure" ELSE "excluded"
                   counts == ledger[a].crossed
        <4>2. a \in Attempts /\ ledger[a].st = "pending"
          BY DEF PendingOf, AttemptsOf
        <4>3. /\ ledger' = [ledger EXCEPT ![a].st = st]
              /\ FinishCircuit(a, FALSE, counts, t)
              /\ counts \in BOOLEAN
              /\ st \in {"success", "failure", "excluded"}
          BY <1>1, <4>1, <4>2 DEF RecoverSlot, TypeOK, Slot
        <4>4. leaseEvt' = leaseEvt
          BY <2>3 DEF Recover
        <4> HIDE DEF st, counts
        <4> QED
          BY <4>2, <4>3, <4>4, FinishStep
      <3> QED
        BY <3>1, <3>2
    <2> QED
      BY <1>3, <2>1, <2>2, <2>3 DEF Outbound
  <1>4. ASSUME NEW t \in Time, Reap(t)
        PROVE  row'[k].lease \in {row[k].lease, NoLease}
    <2> DEFINE now == LogicalNow(t)
    <2>1. /\ row[k] \in Row /\ LeaseShape(row[k]) /\ policy \in Policies
          /\ now \in Nat
      BY <1>1, LogicalNowType DEF CircuitInv, TypeOK
    <2>2. row'[k] = IF Expired(row[k], now)
                    THEN ReapRow(row[k], policy, now) ELSE row[k]
      BY <1>4 DEF Reap
    <2> HIDE DEF now
    <2> QED
      BY <2>1, <2>2, ReapRowFacts
  <1>5. CASE \/ \E r \in Requests : LocalStep(r)
             \/ SetPolicy \/ Crash \/ UNCHANGED vars
    BY <1>5 DEF LocalStep, Begin, GiveUp, FailBeforeOutbound, TerminalLost,
                Finalize, AdmitUnavailable, SetPolicy, Crash, vars, durable
  <1> QED
    BY <1>3, <1>4, <1>5

\* A new lease is ahead of every lease revision the key's slots record.
LEMMA NextFresh ==
    ASSUME CircuitInv, [Next]_vars, NEW k \in Keys,
           row'[k].lease # NoLease, row'[k].lease # row[k].lease,
           NEW a \in Attempts, ledger[a].key = k
    PROVE  ledger[a].leaseRev < row'[k].leaseRev
  <1>1. TypeOK
    BY DEF CircuitInv
  <1>2. PICK r \in Requests, j \in Keys, t \in Time : Admission(r, j, t)
    BY NoNewLease DEF Next
  <1>3. AdmitCircuit(r, j, t)
    BY <1>2 DEF Admission, Admit, AdmitDenied, AdmitLostAck, AdmitRejected,
               durable
  <1> DEFINE new == AdmittedRow(r, j, t)
  <1>4. /\ new \in Row
        /\ Verdict(r, j, t) = "allowed_half_open" =>
              /\ new.leaseRev = new.rev
              /\ row[j].st # "absent" => row[j].rev < new.rev
        /\ Verdict(r, j, t) # "allowed_half_open" => new.lease = row[j].lease
        /\ row'[k] = IF k = j THEN new ELSE row[k]
    BY <1>3, AdmitCircuitFacts
  <1> HIDE DEF new
  <1>5. k = j /\ row'[k] = new /\ Verdict(r, j, t) = "allowed_half_open"
    BY <1>4
  <1>6. ledger[a].leaseRev <= row[k].rev /\ row[k].st # "absent"
    <2>1. ledger[a].st # "none"
      BY NoKeyAssumption DEF CircuitInv, SlotsValid, NoSlot
    <2> QED
      BY <2>1 DEF CircuitInv, SlotsValid
  <1>7. ledger[a].leaseRev \in Nat /\ row[k].rev \in Nat /\ new.rev \in Nat
    BY <1>1, <1>4 DEF TypeOK, Slot, Row
  <1> QED
    BY <1>4, <1>5, <1>6, <1>7

\* Every granted lease has a revision that no earlier lease of the key had.
THEOREM LeaseRevisionFreshHolds == Spec => LeaseRevisionFresh
  <1>1. CircuitInv /\ [Next]_vars =>
           [\A k \in Keys :
              row'[k].lease # NoLease /\ row'[k].lease # row[k].lease =>
                \A a \in Attempts :
                    ledger[a].key = k =>
                        ledger[a].leaseRev < row'[k].leaseRev]_vars
    BY NextFresh
  <1> QED
    BY <1>1, CircuitInvariance, PTL DEF Spec, LeaseRevisionFresh

(***************************************************************************)
(* The contract: what each transition of the reducer looks like to those   *)
(* who route over the key.                                                 *)
(***************************************************************************)
\* The cooldown of a row that opens is bounded by the cap of its configuration.
LEMMA OpenedView ==
    ASSUME NEW rw \in Row, NEW config \in Policies, NEW now \in Nat,
           NEW fails \in Nat, NEW pol \in Policies
    PROVE  Contract!CoolsDown(View(OpenWithPolicy(rw, config, now, fails, pol)), now)
  <1> DEFINE cap == Greatest(MaxCooldown, RecoveryWait[config])
             wait == Cooldown(rw.level + 1, RecoveryWait[pol], config)
             new == OpenWithPolicy(rw, config, now, fails, pol)
  <1>1. cap \in Nat /\ cap \in {Greatest(MaxCooldown, RecoveryWait[p]) : p \in Policies}
    BY MaxCooldownAssumption, RecoveryWaitAssumption DEF Greatest
  <1>2. wait \in 0 .. cap
    <2> HIDE DEF cap
    <2>1. \A product : (IF product \in 0 .. cap THEN product ELSE cap) \in 0 .. cap
      BY <1>1
    <2> QED
      BY <2>1 DEF Cooldown, cap
  <1>3. View(new) = [st |-> "open", until |-> now + wait]
    <2> HIDE DEF wait
    <2> QED
      BY DEF View, OpenWithPolicy, OpenRow, wait
  <1>4. Contract!CoolsDown(View(new), now)
    <2> HIDE DEF cap, wait, new
    <2> QED
      BY <1>1, <1>2, <1>3 DEF Contract!CoolsDown
  <1> QED
    BY <1>4

\* A key without a row is as usable as one whose row was just created.
LEMMA EnsuredView ==
    ASSUME NEW rw, NEW pol
    PROVE  View(EnsureState(rw, pol)) = View(rw)
  BY DEF View, EnsureState, ClosedRow

\* What the four kinds of rows look like.
LEMMA ViewCases ==
    ASSUME NEW rw \in Row
    PROVE  /\ rw.st \in {"absent", "closed"} => View(rw) = [st |-> "closed"]
           /\ rw.st = "open" => View(rw) = [st |-> "open", until |-> rw.until]
           /\ rw.st = "half_open" /\ rw.lease = NoLease =>
                 View(rw) = [st |-> "idle", succ |-> rw.succ]
           /\ rw.st = "half_open" /\ rw.lease # NoLease =>
                 View(rw) =
                    [st |-> "probing", succ |-> rw.succ, holder |-> rw.lease,
                     sent |-> rw.crossed, expires |-> rw.expires,
                     needed |-> RecoveryThreshold[rw.leasePolicy]]
  BY DEF View, Row

\* An admission trips the circuit, grants the one probe, or shows nothing.
LEMMA AdmitView ==
    ASSUME NEW rw \in Row, LeaseShape(rw), rw.st # "absent",
           NEW config \in Policies, NEW now \in Nat,
           NEW deadline \in Nat, now <= deadline, NEW a \in Attempts
    PROVE  Contract!KeyStep(View(rw), View(AdmitRow(rw, config, now, deadline, a)), now)
  <1> DEFINE new == AdmitRow(rw, config, now, deadline, a)
             verdict == AdmitVerdict(rw, config, now)
  <1>1. CASE verdict = "opens"
    <2>1. rw.st = "closed" /\ rw.fails \in Nat
      BY <1>1 DEF AdmitVerdict, Row
    <2>2. new = OpenWithPolicy(rw, config, now, rw.fails, config)
      BY <1>1 DEF AdmitRow
    <2>3. Contract!CoolsDown(View(new), now)
      BY <2>1, <2>2, OpenedView
    <2>4. View(rw).st = "closed"
      BY <2>1, ViewCases
    <2> QED
      BY <2>3, <2>4 DEF Contract!KeyStep, Contract!Trip
  <1>2. CASE verdict = "allowed_closed" \/ verdict = "cooling"
    <2>1. rw.st \in {"closed", "open"}
      BY <1>2 DEF AdmitVerdict
    <2>2. new = AdoptPolicy(rw, config)
      BY <1>2 DEF AdmitRow
    <2>3. new \in Row /\ new.st = rw.st /\ new.until = rw.until
      <3>1. new \in Row
        BY AdmitRowFacts
      <3>2. new.st = rw.st /\ new.until = rw.until
        <4> HIDE DEF new
        <4> QED
          BY <2>2 DEF AdoptPolicy, Row
      <3> QED
        BY <3>1, <3>2
    <2>4. View(new) = View(rw)
      <3> HIDE DEF new
      <3> QED
        BY <2>1, <2>3, ViewCases
    <2> QED
      BY <2>4 DEF Contract!KeyStep
  <1>3. CASE verdict = "occupied"
    <2>1. new = rw
      BY <1>3 DEF AdmitRow
    <2> QED
      BY <2>1 DEF Contract!KeyStep
  <1>4. CASE verdict = "allowed_half_open"
    <2>1. rw.lease = NoLease /\ new \in Row /\ new.lease = a
      BY <1>4, AdmitRowFacts
    <2>2. /\ rw.st \in {"open", "half_open"}
          /\ rw.st = "open" => rw.until <= now
      BY <1>4, FailThresholdAssumption DEF AdmitVerdict, Row
    <2>3. PICK rev, succ :
             /\ new = LeasedRow(rev, config, rw.level, succ, a, deadline)
             /\ rw.st = "open" => succ = 0
             /\ rw.st = "half_open" => succ = rw.succ
      <3>1. CASE rw.st = "open"
        BY <1>4, <3>1 DEF AdmitRow
      <3>2. CASE rw.st # "open"
        BY <1>4, <2>2, <3>2 DEF AdmitRow
      <3> QED
        BY <3>1, <3>2
    <2>4. View(new) = [st |-> "probing", succ |-> succ, holder |-> a,
                       sent |-> FALSE, expires |-> deadline,
                       needed |-> RecoveryThreshold[config]]
      <3> HIDE DEF new
      <3> QED
        BY <2>1, <2>3, NoLeaseAssumption DEF View, LeasedRow
    <2>5. RecoveryThreshold[config] >= 1
      BY RecoveryThresholdAssumption
    <2>6. \/ View(rw) = [st |-> "open", until |-> rw.until]
               /\ rw.until <= now /\ succ = 0
          \/ View(rw) = [st |-> "idle", succ |-> succ]
      BY <2>1, <2>2, <2>3, ViewCases
    <2>7. Contract!Grant(View(rw), View(new), now)
      <3> HIDE DEF new
      <3> QED
        BY <2>4, <2>5, <2>6 DEF Contract!Grant
    <2> QED
      BY <2>7 DEF Contract!KeyStep
  <1>5. verdict \in {"opens", "allowed_closed", "cooling", "occupied",
                     "allowed_half_open"}
    BY DEF AdmitVerdict
  <1> QED
    BY <1>1, <1>2, <1>3, <1>4, <1>5

\* A result trips the circuit, ends the probe of its attempt, or shows nothing.
LEMMA FinishView ==
    ASSUME NEW rw \in Row, LeaseShape(rw), rw.st # "absent",
           NEW config \in Policies, NEW now \in Nat, NEW a \in Attempts,
           NEW success \in BOOLEAN, NEW counts \in BOOLEAN,
           rw.lease = a /\ counts => rw.crossed
    PROVE  Contract!KeyStep(View(rw),
                            View(FinishRow(rw, config, now, a, success, counts)), now)
  <1> DEFINE new == FinishRow(rw, config, now, a, success, counts)
             transition ==
                 FinishTransition(rw, config, now, a, success, counts)
  <1>1. CASE transition \in {"ignored", "observed"}
    <2>1. new = rw
      BY <1>1 DEF FinishRow
    <2> QED
      BY <2>1 DEF Contract!KeyStep
  <1>2. CASE transition \in {"reset", "counted", "opened"}
    <2>1. rw.st = "closed" /\ rw.fails + 1 \in Nat
      BY <1>2 DEF FinishTransition, Row
    <2>2. View(rw) = [st |-> "closed"]
      BY <2>1, ViewCases
    <2>3. CASE transition \in {"reset", "counted"}
      <3>1. View(new) = [st |-> "closed"]
        BY <2>3 DEF FinishRow, ClosedRow, View
      <3> QED
        BY <2>2, <3>1 DEF Contract!KeyStep
    <2>4. CASE transition = "opened"
      <3>1. new = OpenWithPolicy(rw, config, now, rw.fails + 1, config)
        BY <2>4 DEF FinishRow
      <3>2. Contract!CoolsDown(View(new), now)
        BY <2>1, <3>1, OpenedView
      <3> QED
        BY <2>2, <3>2 DEF Contract!KeyStep, Contract!Trip
    <2> QED
      BY <1>2, <2>3, <2>4
  <1>3. CASE transition \in {"released", "reopened", "closed", "recovering"}
    <2>1. /\ rw.st = "half_open" /\ rw.lease = a /\ rw.lease # NoLease
          /\ rw.leasePolicy \in Policies
      BY <1>3, NoLeaseAssumption DEF FinishTransition, LeaseShape, Row
    <2> DEFINE c == [st |-> "probing", succ |-> rw.succ, holder |-> rw.lease,
                     sent |-> rw.crossed, expires |-> rw.expires,
                     needed |-> RecoveryThreshold[rw.leasePolicy]]
    <2>2. View(rw) = c
      BY <2>1, ViewCases
    <2>3. CASE transition = "released"
      <3>1. View(new) = [st |-> "idle", succ |-> rw.succ]
        BY <2>3 DEF FinishRow, IdleRow, View
      <3>2. Contract!Release(c, View(new))
        BY <3>1 DEF Contract!Release
      <3> QED
        BY <2>2, <3>2 DEF Contract!KeyStep
    <2>4. ASSUME transition # "released" PROVE counts /\ rw.crossed
      BY <1>3, <2>1, <2>4 DEF FinishTransition
    <2>5. CASE transition = "reopened"
      <3>1. new = OpenWithPolicy(rw, config, now, 0, rw.leasePolicy)
        BY <2>5 DEF FinishRow
      <3>2. Contract!CoolsDown(View(new), now)
        BY <2>1, <3>1, OpenedView
      <3>3. Contract!Reopen(c, View(new), now)
        BY <2>4, <2>5, <3>2 DEF Contract!Reopen
      <3> QED
        BY <2>2, <3>3 DEF Contract!KeyStep
    <2>6. CASE transition \in {"closed", "recovering"}
      <3>1. /\ now < rw.expires
            /\ transition = "closed" <=>
                  rw.succ + 1 >= RecoveryThreshold[rw.leasePolicy]
        <4>1. rw.expires \in Nat
          BY DEF Row
        <4>2. ~Lapsed(rw, now)
          BY <2>1, <2>4, <2>6 DEF FinishTransition
        <4>3. transition = "closed" <=>
                 rw.succ + 1 >= RecoveryThreshold[rw.leasePolicy]
          BY <2>1, <2>4, <2>6 DEF FinishTransition
        <4> QED
          BY <4>1, <4>2, <4>3 DEF Lapsed
      <3>2. View(new) = IF transition = "closed" THEN [st |-> "closed"]
                        ELSE [st |-> "idle", succ |-> rw.succ + 1]
        BY <2>6 DEF FinishRow, IdleRow, ClosedRow, View
      <3>3. Contract!Recover(c, View(new), now)
        <4>1. rw.crossed
          BY <2>4, <2>6
        <4> HIDE DEF new, transition
        <4> QED
          BY <3>1, <3>2, <4>1 DEF Contract!Recover, Contract!Closed
      <3> QED
        BY <2>2, <3>3 DEF Contract!KeyStep
    <2> QED
      BY <1>3, <2>3, <2>5, <2>6
  <1>4. transition \in {"ignored", "observed", "reset", "counted", "opened",
                        "released", "reopened", "closed", "recovering"}
    BY DEF FinishTransition
  <1> QED
    BY <1>1, <1>2, <1>3, <1>4

\* The reaper ends a probe: a sent one starts a cooldown, any other is free.
LEMMA ReapView ==
    ASSUME NEW rw \in Row, LeaseShape(rw), NEW config \in Policies,
           NEW now \in Nat, Expired(rw, now)
    PROVE  Contract!KeyStep(View(rw), View(ReapRow(rw, config, now)), now)
  <1>1. /\ rw.lease \in Attempts /\ rw.leasePolicy \in Policies
        /\ rw.st = "half_open" /\ rw.lease # NoLease
    BY DEF Expired, LeaseShape, Row
  <1>2. CASE rw.crossed
    <2>1. ReapRow(rw, config, now) = OpenWithPolicy(rw, config, now, 0, rw.leasePolicy)
      BY <1>2 DEF ReapRow
    <2>2. Contract!CoolsDown(View(ReapRow(rw, config, now)), now)
      BY <1>1, <2>1, OpenedView
    <2>3. View(rw).st = "probing" /\ View(rw).sent
      BY <1>1, <1>2, ViewCases
    <2> QED
      BY <2>2, <2>3 DEF Contract!KeyStep, Contract!Reopen
  <1>3. CASE ~rw.crossed
    <2>1. ReapRow(rw, config, now) = FinishRow(rw, config, now, rw.lease, FALSE, FALSE)
      BY <1>3 DEF ReapRow
    <2> QED
      BY <1>1, <2>1, FinishView
  <1> QED
    BY <1>2, <1>3

\* The boundary mark of the holder is the moment its probe is sent.
LEMMA BoundaryView ==
    ASSUME NEW rw \in Row, rw.st = "half_open", rw.lease # NoLease, ~rw.crossed,
           NEW now
    PROVE  Contract!KeyStep(View(rw), View([rw EXCEPT !.crossed = TRUE]), now)
  <1> DEFINE new == [rw EXCEPT !.crossed = TRUE]
  <1>1. /\ new \in Row /\ new.st = "half_open" /\ new.lease = rw.lease
        /\ new.succ = rw.succ /\ new.expires = rw.expires /\ new.crossed = TRUE
        /\ new.leasePolicy = rw.leasePolicy
    BY DEF Row
  <1>2. View(new) = [View(rw) EXCEPT !.sent = TRUE]
    <2> HIDE DEF new
    <2> QED
      BY <1>1, ViewCases
  <1>3. View(rw).st = "probing" /\ ~View(rw).sent
    BY ViewCases
  <1> QED
    BY <1>2, <1>3 DEF Contract!KeyStep, Contract!Send

\* The transactions: time goes on and every key takes a step of its contract.
LEMMA QuietKeeps ==
    ASSUME TypeOK, row' = row, clock' = clock
    PROVE  /\ clock' >= clock
           /\ \A j \in Keys : Contract!KeyStep(View(row[j]), View(row'[j]), clock')
  BY DEF TypeOK, Contract!KeyStep

\* A transaction that only advances the clock.
LEMMA TickKeeps ==
    ASSUME TypeOK, row' = row, NEW t \in Time, clock' = LogicalNow(t)
    PROVE  /\ clock' >= clock
           /\ \A j \in Keys : Contract!KeyStep(View(row[j]), View(row'[j]), clock')
  BY MaxTimeAssumption DEF TypeOK, Contract!KeyStep, LogicalNow, Greatest, Time

\* A transaction on one key.
LEMMA OneKeyKeeps ==
    ASSUME TypeOK, NEW t \in Time, NEW k \in Keys, NEW new,
           clock' = LogicalNow(t), row' = [row EXCEPT ![k] = new],
           Contract!KeyStep(View(row[k]), View(new), LogicalNow(t))
    PROVE  /\ clock' >= clock
           /\ \A j \in Keys : Contract!KeyStep(View(row[j]), View(row'[j]), clock')
  <1>1. clock' >= clock
    BY MaxTimeAssumption DEF TypeOK, LogicalNow, Greatest, Time
  <1>2. \A j \in Keys : row'[j] = IF j = k THEN new ELSE row[j]
    BY DEF TypeOK
  <1>3. \A j \in Keys : j # k => View(row'[j]) = View(row[j])
    BY <1>2
  <1>4. View(row'[k]) = View(new)
    BY <1>2
  <1>5. Contract!KeyStep(View(row[k]), View(row'[k]), clock')
    BY <1>4
  <1>6. \A j \in Keys : j # k =>
           Contract!KeyStep(View(row[j]), View(row'[j]), clock')
    BY <1>3 DEF Contract!KeyStep
  <1> QED
    BY <1>1, <1>5, <1>6

\* The circuit half of an admission, granted or denied.
LEMMA AdmitKeeps ==
    ASSUME CircuitInv, NEW r \in Requests, NEW k \in Keys, NEW t \in Time,
           AdmitCircuit(r, k, t)
    PROVE  /\ clock' >= clock
           /\ \A j \in Keys : Contract!KeyStep(View(row[j]), View(row'[j]), clock')
  <1> DEFINE now == LogicalNow(t)
             pol == budget[r]
             deadline == AdmissionDeadline(r, t)
             loaded == LoadedRow(r, k)
             new == AdmitRow(loaded, pol, now, deadline, Current(r))
  <1>1. TypeOK /\ row[k] \in Row /\ LeaseShape(row[k]) /\ now \in Nat
          /\ pol \in Policies
    BY LogicalNowType DEF CircuitInv, TypeOK
  <1>2. loaded \in Row /\ LeaseShape(loaded) /\ loaded.st # "absent"
    BY <1>1, EnsureStateFacts DEF LoadedRow
  <1>3. View(loaded) = View(row[k])
    BY EnsuredView DEF LoadedRow
  <1>4. deadline \in Nat /\ now <= deadline
    BY <1>1, DeadlineAssumption, MaxTimeAssumption
    DEF AdmitCircuit, InTime, AdmissionDeadline, Greatest, Time
  <1>5. Current(r) \in Attempts
    BY <1>1, CurrentFacts
  <1>6. Contract!KeyStep(View(row[k]), View(new), now)
    <2> HIDE DEF now, pol, deadline, loaded
    <2> QED
      BY <1>1, <1>2, <1>3, <1>4, <1>5, AdmitView
  <1>7. clock' = now /\ row' = [row EXCEPT ![k] = new]
    BY DEF AdmitCircuit, AdmittedRow
  <1> HIDE DEF new
  <1> QED
    BY <1>1, <1>6, <1>7, OneKeyKeeps

\* The circuit half of a terminal or of a recovery.
LEMMA FinishKeeps ==
    ASSUME CircuitInv, NEW a \in Attempts, ledger[a].st = "pending",
           NEW success \in BOOLEAN, NEW counts \in BOOLEAN, NEW t \in Time,
           FinishCircuit(a, success, counts, t),
           counts => ledger[a].crossed
    PROVE  /\ clock' >= clock
           /\ \A j \in Keys : Contract!KeyStep(View(row[j]), View(row'[j]), clock')
  <1> DEFINE k == ledger[a].key
             now == LogicalNow(t)
             new == FinishRow(row[k], policy, now, a, success, counts)
  <1>1. k \in Keys /\ row[k].st # "absent" /\ evt[a] = "none"
    BY DEF CircuitInv, SlotsValid
  <1>2. TypeOK /\ row[k] \in Row /\ LeaseShape(row[k]) /\ now \in Nat
          /\ policy \in Policies
    BY <1>1, LogicalNowType DEF CircuitInv, TypeOK
  <1>3. clock' = now /\ row' = [row EXCEPT ![k] = new]
    <2>1. EnsureState(row[k], policy) = row[k]
      BY <1>1 DEF EnsureState
    <2> QED
      BY <1>1, <2>1 DEF FinishCircuit
  <1>4. row[k].lease = a /\ counts => row[k].crossed
    BY <1>1, NoLeaseAssumption DEF CircuitInv, LeaseOwnership
  <1>5. Contract!KeyStep(View(row[k]), View(new), now)
    <2> HIDE DEF k, now
    <2> QED
      BY <1>1, <1>2, <1>4, FinishView
  <1> HIDE DEF k, new
  <1> QED
    BY <1>1, <1>2, <1>3, <1>5, OneKeyKeeps

\* The boundary mark in ledger and circuit.
LEMMA BoundaryKeeps ==
    ASSUME CircuitInv, NEW a \in Attempts, NEW t \in Time, MarkBoundary(a, t)
    PROVE  /\ clock' >= clock
           /\ \A j \in Keys : Contract!KeyStep(View(row[j]), View(row'[j]), clock')
  <1> DEFINE k == ledger[a].key
             new == [row[k] EXCEPT !.crossed = TRUE]
  <1>1. TypeOK /\ k \in Keys /\ row[k] \in Row
    BY DEF CircuitInv, TypeOK, SlotsValid, MarkBoundary
  <1>2. CASE ledger[a].leaseRev = 0
    BY <1>1, <1>2, QuietKeeps DEF MarkBoundary
  <1>3. CASE ledger[a].leaseRev # 0
    <2>1. clock' = LogicalNow(t) /\ row' = [row EXCEPT ![k] = new]
      BY <1>3 DEF MarkBoundary
    <2>2. row[k].st = "half_open" /\ row[k].lease # NoLease /\ ~row[k].crossed
      BY <1>3, NoLeaseAssumption DEF MarkBoundary, LeaseMarkable
    <2>3. Contract!KeyStep(View(row[k]), View(new), LogicalNow(t))
      <3> HIDE DEF k
      <3> QED
        BY <1>1, <2>2, BoundaryView
    <2> HIDE DEF k, new
    <2> QED
      BY <1>1, <2>1, <2>3, OneKeyKeeps
  <1> QED
    BY <1>2, <1>3

\* The reaper moves every expired probe in one transaction.
LEMMA ReapKeeps ==
    ASSUME CircuitInv, NEW t \in Time, Reap(t)
    PROVE  /\ clock' >= clock
           /\ \A j \in Keys : Contract!KeyStep(View(row[j]), View(row'[j]), clock')
  <1> DEFINE now == LogicalNow(t)
  <1>1. TypeOK /\ now \in Nat /\ clock' = now /\ policy \in Policies
    BY LogicalNowType DEF CircuitInv, TypeOK, Reap
  <1>2. clock' >= clock
    BY <1>1, MaxTimeAssumption DEF TypeOK, LogicalNow, Greatest, Time
  <1>3. ASSUME NEW j \in Keys
        PROVE  Contract!KeyStep(View(row[j]), View(row'[j]), now)
    <2>1. row'[j] = IF Expired(row[j], now)
                    THEN ReapRow(row[j], policy, now) ELSE row[j]
      BY DEF Reap
    <2>2. row[j] \in Row /\ LeaseShape(row[j])
      BY DEF CircuitInv, TypeOK
    <2> HIDE DEF now
    <2>3. CASE Expired(row[j], now)
      BY <1>1, <2>1, <2>2, <2>3, ReapView
    <2>4. CASE ~Expired(row[j], now)
      BY <2>1, <2>4 DEF Contract!KeyStep
    <2> QED
      BY <2>3, <2>4
  <1> QED
    BY <1>1, <1>2, <1>3

\* A lease belongs to a slot of its key, so no attempt probes two keys.
LEMMA ProbesExclusive ==
    ASSUME CircuitInv
    PROVE  Contract!Exclusive([k \in Keys |-> View(row[k])])
  <1> SUFFICES ASSUME NEW j \in Keys, NEW k \in Keys,
                      View(row[j]).st = "probing", View(row[k]).st = "probing",
                      View(row[j]).holder = View(row[k]).holder
               PROVE  j = k
    BY DEF Contract!Exclusive
  <1>1. ASSUME NEW i \in Keys, View(row[i]).st = "probing"
        PROVE  View(row[i]).holder = row[i].lease /\ row[i].lease # NoLease
    <2>1. row[i] \in Row
      BY DEF CircuitInv, TypeOK
    <2> QED
      BY <1>1, <2>1, ViewCases DEF Row
  <1>2. row[j].lease = row[k].lease /\ row[j].lease # NoLease
    BY <1>1
  <1> QED
    BY <1>2 DEF CircuitInv, LeaseOwnership

\* Every step of the system is a step of the contract.
LEMMA NextKeeps ==
    ASSUME CircuitInv, [Next]_vars
    PROVE  /\ clock' >= clock
           /\ \A j \in Keys : Contract!KeyStep(View(row[j]), View(row'[j]), clock')
  <1> DEFINE Keeps ==
               /\ clock' >= clock
               /\ \A j \in Keys :
                     Contract!KeyStep(View(row[j]), View(row'[j]), clock')
  <1> SUFFICES Keeps
    OBVIOUS
  <1>1. TypeOK
    BY DEF CircuitInv
  <1>2. ASSUME row' = row, clock' = clock PROVE Keeps
    BY <1>1, <1>2, QuietKeeps
  <1>3. ASSUME NEW r \in Requests, NEW k \in Keys, NEW t \in Time,
               Admission(r, k, t)
        PROVE  Keeps
    <2>1. CASE AdmitCircuit(r, k, t)
      BY <2>1, AdmitKeeps
    <2>2. CASE AdmitRejected(r, k, t)
      BY <1>2, <2>2 DEF AdmitRejected, durable
    <2> QED
      BY <1>3, <2>1, <2>2 DEF Admission, Admit, AdmitDenied, AdmitLostAck
  <1>4. ASSUME NEW r \in Requests, NEW t \in Time, NEW outcome \in Outcomes,
               PersistTerminal(Current(r), outcome, t)
        PROVE  Keeps
    <2> DEFINE a == Current(r)
               success == outcome = "success"
               counts == ledger[a].crossed /\ AffectsCircuit(outcome)
    <2>1. /\ a \in Attempts /\ success \in BOOLEAN /\ counts \in BOOLEAN
          /\ counts => ledger[a].crossed
      BY <1>1, CurrentFacts
    <2>2. CASE a[1] \in finalized
      BY <1>2, <1>4, <2>2 DEF PersistTerminal
    <2>3. CASE a[1] \notin finalized
      <3>1. ledger[a].st = "pending" /\ FinishCircuit(a, success, counts, t)
        BY <1>4, <2>3 DEF PersistTerminal
      <3> HIDE DEF a, success, counts
      <3> QED
        BY <2>1, <3>1, FinishKeeps
    <2> QED
      BY <2>2, <2>3
  <1>5. ASSUME NEW r \in Requests, NEW t \in Time, Outbound(r, t)
        PROVE  Keeps
    <2>1. CASE CrossBoundary(r, t) \/ CrossLost(r, t)
      <3>1. MarkBoundary(Current(r), t) /\ Current(r) \in Attempts
        BY <1>1, <2>1, CurrentFacts DEF CrossBoundary, CrossLost
      <3> QED
        BY <3>1, BoundaryKeeps
    <2>2. CASE \/ \E outcome \in Outcomes : LastTerminal(r, outcome, t)
               \/ \E sameKey \in BOOLEAN : RetryTerminal(r, sameKey, t)
      <3>1. PICK result \in Outcomes : PersistTerminal(Current(r), result, t)
        BY <2>2 DEF LastTerminal, RetryTerminal, Outcomes
      <3> QED
        BY <1>4, <3>1
    <2>3. CASE Recover(r, t)
      <3>1. CASE PendingOf(r) = {}
        <4>1. row' = row /\ (clock' = clock \/ clock' = LogicalNow(t))
          BY <2>3, <3>1 DEF Recover
        <4> QED
          BY <1>1, <1>2, <4>1, TickKeeps
      <3>2. CASE PendingOf(r) # {}
        <4>1. PICK a \in PendingOf(r) : RecoverSlot(a, t)
          BY <2>3, <3>2 DEF Recover
        <4>2. a \in Attempts /\ ledger[a].st = "pending"
          BY DEF PendingOf, AttemptsOf
        <4>3. /\ FinishCircuit(a, FALSE, ledger[a].crossed, t)
              /\ ledger[a].crossed \in BOOLEAN
          BY <1>1, <4>1, <4>2 DEF RecoverSlot, TypeOK, Slot
        <4> QED
          BY <4>2, <4>3, FinishKeeps
      <3> QED
        BY <3>1, <3>2
    <2> QED
      BY <1>5, <2>1, <2>2, <2>3 DEF Outbound
  <1>6. ASSUME NEW t \in Time, Reap(t) PROVE Keeps
    BY <1>6, ReapKeeps
  <1>7. CASE \/ \E r \in Requests : LocalStep(r)
             \/ SetPolicy \/ Crash \/ UNCHANGED vars
    <2>1. row' = row /\ clock' = clock
      BY <1>7 DEF LocalStep, Begin, GiveUp, FailBeforeOutbound, TerminalLost,
                  Finalize, AdmitUnavailable, SetPolicy, Crash, vars, durable
    <2> QED
      BY <1>2, <2>1
  <1> HIDE DEF Keeps
  <1> QED
    BY <1>3, <1>5, <1>6, <1>7 DEF Next

\* The durable circuit, with its ledger, lost acknowledgements, crashes, late
\* results and reaper, implements the contract of a circuit: a tripped key
\* cools down for a bounded time, is probed by one attempt at a time, and comes
\* back only by sent probes that succeed before they expire.
THEOREM CircuitKeepsContract == Spec => KeepsContract
  <1>1. Init => Contract!CInit
    BY DEF Init, AbsentRow, View, Contract!CInit, Contract!Closed
  <1>2. CircuitInv /\ CircuitInv' /\ [Next]_vars =>
           [Contract!CNext]_(Contract!cvars)
    <2> SUFFICES ASSUME CircuitInv, CircuitInv', [Next]_vars
                 PROVE  Contract!CNext
      OBVIOUS
    <2>1. /\ clock' >= clock
          /\ \A j \in Keys : Contract!KeyStep(View(row[j]), View(row'[j]), clock')
      BY NextKeeps
    <2>2. Contract!Exclusive([k \in Keys |-> View(row[k])])'
      BY ProbesExclusive, PTL
    <2> QED
      BY <2>1, <2>2 DEF Contract!CNext
  <1> QED
    BY <1>1, <1>2, CircuitInvariance, PTL DEF Spec, KeepsContract, Contract!CSpec
=============================================================================
