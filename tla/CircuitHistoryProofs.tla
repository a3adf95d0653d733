------------------------ MODULE CircuitHistoryProofs ------------------------
(***************************************************************************)
(* Proofs that the counters of the durable circuit are exact: consecutive  *)
(* failures, recovery successes and the reopen level each count the        *)
(* distinct attempts that earned them, through retries, lost answers,      *)
(* recoveries, reaped leases and crashes.  The lease invariant comes from  *)
(* StationKeyCircuitProofs.                                                *)
(***************************************************************************)
EXTENDS StationKeyCircuitProofs, FiniteSetTheorems

(***************************************************************************)
(* Counting.                                                               *)
(***************************************************************************)
\* One more element counts one more.
LEMMA CountOneMore ==
    ASSUME NEW S, IsFiniteSet(S), NEW x, x \notin S
    PROVE  /\ IsFiniteSet(S \cup {x})
           /\ Cardinality(S \cup {x}) = Cardinality(S) + 1
  BY FS_AddElement

\* A set that counts nothing is empty.
LEMMA CountNothing ==
    /\ IsFiniteSet({}) /\ Cardinality({}) = 0
    /\ \A S : IsFiniteSet(S) /\ Cardinality(S) = 0 => S = {}
  BY FS_EmptySet

\* The requests behind no attempt, and behind one attempt more.
LEMMA Requesters ==
    /\ {b[1] : b \in {}} = {}
    /\ \A P, a : {b[1] : b \in P \cup {a}} = {b[1] : b \in P} \cup {a[1]}
  OBVIOUS

(***************************************************************************)
(* The reducer and the history beside it.                                  *)
(***************************************************************************)
\* A key without a row has counted nothing, like the row created for it.
LEMMA EnsureCounted ==
    ASSUME NEW rw, NEW h, NEW pol, Counted(rw, h)
    PROVE  Counted(EnsureState(rw, pol), h)
  BY DEF Counted, EnsureState, ClosedRow

\* An admission that opens the circuit on a lowered threshold is its first
\* opener; one that starts or joins a half-open round restarts the streak.
LEMMA AdmitCounted ==
    ASSUME NEW rw \in Row, LeaseShape(rw), rw.st # "absent",
           NEW config \in Policies, NEW now \in Nat,
           NEW deadline \in Nat, NEW a \in Attempts, NEW h \in History,
           Counted(rw, h)
    PROVE  LET new == AdmitRow(rw, config, now, deadline, a)
           IN  Counted(new, HistAdmit(h, rw, new, a))
  <1> DEFINE new == AdmitRow(rw, config, now, deadline, a)
             verdict == AdmitVerdict(rw, config, now)
             adopted == AdoptPolicy(rw, config)
             nh == HistAdmit(h, rw, new, a)
  <1> SUFFICES Counted(new, nh)
    OBVIOUS
  <1>1. /\ adopted.fails = rw.fails /\ adopted.level = rw.level
        /\ adopted.succ = rw.succ /\ adopted.st = rw.st
    BY DEF AdoptPolicy, Row
  <1>2. /\ nh.streak = IF new.st = "half_open" THEN {} ELSE h.streak
        /\ nh.probes = IF rw.st = "open" THEN {} ELSE h.probes
        /\ nh.openers = IF rw.st = "closed" /\ new.st = "open"
                        THEN h.openers \cup {a} ELSE h.openers
    BY DEF HistAdmit
  <1>3. CASE verdict = "opens"
    <2>1. rw.st = "closed"
      BY <1>3 DEF AdmitVerdict
    <2>2. new = OpenWithPolicy(rw, config, now, rw.fails, config)
      BY <1>3 DEF AdmitRow
    <2>3. /\ new.st = "open" /\ new.fails = rw.fails /\ new.succ = 0
          /\ new.level = rw.level + 1
      BY <2>2 DEF OpenWithPolicy, OpenRow
    <2>4. h.openers = {}
      BY <2>1, CountNothing DEF Counted
    <2>5. IsFiniteSet(h.openers \cup {a})
            /\ Cardinality(h.openers \cup {a}) = rw.level + 1
      BY <2>4, CountOneMore DEF Counted
    <2> HIDE DEF new, nh
    <2> QED
      BY <1>2, <2>1, <2>3, <2>5 DEF Counted
  <1>4. CASE verdict = "allowed_closed" \/ verdict = "cooling"
    <2>1. new = adopted /\ rw.st # "half_open"
      BY <1>4 DEF AdmitRow, AdmitVerdict
    <2> HIDE DEF new, nh, adopted
    <2> QED
      BY <1>1, <1>2, <2>1, CountNothing, Requesters DEF Counted
  <1>5. CASE verdict = "occupied"
    <2>1. new = rw /\ rw.st = "half_open"
      BY <1>5 DEF AdmitRow, AdmitVerdict
    <2> HIDE DEF new, nh
    <2> QED
      BY <1>2, <2>1, CountNothing DEF Counted
  <1>6. CASE verdict = "allowed_half_open"
    <2>1. rw.st \in {"open", "half_open"}
      BY <1>6, FailThresholdAssumption DEF AdmitVerdict, Row
    <2>2. /\ new.st = "half_open" /\ new.fails = 0 /\ new.level = rw.level
          /\ new.succ = IF rw.st = "open" THEN 0 ELSE rw.succ
      BY <1>6 DEF AdmitRow, LeasedRow
    <2> HIDE DEF new, nh
    <2> QED
      BY <1>2, <2>1, <2>2, CountNothing, Requesters DEF Counted
  <1>7. verdict \in {"opens", "allowed_closed", "cooling", "occupied",
                     "allowed_half_open"}
    BY DEF AdmitVerdict
  <1> QED
    BY <1>3, <1>4, <1>5, <1>6, <1>7

\* A result counts its attempt once in each set it joins, provided that the
\* attempt is in none of them yet.
LEMMA FinishCounted ==
    ASSUME NEW rw \in Row, LeaseShape(rw), rw.st # "absent",
           NEW config \in Policies, NEW now \in Nat, NEW a \in Attempts,
           NEW success \in BOOLEAN, NEW counts \in BOOLEAN, NEW h \in History,
           Counted(rw, h), a \notin h.streak,
           rw.lease = a => a \notin h.openers /\ a[1] \notin {b[1] : b \in h.probes}
    PROVE  Counted(FinishRow(rw, config, now, a, success, counts),
                   HistFinish(h, FinishTransition(rw, config, now, a, success,
                                                  counts), a))
  <1> DEFINE new == FinishRow(rw, config, now, a, success, counts)
             transition ==
                 FinishTransition(rw, config, now, a, success, counts)
             nh == HistFinish(h, transition, a)
  <1> SUFFICES Counted(new, nh)
    OBVIOUS
  <1>1. /\ nh.streak = CASE transition \in {"counted", "opened"} ->
                               h.streak \cup {a}
                         [] transition \in {"reset", "reopened", "closed"} -> {}
                         [] OTHER -> h.streak
        /\ nh.probes = CASE transition = "recovering" -> h.probes \cup {a}
                         [] transition \in {"reopened", "closed"} -> {}
                         [] OTHER -> h.probes
        /\ nh.openers = CASE transition \in {"opened", "reopened"} ->
                                h.openers \cup {a}
                          [] transition = "closed" -> {}
                          [] OTHER -> h.openers
    BY DEF HistFinish
  <1>2. CASE transition \in {"ignored", "observed"}
    <2>1. new = rw
      BY <1>2 DEF FinishRow
    <2> HIDE DEF new, nh, transition
    <2> QED
      BY <1>1, <1>2, <2>1 DEF Counted
  <1>3. CASE transition \in {"reset", "counted", "opened"}
    <2>1. rw.st = "closed" /\ rw.succ = 0 /\ h.openers = {}
      BY <1>3, CountNothing DEF FinishTransition, Counted
    <2>2. /\ IsFiniteSet(h.streak \cup {a})
          /\ Cardinality(h.streak \cup {a}) = rw.fails + 1
      BY CountOneMore DEF Counted
    <2>3. /\ IsFiniteSet(h.openers \cup {a})
          /\ Cardinality(h.openers \cup {a}) = rw.level + 1
      BY <2>1, CountOneMore DEF Counted
    <2>4. CASE transition = "reset"
      <3>1. /\ new.st = "closed" /\ new.fails = 0 /\ new.level = rw.level
            /\ new.succ = 0
        BY <2>4 DEF FinishRow, ClosedRow
      <3> HIDE DEF new, nh, transition
      <3> QED
        BY <1>1, <2>1, <2>4, <3>1, CountNothing DEF Counted
    <2>5. CASE transition = "counted"
      <3>1. /\ new.st = "closed" /\ new.fails = rw.fails + 1
            /\ new.level = rw.level /\ new.succ = 0
        BY <2>5 DEF FinishRow, ClosedRow
      <3> HIDE DEF new, nh, transition
      <3> QED
        BY <1>1, <2>1, <2>2, <2>5, <3>1 DEF Counted
    <2>6. CASE transition = "opened"
      <3>1. /\ new.st = "open" /\ new.fails = rw.fails + 1
            /\ new.level = rw.level + 1 /\ new.succ = 0
        BY <2>6 DEF FinishRow, OpenWithPolicy, OpenRow
      <3> HIDE DEF new, nh, transition
      <3> QED
        BY <1>1, <2>1, <2>2, <2>3, <2>6, <3>1 DEF Counted
    <2> QED
      BY <1>3, <2>4, <2>5, <2>6
  <1>4. CASE transition \in {"released", "reopened", "closed", "recovering"}
    <2>1. rw.st = "half_open" /\ rw.lease = a /\ rw.fails = 0
      BY <1>4, NoLeaseAssumption DEF FinishTransition, LeaseShape, Row, Counted
    <2>2. CASE transition = "released"
      <3>1. /\ new.st = "half_open" /\ new.fails = 0 /\ new.level = rw.level
            /\ new.succ = rw.succ
        BY <2>2 DEF FinishRow, IdleRow
      <3> HIDE DEF new, nh, transition
      <3> QED
        BY <1>1, <2>1, <2>2, <3>1 DEF Counted
    <2>3. CASE transition = "reopened"
      <3>1. /\ new.st = "open" /\ new.fails = 0 /\ new.level = rw.level + 1
            /\ new.succ = 0
        BY <2>3 DEF FinishRow, OpenWithPolicy, OpenRow
      <3>2. /\ IsFiniteSet(h.openers \cup {a})
            /\ Cardinality(h.openers \cup {a}) = rw.level + 1
        BY <2>1, CountOneMore DEF Counted
      <3> HIDE DEF new, nh, transition
      <3> QED
        BY <1>1, <2>3, <3>1, <3>2, CountNothing, Requesters DEF Counted
    <2>4. CASE transition = "closed"
      <3>1. /\ new.st = "closed" /\ new.fails = 0 /\ new.level = 0
            /\ new.succ = 0
        BY <2>4 DEF FinishRow, ClosedRow
      <3> HIDE DEF new, nh, transition
      <3> QED
        BY <1>1, <2>4, <3>1, CountNothing, Requesters DEF Counted
    <2>5. CASE transition = "recovering"
      <3>1. /\ new.st = "half_open" /\ new.fails = 0 /\ new.level = rw.level
            /\ new.succ = rw.succ + 1
        BY <2>5 DEF FinishRow, IdleRow
      <3>2. a[1] \notin {b[1] : b \in h.probes} /\ a \notin h.probes
        BY <2>1
      <3>3. /\ IsFiniteSet(h.probes \cup {a})
            /\ Cardinality(h.probes \cup {a}) = rw.succ + 1
        BY <3>2, CountOneMore DEF Counted
      <3>4. /\ IsFiniteSet({b[1] : b \in h.probes} \cup {a[1]})
            /\ Cardinality({b[1] : b \in h.probes} \cup {a[1]}) = rw.succ + 1
        BY <3>2, CountOneMore DEF Counted
      <3>5. {b[1] : b \in h.probes \cup {a}}
              = {b[1] : b \in h.probes} \cup {a[1]}
        OBVIOUS
      <3> HIDE DEF new, nh, transition
      <3> QED
        BY <1>1, <2>1, <2>5, <3>1, <3>3, <3>4, <3>5 DEF Counted
    <2> QED
      BY <1>4, <2>2, <2>3, <2>4, <2>5
  <1>5. transition \in {"ignored", "observed", "reset", "counted", "opened",
                        "released", "reopened", "closed", "recovering"}
    BY DEF FinishTransition
  <1> QED
    BY <1>2, <1>3, <1>4, <1>5

\* The reaper counts the holder of a crossed lease as one more opener, and an
\* uncrossed lease changes no count.
LEMMA ReapCounted ==
    ASSUME NEW rw \in Row, LeaseShape(rw), NEW config \in Policies,
           NEW now \in Nat, Expired(rw, now), NEW h \in History,
           Counted(rw, h), rw.lease \notin h.openers
    PROVE  Counted(ReapRow(rw, config, now),
                   IF rw.crossed THEN HistFinish(h, "reopened", rw.lease) ELSE h)
  <1> DEFINE new == ReapRow(rw, config, now)
             nh == HistFinish(h, "reopened", rw.lease)
  <1>1. rw.st = "half_open" /\ rw.lease # NoLease
    BY DEF Expired
  <1>2. CASE rw.crossed
    <2>1. /\ new.st = "open" /\ new.fails = 0 /\ new.level = rw.level + 1
          /\ new.succ = 0
      BY <1>2 DEF ReapRow, OpenWithPolicy, OpenRow
    <2>2. nh.streak = {} /\ nh.probes = {} /\ nh.openers = h.openers \cup {rw.lease}
      BY DEF HistFinish
    <2>3. /\ IsFiniteSet(h.openers \cup {rw.lease})
          /\ Cardinality(h.openers \cup {rw.lease}) = rw.level + 1
      BY CountOneMore DEF Counted
    <2> HIDE DEF new, nh
    <2>4. Counted(new, nh)
      BY <2>1, <2>2, <2>3, CountNothing, Requesters DEF Counted
    <2> QED
      BY <1>2, <2>4 DEF new, nh
  <1>3. CASE ~rw.crossed
    <2>1. FinishTransition(rw, config, now, rw.lease, FALSE, FALSE) = "released"
      BY <1>1 DEF FinishTransition
    <2>2. new = IdleRow(rw.rev, rw.policy, rw.level, rw.succ)
      BY <1>3, <2>1 DEF ReapRow, FinishRow
    <2>3. /\ new.st = "half_open" /\ new.fails = 0 /\ new.level = rw.level
          /\ new.succ = rw.succ
      BY <2>2 DEF IdleRow
    <2> HIDE DEF new
    <2>4. Counted(new, h)
      BY <1>1, <2>3 DEF Counted
    <2> QED
      BY <1>3, <2>4 DEF new
  <1> QED
    BY <1>2, <1>3

(***************************************************************************)
(* The state machine.                                                      *)
(***************************************************************************)
\* What every step leaves of a slot that exists and of a verdict that was
\* applied.
SlotsKept ==
    \A a \in Attempts :
        /\ ledger[a].st # "none" =>
              /\ ledger'[a].st # "none"
              /\ ledger'[a].key = ledger[a].key
              /\ ledger'[a].leaseRev = ledger[a].leaseRev
              /\ ledger[a].crossed => ledger'[a].crossed
        /\ ledger[a].st = "success" => ledger'[a].st = "success"
        /\ evt[a] = "applied" => evt'[a] = "applied"

\* A request neither forgets a key it excluded nor starts again, and one that
\* has not begun stays as it is until it begins.
RequestsKept ==
    \A r \in Requests :
        /\ \/ phase'[r] \in {"done", "crashed"}
           \/ /\ phase[r] \notin {"done", "crashed"}
              /\ excluded[r] \subseteq excluded'[r]
        /\ phase'[r] = "new" => phase[r] = "new" /\ excluded'[r] = excluded[r]

\* Members of the streak and of the probes stay what they were counted for.
LEMMA MembersKept ==
    ASSUME CircuitInv, HistoryInv, SlotsKept, NEW k \in Keys, NEW a
    PROVE  /\ a \in hist[k].streak =>
                 ledger'[a].key = k /\ ledger'[a].crossed /\ evt'[a] = "applied"
           /\ a \in hist[k].probes =>
                 ledger'[a].key = k /\ ledger'[a].st = "success"
                                    /\ ledger'[a].leaseRev # 0
  <1>1. /\ hist[k].streak \subseteq Attempts /\ hist[k].probes \subseteq Attempts
        /\ evt \in [Attempts -> {"none", "applied", "ignored"}]
    BY DEF CircuitInv, TypeOK, History
  <1>2. ASSUME a \in hist[k].streak
        PROVE  ledger'[a].key = k /\ ledger'[a].crossed /\ evt'[a] = "applied"
    <2>1. ledger[a].key = k /\ ledger[a].crossed /\ evt[a] = "applied"
      BY <1>2 DEF HistoryInv
    <2>2. a \in Attempts /\ ledger[a].st # "none"
      BY <1>1, <1>2, <2>1 DEF CircuitInv, SlotsValid
    <2> QED
      BY <2>1, <2>2 DEF SlotsKept
  <1>3. ASSUME a \in hist[k].probes
        PROVE  ledger'[a].key = k /\ ledger'[a].st = "success"
                                  /\ ledger'[a].leaseRev # 0
    <2>1. ledger[a].key = k /\ ledger[a].st = "success" /\ ledger[a].leaseRev # 0
      BY <1>3 DEF HistoryInv
    <2> QED
      BY <1>1, <1>3, <2>1 DEF SlotsKept
  <1> QED
    BY <1>2, <1>3

\* Openers stay spent while no key grants one of them a lease.
LEMMA OpenersKept ==
    ASSUME CircuitInv, HistoryInv, SlotsKept, RequestsKept, NEW k \in Keys,
           NEW a \in hist[k].openers
    PROVE  \/ ledger'[a].st # "none"
           \/ k \in excluded'[a[1]]
           \/ phase'[a[1]] \in {"done", "crashed"}
  <1>1. a \in Attempts
    BY DEF CircuitInv, TypeOK, History
  <1>2. a[1] \in Requests
    BY <1>1, AttemptOwner
  <1>3. \/ ledger[a].st # "none"
        \/ k \in excluded[a[1]]
        \/ phase[a[1]] \in {"done", "crashed"}
    BY DEF HistoryInv, OpenersSpent
  <1> QED
    BY <1>1, <1>2, <1>3 DEF SlotsKept, RequestsKept

\* The circuit half of an admission: every count stays exact, the history only
\* gains an opener, and only when the admission opens the circuit.
LEMMA AdmitCircuitHistory ==
    ASSUME CircuitInv, HistoryInv,
           NEW r \in Requests, NEW k \in Keys, NEW t \in Time,
           AdmitCircuit(r, k, t)
    PROVE  /\ \A j \in Keys : Counted(row[j], hist[j])'
           /\ \A j \in Keys : hist'[j].streak \subseteq hist[j].streak
           /\ \A j \in Keys : hist'[j].probes \subseteq hist[j].probes
           /\ \A j \in Keys, a \in Attempts :
                 a \in hist'[j].openers /\ a \notin hist[j].openers =>
                    /\ j = k /\ a = Current(r)
                    /\ Verdict(r, k, t) = "opens"
                    /\ row[k].lease = NoLease
  <1> DEFINE a == Current(r)
             now == LogicalNow(t)
             pol == budget[r]
             deadline == AdmissionDeadline(r, t)
             loaded == LoadedRow(r, k)
             new == AdmitRow(loaded, pol, now, deadline, a)
             nh == HistAdmit(hist[k], loaded, new, a)
  <1>1. TypeOK /\ a \in Attempts
    BY CurrentFacts DEF CircuitInv
  <1>2. /\ row[k] \in Row /\ LeaseShape(row[k]) /\ hist[k] \in History
        /\ pol \in Policies /\ now \in Nat /\ deadline \in Nat
    BY <1>1, LogicalNowType, DeadlineAssumption, MaxTimeAssumption
    DEF CircuitInv, TypeOK, AdmissionDeadline, Greatest, Time
  <1>3. /\ loaded \in Row /\ LeaseShape(loaded) /\ loaded.st # "absent"
        /\ loaded.lease = row[k].lease
    BY <1>2, EnsureStateFacts DEF LoadedRow
  <1>4. Counted(loaded, hist[k])
    BY EnsureCounted DEF LoadedRow, HistoryInv
  <1>5. Counted(new, nh)
    BY <1>1, <1>2, <1>3, <1>4, AdmitCounted
  <1>6. /\ nh.streak \subseteq hist[k].streak
        /\ nh.probes \subseteq hist[k].probes
        /\ nh.openers \subseteq hist[k].openers \cup {a}
        /\ nh.openers # hist[k].openers => loaded.st = "closed" /\ new.st = "open"
    BY DEF HistAdmit
  <1>7. loaded.st = "closed" /\ new.st = "open" =>
           /\ AdmitVerdict(loaded, pol, now) = "opens"
           /\ loaded.lease = NoLease
    <2> SUFFICES ASSUME loaded.st = "closed", new.st = "open"
                 PROVE  AdmitVerdict(loaded, pol, now) = "opens"
      BY <1>3 DEF LeaseShape
    <2>1. AdmitVerdict(loaded, pol, now) \in {"opens", "allowed_closed"}
      <3>1. loaded.fails \in Nat /\ FailThreshold[pol] \in Nat
        BY <1>2, <1>3, FailThresholdAssumption DEF Row
      <3> HIDE DEF loaded, now, pol
      <3> QED
        BY <3>1 DEF AdmitVerdict
    <2>2. AdmitVerdict(loaded, pol, now) = "allowed_closed" =>
             new = AdoptPolicy(loaded, pol)
      BY DEF AdmitRow
    <2>3. AdoptPolicy(loaded, pol).st = loaded.st
      <3> HIDE DEF loaded, pol
      <3> QED
        BY <1>3 DEF AdoptPolicy, Row
    <2> QED
      BY <2>1, <2>2, <2>3
  <1>8. \A j \in Keys : /\ row'[j] = IF j = k THEN new ELSE row[j]
                       /\ hist'[j] = IF j = k THEN nh ELSE hist[j]
    BY <1>1 DEF AdmitCircuit, AdmittedRow, TypeOK
  <1>9. Verdict(r, k, t) = AdmitVerdict(loaded, pol, now)
    BY DEF Verdict
  <1> HIDE DEF new, nh, loaded, now, pol, deadline
  <1> QED
    BY <1>3, <1>5, <1>6, <1>7, <1>8, <1>9 DEF HistoryInv

\* An admission, allowed or not, acknowledged or not.
LEMMA AdmitHistory ==
    ASSUME CircuitInv, HistoryInv,
           NEW r \in Requests, NEW k \in Keys, NEW t \in Time,
           \/ Admit(r, k, t) \/ AdmitLostAck(r, k, t) \/ AdmitDenied(r, k, t)
    PROVE  HistoryInv'
  <1> DEFINE a == Current(r)
  <1>1. TypeOK /\ a \in Attempts /\ a[1] = r
    BY CurrentFacts DEF CircuitInv
  <1>2. /\ AdmitCircuit(r, k, t)
        /\ phase[r] = "routing" /\ k \notin excluded[r] /\ evt' = evt
    BY DEF Admit, AdmitLostAck, AdmitDenied, MaySelect
  <1>3. /\ \A j \in Keys : Counted(row[j], hist[j])'
        /\ \A j \in Keys : hist'[j].streak \subseteq hist[j].streak
        /\ \A j \in Keys : hist'[j].probes \subseteq hist[j].probes
        /\ \A j \in Keys, b \in Attempts :
              b \in hist'[j].openers /\ b \notin hist[j].openers =>
                 /\ j = k /\ b = a
                 /\ Verdict(r, k, t) = "opens"
                 /\ row[k].lease = NoLease
    BY <1>2, AdmitCircuitHistory
  <1>4. /\ Verdict(r, k, t) = "allowed_half_open" => row'[k].lease = a
        /\ Verdict(r, k, t) # "allowed_half_open" => row'[k].lease = row[k].lease
        /\ \A j \in Keys : j # k => row'[j] = row[j]
        /\ hist' \in [Keys -> History]
    BY <1>2, AdmitCircuitFacts
  <1>5. \/ /\ ledger[a].st = "none" /\ ledger'[a].st = "pending"
           /\ \A b \in Attempts : b # a => ledger'[b] = ledger[b]
        \/ AdmitDenied(r, k, t) /\ ledger' = ledger
    <2>1. CASE Admit(r, k, t) \/ AdmitLostAck(r, k, t)
      BY <1>1, <2>1 DEF Admit, AdmitLostAck, InsertSlot, TypeOK
    <2>2. CASE AdmitDenied(r, k, t)
      BY <2>2 DEF AdmitDenied
    <2> QED
      BY <2>1, <2>2
  <1>6. /\ \A b \in Attempts : b # a => ledger'[b] = ledger[b]
        /\ ledger'[a] # ledger[a] =>
              ledger[a].st = "none" /\ ledger'[a].st = "pending"
    BY <1>5
  <1>7. SlotsKept
    BY <1>2, <1>6 DEF SlotsKept
  <1>8. /\ phase'[r] \in {"routing", "admitted"}
        /\ \A q \in Requests : q # r => phase'[q] = phase[q]
        /\ \A q \in Requests : excluded[q] \subseteq excluded'[q]
        /\ AdmitDenied(r, k, t) => k \in excluded'[r]
    BY <1>1, <1>2 DEF Admit, AdmitLostAck, AdmitDenied, Exclude, TypeOK
  <1>9. /\ RequestsKept
        /\ \A q \in Requests : phase'[q] = "new" => excluded'[q] = {}
    <2>1. \A q \in Requests : q # r => excluded'[q] = excluded[q]
      BY <1>1 DEF Admit, AdmitLostAck, AdmitDenied, Exclude, TypeOK
    <2> QED
      BY <1>2, <1>8, <2>1 DEF RequestsKept, HistoryInv
  <1>10. SuccessIsLast'
    <2> SUFFICES ASSUME NEW b \in Attempts, ledger'[b].st = "success"
                 PROVE  /\ phase'[b[1]] \in {"done", "crashed"}
                        /\ \A c \in Attempts : c[1] = b[1] =>
                                ledger'[c].st # "pending"
      BY DEF SuccessIsLast
    <2>1. ledger[b].st = "success"
      BY <1>6
    <2>2. /\ phase[b[1]] \in {"done", "crashed"}
          /\ \A c \in Attempts : c[1] = b[1] => ledger[c].st # "pending"
      BY <2>1 DEF HistoryInv, SuccessIsLast
    <2>3. b[1] \in Requests /\ b[1] # r
      BY <1>2, <2>2, AttemptOwner
    <2> QED
      BY <1>1, <1>6, <1>8, <2>2, <2>3
  <1>11. OpenersSpent'
    <2> SUFFICES ASSUME NEW j \in Keys, NEW b \in hist'[j].openers
                 PROVE  /\ row'[j].lease # b
                        /\ \/ ledger'[b].st # "none"
                           \/ j \in excluded'[b[1]]
                           \/ phase'[b[1]] \in {"done", "crashed"}
      BY DEF OpenersSpent
    <2>1. b \in Attempts
      BY <1>4 DEF History
    <2>2. CASE b \in hist[j].openers
      <3>1. row[j].lease # b
        BY <2>2 DEF HistoryInv, OpenersSpent
      <3>2. ASSUME j = k, Verdict(r, k, t) = "allowed_half_open" PROVE b # a
        <4>1. ledger[a].st = "none"
          BY <1>5, <3>2 DEF AdmitDenied, Allowed
        <4> QED
          BY <1>1, <1>2, <2>2, <3>2, <4>1 DEF HistoryInv, OpenersSpent
      <3>3. row'[j].lease # b
        BY <1>4, <3>1, <3>2
      <3> QED
        BY <1>7, <1>9, <2>2, <3>3, OpenersKept
    <2>3. CASE b \notin hist[j].openers
      <3>1. /\ j = k /\ b = a /\ Verdict(r, k, t) = "opens"
            /\ row[k].lease = NoLease
        BY <1>3, <2>1, <2>3
      <3>2. row'[j].lease # b
        BY <1>4, <2>1, <3>1, NoLeaseAssumption
      <3>3. AdmitDenied(r, k, t)
        BY <3>1 DEF Admit, AdmitLostAck, Allowed
      <3> QED
        BY <1>1, <1>8, <3>1, <3>2, <3>3
    <2> QED
      BY <2>2, <2>3
  <1> QED
    BY <1>3, <1>7, <1>9, <1>10, <1>11, MembersKept DEF HistoryInv

\* The boundary mark: it changes no counter, and no slot settles.
LEMMA BoundaryHistory ==
    ASSUME CircuitInv, HistoryInv, NEW r \in Requests, NEW t \in Time,
           CrossBoundary(r, t) \/ CrossLost(r, t)
    PROVE  HistoryInv'
  <1> DEFINE a == Current(r)
  <1>1. TypeOK /\ a \in Attempts /\ a[1] = r
    BY CurrentFacts DEF CircuitInv
  <1>2. /\ MarkBoundary(a, t) /\ phase[r] = "admitted"
        /\ UNCHANGED <<evt, leaseEvt, excluded, hist>>
        /\ phase'[r] \in {"outbound", "abandoning"}
        /\ \A q \in Requests : q # r => phase'[q] = phase[q]
    BY <1>1 DEF CrossBoundary, CrossLost, TypeOK
  <1>3. /\ ledger[a].st = "pending"
        /\ ledger' = [ledger EXCEPT ![a].crossed = TRUE]
        /\ row' = row \/ row' = [row EXCEPT ![ledger[a].key].crossed = TRUE]
    BY <1>2 DEF MarkBoundary
  <1>4. \A b \in Attempts :
           /\ ledger'[b].st = ledger[b].st /\ ledger'[b].key = ledger[b].key
           /\ ledger'[b].leaseRev = ledger[b].leaseRev
           /\ ledger[b].crossed => ledger'[b].crossed
    BY <1>1, <1>3 DEF TypeOK, Slot
  <1>5. \A j \in Keys :
           /\ row'[j].st = row[j].st /\ row'[j].fails = row[j].fails
           /\ row'[j].level = row[j].level /\ row'[j].succ = row[j].succ
           /\ row'[j].lease = row[j].lease
    BY <1>1, <1>3 DEF TypeOK, Row
  <1>6. SlotsKept /\ RequestsKept
    BY <1>2, <1>4 DEF SlotsKept, RequestsKept
  <1>7. \A j \in Keys : Counted(row[j], hist[j])'
    <2>1. \A j \in Keys : Counted(row[j], hist[j]) /\ hist'[j] = hist[j]
      BY <1>2 DEF HistoryInv
    <2> QED
      BY <1>5, <2>1 DEF Counted
  <1>8. SuccessIsLast'
    <2> SUFFICES ASSUME NEW b \in Attempts, ledger'[b].st = "success"
                 PROVE  /\ phase'[b[1]] \in {"done", "crashed"}
                        /\ \A c \in Attempts : c[1] = b[1] =>
                                ledger'[c].st # "pending"
      BY DEF SuccessIsLast
    <2>1. /\ phase[b[1]] \in {"done", "crashed"}
          /\ \A c \in Attempts : c[1] = b[1] => ledger[c].st # "pending"
      BY <1>4 DEF HistoryInv, SuccessIsLast
    <2> QED
      BY <1>2, <1>4, <2>1, AttemptOwner
  <1>9. OpenersSpent'
    BY <1>2, <1>5, <1>6, OpenersKept DEF HistoryInv, OpenersSpent
  <1>10. \A q \in Requests : phase'[q] = "new" => excluded'[q] = {}
    BY <1>6 DEF HistoryInv, RequestsKept
  <1> QED
    BY <1>2, <1>6, <1>7, <1>8, <1>9, <1>10, MembersKept DEF HistoryInv

\* The result of a pending attempt: it is in no set yet, joins the streak only
\* across the boundary and the probes only with a lease and a success.  A
\* success also ends its request.
LEMMA FinishHistory ==
    ASSUME CircuitInv, HistoryInv, NEW a \in Attempts, ledger[a].st = "pending",
           NEW success \in BOOLEAN, NEW counts \in BOOLEAN, NEW t \in Time,
           NEW st \in {"success", "failure", "excluded"},
           ledger' = [ledger EXCEPT ![a].st = st],
           FinishCircuit(a, success, counts, t),
           success => st = "success", counts => ledger[a].crossed,
           RequestsKept,
           \A q \in Requests : q # a[1] => phase'[q] = phase[q],
           st = "success" => phase'[a[1]] \in {"done", "crashed"}
    PROVE  HistoryInv'
  <1> DEFINE k == ledger[a].key
             now == LogicalNow(t)
             transition == FinishTransition(row[k], policy, now, a, success, counts)
             new == FinishRow(row[k], policy, now, a, success, counts)
             nh == HistFinish(hist[k], transition, a)
  <1>1. k \in Keys /\ row[k].st # "absent" /\ evt[a] = "none"
    BY DEF CircuitInv, SlotsValid
  <1>2. /\ TypeOK /\ row[k] \in Row /\ LeaseShape(row[k]) /\ policy \in Policies
        /\ hist[k] \in History
    BY <1>1 DEF CircuitInv, TypeOK
  <1>3. now \in Nat
    BY <1>2, LogicalNowType
  <1>4. EnsureState(row[k], policy) = row[k]
    BY <1>1 DEF EnsureState
  <1>5. /\ row' = [row EXCEPT ![k] = new]
        /\ hist' = [hist EXCEPT ![k] = nh]
        /\ evt' = [evt EXCEPT ![a] =
                      IF transition = "ignored" THEN "ignored" ELSE "applied"]
    BY <1>1, <1>4 DEF FinishCircuit
  <1>6. a \notin hist[k].streak
    BY <1>1 DEF HistoryInv
  <1>7. a[1] \notin {b[1] : b \in hist[k].probes}
    <2> SUFFICES ASSUME NEW b \in hist[k].probes, b[1] = a[1] PROVE FALSE
      OBVIOUS
    <2>1. b \in Attempts /\ ledger[b].st = "success"
      BY <1>1, <1>2 DEF HistoryInv, History
    <2> QED
      BY <2>1 DEF HistoryInv, SuccessIsLast
  <1>8. row[k].lease = a => a \notin hist[k].openers
    BY <1>1 DEF HistoryInv, OpenersSpent
  <1>9. Counted(new, nh)
    <2>1. Counted(row[k], hist[k])
      BY <1>1 DEF HistoryInv
    <2> HIDE DEF k, now
    <2> QED
      BY <1>1, <1>2, <1>3, <1>6, <1>7, <1>8, <2>1, FinishCounted
  <1>10. /\ row[k].lease = a => new.lease = NoLease
         /\ row[k].lease # a => new.lease = row[k].lease
    <2> HIDE DEF k, now
    <2> QED
      BY <1>1, <1>2, <1>3, FinishRowFacts
  <1>11. transition \in {"counted", "opened"} => counts
    BY DEF FinishTransition
  <1>12. transition = "recovering" => success /\ row[k].lease = a
    <2> HIDE DEF k, now
    <2> QED
      BY <1>1, <1>2 DEF FinishTransition, Row
  <1>13. transition \in {"opened", "reopened"} => new.lease = NoLease
    BY DEF FinishRow, OpenWithPolicy, OpenRow
  <1>14. /\ \A b \in nh.streak : b \in hist[k].streak \/
                (b = a /\ transition \in {"counted", "opened"})
         /\ \A b \in nh.probes : b \in hist[k].probes \/
                (b = a /\ transition = "recovering")
         /\ \A b \in nh.openers : b \in hist[k].openers \/
                (b = a /\ transition \in {"opened", "reopened"})
    BY DEF HistFinish
  <1>15. \A j \in Keys : /\ row'[j] = IF j = k THEN new ELSE row[j]
                        /\ hist'[j] = IF j = k THEN nh ELSE hist[j]
    BY <1>2, <1>5 DEF TypeOK
  <1>16. /\ ledger'[a].key = k /\ ledger'[a].crossed = ledger[a].crossed
         /\ ledger'[a].leaseRev = ledger[a].leaseRev /\ ledger'[a].st = st
         /\ \A b \in Attempts : b # a => ledger'[b] = ledger[b] /\ evt'[b] = evt[b]
         /\ transition # "ignored" => evt'[a] = "applied"
    BY <1>2, <1>5 DEF TypeOK, Slot
  <1> HIDE DEF k, new, nh, transition, now
  <1>17. SlotsKept
    BY <1>1, <1>16 DEF SlotsKept, k
  <1>18. ASSUME NEW j \in Keys, NEW b \in hist'[j].streak
         PROVE  ledger'[b].key = j /\ ledger'[b].crossed /\ evt'[b] = "applied"
    <2>1. CASE b \in hist[j].streak
      BY <1>17, <2>1, MembersKept
    <2>2. CASE b \notin hist[j].streak
      BY <1>11, <1>14, <1>15, <1>16, <1>18, <2>2
    <2> QED
      BY <2>1, <2>2
  <1>19. ASSUME NEW j \in Keys, NEW b \in hist'[j].probes
         PROVE  ledger'[b].key = j /\ ledger'[b].st = "success"
                                   /\ ledger'[b].leaseRev # 0
    <2>1. CASE b \in hist[j].probes
      BY <1>17, <2>1, MembersKept
    <2>2. CASE b \notin hist[j].probes
      <3>1. j = k /\ b = a /\ success /\ row[k].lease = a
        BY <1>12, <1>14, <1>15, <1>19, <2>2
      <3>2. ledger[a].leaseRev = row[k].leaseRev /\ row[k].leaseRev # 0
        BY <1>1, <1>2, <3>1, NoLeaseAssumption
        DEF CircuitInv, LeaseOwnership, LeaseShape, Row
      <3> QED
        BY <1>16, <3>1, <3>2
    <2> QED
      BY <2>1, <2>2
  <1>20. ASSUME NEW j \in Keys, NEW b \in hist'[j].openers
         PROVE  row'[j].lease # b /\ (b \in hist[j].openers \/ b = a)
    <2>1. b \in hist[j].openers \/
             (j = k /\ b = a /\ transition \in {"opened", "reopened"})
      BY <1>14, <1>15, <1>20
    <2>2. CASE b \in hist[j].openers
      <3>1. row[j].lease # b /\ b \in Attempts
        BY <1>2, <2>2 DEF HistoryInv, OpenersSpent, TypeOK, History
      <3> QED
        BY <1>10, <1>15, <2>2, <3>1, NoLeaseAssumption
    <2>3. CASE j = k /\ b = a /\ transition \in {"opened", "reopened"}
      BY <1>13, <1>15, <2>3, NoLeaseAssumption
    <2> QED
      BY <2>1, <2>2, <2>3
  <1>21. \A j \in Keys : Counted(row[j], hist[j])'
    BY <1>9, <1>15 DEF HistoryInv
  <1>22. SuccessIsLast'
    <2> SUFFICES ASSUME NEW b \in Attempts, ledger'[b].st = "success"
                 PROVE  /\ phase'[b[1]] \in {"done", "crashed"}
                        /\ \A c \in Attempts : c[1] = b[1] =>
                                ledger'[c].st # "pending"
      BY DEF SuccessIsLast
    <2>1. CASE b = a
      BY <1>16, <2>1 DEF CircuitInv, OnePending
    <2>2. CASE b # a
      <3>1. /\ phase[b[1]] \in {"done", "crashed"}
            /\ \A c \in Attempts : c[1] = b[1] => ledger[c].st # "pending"
        BY <1>16, <2>2 DEF HistoryInv, SuccessIsLast
      <3>2. b[1] \in Requests /\ b[1] # a[1]
        BY <3>1, AttemptOwner
      <3> QED
        BY <1>16, <3>1, <3>2
    <2> QED
      BY <2>1, <2>2
  <1>23. OpenersSpent'
    BY <1>16, <1>17, <1>20, OpenersKept DEF OpenersSpent
  <1>24. \A q \in Requests : phase'[q] = "new" => excluded'[q] = {}
    BY DEF HistoryInv, RequestsKept
  <1> QED
    BY <1>18, <1>19, <1>21, <1>22, <1>23, <1>24 DEF HistoryInv

\* Steps that leave slots, rows, verdicts and history alone.
LEMMA QuietHistory ==
    ASSUME CircuitInv, HistoryInv, UNCHANGED <<row, ledger, evt, hist>>,
           RequestsKept,
           \A q \in Requests : phase[q] \in {"done", "crashed"} =>
                                  phase'[q] \in {"done", "crashed"}
    PROVE  HistoryInv'
  <1>1. SlotsKept
    BY DEF SlotsKept
  <1>2. SuccessIsLast'
    BY AttemptOwner DEF HistoryInv, SuccessIsLast
  <1>3. OpenersSpent'
    BY <1>1, OpenersKept DEF HistoryInv, OpenersSpent
  <1>4. \A q \in Requests : phase'[q] = "new" => excluded'[q] = {}
    BY DEF HistoryInv, RequestsKept
  <1> QED
    BY <1>2, <1>3, <1>4 DEF HistoryInv

\* The last terminal of a request, or one that it follows with a retry.
LEMMA TerminalHistory ==
    ASSUME CircuitInv, HistoryInv, NEW r \in Requests, NEW t \in Time,
           \/ \E outcome \in Outcomes : LastTerminal(r, outcome, t)
           \/ \E sameKey \in BOOLEAN : RetryTerminal(r, sameKey, t)
    PROVE  HistoryInv'
  <1> DEFINE a == Current(r)
  <1>1. TypeOK /\ a \in Attempts /\ a[1] = r
    BY CurrentFacts DEF CircuitInv
  <1>2. PICK result \in Outcomes :
           /\ PersistTerminal(a, result, t)
           /\ phase[r] \in {"outbound", "abandoning"}
           /\ leaseEvt' = leaseEvt
           /\ result = "success" => phase'[r] = "done"
    BY <1>1 DEF LastTerminal, RetryTerminal, Outcomes, EndExecution, TypeOK
  <1>3. /\ \A q \in Requests : q # r => phase'[q] = phase[q]
        /\ \A q \in Requests : q # r => excluded'[q] = excluded[q]
        /\ phase'[r] = "done" \/ excluded[r] \subseteq excluded'[r]
        /\ phase'[r] # "new"
    BY <1>1 DEF LastTerminal, RetryTerminal, EndExecution, TypeOK
  <1>4. RequestsKept
    BY <1>2, <1>3 DEF RequestsKept
  <1>5. CASE r \in finalized
    BY <1>1, <1>2, <1>3, <1>4, <1>5, QuietHistory DEF PersistTerminal
  <1>6. CASE r \notin finalized
    <2> DEFINE st == CanonicalTerminal(result, ledger[a].crossed)
               success == result = "success"
               counts == ledger[a].crossed /\ AffectsCircuit(result)
    <2>1. /\ ledger[a].st = "pending"
          /\ ledger' = [ledger EXCEPT ![a].st = st]
          /\ FinishCircuit(a, success, counts, t)
      BY <1>1, <1>2, <1>6 DEF PersistTerminal
    <2>2. /\ st \in {"success", "failure", "excluded"}
          /\ st = "success" <=> success
      BY DEF CanonicalTerminal
    <2>3. success \in BOOLEAN /\ counts \in BOOLEAN /\ (counts => ledger[a].crossed)
      OBVIOUS
    <2>4. st = "success" => phase'[a[1]] \in {"done", "crashed"}
      BY <1>1, <1>2, <2>2
    <2> HIDE DEF st, success, counts, a
    <2> QED
      BY <1>1, <1>2, <1>3, <1>4, <2>1, <2>2, <2>3, <2>4, FinishHistory
  <1> QED
    BY <1>5, <1>6

\* Recovery settles a pending slot as a failure or as excluded.
LEMMA RecoverHistory ==
    ASSUME CircuitInv, HistoryInv, NEW r \in Requests, NEW t \in Time,
           Recover(r, t)
    PROVE  HistoryInv'
  <1>1. TypeOK /\ UNCHANGED <<leaseEvt, phase, excluded>>
    BY DEF CircuitInv, Recover, volatile
  <1>2. RequestsKept
    BY <1>1 DEF RequestsKept
  <1>3. CASE PendingOf(r) = {}
    BY <1>1, <1>2, <1>3, QuietHistory DEF Recover
  <1>4. CASE PendingOf(r) # {}
    <2>1. PICK a \in PendingOf(r) : RecoverSlot(a, t)
      BY <1>4 DEF Recover
    <2>2. a \in Attempts /\ a[1] = r /\ ledger[a].st = "pending"
      BY DEF PendingOf, AttemptsOf
    <2> DEFINE st == IF ledger[a].crossed THEN "failure" ELSE "excluded"
               counts == ledger[a].crossed
    <2>3. /\ ledger' = [ledger EXCEPT ![a].st = st]
          /\ FinishCircuit(a, FALSE, counts, t)
          /\ counts \in BOOLEAN
          /\ st \in {"success", "failure", "excluded"} /\ st # "success"
          /\ counts => ledger[a].crossed
      BY <1>1, <2>1, <2>2 DEF RecoverSlot, TypeOK, Slot
    <2> HIDE DEF st, counts
    <2> QED
      BY <1>1, <1>2, <2>2, <2>3, FinishHistory
  <1> QED
    BY <1>3, <1>4

\* The reaper: each expired lease that crossed adds its holder, whose slot is
\* still pending, to the openers of its key.
LEMMA ReapHistory ==
    ASSUME CircuitInv, HistoryInv, NEW t \in Time, Reap(t)
    PROVE  HistoryInv'
  <1> DEFINE now == LogicalNow(t)
  <1>1. TypeOK /\ now \in Nat /\ policy \in Policies
    BY LogicalNowType DEF CircuitInv, TypeOK
  <1>2. UNCHANGED <<ledger, evt, phase, excluded>>
    BY DEF Reap, volatile
  <1>3. SlotsKept /\ RequestsKept
    BY <1>2 DEF SlotsKept, RequestsKept
  <1>4. ASSUME NEW j \in Keys
        PROVE  /\ Counted(row'[j], hist'[j])
               /\ hist'[j].streak \subseteq hist[j].streak
               /\ hist'[j].probes \subseteq hist[j].probes
               /\ \A b \in hist'[j].openers : b \in hist[j].openers \/
                     (b = row[j].lease /\ ledger[b].st = "pending")
               /\ \A b \in hist'[j].openers : row'[j].lease # b
    <2>1. /\ row[j] \in Row /\ LeaseShape(row[j]) /\ hist[j] \in History
          /\ Counted(row[j], hist[j])
          /\ \A b \in hist[j].openers : row[j].lease # b /\ b \in Attempts
      BY <1>1 DEF CircuitInv, TypeOK, HistoryInv, OpenersSpent, History
    <2>2. /\ row'[j] = IF Expired(row[j], now)
                       THEN ReapRow(row[j], policy, now) ELSE row[j]
          /\ hist'[j] = IF Expired(row[j], now) /\ row[j].crossed
                        THEN HistFinish(hist[j], "reopened", row[j].lease)
                        ELSE hist[j]
      BY DEF Reap
    <2> HIDE DEF now
    <2>3. CASE ~Expired(row[j], now)
      BY <2>1, <2>2, <2>3
    <2>4. CASE Expired(row[j], now)
      <3>1. row[j].lease \in Attempts /\ ledger[row[j].lease].st = "pending"
        BY <2>1, <2>4 DEF Expired, CircuitInv, LeaseOwnership, Row
      <3>2. row'[j].lease = NoLease
        BY <1>1, <2>1, <2>2, <2>4, ReapRowFacts
      <3>3. Counted(row'[j], hist'[j])
        BY <1>1, <2>1, <2>2, <2>4, ReapCounted
      <3>4. /\ hist'[j].streak \subseteq hist[j].streak
            /\ hist'[j].probes \subseteq hist[j].probes
            /\ hist'[j].openers \subseteq hist[j].openers \cup {row[j].lease}
        BY <2>2 DEF HistFinish
      <3> QED
        BY <2>1, <3>1, <3>2, <3>3, <3>4, NoLeaseAssumption
    <2> QED
      BY <2>3, <2>4
  <1>5. SuccessIsLast'
    BY <1>2 DEF HistoryInv, SuccessIsLast
  <1>6. OpenersSpent'
    BY <1>2, <1>3, <1>4, OpenersKept DEF OpenersSpent
  <1> QED
    BY <1>2, <1>3, <1>4, <1>5, <1>6, MembersKept DEF HistoryInv

\* Steps of executors, of finalization, of the policy and of the system.
LEMMA LocalHistory ==
    ASSUME CircuitInv, HistoryInv,
           \/ \E r \in Requests : LocalStep(r)
           \/ \E r \in Requests, k \in Keys, t \in Time : AdmitRejected(r, k, t)
           \/ SetPolicy \/ Crash \/ UNCHANGED vars
    PROVE  HistoryInv'
  <1>1. TypeOK
    BY DEF CircuitInv
  <1>2. UNCHANGED <<row, ledger, evt, hist>>
    BY DEF LocalStep, Begin, GiveUp, FailBeforeOutbound, TerminalLost, Finalize,
           AdmitUnavailable, AdmitRejected, SetPolicy, Crash, vars, durable
  <1> DEFINE Kept ==
               /\ RequestsKept
               /\ \A q \in Requests : phase[q] \in {"done", "crashed"} =>
                                        phase'[q] \in {"done", "crashed"}
  <1>3. ASSUME NEW r \in Requests, EndExecution(r) PROVE Kept
    BY <1>1, <1>3 DEF EndExecution, TypeOK, RequestsKept
  <1>4. ASSUME NEW r \in Requests, Begin(r) \/ FailBeforeOutbound(r) PROVE Kept
    BY <1>1, <1>4 DEF Begin, FailBeforeOutbound, TypeOK, RequestsKept
  <1>5. ASSUME NEW r \in Requests, NEW k \in Keys, AdmitUnavailable(r, k)
        PROVE  Kept
    BY <1>1, <1>5
    DEF AdmitUnavailable, MaySelect, Exclude, TypeOK, RequestsKept
  <1>6. ASSUME Crash PROVE Kept
    BY <1>1, <1>6 DEF Crash, TypeOK, Live, RequestsKept, HistoryInv
  <1>7. ASSUME UNCHANGED <<phase, excluded>> PROVE Kept
    BY <1>7 DEF RequestsKept
  <1> HIDE DEF Kept
  <1>8. Kept
    BY <1>3, <1>4, <1>5, <1>6, <1>7
    DEF LocalStep, GiveUp, TerminalLost, Finalize, AdmitRejected, SetPolicy,
        vars, volatile
  <1> QED
    BY <1>2, <1>8, QuietHistory DEF Kept

(***************************************************************************)
(* The theorems.                                                           *)
(***************************************************************************)
\* A fresh installation has counted nothing.
LEMMA InitHistory == Init => HistoryInv
  <1> SUFFICES ASSUME Init PROVE HistoryInv
    OBVIOUS
  <1>1. Counted(AbsentRow, NoHistory)
    BY CountNothing, Requesters DEF Counted, AbsentRow, NoHistory
  <1>2. \A k \in Keys : row[k] = AbsentRow /\ hist[k] = NoHistory
    BY DEF Init
  <1>3. \A a \in Attempts : ledger[a].st = "none"
    BY DEF Init, NoSlot
  <1> QED
    BY <1>1, <1>2, <1>3
    DEF Init, HistoryInv, NoHistory, SuccessIsLast, OpenersSpent

\* Every step keeps every count exact.
LEMMA NextHistory ==
    CircuitInv /\ HistoryInv /\ [Next]_vars => HistoryInv'
  <1> SUFFICES ASSUME CircuitInv, HistoryInv, [Next]_vars PROVE HistoryInv'
    OBVIOUS
  <1>1. ASSUME NEW r \in Requests, NEW k \in Keys, NEW t \in Time,
               Admission(r, k, t)
        PROVE  HistoryInv'
    BY <1>1, AdmitHistory, LocalHistory DEF Admission
  <1>2. ASSUME NEW r \in Requests, NEW t \in Time, Outbound(r, t)
        PROVE  HistoryInv'
    BY <1>2, BoundaryHistory, TerminalHistory, RecoverHistory DEF Outbound
  <1>3. ASSUME NEW t \in Time, Reap(t) PROVE HistoryInv'
    BY <1>3, ReapHistory
  <1>4. CASE \/ \E r \in Requests : LocalStep(r)
             \/ SetPolicy \/ Crash \/ UNCHANGED vars
    BY <1>4, LocalHistory
  <1> QED
    BY <1>1, <1>2, <1>3, <1>4 DEF Next

\* The counters and their history agree in every reachable state.
THEOREM HistoryInvariance == Spec => [](CircuitInv /\ HistoryInv)
  <1>1. Init => CircuitInv /\ HistoryInv
    BY InitInv, InitHistory
  <1>2. CircuitInv /\ HistoryInv /\ [Next]_vars => (CircuitInv /\ HistoryInv)'
    BY NextInv, NextHistory
  <1> QED
    BY <1>1, <1>2, PTL DEF Spec

\* consecutive_failures counts distinct attempts of the key that crossed the
\* boundary and whose result was applied once, whatever else happens to them.
THEOREM StreakIsExact == Spec => []StreakExact
  <1>1. CircuitInv /\ HistoryInv => StreakExact
    BY DEF HistoryInv, Counted, StreakExact
  <1> QED
    BY <1>1, HistoryInvariance, PTL

\* recovery_successes counts distinct requests with a lease and a success of
\* their own: no retry, replay or reaped lease forges one.
THEOREM RecoveryIsExact == Spec => []RecoveryExact
  <1>1. CircuitInv /\ HistoryInv => RecoveryExact
    BY DEF HistoryInv, Counted, RecoveryExact
  <1> QED
    BY <1>1, HistoryInvariance, PTL

\* reopen_level grows once per attempt that opened the circuit since it was
\* last closed, and a closed circuit has none.
THEOREM ReopenLevelIsExact == Spec => []ReopenLevelExact
  <1>1. CircuitInv /\ HistoryInv => ReopenLevelExact
    BY DEF HistoryInv, Counted, ReopenLevelExact
  <1> QED
    BY <1>1, HistoryInvariance, PTL

\* What an admission may do to the state of a circuit.
LEMMA AdmitEarned ==
    ASSUME CircuitInv, NEW r \in Requests, NEW k \in Keys, NEW t \in Time,
           AdmitCircuit(r, k, t), NEW j \in Keys
    PROVE  /\ row[j].st \in {"open", "half_open"} => row'[j].st # "closed"
           /\ row[j].st = "open" /\ row'[j].st = "half_open" =>
                 clock' >= row[j].until
  <1> DEFINE now == LogicalNow(t)
             pol == budget[r]
             deadline == AdmissionDeadline(r, t)
             loaded == LoadedRow(r, k)
             new == AdmitRow(loaded, pol, now, deadline, Current(r))
  <1>1. TypeOK /\ row[k] \in Row /\ now \in Nat
    BY LogicalNowType DEF CircuitInv, TypeOK
  <1>2. row'[j] = (IF j = k THEN new ELSE row[j]) /\ clock' = now
    BY <1>1 DEF AdmitCircuit, AdmittedRow, TypeOK
  <1>3. CASE j # k
    BY <1>2, <1>3
  <1>4. CASE j = k /\ row[k].st \in {"open", "half_open"}
    <2>1. loaded = row[k]
      BY <1>4 DEF LoadedRow, EnsureState
    <2>2. AdoptPolicy(row[k], pol).st = row[k].st
      <3> HIDE DEF pol
      <3> QED
        BY <1>1 DEF AdoptPolicy, Row
    <2>3. /\ AdmitVerdict(row[k], pol, now) \in {"cooling", "occupied",
                                                 "allowed_half_open"}
          /\ row[k].st = "open" /\ row[k].until > now =>
                AdmitVerdict(row[k], pol, now) = "cooling"
      <3> HIDE DEF pol, now
      <3> QED
        BY <1>4 DEF AdmitVerdict
    <2>4. CASE AdmitVerdict(row[k], pol, now) = "cooling"
      <3>1. new = AdoptPolicy(row[k], pol)
        BY <2>1, <2>4 DEF AdmitRow
      <3>2. row[k].st = "open"
        BY <1>4, <2>4 DEF AdmitVerdict
      <3> HIDE DEF new, pol, now
      <3> QED
        BY <1>2, <1>4, <2>2, <3>1, <3>2
    <2>5. CASE AdmitVerdict(row[k], pol, now) = "occupied"
      <3>1. new = row[k] /\ row[k].st = "half_open"
        BY <1>4, <2>1, <2>5 DEF AdmitRow, AdmitVerdict
      <3> HIDE DEF new, pol, now
      <3> QED
        BY <1>2, <1>4, <3>1
    <2>6. CASE AdmitVerdict(row[k], pol, now) = "allowed_half_open"
      <3>1. new.st = "half_open"
        BY <2>1, <2>6 DEF AdmitRow, LeasedRow
      <3>2. row[k].st = "open" => now >= row[k].until
        BY <1>1, <2>3, <2>6 DEF Row
      <3> HIDE DEF new, pol, now
      <3> QED
        BY <1>2, <1>4, <3>1, <3>2
    <2> QED
      BY <2>3, <2>4, <2>5, <2>6
  <1> QED
    BY <1>3, <1>4

\* What a result may do to the state of a circuit.
LEMMA FinishEarned ==
    ASSUME CircuitInv, HistoryInv, NEW a \in Attempts, ledger[a].st = "pending",
           NEW success \in BOOLEAN, NEW counts \in BOOLEAN, NEW t \in Time,
           FinishCircuit(a, success, counts, t),
           counts => ledger[a].crossed, NEW j \in Keys
    PROVE  /\ row[j].st \in {"open", "half_open"} /\ row'[j].st = "closed" =>
                 /\ row[j].st = "half_open"
                 /\ row[j].crossed
                 /\ clock' < row[j].expires
                 /\ Cardinality(hist[j].probes) + 1
                       >= RecoveryThreshold[row[j].leasePolicy]
           /\ ~(row[j].st = "open" /\ row'[j].st = "half_open")
  <1> DEFINE k == ledger[a].key
             now == LogicalNow(t)
             transition == FinishTransition(row[k], policy, now, a, success, counts)
             new == FinishRow(row[k], policy, now, a, success, counts)
  <1>1. k \in Keys /\ row[k].st # "absent" /\ evt[a] = "none"
    BY DEF CircuitInv, SlotsValid
  <1>2. TypeOK /\ row[k] \in Row /\ LeaseShape(row[k]) /\ now \in Nat
    BY <1>1, LogicalNowType DEF CircuitInv, TypeOK
  <1>3. row'[j] = (IF j = k THEN new ELSE row[j]) /\ clock' = now
    <2>1. EnsureState(row[k], policy) = row[k]
      BY <1>1 DEF EnsureState
    <2> QED
      BY <1>1, <1>2, <2>1 DEF FinishCircuit, TypeOK
  <1>4. CASE j # k
    BY <1>3, <1>4
  <1>5. CASE j = k /\ row[k].st = "open"
    <2>1. new = row[k]
      BY <1>5 DEF FinishRow, FinishTransition
    <2> QED
      BY <1>3, <1>5, <2>1
  <1>6. CASE j = k /\ row[k].st = "half_open"
    <2>1. new.st = "closed" => transition = "closed"
      <3>1. transition \in {"ignored", "released", "reopened", "closed",
                            "recovering"}
        BY <1>6 DEF FinishTransition
      <3>2. transition \in {"ignored", "released", "reopened", "recovering"} =>
               new.st # "closed"
        BY <1>6 DEF FinishRow, IdleRow, OpenWithPolicy, OpenRow
      <3> QED
        BY <3>1, <3>2
    <2>2. transition = "closed" =>
             /\ row[k].lease = a /\ counts /\ ~Lapsed(row[k], now)
             /\ row[k].succ + 1 >= RecoveryThreshold[row[k].leasePolicy]
      <3> HIDE DEF k, now
      <3> QED
        BY <1>6 DEF FinishTransition
    <2>3. ASSUME transition = "closed"
          PROVE  /\ row[k].crossed
                 /\ now < row[k].expires
                 /\ Cardinality(hist[k].probes) + 1
                       >= RecoveryThreshold[row[k].leasePolicy]
      <3>1. row[k].crossed
        BY <1>1, <2>2, <2>3, NoLeaseAssumption DEF CircuitInv, LeaseOwnership
      <3>2. now < row[k].expires
        BY <1>2, <2>2, <2>3 DEF Lapsed, Row
      <3>3. row[k].succ = Cardinality(hist[k].probes)
        BY <1>1 DEF HistoryInv, Counted
      <3> QED
        BY <2>2, <2>3, <3>1, <3>2, <3>3
    <2> HIDE DEF k, now, new, transition
    <2> QED
      BY <1>3, <1>6, <2>1, <2>3
  <1>7. CASE j = k /\ row[k].st = "closed"
    BY <1>7
  <1> QED
    BY <1>1, <1>2, <1>4, <1>5, <1>6, <1>7 DEF Row

\* Every step of the system earns a recovery or makes none.
LEMMA NextEarned ==
    ASSUME CircuitInv, HistoryInv, [Next]_vars, NEW k \in Keys
    PROVE  /\ row[k].st \in {"open", "half_open"} /\ row'[k].st = "closed" =>
                 /\ row[k].st = "half_open"
                 /\ row[k].crossed
                 /\ clock' < row[k].expires
                 /\ Cardinality(hist[k].probes) + 1
                       >= RecoveryThreshold[row[k].leasePolicy]
           /\ row[k].st = "open" /\ row'[k].st = "half_open" =>
                 clock' >= row[k].until
  <1> DEFINE Earned ==
               /\ row[k].st \in {"open", "half_open"} /\ row'[k].st = "closed" =>
                     /\ row[k].st = "half_open"
                     /\ row[k].crossed
                     /\ clock' < row[k].expires
                     /\ Cardinality(hist[k].probes) + 1
                           >= RecoveryThreshold[row[k].leasePolicy]
               /\ row[k].st = "open" /\ row'[k].st = "half_open" =>
                     clock' >= row[k].until
  <1> SUFFICES Earned
    OBVIOUS
  <1>1. TypeOK
    BY DEF CircuitInv
  <1>2. ASSUME row'[k].st = row[k].st PROVE Earned
    BY <1>2
  <1>3. ASSUME NEW r \in Requests, NEW j \in Keys, NEW t \in Time,
               Admission(r, j, t)
        PROVE  Earned
    <2>1. CASE AdmitCircuit(r, j, t)
      BY <2>1, AdmitEarned
    <2>2. CASE AdmitRejected(r, j, t)
      BY <1>2, <2>2 DEF AdmitRejected, durable
    <2> QED
      BY <1>3, <2>1, <2>2 DEF Admission, Admit, AdmitDenied, AdmitLostAck
  <1>4. ASSUME NEW r \in Requests, NEW t \in Time, NEW outcome \in Outcomes,
               PersistTerminal(Current(r), outcome, t)
        PROVE  Earned
    <2> DEFINE a == Current(r)
               success == outcome = "success"
               counts == ledger[a].crossed /\ AffectsCircuit(outcome)
    <2>1. /\ a \in Attempts /\ success \in BOOLEAN /\ counts \in BOOLEAN
          /\ counts => ledger[a].crossed
      BY <1>1, CurrentFacts
    <2>2. CASE a[1] \in finalized
      BY <1>2, <1>4, <2>2 DEF PersistTerminal
    <2>3. CASE a[1] \notin finalized
      <3>1. ledger[a].st = "pending" /\ FinishCircuit(a, success, counts, t)
        BY <1>4, <2>3 DEF PersistTerminal
      <3> HIDE DEF a, success, counts
      <3> QED
        BY <2>1, <3>1, FinishEarned
    <2> QED
      BY <2>2, <2>3
  <1>5. ASSUME NEW r \in Requests, NEW t \in Time, Outbound(r, t)
        PROVE  Earned
    <2>1. CASE CrossBoundary(r, t) \/ CrossLost(r, t)
      <3>1. row'[k].st = row[k].st
        BY <1>1, <2>1 DEF CrossBoundary, CrossLost, MarkBoundary, TypeOK, Row
      <3> QED
        BY <1>2, <3>1
    <2>2. CASE \/ \E outcome \in Outcomes : LastTerminal(r, outcome, t)
               \/ \E sameKey \in BOOLEAN : RetryTerminal(r, sameKey, t)
      <3>1. PICK result \in Outcomes : PersistTerminal(Current(r), result, t)
        BY <2>2 DEF LastTerminal, RetryTerminal, Outcomes
      <3> QED
        BY <1>4, <3>1
    <2>3. CASE Recover(r, t)
      <3>1. CASE PendingOf(r) = {}
        BY <1>2, <2>3, <3>1 DEF Recover
      <3>2. CASE PendingOf(r) # {}
        <4>1. PICK a \in PendingOf(r) : RecoverSlot(a, t)
          BY <2>3, <3>2 DEF Recover
        <4>2. a \in Attempts /\ ledger[a].st = "pending"
          BY DEF PendingOf, AttemptsOf
        <4>3. /\ FinishCircuit(a, FALSE, ledger[a].crossed, t)
              /\ ledger[a].crossed \in BOOLEAN
          BY <1>1, <4>1, <4>2 DEF RecoverSlot, TypeOK, Slot
        <4> QED
          BY <4>2, <4>3, FinishEarned
      <3> QED
        BY <3>1, <3>2
    <2> QED
      BY <1>5, <2>1, <2>2, <2>3 DEF Outbound
  <1>6. ASSUME NEW t \in Time, Reap(t) PROVE Earned
    <2> DEFINE now == LogicalNow(t)
               released == FinishRow(row[k], policy, now, row[k].lease, FALSE, FALSE)
    <2>1. row'[k] = IF Expired(row[k], now)
                    THEN ReapRow(row[k], policy, now) ELSE row[k]
      BY <1>6 DEF Reap
    <2>2. CASE ~Expired(row[k], now)
      BY <1>2, <2>1, <2>2
    <2>3. CASE Expired(row[k], now)
      <3>1. row[k].st = "half_open"
        BY <2>3 DEF Expired
      <3>2. ReapRow(row[k], policy, now).st # "closed"
        <4>1. released.st = "half_open"
          BY <2>3, <3>1 DEF Expired, FinishRow, FinishTransition, IdleRow
        <4> QED
          BY <4>1 DEF ReapRow, OpenWithPolicy, OpenRow
      <3> QED
        BY <2>1, <2>3, <3>1, <3>2
    <2> QED
      BY <2>2, <2>3
  <1>7. CASE \/ \E r \in Requests : LocalStep(r)
             \/ SetPolicy \/ Crash \/ UNCHANGED vars
    <2>1. row' = row
      BY <1>7 DEF LocalStep, Begin, GiveUp, FailBeforeOutbound, TerminalLost,
                  Finalize, AdmitUnavailable, SetPolicy, Crash, vars, durable
    <2> QED
      BY <1>2, <2>1
  <1> HIDE DEF Earned
  <1> QED
    BY <1>3, <1>5, <1>6, <1>7 DEF Next

\* A tripped circuit closes only on an in-time half-open result after as many
\* distinct successes as its lease's policy asks for, and a half-open round
\* starts only after the cooldown.
THEOREM RecoveryIsEarned == Spec => RecoveryEarned
  <1>1. CircuitInv /\ HistoryInv /\ [Next]_vars =>
           [\A k \in Keys :
             /\ row[k].st \in {"open", "half_open"} /\ row'[k].st = "closed" =>
                   /\ row[k].st = "half_open"
                   /\ row[k].crossed
                   /\ clock' < row[k].expires
                   /\ Cardinality(hist[k].probes) + 1
                         >= RecoveryThreshold[row[k].leasePolicy]
             /\ row[k].st = "open" /\ row'[k].st = "half_open" =>
                   clock' >= row[k].until]_vars
    BY NextEarned
  <1> QED
    BY <1>1, HistoryInvariance, PTL DEF Spec, RecoveryEarned
=============================================================================
