-------------------------- MODULE StationKeyCircuit --------------------------
(***************************************************************************)
(* The durable circuit of every station key together with the attempts    *)
(* that pass through it: admission, the outbound boundary, the terminal    *)
(* result, the lease reaper, request finalization, startup recovery and    *)
(* process crashes.                                                        *)
(*                                                                         *)
(* Every action is one SQLite write transaction (writers are serialised)   *)
(* together with the volatile step of the caller that issued it.  A key    *)
(* stands for a pair (station key, lifecycle revision).  The attempt       *)
(* <<r, i>> is the durable attempt id "request:ordinal", which is also     *)
(* the id of the half-open lease it may hold.                              *)
(*                                                                         *)
(* The wall clock t of a transaction is any instant of Time, so it may     *)
(* run backwards; the durable watermark does not.  The persistence gate    *)
(* appears only as the denial it causes (AdmitUnavailable).                *)
(***************************************************************************)
EXTENDS CircuitReducer, FiniteSets

CONSTANTS
    Keys,       \* station keys (with their lifecycle revision)
    NoKey,      \* the key of an attempt slot that does not exist
    Requests,   \* client requests
    MaxIndex,   \* bound: last attempt index of a request
    MaxTime,    \* bound: last instant a wall clock shows
    Deadline    \* the immutable precommit deadline of each request

Indices == 0 .. MaxIndex
Time == 0 .. MaxTime

ASSUME MaxIndexAssumption == MaxIndex \in Nat
ASSUME MaxTimeAssumption == MaxTime \in Nat
ASSUME AttemptsAssumption == Attempts = Requests \X Indices
ASSUME DeadlineAssumption == Deadline \in [Requests -> Nat]
ASSUME NoKeyAssumption == NoKey \notin Keys
ASSUME FirstPolicyAssumption == 1 \in Policies

VARIABLES
    row,        \* routing_circuit_state_v3, by key
    clock,      \* routing_circuit_clock_v3.watermark_ms
    ledger,     \* routing_attempt_v3, by attempt
    evt,        \* routing_circuit_event_v3 of kind 'circuit', by attempt
    leaseEvt,   \* routing_circuit_event_v3 of kind 'lease', by attempt
    reqLog,     \* request_logs.status of a request
    finalized,  \* requests with a finalized routing_attempt_cluster_v3
    policy,     \* revision of the active routing policy
    phase,      \* volatile: where the executor of a request stands
    idx,        \* volatile: attempt_index of the executor
    excluded,   \* volatile: keys the request no longer considers
    budget,     \* volatile: policy revision of the request's attempt budget
    hist        \* history of each key, for the properties only

durable == <<row, clock, ledger, evt, leaseEvt, reqLog, finalized, policy>>
volatile == <<phase, idx, excluded, budget>>
vars == <<durable, volatile, hist>>

Slot ==
    [key : Keys \cup {NoKey},
     st : {"none", "pending", "success", "failure", "excluded"},
     crossed : BOOLEAN, leaseRev : Nat]

NoSlot == [key |-> NoKey, st |-> "none", crossed |-> FALSE, leaseRev |-> 0]

\* Attempts that count toward the failure streak of a key, toward the
\* recovery of the current half-open round, and toward its reopen level.
History ==
    [streak : SUBSET Attempts, probes : SUBSET Attempts,
     openers : SUBSET Attempts]

Live == {"routing", "admitted", "outbound", "abandoning"}

TypeOK ==
    /\ row \in [Keys -> Row]
    /\ clock \in Nat
    /\ ledger \in [Attempts -> Slot]
    /\ evt \in [Attempts -> {"none", "applied", "ignored"}]
    /\ leaseEvt \in [Attempts -> {"none", "reopened", "released"}]
    /\ reqLog \in [Requests -> {"none", "in_progress", "terminal"}]
    /\ finalized \in SUBSET Requests
    /\ policy \in Policies
    /\ phase \in [Requests -> Live \cup {"new", "done", "crashed"}]
    /\ idx \in [Requests -> Indices]
    /\ excluded \in [Requests -> SUBSET Keys]
    /\ budget \in [Requests -> Policies]
    /\ hist \in [Keys -> History]

NoHistory == [streak |-> {}, probes |-> {}, openers |-> {}]

Init ==
    /\ row = [k \in Keys |-> AbsentRow]
    /\ clock = 0
    /\ ledger = [a \in Attempts |-> NoSlot]
    /\ evt = [a \in Attempts |-> "none"]
    /\ leaseEvt = [a \in Attempts |-> "none"]
    /\ reqLog = [r \in Requests |-> "none"]
    /\ finalized = {}
    /\ policy = 1
    /\ phase = [r \in Requests |-> "new"]
    /\ idx = [r \in Requests |-> 0]
    /\ excluded = [r \in Requests |-> {}]
    /\ budget = [r \in Requests |-> 1]
    /\ hist = [k \in Keys |-> NoHistory]

Current(r) == <<r, idx[r]>>

\* The executor of r returns: its locals are gone.
EndExecution(r) ==
    /\ phase' = [phase EXCEPT ![r] = "done"]
    /\ idx' = [idx EXCEPT ![r] = 0]
    /\ excluded' = [excluded EXCEPT ![r] = {}]
    /\ UNCHANGED budget

\* advance_circuit_clock: the logical time of a transaction at wall time t.
LogicalNow(t) == Greatest(clock, t)

(***************************************************************************)
(* History bookkeeping, beside the reducer's transitions.                  *)
(***************************************************************************)
HistAdmit(h, before, after, attempt) ==
    [streak |-> IF after.st = "half_open" THEN {} ELSE h.streak,
     probes |-> IF before.st = "open" THEN {} ELSE h.probes,
     openers |-> IF before.st = "closed" /\ after.st = "open"
                 THEN h.openers \cup {attempt} ELSE h.openers]

HistFinish(h, transition, attempt) ==
    [streak |-> CASE transition \in {"counted", "opened"} ->
                        h.streak \cup {attempt}
                  [] transition \in {"reset", "reopened", "closed"} -> {}
                  [] OTHER -> h.streak,
     probes |-> CASE transition = "recovering" -> h.probes \cup {attempt}
                  [] transition \in {"reopened", "closed"} -> {}
                  [] OTHER -> h.probes,
     openers |-> CASE transition \in {"opened", "reopened"} ->
                        h.openers \cup {attempt}
                   [] transition = "closed" -> {}
                   [] OTHER -> h.openers]

(***************************************************************************)
(* The start of a request: its log row and the attempt budget it keeps     *)
(* for its whole life, whatever happens to the policy meanwhile.           *)
(***************************************************************************)
Begin(r) ==
    /\ phase[r] = "new"
    /\ phase' = [phase EXCEPT ![r] = "routing"]
    /\ budget' = [budget EXCEPT ![r] = policy]
    /\ reqLog' = [reqLog EXCEPT ![r] = "in_progress"]
    /\ UNCHANGED <<row, clock, ledger, evt, leaseEvt, finalized, policy,
                   idx, excluded, hist>>

(***************************************************************************)
(* admit_station_key_circuit_with_attempt.  The transaction checks the     *)
(* late-admission fence, runs the reducer and inserts the attempt slot.    *)
(***************************************************************************)
\* The executor still routes r and its planner may select k.
MaySelect(r, k) == phase[r] = "routing" /\ k \notin excluded[r]

AdmissionDeadline(r, t) == Greatest(Deadline[r], t)

\* deadline_at_ms >= logical now, else the reducer answers InvalidTime.
InTime(r, t) == AdmissionDeadline(r, t) >= LogicalNow(t)

LoadedRow(r, k) == EnsureState(row[k], budget[r])

Verdict(r, k, t) == AdmitVerdict(LoadedRow(r, k), budget[r], LogicalNow(t))

AdmittedRow(r, k, t) ==
    AdmitRow(LoadedRow(r, k), budget[r], LogicalNow(t),
             AdmissionDeadline(r, t), Current(r))

\* Mutant: an admission of a finalized request is not fenced off.
AdmitCircuitUnfenced(r, k, t) ==
    /\ InTime(r, t)
    /\ clock' = LogicalNow(t)
    /\ row' = [row EXCEPT ![k] = AdmittedRow(r, k, t)]
    /\ hist' = [hist EXCEPT ![k] = HistAdmit(@, LoadedRow(r, k),
                                             AdmittedRow(r, k, t), Current(r))]

\* The circuit half of the transaction.
AdmitCircuit(r, k, t) ==
    /\ r \notin finalized
    /\ InTime(r, t)
    /\ clock' = LogicalNow(t)
    /\ row' = [row EXCEPT ![k] = AdmittedRow(r, k, t)]
    /\ hist' = [hist EXCEPT ![k] = HistAdmit(@, LoadedRow(r, k),
                                             AdmittedRow(r, k, t), Current(r))]

\* RoutingAttemptStore::admit on a fresh attempt id.
InsertSlot(r, k, t) ==
    /\ ledger[Current(r)].st = "none"
    /\ ledger' = [ledger EXCEPT ![Current(r)] =
            [key |-> k, st |-> "pending", crossed |-> FALSE,
             leaseRev |-> IF Verdict(r, k, t) = "allowed_half_open"
                          THEN AdmittedRow(r, k, t).leaseRev ELSE 0]]

Exclude(r, k) == excluded' = [excluded EXCEPT ![r] = @ \cup {k}]

\* The transaction commits and the executor learns that it may go on.
Admit(r, k, t) ==
    /\ MaySelect(r, k)
    /\ Allowed(Verdict(r, k, t))
    /\ AdmitCircuit(r, k, t)
    /\ InsertSlot(r, k, t)
    /\ phase' = [phase EXCEPT ![r] = "admitted"]
    /\ UNCHANGED <<evt, leaseEvt, reqLog, finalized, policy,
                   idx, excluded, budget>>

\* The circuit refuses: the row may still open or adopt the policy.
AdmitDenied(r, k, t) ==
    /\ MaySelect(r, k)
    /\ ~Allowed(Verdict(r, k, t))
    /\ AdmitCircuit(r, k, t)
    /\ Exclude(r, k)
    /\ UNCHANGED <<ledger, evt, leaseEvt, reqLog, finalized, policy,
                   phase, idx, budget>>

\* The commit outcome is unknown to the caller although the transaction is
\* durable: the executor sees DeniedPersistenceUnavailable.
AdmitLostAck(r, k, t) ==
    /\ MaySelect(r, k)
    /\ Allowed(Verdict(r, k, t))
    /\ AdmitCircuit(r, k, t)
    /\ InsertSlot(r, k, t)
    /\ Exclude(r, k)
    /\ UNCHANGED <<evt, leaseEvt, reqLog, finalized, policy,
                   phase, idx, budget>>

\* A gate, a storage error before the commit or the late-admission fence:
\* no circuit state changes, the executor moves to another key.
AdmitUnavailable(r, k) ==
    /\ MaySelect(r, k)
    /\ Exclude(r, k)
    /\ UNCHANGED <<durable, phase, idx, budget, hist>>

\* The logical clock is past the deadline (InvalidTime), or the attempt id
\* already names a slot of another key (InvariantViolation): the transaction
\* rolls back and the request fails.
AdmitRejected(r, k, t) ==
    /\ MaySelect(r, k)
    /\ r \notin finalized
    /\ \/ ~InTime(r, t)
       \/ /\ Allowed(Verdict(r, k, t))
          /\ ledger[Current(r)].st # "none"
    /\ EndExecution(r)
    /\ UNCHANGED <<durable, hist>>

\* No candidate, no time or no stable plan is left.
GiveUp(r) ==
    /\ phase[r] = "routing"
    /\ EndExecution(r)
    /\ UNCHANGED <<durable, hist>>

(***************************************************************************)
(* mark_station_key_attempt_boundary: the ledger slot, and for a half-open *)
(* attempt the lease as well, in one transaction just before the request   *)
(* goes out.                                                               *)
(***************************************************************************)
\* Mutant: any lease in flight on the key is marked, whoever holds it.
LeaseMarkableByAnyone(a) ==
    LET held == row[ledger[a].key] IN
    /\ held.st = "half_open"
    /\ held.lease # NoLease
    /\ ~held.crossed

LeaseMarkable(a) ==
    LET held == row[ledger[a].key] IN
    /\ held.st = "half_open"
    /\ held.lease = a
    /\ held.leaseRev = ledger[a].leaseRev
    /\ ~held.crossed

MarkBoundary(a, t) ==
    /\ ledger[a].st = "pending"
    /\ ~ledger[a].crossed
    /\ ledger[a].leaseRev # 0 => LeaseMarkable(a)
    /\ ledger' = [ledger EXCEPT ![a].crossed = TRUE]
    /\ IF ledger[a].leaseRev # 0
       THEN /\ row' = [row EXCEPT ![ledger[a].key].crossed = TRUE]
            /\ clock' = LogicalNow(t)
       ELSE UNCHANGED <<row, clock>>

CrossBoundary(r, t) ==
    /\ phase[r] = "admitted"
    /\ MarkBoundary(Current(r), t)
    /\ phase' = [phase EXCEPT ![r] = "outbound"]
    /\ UNCHANGED <<evt, leaseEvt, reqLog, finalized, policy,
                   idx, excluded, budget, hist>>

\* The precommit timeout cancels the future after the durable commit and
\* before the local boundary flag is set.
CrossLost(r, t) ==
    /\ phase[r] = "admitted"
    /\ MarkBoundary(Current(r), t)
    /\ phase' = [phase EXCEPT ![r] = "abandoning"]
    /\ UNCHANGED <<evt, leaseEvt, reqLog, finalized, policy,
                   idx, excluded, budget, hist>>

\* Target resolution fails, the deadline passes or the boundary is refused.
FailBeforeOutbound(r) ==
    /\ phase[r] = "admitted"
    /\ phase' = [phase EXCEPT ![r] = "abandoning"]
    /\ UNCHANGED <<durable, idx, excluded, budget, hist>>

(***************************************************************************)
(* Terminal results.                                                       *)
(*   success    the upstream answered and the protocol completed           *)
(*   failure    upstream or unattributed failure                           *)
(*   neutral    upstream_insufficient_balance, upstream_model_unavailable  *)
(*   client     the downstream client went away in mid-stream              *)
(*   abandoned  the executor believes the request never left               *)
(***************************************************************************)
Outcomes == {"success", "failure", "neutral", "client", "abandoned"}

\* canonical_terminal: what the ledger records.
CanonicalTerminal(outcome, crossed) ==
    CASE outcome = "success" -> "success"
      [] outcome \in {"client", "abandoned"} \/ (outcome # "success" /\ ~crossed)
            -> "excluded"
      [] OTHER -> "failure"

\* failure_counts_toward_key_circuit, which looks at the public code alone.
AffectsCircuit(outcome) == outcome # "neutral"

\* StationKeyCircuitStore::finish_attempt for a's key, idempotent in a.
FinishCircuit(a, success, counts, t) ==
    LET k == ledger[a].key
        now == LogicalNow(t)
        loaded == EnsureState(row[k], policy)
        transition ==
            FinishTransition(loaded, policy, now, a, success, counts)
    IN
    /\ clock' = now
    /\ IF evt[a] # "none"
       THEN UNCHANGED <<row, evt, hist>>
       ELSE /\ row' = [row EXCEPT ![k] =
                    FinishRow(loaded, policy, now, a, success, counts)]
            /\ evt' = [evt EXCEPT ![a] =
                    IF transition = "ignored" THEN "ignored" ELSE "applied"]
            /\ hist' = [hist EXCEPT ![k] = HistFinish(@, transition, a)]

\* Mutant: a result counts even if the attempt never crossed the boundary.
PersistTerminalUncrossed(a, outcome, t) ==
    IF a[1] \in finalized
    THEN UNCHANGED <<row, clock, ledger, evt, hist>>
    ELSE /\ ledger[a].st = "pending"
         /\ ledger' = [ledger EXCEPT ![a].st =
                CanonicalTerminal(outcome, ledger[a].crossed)]
         /\ FinishCircuit(a, outcome = "success", AffectsCircuit(outcome), t)

\* persist_attempt_terminal_once: ledger and circuit in one transaction.  A
\* terminal of a finalized request is only audited.
PersistTerminal(a, outcome, t) ==
    IF a[1] \in finalized
    THEN UNCHANGED <<row, clock, ledger, evt, hist>>
    ELSE /\ ledger[a].st = "pending"
         /\ ledger' = [ledger EXCEPT ![a].st =
                CanonicalTerminal(outcome, ledger[a].crossed)]
         /\ FinishCircuit(a, outcome = "success",
                          ledger[a].crossed /\ AffectsCircuit(outcome), t)

\* The request ends with this attempt.
LastTerminal(r, outcome, t) ==
    /\ \/ phase[r] = "outbound" /\ outcome \in Outcomes \ {"abandoned"}
       \/ phase[r] = "abandoning" /\ outcome = "abandoned"
    /\ PersistTerminal(Current(r), outcome, t)
    /\ EndExecution(r)
    /\ UNCHANGED <<leaseEvt, reqLog, finalized, policy>>

\* Mutant: the retry loop does not stop at its last attempt index.
RetryTerminalUnbounded(r, sameKey, t) ==
    /\ phase[r] = "outbound"
    /\ sameKey => ledger[Current(r)].leaseRev = 0
    /\ PersistTerminal(Current(r), "failure", t)
    /\ phase' = [phase EXCEPT ![r] = "routing"]
    /\ idx' = [idx EXCEPT ![r] = @ + 1]
    /\ excluded' = [excluded EXCEPT ![r] =
                        IF sameKey THEN @ ELSE @ \cup {ledger[Current(r)].key}]
    /\ UNCHANGED <<leaseEvt, reqLog, finalized, policy, budget>>

\* A failure the retry planner follows with another attempt, on the same
\* key (never after a half-open attempt) or with this key excluded.
RetryTerminal(r, sameKey, t) ==
    /\ phase[r] = "outbound"
    /\ idx[r] < MaxIndex
    /\ sameKey => ledger[Current(r)].leaseRev = 0
    /\ PersistTerminal(Current(r), "failure", t)
    /\ phase' = [phase EXCEPT ![r] = "routing"]
    /\ idx' = [idx EXCEPT ![r] = @ + 1]
    /\ excluded' = [excluded EXCEPT ![r] =
                        IF sameKey THEN @ ELSE @ \cup {ledger[Current(r)].key}]
    /\ UNCHANGED <<leaseEvt, reqLog, finalized, policy, budget>>

\* The writer has no reservation, is unhealthy, or the future is dropped:
\* the slot stays pending.
TerminalLost(r) ==
    /\ phase[r] \in {"outbound", "abandoning"}
    /\ EndExecution(r)
    /\ UNCHANGED <<durable, hist>>

(***************************************************************************)
(* The end of a request: finish_request projects the terminal and          *)
(* finalizes its attempt clusters, and fails while a slot is pending.      *)
(***************************************************************************)
AttemptsOf(r) == {a \in Attempts : a[1] = r}

PendingOf(r) == {a \in AttemptsOf(r) : ledger[a].st = "pending"}

Finalize(r) ==
    /\ phase[r] = "done"
    /\ reqLog[r] = "in_progress"
    /\ PendingOf(r) = {}
    /\ reqLog' = [reqLog EXCEPT ![r] = "terminal"]
    /\ finalized' = finalized \cup {r}
    /\ UNCHANGED <<row, clock, ledger, evt, leaseEvt, policy, volatile, hist>>

(***************************************************************************)
(* reconcile_startup_interrupted_request_lifecycle, for one request: it    *)
(* resolves the pending slot, finalizes the clusters if there is any       *)
(* admitted attempt, and closes the request log.  It runs at process start *)
(* and whenever a command starts or restarts the proxy, and selects every  *)
(* request still in progress.  A request has at most one pending slot, the *)
(* last one of its key's cluster, so it is the one whose result reaches    *)
(* the circuit; for the other clusters finish_attempt only advances the    *)
(* clock.                                                                  *)
(***************************************************************************)
\* Mutant: recovery settles the ledger and forgets the circuit.
RecoverSlotLedgerOnly(a, t) ==
    /\ ledger' = [ledger EXCEPT ![a].st =
                      IF ledger[a].crossed THEN "failure" ELSE "excluded"]
    /\ clock' = LogicalNow(t)
    /\ UNCHANGED <<row, evt, hist>>

RecoverSlot(a, t) ==
    /\ ledger' = [ledger EXCEPT ![a].st =
                      IF ledger[a].crossed THEN "failure" ELSE "excluded"]
    /\ FinishCircuit(a, FALSE, ledger[a].crossed, t)

HasSlots(r) == \E a \in AttemptsOf(r) : ledger[a].st # "none"

Recover(r, t) ==
    /\ reqLog[r] = "in_progress"
    /\ IF PendingOf(r) = {}
       THEN /\ clock' = IF HasSlots(r) THEN LogicalNow(t) ELSE clock
            /\ UNCHANGED <<row, ledger, evt, hist>>
       ELSE \E a \in PendingOf(r) : RecoverSlot(a, t)
    /\ reqLog' = [reqLog EXCEPT ![r] = "terminal"]
    /\ finalized' = IF HasSlots(r) THEN finalized \cup {r} ELSE finalized
    /\ UNCHANGED <<leaseEvt, policy, volatile>>

(***************************************************************************)
(* reap_expired_leases: every expired lease, in one transaction.           *)
(***************************************************************************)
\* Mutant: the reaper logs only the leases that reopen the circuit.
ReapedEventCrossedOnly(a, now) ==
    LET held == row[ledger[a].key] IN
    IF /\ ledger[a].key \in Keys
       /\ Expired(held, now)
       /\ held.lease = a
       /\ held.crossed
    THEN "reopened"
    ELSE leaseEvt[a]

ReapedEvent(a, now) ==
    LET held == row[ledger[a].key] IN
    IF /\ ledger[a].key \in Keys
       /\ Expired(held, now)
       /\ held.lease = a
    THEN IF held.crossed THEN "reopened" ELSE "released"
    ELSE leaseEvt[a]

Reap(t) ==
    LET now == LogicalNow(t) IN
    /\ clock' = now
    /\ row' = [k \in Keys |-> IF Expired(row[k], now)
                              THEN ReapRow(row[k], policy, now) ELSE row[k]]
    /\ leaseEvt' = [a \in Attempts |-> ReapedEvent(a, now)]
    /\ hist' = [k \in Keys |->
                  IF Expired(row[k], now) /\ row[k].crossed
                  THEN HistFinish(hist[k], "reopened", row[k].lease)
                  ELSE hist[k]]
    /\ UNCHANGED <<ledger, evt, reqLog, finalized, policy, volatile>>

(***************************************************************************)
(* A new revision of the routing policy, and the loss of the process.      *)
(***************************************************************************)
SetPolicy ==
    /\ \E p \in Policies : p > policy /\ policy' = p
    /\ UNCHANGED <<row, clock, ledger, evt, leaseEvt, reqLog, finalized,
                   volatile, hist>>

Crash ==
    /\ \E r \in Requests : phase[r] \in Live
    /\ phase' = [r \in Requests |->
                   IF phase[r] \in Live THEN "crashed" ELSE phase[r]]
    /\ idx' = [r \in Requests |-> 0]
    /\ excluded' = [r \in Requests |-> {}]
    /\ UNCHANGED <<durable, budget, hist>>

Admission(r, k, t) ==
    \/ Admit(r, k, t)
    \/ AdmitDenied(r, k, t)
    \/ AdmitLostAck(r, k, t)
    \/ AdmitRejected(r, k, t)

Outbound(r, t) ==
    \/ CrossBoundary(r, t)
    \/ CrossLost(r, t)
    \/ \E outcome \in Outcomes : LastTerminal(r, outcome, t)
    \/ \E sameKey \in BOOLEAN : RetryTerminal(r, sameKey, t)
    \/ Recover(r, t)

LocalStep(r) ==
    \/ Begin(r)
    \/ GiveUp(r)
    \/ FailBeforeOutbound(r)
    \/ TerminalLost(r)
    \/ Finalize(r)
    \/ \E k \in Keys : AdmitUnavailable(r, k)

Next ==
    \/ \E r \in Requests, k \in Keys, t \in Time : Admission(r, k, t)
    \/ \E r \in Requests, t \in Time : Outbound(r, t)
    \/ \E r \in Requests : LocalStep(r)
    \/ \E t \in Time : Reap(t)
    \/ SetPolicy
    \/ Crash

Spec == Init /\ [][Next]_vars

(***************************************************************************)
(* Safety.                                                                 *)
(***************************************************************************)
\* The lease of a half-open circuit belongs to exactly one attempt slot: it is
\* pending, on this key, under this lease revision, and ledger and circuit
\* agree on whether it crossed the outbound boundary.  (Admission, boundary,
\* terminal, recovery and reaper each touch the two tables.)
LeaseOwnership ==
    \A k \in Keys : row[k].lease # NoLease =>
        LET slot == ledger[row[k].lease] IN
        /\ slot.key = k
        /\ slot.st = "pending"
        /\ slot.leaseRev = row[k].leaseRev
        /\ slot.crossed = row[k].crossed

\* A half-open admission never loses its lease silently: while its slot is
\* pending, either the key still holds the lease or the reaper logged its end.
PendingProbeAccounted ==
    \A a \in Attempts :
        ledger[a].st = "pending" /\ ledger[a].leaseRev # 0 =>
            \/ row[ledger[a].key].lease = a
            \/ leaseEvt[a] # "none"

\* consecutive_failures counts distinct attempts of this key, each of which
\* crossed the boundary and whose result the reducer applied exactly once.
StreakExact ==
    \A k \in Keys :
        /\ row[k].fails = Cardinality(hist[k].streak)
        /\ \A a \in hist[k].streak :
              ledger[a].key = k /\ ledger[a].crossed /\ evt[a] = "applied"

\* recovery_successes counts distinct requests, each with a half-open lease and
\* a success of its own: internal retries cannot forge a recovery.
RecoveryExact ==
    \A k \in Keys :
        /\ row[k].succ = Cardinality({a[1] : a \in hist[k].probes})
        /\ \A a \in hist[k].probes :
              ledger[a].key = k /\ ledger[a].st = "success"
                                /\ ledger[a].leaseRev # 0

\* reopen_level grows at most once per attempt since the circuit was last
\* closed, whether a terminal, an expiry or the reaper reopened it.
ReopenLevelExact ==
    \A k \in Keys :
        /\ row[k].level = Cardinality(hist[k].openers)
        /\ row[k].st = "closed" => row[k].level = 0

(***************************************************************************)
(* Action properties.                                                      *)
(***************************************************************************)
\* A circuit that is not closed closes only from a half-open round, on a result
\* before the lease's deadline, after as many distinct recovery successes as
\* the policy of the lease asks for; an open one leaves only after cooldown.
RecoveryEarned ==
    [][\A k \in Keys :
        /\ row[k].st \in {"open", "half_open"} /\ row'[k].st = "closed" =>
              /\ row[k].st = "half_open"
              /\ row[k].crossed
              /\ clock' < row[k].expires
              /\ Cardinality(hist[k].probes) + 1
                    >= RecoveryThreshold[row[k].leasePolicy]
        /\ row[k].st = "open" /\ row'[k].st = "half_open" =>
              clock' >= row[k].until]_vars

\* A granted lease has a revision no earlier lease of the key had, so a
\* boundary mark or result of an older round cannot match it.
LeaseRevisionFresh ==
    [][\A k \in Keys :
        row'[k].lease # NoLease /\ row'[k].lease # row[k].lease =>
            \A a \in Attempts :
                ledger[a].key = k => ledger[a].leaseRev < row'[k].leaseRev]_vars

\* Once a request's clusters are finalized, no later terminal, recovery or
\* admission changes its slots or their circuit effects.
FinalizedFrozen ==
    [][\A a \in Attempts : a[1] \in finalized =>
          /\ ledger'[a] = ledger[a]
          /\ evt'[a] = evt[a]]_vars

(***************************************************************************)
(* The inductive invariant behind the lease properties.                    *)
(***************************************************************************)
\* An admitted slot names a key with a row, no lease revision of a key is ahead
\* of the revision of its row, and the reducer has not seen a pending slot.
SlotsValid ==
    \A a \in Attempts :
        IF ledger[a].st = "none"
        THEN ledger[a] = NoSlot /\ evt[a] = "none"
        ELSE /\ ledger[a].key \in Keys
             /\ ledger[a].leaseRev <= row[ledger[a].key].rev
             /\ row[ledger[a].key].st # "absent"
             /\ ledger[a].st = "pending" => evt[a] = "none"

\* A request has at most one pending slot, the current one while it is live,
\* and an executor past its admission has a slot.
OnePending ==
    /\ \A a, b \in Attempts :
          a[1] = b[1] /\ ledger[a].st = "pending" /\ ledger[b].st = "pending"
             => a = b
    /\ \A a \in Attempts :
          phase[a[1]] \in Live /\ ledger[a].st = "pending"
             => a = Current(a[1])
    /\ \A a \in Attempts : phase[a[1]] = "new" => ledger[a].st # "pending"
    /\ \A r \in Requests :
          phase[r] \in {"admitted", "outbound", "abandoning"}
             => ledger[Current(r)].st # "none"

\* A request has no log row before it begins, and is over in every table once
\* it is finalized.
FinalizedSettled ==
    /\ \A r \in Requests : phase[r] = "new" => reqLog[r] = "none"
    /\ \A r \in finalized : reqLog[r] = "terminal"
    /\ \A a \in Attempts : a[1] \in finalized => ledger[a].st # "pending"

\* Everything the lease argument needs, preserved by every transaction and by
\* a crash between any two of them.
CircuitInv ==
    /\ TypeOK
    /\ \A k \in Keys : LeaseShape(row[k])
    /\ SlotsValid
    /\ LeaseOwnership
    /\ PendingProbeAccounted
    /\ OnePending
    /\ FinalizedSettled

(***************************************************************************)
(* The inductive invariant behind the exact counts.                        *)
(***************************************************************************)
\* The counters of a row against the history of its key: each counts its set,
\* and is zero in the states where the reducer starts it afresh.
Counted(rw, h) ==
    /\ IsFiniteSet(h.streak) /\ rw.fails = Cardinality(h.streak)
    /\ IsFiniteSet(h.probes) /\ rw.succ = Cardinality(h.probes)
    /\ IsFiniteSet({a[1] : a \in h.probes})
    /\ rw.succ = Cardinality({a[1] : a \in h.probes})
    /\ IsFiniteSet(h.openers) /\ rw.level = Cardinality(h.openers)
    /\ rw.st \in {"absent", "half_open"} => rw.fails = 0
    /\ rw.st # "half_open" => rw.succ = 0
    /\ rw.st \in {"absent", "closed"} => rw.level = 0

\* A success ends its request: no other slot of it is or becomes pending.
SuccessIsLast ==
    \A a \in Attempts : ledger[a].st = "success" =>
        /\ phase[a[1]] \in {"done", "crashed"}
        /\ \A b \in Attempts : b[1] = a[1] => ledger[b].st # "pending"

\* An attempt that opened the circuit of a key holds no lease on it and cannot
\* get one: its slot exists, or its request has given the key up.
OpenersSpent ==
    \A k \in Keys : \A a \in hist[k].openers :
        /\ row[k].lease # a
        /\ \/ ledger[a].st # "none"
           \/ k \in excluded[a[1]]
           \/ phase[a[1]] \in {"done", "crashed"}

HistoryInv ==
    /\ \A k \in Keys : Counted(row[k], hist[k])
    /\ \A r \in Requests : phase[r] = "new" => excluded[r] = {}
    /\ \A k \in Keys : \A a \in hist[k].streak :
          ledger[a].key = k /\ ledger[a].crossed /\ evt[a] = "applied"
    /\ \A k \in Keys : \A a \in hist[k].probes :
          ledger[a].key = k /\ ledger[a].st = "success"
                            /\ ledger[a].leaseRev # 0
    /\ SuccessIsLast
    /\ OpenersSpent

(***************************************************************************)
(* The contract of a circuit, with policies, revisions, the ledger and the *)
(* executors left out.                                                     *)
(***************************************************************************)
\* What a row says to those who route over its key.
View(held) ==
    CASE held.st \in {"absent", "closed"} -> [st |-> "closed"]
      [] held.st = "open" -> [st |-> "open", until |-> held.until]
      [] held.st = "half_open" /\ held.lease = NoLease ->
            [st |-> "idle", succ |-> held.succ]
      [] OTHER ->
            [st |-> "probing", succ |-> held.succ, holder |-> held.lease,
             sent |-> held.crossed, expires |-> held.expires,
             needed |-> RecoveryThreshold[held.leasePolicy]]

Contract == INSTANCE CircuitContract WITH
    circuit <- [k \in Keys |-> View(row[k])],
    Caps <- {Greatest(MaxCooldown, RecoveryWait[p]) : p \in Policies}

\* Every transaction of executors, writer, startup and reaper, with crashes and
\* lost acknowledgements between them, does to a key what its contract allows:
\* a bounded cooldown, one probe at a time, recovery by results in time alone.
KeepsContract == Contract!CSpec

(***************************************************************************)
(* What the documents and comments of the repository say and the code does *)
(* not do: each is checked by a run of its own that violates it.           *)
(***************************************************************************)
\* An attempt whose expired lease the reaper already turned into a reopened
\* circuit is an old event: its late terminal never counts toward a newer
\* failure streak.
ReapedAttemptNeverCounts ==
    \A k \in Keys, a \in Attempts :
        leaseEvt[a] = "reopened" => a \notin hist[k].streak

\* Recovery resolves slots left pending by a previous process: the slot of a
\* request that is on the wire in this process is still pending.
LiveSlotPending ==
    \A r \in Requests :
        phase[r] = "outbound" => ledger[Current(r)].st = "pending"

\* Client cancellations and relay-local errors do not pose as key failures:
\* what counts toward the failure streak is a failure in the attempt ledger.
StreakIsAttributable ==
    \A k \in Keys : \A a \in hist[k].streak : ledger[a].st = "failure"

(***************************************************************************)
(* Liveness.  The supervised reaper runs every few seconds for as long as  *)
(* the process lives and wall time passes every deadline; no executor,     *)
(* finalization or recovery is assumed to make progress.  The same tick    *)
(* replays the backlog and checks the health of the persistence before it  *)
(* reaps, and an error in either ends it (station_key_circuit_reaper.rs,   *)
(* reap_once): fairness of Reap presumes that both get through, and        *)
(* CircuitPersistence!RecoveryResumes is violated where they do not.       *)
(***************************************************************************)
FairSpec == Spec /\ WF_vars(Reap(MaxTime))

\* No lease is held forever, whatever its request, the process or the clock
\* does: a lost terminal or a crash cannot take a key out of service, as long
\* as ticks of the reaper get through replay and health check to the reaping.
LeaseReleased ==
    \A k \in Keys, a \in Attempts : row[k].lease = a ~> row[k].lease # a
=============================================================================
