--------------------------- MODULE RouteExecution ---------------------------
(***************************************************************************)
(* The attempt loop of a proxied request: services/proxy/execution.rs      *)
(* with the RouteAdmissionCoordinator of application/routing_engine/       *)
(* admission.rs.  It plans a ranking of keys, takes a capacity lease on    *)
(* the first one with room, asks the durable circuit, sends the attempt    *)
(* and decides whether to retry the key, move on or stop.                  *)
(*                                                                         *)
(* Requests interleave at every await and at every lock of the capacity    *)
(* registry.  What they share is the registry, the process-wide runtime    *)
(* revision and the durable routing generation.                            *)
(*                                                                         *)
(* Abstractions.  A planning snapshot is the ranking of its eligible keys: *)
(* the planner is deterministic in the snapshot and the excluded keys, so  *)
(* a ranking is chosen when a snapshot is loaded and again when a key is   *)
(* excluded; tiers, scores, model variants and fallback ranks only decide  *)
(* which ranking it is.  The circuit may answer anything                   *)
(* (StationKeyCircuit says when it does).  stale[r] says that the runtime  *)
(* revision moved since the coordinator of r last looked at it, drifted    *)
(* which candidates of the snapshot have a credential or durable revision  *)
(* other than the expected one.                                            *)
(***************************************************************************)
EXTENDS CompositeCapacity, FiniteSets, Sequences

CONSTANTS
    Requests,    \* client requests
    Idempotent,  \* those with an idempotency key
    NoKey,       \* current_key_id = None, or no capacity lease
    Rankings,    \* rankings the planner may produce
    Drifts,      \* sets of drifted candidates a snapshot may have
    MaxKeys,     \* attempt_budget.max_total_attempts
    Threshold,   \* attempt_budget.consecutive_failure_threshold
    HardCap,     \* MAX_EXECUTION_ATTEMPTS_HARD_CAP
    MaxReplans,  \* MAX_EXECUTION_REPLANS
    MaxFence     \* bound: fence revision after which no cutover begins

ASSUME RequestsAssumption == IsFiniteSet(Requests)
ASSUME KeysAssumption == IsFiniteSet(Keys)
ASSUME IdempotentAssumption == Idempotent \subseteq Requests
ASSUME NoKeyAssumption == NoKey \notin Keys
ASSUME RankingsAssumption == Rankings \subseteq Seq(Keys)
ASSUME DriftsAssumption == Drifts \subseteq SUBSET Keys
ASSUME BudgetAssumption ==
    /\ MaxKeys \in Nat \ {0}
    /\ Threshold \in Nat \ {0}
    /\ HardCap \in Nat \ {0}
    /\ MaxReplans \in Nat
    /\ MaxFence \in Nat

VARIABLES
    active,     \* counters of the capacity registry
    lease,      \* the key whose capacity lease a request owns
    phase,      \* where the executor of a request stands
    loc,        \* locals of the executor and of its coordinator
    stale,      \* the runtime revision moved since the coordinator looked
    fence,      \* fence revision and active generation, as one counter
    fencing,    \* a cutover fence is up
    hist        \* history of each request, for the properties only

vars == <<active, lease, phase, loc, stale, fence, fencing, hist>>

Phases ==
    {"idle", "planning", "scanning", "loading", "admitting", "fenced",
     "attempting", "streaming", "done"}

Locals ==
    [ranking : Rankings \cup {<<>>}, drifted : SUBSET Keys, fence : Nat,
     missed : SUBSET Constraints, excluded : SUBSET Keys, limit : 0 .. HardCap,
     spent : Nat, index : 0 .. HardCap - 1, current : Keys \cup {NoKey},
     retries : 0 .. Threshold - 1, outbound : BOOLEAN, probe : BOOLEAN,
     replans : 0 .. MaxReplans, rebuilt : BOOLEAN]

NoLocals ==
    [ranking |-> <<>>, drifted |-> {}, fence |-> 0,
     missed |-> {}, excluded |-> {}, limit |-> 0,
     spent |-> 0, index |-> 0, current |-> NoKey, retries |-> 0,
     outbound |-> FALSE, probe |-> FALSE, replans |-> 0, rebuilt |-> FALSE]

\* Keys the request sent an attempt to, the ones among them that were recovery
\* probes, and how many attempts an upstream may have accepted.
History == [used : SUBSET Keys, probed : SUBSET Keys, accepted : Nat]

TypeOK ==
    /\ active \in [Constraints -> Nat]
    /\ lease \in [Requests -> Keys \cup {NoKey}]
    /\ phase \in [Requests -> Phases]
    /\ loc \in [Requests -> Locals]
    /\ stale \in [Requests -> BOOLEAN]
    /\ fence \in Nat
    /\ fencing \in BOOLEAN
    /\ hist \in [Requests -> History]

Init ==
    /\ active = [c \in Constraints |-> 0]
    /\ lease = [r \in Requests |-> NoKey]
    /\ phase = [r \in Requests |-> "idle"]
    /\ loc = [r \in Requests |-> NoLocals]
    /\ stale = [r \in Requests |-> FALSE]
    /\ fence = 0
    /\ fencing = FALSE
    /\ hist = [r \in Requests |-> [used |-> {}, probed |-> {}, accepted |-> 0]]

Goto(r, p) == phase' = [phase EXCEPT ![r] = p]

SetLocals(r, l) == loc' = [loc EXCEPT ![r] = l]

\* Dropping the CapacityLease, if the request owns one.
ReleaseLease(r) ==
    /\ active' = IF lease[r] = NoKey THEN active
                 ELSE Rollback(active, ConstraintsOf(lease[r]))
    /\ lease' = [lease EXCEPT ![r] = NoKey]

\* Mutant: a lease outlives the request that took it.
EndRequestKeepingLease(r) ==
    /\ Goto(r, "done")
    /\ SetLocals(r, NoLocals)
    /\ stale' = [stale EXCEPT ![r] = FALSE]
    /\ UNCHANGED <<active, lease>>

\* The executor returns or its future is dropped.
EndRequest(r) ==
    /\ ReleaseLease(r)
    /\ Goto(r, "done")
    /\ SetLocals(r, NoLocals)
    /\ stale' = [stale EXCEPT ![r] = FALSE]

\* execution_attempt_limit: provider slots times the failure threshold.
AttemptLimit(candidates) ==
    LET slots == IF MaxKeys <= candidates THEN MaxKeys ELSE candidates
    IN  IF slots * Threshold > HardCap THEN HardCap ELSE slots * Threshold

\* The first planning snapshot, which freezes the attempt limit, and a fresh
\* coordinator.
Start(r) ==
    /\ phase[r] = "idle"
    /\ \E s \in Rankings, d \in Drifts, n \in 1 .. Cardinality(Keys) :
          /\ Len(s) <= n
          /\ SetLocals(r, [NoLocals EXCEPT !.ranking = s, !.drifted = d,
                                !.fence = fence, !.limit = AttemptLimit(n)])
    /\ Goto(r, "planning")
    /\ UNCHANGED <<active, lease, stale, fence, fencing, hist>>

(***************************************************************************)
(* RouteAdmissionCoordinator::next.                                        *)
(***************************************************************************)
\* Mutant: the executor has no bound on its replans.
BeginReplanUnbounded(r, l) ==
    /\ Goto(r, "loading")
    /\ SetLocals(r, [l EXCEPT !.missed = {}, !.replans = @ + 1])
    /\ UNCHANGED <<active, lease>>

\* Mutant: the executor does not count its replans.
BeginReplanUncounted(r, l) ==
    /\ Goto(r, "loading")
    /\ SetLocals(r, [l EXCEPT !.missed = {}])
    /\ UNCHANGED <<active, lease>>

\* AdmissionDecision::Replan, as the executor handles it.
BeginReplan(r, l) ==
    /\ loc[r].replans < MaxReplans
    /\ Goto(r, "loading")
    /\ SetLocals(r, [l EXCEPT !.missed = {}, !.replans = @ + 1])
    /\ UNCHANGED <<active, lease>>

\* The runtime revision moved.
RuntimeReplan(r) ==
    /\ phase[r] = "planning"
    /\ stale[r]
    /\ BeginReplan(r, loc[r])
    /\ stale' = [stale EXCEPT ![r] = FALSE]
    /\ UNCHANGED <<fence, fencing, hist>>

ReplanLimit(r) ==
    /\ phase[r] = "planning"
    /\ stale[r]
    /\ loc[r].replans >= MaxReplans
    /\ EndRequest(r)
    /\ UNCHANGED <<fence, fencing, hist>>

Eligible(r) ==
    {i \in DOMAIN loc[r].ranking : loc[r].ranking[i] \notin loc[r].excluded}

\* no_available_key or attempt_limit_reached.
NoRoute(r) ==
    /\ phase[r] = "planning"
    /\ ~stale[r]
    /\ Eligible(r) = {} \/ loc[r].spent >= MaxKeys
    /\ EndRequest(r)
    /\ UNCHANGED <<fence, fencing, hist>>

BeginScan(r) ==
    /\ phase[r] = "planning"
    /\ ~stale[r]
    /\ Eligible(r) # {} /\ loc[r].spent < MaxKeys
    /\ Goto(r, "scanning")
    /\ UNCHANGED <<active, lease, loc, stale, fence, fencing, hist>>

\* Candidates that no miss of this pass rules out.
Unblocked(r) ==
    {i \in Eligible(r) :
        ConstraintsOf(loc[r].ranking[i]) \cap loc[r].missed = {}}

IsNext(r, i) == i \in Unblocked(r) /\ \A j \in Unblocked(r) : i <= j

\* A revision of the candidate moved: rebuild once.
SnapshotRebuild(r, i) ==
    /\ phase[r] = "scanning"
    /\ IsNext(r, i)
    /\ loc[r].ranking[i] \in loc[r].drifted
    /\ ~loc[r].rebuilt
    /\ BeginReplan(r, [loc[r] EXCEPT !.rebuilt = TRUE])
    /\ UNCHANGED <<stale, fence, fencing, hist>>

ConfigUnstable(r, i) ==
    /\ phase[r] = "scanning"
    /\ IsNext(r, i)
    /\ loc[r].ranking[i] \in loc[r].drifted
    /\ loc[r].rebuilt \/ loc[r].replans >= MaxReplans
    /\ EndRequest(r)
    /\ UNCHANGED <<fence, fencing, hist>>

\* The executor's view of a newly selected candidate.
Selecting(l, k) ==
    IF l.current = k THEN l
    ELSE [l EXCEPT !.current = k, !.retries = 0, !.outbound = FALSE]

Acquire(r, i) ==
    LET k == loc[r].ranking[i] IN
    /\ phase[r] = "scanning"
    /\ IsNext(r, i)
    /\ k \notin loc[r].drifted
    /\ Fits(active, k)
    /\ active' = Take(active, ConstraintsOf(k))
    /\ lease' = [lease EXCEPT ![r] = k]
    /\ SetLocals(r, Selecting(loc[r], k))
    /\ Goto(r, "admitting")
    /\ UNCHANGED <<stale, fence, fencing, hist>>

\* A miss gives back what it took and rules out the full constraint.
Miss(r, i) ==
    LET k == loc[r].ranking[i] IN
    /\ phase[r] = "scanning"
    /\ IsNext(r, i)
    /\ k \notin loc[r].drifted
    /\ \E c \in ConstraintsOf(k) :
          /\ Stops(active, k, c)
          /\ active' = Rollback(Take(active, Before(k, c)), Before(k, c))
          /\ SetLocals(r, [loc[r] EXCEPT !.missed = @ \cup {c}])
    /\ UNCHANGED <<lease, phase, stale, fence, fencing, hist>>

\* all_strata_capacity_exhausted: no waiters are admitted.
CapacityExhausted(r) ==
    /\ phase[r] = "scanning"
    /\ Unblocked(r) = {}
    /\ EndRequest(r)
    /\ UNCHANGED <<fence, fencing, hist>>

\* load_route_snapshots.  After a fence the old selection, and with it the
\* capacity lease, lives until the new snapshot is there.
Load(r) ==
    /\ phase[r] = "loading"
    /\ \E s \in Rankings, d \in Drifts :
          SetLocals(r, [loc[r] EXCEPT !.ranking = s, !.drifted = d,
                                      !.fence = fence])
    /\ ReleaseLease(r)
    /\ Goto(r, "planning")
    /\ UNCHANGED <<stale, fence, fencing, hist>>

(***************************************************************************)
(* The durable circuit admission of the selected key.                      *)
(***************************************************************************)
FenceDenied(r) ==
    /\ phase[r] = "admitting"
    /\ fencing \/ loc[r].fence # fence
    /\ Goto(r, "fenced")
    /\ UNCHANGED <<active, lease, loc, stale, fence, fencing, hist>>

\* await_routing_generation_transition polls until the fence is down, or
\* gives up at the deadline.
FenceOver(r) ==
    /\ phase[r] = "fenced"
    /\ ~fencing
    /\ Goto(r, "loading")
    /\ UNCHANGED <<active, lease, loc, stale, fence, fencing, hist>>

FenceTimeout(r) ==
    /\ phase[r] = "fenced"
    /\ fencing
    /\ EndRequest(r)
    /\ UNCHANGED <<fence, fencing, hist>>

Running == {q \in Requests : phase[q] \notin {"idle", "streaming", "done"}}

\* The circuit denies: the key is excluded, as an attempted one if this request
\* already sent to it, and every planning request has to look again.
CircuitDenies(r) ==
    LET k == lease[r]
        l == loc[r]
        left == [l EXCEPT !.excluded = @ \cup {k}, !.current = NoKey,
                          !.retries = 0, !.outbound = FALSE]
    IN
    /\ phase[r] = "admitting"
    /\ SetLocals(r, IF l.outbound
                    THEN [left EXCEPT !.spent = @ + 1, !.missed = {}]
                    ELSE left)
    /\ ReleaseLease(r)
    /\ stale' = [q \in Requests |-> stale[q] \/ q \in Running]
    /\ Goto(r, "planning")
    /\ UNCHANGED <<fence, fencing, hist>>

CircuitAllows(r) ==
    /\ phase[r] = "admitting"
    /\ ~fencing /\ loc[r].fence = fence
    /\ \E probe \in BOOLEAN : SetLocals(r, [loc[r] EXCEPT !.probe = probe])
    /\ Goto(r, "attempting")
    /\ UNCHANGED <<active, lease, stale, fence, fencing, hist>>

(***************************************************************************)
(* The attempt and what follows it.  A failure is what the classifier says *)
(* of it; one without a canonical form behaves as replay = "never".        *)
(***************************************************************************)
Failures ==
    [sent : BOOLEAN,                              \* request bytes may be out
     acceptance : {"rejected", "unknown"},        \* request_acceptance
     replay : {"safe", "idempotency", "never"},   \* replay_safety
     next : BOOLEAN]                              \* CanonicalRetryDisposition

MaybeAccepted(f) == f.sent /\ f.acceptance = "unknown"

\* Mutant: a provider's replay-safe verdict is enough without its proof that
\* the request was rejected before acceptance.
ReplayAllowedUnproved(r, f) ==
    /\ f.replay # "never"
    /\ r \in Idempotent \/ ~f.sent \/ f.replay = "safe"

ReplayAllowed(r, f) ==
    /\ f.replay # "never"
    /\ \/ r \in Idempotent
       \/ ~f.sent
       \/ f.replay = "safe" /\ f.acceptance = "rejected"

\* Mutant: a recovery probe may be retried like any other attempt.
SameKeyBudgetOfProbe(r) == Threshold - (loc[r].retries + 1)

\* remaining_same_key_failure_budget and remaining_additional_key_budget,
\* where the code's saturation is a comparison with 0.
SameKeyBudget(r) ==
    IF loc[r].probe THEN 0 ELSE Threshold - (loc[r].retries + 1)

NextKeyBudget(r) == MaxKeys - loc[r].spent - 1

\* RetryActionPlanner::plan_with_context
RetryAction(r, f) ==
    CASE ~ReplayAllowed(r, f) \/ ~f.next -> "stop"
      [] ReplayAllowed(r, f) /\ f.next /\ SameKeyBudget(r) > 0 -> "same_key"
      [] OTHER -> IF NextKeyBudget(r) > 0 THEN "next_key" ELSE "stop"

\* FallbackPolicy::retry_safe of actual_terminal_for_action
RetrySafe(r, f) == ~MaybeAccepted(f) \/ r \in Idempotent

RecordAttempt(r, maybeAccepted) ==
    hist' = [hist EXCEPT ![r] =
        [used |-> @.used \cup {lease[r]},
         probed |-> IF loc[r].probe THEN @.probed \cup {lease[r]} ELSE @.probed,
         accepted |-> IF maybeAccepted THEN @.accepted + 1 ELSE @.accepted]]

\* The loop goes on with the next attempt index, if there is one left.
NextAttempt(r, l) ==
    IF l.index + 1 >= l.limit
    THEN EndRequest(r)
    ELSE /\ ReleaseLease(r)
         /\ Goto(r, "planning")
         /\ SetLocals(r, [l EXCEPT !.index = @ + 1, !.missed = {},
                                   !.outbound = l.current # NoKey])
         /\ UNCHANGED stale

RetrySameKey(r, f) ==
    /\ phase[r] = "attempting"
    /\ RetryAction(r, f) = "same_key"
    /\ RecordAttempt(r, MaybeAccepted(f))
    /\ NextAttempt(r, [loc[r] EXCEPT !.retries = @ + 1])
    /\ UNCHANGED <<fence, fencing>>

\* Mutant: the key that failed stays eligible.
TryNextKeyKeepingIt(r, f) ==
    /\ phase[r] = "attempting"
    /\ RetryAction(r, f) = "next_key"
    /\ RetrySafe(r, f)
    /\ RecordAttempt(r, MaybeAccepted(f))
    /\ \E s \in Rankings :
          NextAttempt(r, [loc[r] EXCEPT !.ranking = s, !.spent = @ + 1,
                              !.current = NoKey, !.retries = 0])
    /\ UNCHANGED <<fence, fencing>>

TryNextKey(r, f) ==
    /\ phase[r] = "attempting"
    /\ RetryAction(r, f) = "next_key"
    /\ RetrySafe(r, f)
    /\ RecordAttempt(r, MaybeAccepted(f))
    /\ \E s \in Rankings :
          NextAttempt(r, [loc[r] EXCEPT !.ranking = s,
                              !.excluded = @ \cup {lease[r]}, !.spent = @ + 1,
                              !.current = NoKey, !.retries = 0])
    /\ UNCHANGED <<fence, fencing>>

\* The planner stops, the fallback policy blocks, the terminal cannot be
\* persisted, or the future is dropped with the attempt on the wire.
FailAndStop(r, maybeAccepted) ==
    /\ phase[r] = "attempting"
    /\ RecordAttempt(r, maybeAccepted)
    /\ EndRequest(r)
    /\ UNCHANGED <<fence, fencing>>

\* The attempt never crosses the outbound boundary.
Abandon(r) ==
    /\ phase[r] = "attempting"
    /\ EndRequest(r)
    /\ UNCHANGED <<fence, fencing, hist>>

\* The capacity lease moves into the response body.
Succeed(r) ==
    /\ phase[r] = "attempting"
    /\ RecordAttempt(r, TRUE)
    /\ Goto(r, "streaming")
    /\ SetLocals(r, NoLocals)
    /\ stale' = [stale EXCEPT ![r] = FALSE]
    /\ UNCHANGED <<active, lease, fence, fencing>>

\* The body completes, fails, idles out or is dropped by the client.
BodyEnds(r) ==
    /\ phase[r] = "streaming"
    /\ EndRequest(r)
    /\ UNCHANGED <<fence, fencing, hist>>

\* The deadline passes, the planner finds the runtime at capacity, a repository
\* call fails or the client goes away.
GiveUp(r) ==
    /\ phase[r] \in {"planning", "loading", "admitting", "fenced"}
    /\ EndRequest(r)
    /\ UNCHANGED <<fence, fencing, hist>>

(***************************************************************************)
(* The rest of the process.                                                *)
(***************************************************************************)
\* mark_runtime_changed by the /models aggregation.
RuntimeChanged ==
    /\ stale' = [q \in Requests |-> stale[q] \/ q \in Running]
    /\ UNCHANGED <<active, lease, phase, loc, fence, fencing, hist>>

\* A cutover raises the fence under a new fence revision, and commits a new
\* active generation or aborts.
BeginFence ==
    /\ ~fencing
    /\ fence < MaxFence
    /\ fencing' = TRUE
    /\ fence' = fence + 1
    /\ UNCHANGED <<active, lease, phase, loc, stale, hist>>

EndFence ==
    /\ fencing
    /\ fencing' = FALSE
    /\ fence' \in {fence, fence + 1}
    /\ UNCHANGED <<active, lease, phase, loc, stale, hist>>

Planning(r) ==
    \/ RuntimeReplan(r)
    \/ ReplanLimit(r)
    \/ NoRoute(r)
    \/ BeginScan(r)
    \/ \E i \in DOMAIN loc[r].ranking :
          \/ SnapshotRebuild(r, i)
          \/ ConfigUnstable(r, i)
          \/ Acquire(r, i)
          \/ Miss(r, i)
    \/ CapacityExhausted(r)
    \/ Load(r)

Admission(r) ==
    \/ FenceDenied(r)
    \/ FenceOver(r)
    \/ FenceTimeout(r)
    \/ CircuitDenies(r)
    \/ CircuitAllows(r)

Attempt(r) ==
    \/ \E f \in Failures : RetrySameKey(r, f) \/ TryNextKey(r, f)
    \/ \E accepted \in BOOLEAN : FailAndStop(r, accepted)
    \/ Abandon(r)
    \/ Succeed(r)
    \/ BodyEnds(r)

Next ==
    \/ \E r \in Requests :
          Start(r) \/ Planning(r) \/ Admission(r) \/ Attempt(r) \/ GiveUp(r)
    \/ RuntimeChanged
    \/ BeginFence
    \/ EndFence

Spec == Init /\ [][Next]_vars

(***************************************************************************)
(* Safety.                                                                 *)
(***************************************************************************)
Holders(c) == {r \in Requests : lease[r] # NoKey /\ c \in ConstraintsOf(lease[r])}

\* Every counter of the registry is the number of leases in flight on it:
\* rollbacks of a miss, retries, fences, cancellations and bodies that end
\* neither leak a slot nor release one twice.
CapacityExact == \A c \in Constraints : active[c] = Cardinality(Holders(c))

\* No constraint with a limit is ever oversubscribed.
CapacityBound == \A c \in Constraints : Limit[c] > 0 => active[c] <= Limit[c]

\* A request owns a lease while it is being admitted, attempted or streamed,
\* or waits for a generation fence, and owns none before it selects, between
\* two selections and once it ended: no way out of the loop strands a slot.
LeasePhases ==
    \A r \in Requests :
        /\ phase[r] \in {"admitting", "fenced", "attempting", "streaming"}
              => lease[r] # NoKey
        /\ phase[r] \in {"idle", "planning", "scanning", "done"}
              => lease[r] = NoKey

\* A request without an idempotency key is never sent again once an upstream
\* may have accepted it, on the same key or on another one.
SafeReplay ==
    \A r \in Requests \ Idempotent : hist[r].accepted <= 1

\* The inductive form: acceptance ends the loop.
ReplayClosed ==
    \A r \in Requests \ Idempotent :
        \/ hist[r].accepted = 0
        \/ hist[r].accepted = 1 /\ phase[r] \in {"streaming", "done"}

\* While the loop runs, the keys it probed are excluded, and the key that it
\* selected is not.
ExclusionsFinal ==
    \A r \in Requests :
        /\ phase[r] = "idle" => hist[r].probed = {}
        /\ phase[r] \notin {"streaming", "done"}
              => hist[r].probed \subseteq loc[r].excluded
        /\ phase[r] \in {"admitting", "fenced", "attempting"}
              => lease[r] \notin loc[r].excluded

\* The inductive invariant of the loop and the registry: types, who owns which
\* slot, exact counters within their limits, and what the history of a request
\* still allows it to do.
RouteInv ==
    /\ TypeOK
    /\ LeasePhases
    /\ CapacityExact
    /\ CapacityBound
    /\ ReplayClosed
    /\ ExclusionsFinal

\* What an attempt adds to the history of a request respects its exclusions:
\* a key that was excluded, or that was tried as a recovery probe, gets no
\* further attempt of this request, whatever is replanned in between.
NoSecondChance ==
    [][\A r \in Requests : phase[r] = "attempting" /\ hist'[r] # hist[r] =>
          /\ lease[r] \notin loc[r].excluded
          /\ lease[r] \notin hist[r].probed]_vars

(***************************************************************************)
(* What the design document says of maxRetryCount: at most 1 +             *)
(* maxRetryCount distinct keys are tried by one request.                   *)
(***************************************************************************)
\* A request sends attempts to at most MaxKeys distinct keys.
DistinctKeyBudget ==
    \A r \in Requests : Cardinality(hist[r].used) <= MaxKeys

(***************************************************************************)
(* Liveness.  A task that can run is eventually polled, storage calls      *)
(* return, attempts end by the transport timeouts and bodies by the idle   *)
(* timeout; the request deadline is only relied on behind a fence.         *)
(***************************************************************************)
Step(r) == Planning(r) \/ Admission(r) \/ Attempt(r)

FairSpec == Spec /\ \A r \in Requests : WF_vars(Step(r))

\* Every request that starts ends, however often the runtime revision moves:
\* the loop is bounded by its own counters.
RequestEnds ==
    \A r \in Requests : phase[r] = "planning" ~> phase[r] = "done"
=============================================================================
