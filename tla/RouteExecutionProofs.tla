------------------------ MODULE RouteExecutionProofs ------------------------
(***************************************************************************)
(* Proofs about the attempt loop and the capacity registry, for every      *)
(* finite set of keys and requests, every limit and every budget.          *)
(***************************************************************************)
EXTENDS RouteExecution, FiniteSetTheorems, TLAPS

(***************************************************************************)
(* The registry.                                                           *)
(***************************************************************************)
\* The constraints of a key are constraints, and so is every part of them.
LEMMA ConstraintsTyped ==
    ASSUME NEW k \in Keys
    PROVE  /\ ConstraintsOf(k) \subseteq Constraints
           /\ \A c \in Constraints : Before(k, c) \subseteq Constraints
  BY StationOfAssumption DEF ConstraintsOf, Constraints, Before

\* Counters stay natural numbers.
LEMMA CountersTyped ==
    ASSUME NEW a \in [Constraints -> Nat], NEW cs \in SUBSET Constraints
    PROVE  /\ Take(a, cs) \in [Constraints -> Nat]
           /\ Rollback(a, cs) \in [Constraints -> Nat]
  BY DEF Take, Rollback

\* Rolling back what was just taken restores the counters.
LEMMA RollbackUndoesTake ==
    ASSUME NEW a \in [Constraints -> Nat], NEW cs \in SUBSET Constraints
    PROVE  Rollback(Take(a, cs), cs) = a
  <1>1. \A c \in Constraints :
           Rollback(Take(a, cs), cs)[c] = a[c]
    BY DEF Take, Rollback
  <1> QED
    BY <1>1 DEF Take, Rollback

\* The holders of a constraint are finitely many.
LEMMA HoldersFinite ==
    ASSUME NEW c
    PROVE  IsFiniteSet(Holders(c)) /\ Cardinality(Holders(c)) \in Nat
  <1>1. Holders(c) \in SUBSET Requests
    BY DEF Holders
  <1> QED
    BY <1>1, RequestsAssumption, FS_Subset, FS_CardinalityType

\* Dropping a lease keeps the counters exact and within their limits.
LEMMA ReleaseKeepsCounters ==
    ASSUME TypeOK, CapacityExact, CapacityBound,
           NEW r \in Requests, ReleaseLease(r)
    PROVE  /\ active' \in [Constraints -> Nat]
           /\ lease' = [lease EXCEPT ![r] = NoKey]
           /\ CapacityExact'
           /\ CapacityBound'
  <1>1. lease' = [lease EXCEPT ![r] = NoKey]
    BY DEF ReleaseLease
  <1>2. CASE lease[r] = NoKey
    <2>1. active' = active /\ lease' = lease
      BY <1>1, <1>2 DEF ReleaseLease, TypeOK
    <2>2. \A c \in Constraints : Holders(c)' = Holders(c)
      BY <2>1 DEF Holders
    <2> QED
      BY <1>1, <2>1, <2>2 DEF CapacityExact, CapacityBound, TypeOK
  <1>3. CASE lease[r] # NoKey
    <2> DEFINE k == lease[r]
    <2>1. k \in Keys
      BY <1>3 DEF TypeOK
    <2>2. active' = Rollback(active, ConstraintsOf(k))
      BY <1>3 DEF ReleaseLease
    <2>3. active' \in [Constraints -> Nat]
      BY <2>1, <2>2, CountersTyped, ConstraintsTyped DEF TypeOK
    <2>4. ASSUME NEW c \in Constraints
          PROVE  /\ active'[c] = Cardinality(Holders(c)')
                 /\ active'[c] <= active[c]
      <3>1. active[c] = Cardinality(Holders(c)) /\ active[c] \in Nat
        BY DEF CapacityExact, TypeOK
      <3>2. Holders(c)' = Holders(c) \ {r}
        BY <1>1 DEF Holders, TypeOK
      <3>3. Cardinality(Holders(c) \ {r}) =
               IF r \in Holders(c) THEN Cardinality(Holders(c)) - 1
               ELSE Cardinality(Holders(c))
        BY HoldersFinite, FS_RemoveElement
      <3>4. r \in Holders(c) <=> c \in ConstraintsOf(k)
        BY <1>3 DEF Holders
      <3>5. Cardinality(Holders(c) \ {r}) \in Nat
        BY HoldersFinite, FS_RemoveElement, FS_CardinalityType
      <3>6. active'[c] = IF c \in ConstraintsOf(k) /\ active[c] > 0
                         THEN active[c] - 1 ELSE active[c]
        BY <2>2 DEF Rollback
      <3> QED
        BY <3>1, <3>2, <3>3, <3>4, <3>5, <3>6
    <2>5. CapacityExact'
      BY <2>4 DEF CapacityExact
    <2>6. CapacityBound'
      BY <2>3, <2>4, LimitAssumption DEF CapacityBound, TypeOK
    <2> QED
      BY <1>1, <2>3, <2>5, <2>6
  <1> QED
    BY <1>2, <1>3

\* Taking a slot of every constraint of a key that fits keeps the counters exact
\* and within their limits.
LEMMA AcquireKeepsCounters ==
    ASSUME TypeOK, CapacityExact, CapacityBound,
           NEW r \in Requests, lease[r] = NoKey,
           NEW k \in Keys, Fits(active, k),
           active' = Take(active, ConstraintsOf(k)),
           lease' = [lease EXCEPT ![r] = k]
    PROVE  /\ active' \in [Constraints -> Nat]
           /\ CapacityExact'
           /\ CapacityBound'
  <1>1. active' \in [Constraints -> Nat]
    BY CountersTyped, ConstraintsTyped DEF TypeOK
  <1>2. ASSUME NEW c \in Constraints
        PROVE  /\ active'[c] = Cardinality(Holders(c)')
               /\ Limit[c] > 0 => active'[c] <= Limit[c]
    <2>1. active[c] = Cardinality(Holders(c)) /\ active[c] \in Nat
      BY DEF CapacityExact, TypeOK
    <2>2. r \notin Holders(c)
      BY DEF Holders
    <2>3. Holders(c)' = IF c \in ConstraintsOf(k) THEN Holders(c) \cup {r}
                        ELSE Holders(c)
      BY NoKeyAssumption DEF Holders, TypeOK
    <2>4. Cardinality(Holders(c) \cup {r}) = Cardinality(Holders(c)) + 1
      BY <2>2, HoldersFinite, FS_AddElement
    <2>5. active'[c] = IF c \in ConstraintsOf(k) THEN active[c] + 1 ELSE active[c]
      BY DEF Take
    <2>6. Limit[c] > 0 => active[c] <= Limit[c]
      BY DEF CapacityBound
    <2>7. c \in ConstraintsOf(k) => ~(Limit[c] > 0 /\ active[c] >= Limit[c])
      BY DEF Fits, Full
    <2>8. Limit[c] \in Nat
      BY LimitAssumption
    <2> QED
      BY <2>1, <2>3, <2>4, <2>5, <2>6, <2>7, <2>8
  <1> QED
    BY <1>1, <1>2 DEF CapacityExact, CapacityBound

\* Steps that touch neither counters nor leases keep them right.
LEMMA CountersUntouched ==
    ASSUME CapacityExact, CapacityBound, UNCHANGED <<active, lease>>
    PROVE  CapacityExact' /\ CapacityBound'
  <1>1. \A c \in Constraints : Holders(c)' = Holders(c)
    BY DEF Holders
  <1> QED
    BY <1>1 DEF CapacityExact, CapacityBound

(***************************************************************************)
(* One request moves.                                                      *)
(***************************************************************************)
\* Every other request stays where it is.
OnlyMoves(r) ==
    \A q \in Requests \ {r} :
        /\ phase'[q] = phase[q]
        /\ loc'[q] = loc[q]
        /\ lease'[q] = lease[q]
        /\ hist'[q] = hist[q]

\* The parts of the invariant that speak of one request.
Sound(r) ==
    /\ phase[r] \in {"admitting", "fenced", "attempting", "streaming"}
          => lease[r] # NoKey
    /\ phase[r] \in {"idle", "planning", "scanning", "done"}
          => lease[r] = NoKey
    /\ r \notin Idempotent =>
          \/ hist[r].accepted = 0
          \/ hist[r].accepted = 1 /\ phase[r] \in {"streaming", "done"}
    /\ phase[r] = "idle" => hist[r].probed = {}
    /\ phase[r] \notin {"streaming", "done"}
          => hist[r].probed \subseteq loc[r].excluded
    /\ phase[r] \in {"admitting", "fenced", "attempting"}
          => lease[r] \notin loc[r].excluded

\* The invariant is typing, the registry and the soundness of every request.
LEMMA RouteInvSound ==
    RouteInv <=> /\ TypeOK
                 /\ CapacityExact
                 /\ CapacityBound
                 /\ \A r \in Requests : Sound(r)
  BY DEF RouteInv, LeasePhases, ReplayClosed, ExclusionsFinal, Sound

\* A step of one request keeps the invariant if it keeps typing, the registry
\* and the soundness of that request.
LEMMA Frame ==
    ASSUME RouteInv, NEW r \in Requests, OnlyMoves(r),
           TypeOK', CapacityExact', CapacityBound', Sound(r)'
    PROVE  RouteInv'
  <1>1. ASSUME NEW q \in Requests \ {r} PROVE Sound(q)'
    <2>1. Sound(q)
      BY RouteInvSound
    <2> QED
      BY <2>1 DEF OnlyMoves, Sound
  <1>2. \A q \in Requests : Sound(q)'
    BY <1>1
  <1> QED
    BY <1>2, RouteInvSound DEF RouteInv, LeasePhases, ReplayClosed,
       ExclusionsFinal, Sound

\* The initial locals are locals.
LEMMA NoLocalsTyped == NoLocals \in Locals
  BY BudgetAssumption DEF NoLocals, Locals

\* What EndRequest leaves to show is that the history allows the end.
LEMMA EndRequestInv ==
    ASSUME RouteInv, NEW r \in Requests, EndRequest(r),
           fence' \in Nat, fencing' \in BOOLEAN,
           hist' \in [Requests -> History],
           \A q \in Requests \ {r} : hist'[q] = hist[q],
           r \notin Idempotent => hist'[r].accepted \in {0, 1}
    PROVE  RouteInv'
  <1> USE DEF EndRequest, Goto, SetLocals
  <1>1. TypeOK /\ CapacityExact /\ CapacityBound
    BY DEF RouteInv
  <1>2. /\ active' \in [Constraints -> Nat]
        /\ lease' = [lease EXCEPT ![r] = NoKey]
        /\ CapacityExact' /\ CapacityBound'
    BY <1>1, ReleaseKeepsCounters
  <1>3. TypeOK'
    BY <1>1, <1>2, NoLocalsTyped DEF TypeOK, Phases
  <1>4. OnlyMoves(r)
    BY <1>1, <1>2 DEF OnlyMoves, TypeOK
  <1>5. Sound(r)'
    BY <1>1, <1>2 DEF Sound, TypeOK
  <1> QED
    BY <1>2, <1>3, <1>4, <1>5, Frame

\* The same when the step records nothing.
LEMMA EndRequestQuietly ==
    ASSUME RouteInv, NEW r \in Requests, EndRequest(r),
           UNCHANGED <<fence, fencing, hist>>
    PROVE  RouteInv'
  <1>1. TypeOK /\ Sound(r)
    BY RouteInvSound
  <1>2. r \notin Idempotent => hist'[r].accepted \in {0, 1}
    BY <1>1 DEF Sound
  <1> QED
    BY <1>1, <1>2, EndRequestInv DEF TypeOK

\* A step inside the loop that neither ends the request nor adds to its history.
LEMMA LoopStepInv ==
    ASSUME RouteInv, NEW r \in Requests, NEW l \in Locals, NEW p \in Phases,
           phase[r] \notin {"streaming", "done"},
           p \notin {"idle", "streaming", "done"},
           SetLocals(r, l), Goto(r, p), UNCHANGED hist,
           stale' \in [Requests -> BOOLEAN],
           UNCHANGED <<fence, fencing>>,
           active' \in [Constraints -> Nat], CapacityExact', CapacityBound',
           lease' \in [Requests -> Keys \cup {NoKey}],
           \A q \in Requests \ {r} : lease'[q] = lease[q],
           loc[r].excluded \subseteq l.excluded,
           p \in {"admitting", "fenced", "attempting"} =>
              lease'[r] # NoKey /\ lease'[r] \notin l.excluded,
           p \in {"planning", "scanning"} => lease'[r] = NoKey
    PROVE  RouteInv'
  <1> USE DEF Goto, SetLocals
  <1>1. TypeOK /\ Sound(r)
    BY RouteInvSound
  <1>2. TypeOK'
    BY <1>1 DEF TypeOK
  <1>3. OnlyMoves(r)
    BY <1>1 DEF OnlyMoves, TypeOK
  <1>4. phase'[r] = p /\ loc'[r] = l
    BY <1>1 DEF TypeOK
  <1>5. Sound(r)'
    BY <1>1, <1>4 DEF Sound
  <1> QED
    BY <1>2, <1>3, <1>5, Frame

(***************************************************************************)
(* Planning.                                                               *)
(***************************************************************************)
\* The attempt limit is within the hard cap.
LEMMA AttemptLimitTyped ==
    ASSUME NEW n \in Nat
    PROVE  AttemptLimit(n) \in 0 .. HardCap
  <1> DEFINE slots == IF MaxKeys <= n THEN MaxKeys ELSE n
  <1>1. slots \in Nat /\ Threshold \in Nat /\ HardCap \in Nat
    BY BudgetAssumption
  <1>2. slots * Threshold \in Nat
    BY <1>1
  <1> QED
    BY <1>1, <1>2 DEF AttemptLimit

\* Start: a fresh coordinator has excluded nothing and holds no lease.
LEMMA StartInv ==
    ASSUME RouteInv, NEW r \in Requests, Start(r)
    PROVE  RouteInv'
  <1>1. TypeOK /\ CapacityExact /\ CapacityBound /\ Sound(r)
    BY RouteInvSound
  <1>2. PICK s \in Rankings, d \in Drifts, n \in 1 .. Cardinality(Keys) :
           SetLocals(r, [NoLocals EXCEPT !.ranking = s, !.drifted = d,
                             !.fence = fence, !.limit = AttemptLimit(n)])
    BY DEF Start
  <1> DEFINE l == [NoLocals EXCEPT !.ranking = s, !.drifted = d,
                       !.fence = fence, !.limit = AttemptLimit(n)]
  <1>3. AttemptLimit(n) \in 0 .. HardCap
    BY AttemptLimitTyped, KeysAssumption, FS_CardinalityType
  <1>4. l \in Locals /\ l.excluded = {}
    BY <1>1, <1>3, NoLocalsTyped, DriftsAssumption
    DEF NoLocals, Locals, TypeOK
  <1>5. TypeOK'
    BY <1>1, <1>2, <1>4 DEF Start, SetLocals, Goto, TypeOK, Phases
  <1>6. OnlyMoves(r)
    BY <1>1, <1>2 DEF Start, SetLocals, Goto, OnlyMoves, TypeOK
  <1>7. Sound(r)'
    BY <1>1, <1>2, <1>4 DEF Start, SetLocals, Goto, Sound, TypeOK
  <1>8. CapacityExact' /\ CapacityBound'
    BY <1>1, CountersUntouched DEF Start
  <1> QED
    BY <1>5, <1>6, <1>7, <1>8, Frame

\* A replan goes to loading without a lease and keeps the exclusions.
LEMMA BeginReplanInv ==
    ASSUME RouteInv, NEW r \in Requests, NEW l \in Locals, BeginReplan(r, l),
           phase[r] \in {"planning", "scanning"},
           l.excluded = loc[r].excluded, l.replans = loc[r].replans,
           stale' \in [Requests -> BOOLEAN], UNCHANGED <<fence, fencing, hist>>
    PROVE  RouteInv'
  <1> DEFINE m == [l EXCEPT !.missed = {}, !.replans = @ + 1]
  <1>1. TypeOK /\ CapacityExact /\ CapacityBound
    BY DEF RouteInv
  <1>a. l.replans + 1 \in 0 .. MaxReplans
    BY BudgetAssumption DEF BeginReplan, Locals
  <1>b. m \in Locals
    BY <1>a, Zenon DEF Locals
  <1>2. m \in Locals /\ m.excluded = loc[r].excluded
    BY <1>b DEF Locals
  <1>3. SetLocals(r, m) /\ Goto(r, "loading") /\ UNCHANGED <<active, lease>>
    BY DEF BeginReplan
  <1>4. CapacityExact' /\ CapacityBound'
    BY <1>1, <1>3, CountersUntouched
  <1>5. "loading" \in Phases
    BY DEF Phases
  <1> QED
    BY <1>1, <1>2, <1>3, <1>4, <1>5, LoopStepInv DEF TypeOK

\* RuntimeReplan: a moved runtime revision changes no lease and no exclusion.
LEMMA RuntimeReplanInv ==
    ASSUME RouteInv, NEW r \in Requests, RuntimeReplan(r)
    PROVE  RouteInv'
  <1>1. TypeOK
    BY DEF RouteInv
  <1>2. loc[r] \in Locals /\ stale' \in [Requests -> BOOLEAN]
    BY <1>1 DEF TypeOK, RuntimeReplan
  <1> QED
    BY <1>2, BeginReplanInv DEF RuntimeReplan

\* SnapshotRebuild: so does a drifted candidate.
LEMMA SnapshotRebuildInv ==
    ASSUME RouteInv, NEW r \in Requests, NEW i, SnapshotRebuild(r, i)
    PROVE  RouteInv'
  <1> DEFINE l == [loc[r] EXCEPT !.rebuilt = TRUE]
  <1>1. TypeOK
    BY DEF RouteInv
  <1>a. loc[r] \in Locals
    BY <1>1 DEF TypeOK
  <1>b. l \in Locals
    BY <1>a, Zenon DEF Locals
  <1>2. /\ l \in Locals /\ l.excluded = loc[r].excluded
        /\ l.replans = loc[r].replans
    BY <1>a, <1>b DEF Locals
  <1>3. stale' \in [Requests -> BOOLEAN]
    BY <1>1 DEF TypeOK, SnapshotRebuild
  <1> QED
    BY <1>2, <1>3, BeginReplanInv DEF SnapshotRebuild

\* BeginScan: only the phase moves.
LEMMA BeginScanInv ==
    ASSUME RouteInv, NEW r \in Requests, BeginScan(r)
    PROVE  RouteInv'
  <1>1. TypeOK /\ CapacityExact /\ CapacityBound /\ Sound(r)
    BY RouteInvSound
  <1>2. CapacityExact' /\ CapacityBound'
    BY <1>1, CountersUntouched DEF BeginScan
  <1>3. TypeOK' /\ OnlyMoves(r) /\ Sound(r)'
    BY <1>1 DEF BeginScan, Goto, TypeOK, Phases, OnlyMoves, Sound
  <1> QED
    BY <1>2, <1>3, Frame

\* The candidate scanned next is a key that is not excluded.
LEMMA NextCandidate ==
    ASSUME TypeOK, NEW r \in Requests, NEW i, IsNext(r, i)
    PROVE  /\ loc[r].ranking[i] \in Keys
           /\ loc[r].ranking[i] \notin loc[r].excluded
  <1>1. i \in DOMAIN loc[r].ranking /\ loc[r].ranking[i] \notin loc[r].excluded
    BY DEF IsNext, Unblocked, Eligible
  <1>2. loc[r].ranking \in Rankings \cup {<<>>}
    BY DEF TypeOK, Locals
  <1>3. <<>> \in Seq(Keys)
    OBVIOUS
  <1>4. loc[r].ranking \in Seq(Keys)
    BY <1>2, <1>3, RankingsAssumption
  <1> QED
    BY <1>1, <1>4

\* Acquire: the lease is of a key that is not excluded, and fits.
LEMMA AcquireInv ==
    ASSUME RouteInv, NEW r \in Requests, NEW i, Acquire(r, i)
    PROVE  RouteInv'
  <1> DEFINE k == loc[r].ranking[i]
             l == Selecting(loc[r], k)
  <1>1. TypeOK /\ CapacityExact /\ CapacityBound /\ Sound(r)
    BY RouteInvSound
  <1>2. k \in Keys /\ k \notin loc[r].excluded
    BY <1>1, NextCandidate DEF Acquire
  <1>a. loc[r] \in Locals /\ 0 \in 0 .. Threshold - 1
    BY <1>1, BudgetAssumption DEF TypeOK
  <1>b. l \in Locals
    BY <1>2, <1>a, Zenon DEF Selecting, Locals
  <1>3. l \in Locals /\ l.excluded = loc[r].excluded
    BY <1>a, <1>b DEF Selecting, Locals
  <1>4. lease[r] = NoKey
    BY <1>1 DEF Acquire, Sound
  <1>5. /\ active' \in [Constraints -> Nat]
        /\ CapacityExact' /\ CapacityBound'
    BY <1>1, <1>2, <1>4, AcquireKeepsCounters DEF Acquire
  <1>6. lease' = [lease EXCEPT ![r] = k]
    BY DEF Acquire
  <1>7. /\ lease' \in [Requests -> Keys \cup {NoKey}]
        /\ \A q \in Requests \ {r} : lease'[q] = lease[q]
        /\ lease'[r] # NoKey /\ lease'[r] \notin l.excluded
    BY <1>1, <1>2, <1>3, <1>6, NoKeyAssumption DEF TypeOK
  <1>8. "admitting" \in Phases /\ stale' \in [Requests -> BOOLEAN]
    BY <1>1 DEF Phases, Acquire, TypeOK
  <1>9. /\ SetLocals(r, l) /\ Goto(r, "admitting")
        /\ phase[r] = "scanning" /\ UNCHANGED <<fence, fencing, hist>>
    BY DEF Acquire
  <1> QED
    BY <1>3, <1>5, <1>7, <1>8, <1>9, LoopStepInv

\* Miss: what was taken before the full constraint is given back.
LEMMA MissInv ==
    ASSUME RouteInv, NEW r \in Requests, NEW i, Miss(r, i)
    PROVE  RouteInv'
  <1> DEFINE k == loc[r].ranking[i]
  <1>1. TypeOK /\ CapacityExact /\ CapacityBound /\ Sound(r)
    BY RouteInvSound
  <1>2. k \in Keys
    BY <1>1, NextCandidate DEF Miss
  <1>3. PICK c \in ConstraintsOf(k) :
           /\ active' = Rollback(Take(active, Before(k, c)), Before(k, c))
           /\ SetLocals(r, [loc[r] EXCEPT !.missed = @ \cup {c}])
    BY DEF Miss
  <1>4. c \in Constraints /\ Before(k, c) \subseteq Constraints
    BY <1>2, ConstraintsTyped
  <1>5. UNCHANGED <<active, lease>>
    BY <1>1, <1>3, <1>4, RollbackUndoesTake DEF TypeOK, Miss
  <1>6. CapacityExact' /\ CapacityBound'
    BY <1>1, <1>5, CountersUntouched
  <1>7. loc' = [loc EXCEPT ![r] = [loc[r] EXCEPT !.missed = @ \cup {c}]]
    BY <1>3 DEF SetLocals
  <1>a. loc[r] \in Locals
    BY <1>1 DEF TypeOK
  <1>8. [loc[r] EXCEPT !.missed = @ \cup {c}] \in Locals
    BY <1>4, <1>a, Zenon DEF Locals
  <1>9. TypeOK' /\ OnlyMoves(r)
    BY <1>1, <1>5, <1>7, <1>8 DEF Miss, TypeOK, OnlyMoves
  <1>10. loc'[r].excluded = loc[r].excluded
    BY <1>1, <1>7 DEF TypeOK, Locals
  <1>11. Sound(r)'
    BY <1>1, <1>5, <1>10 DEF Miss, Sound
  <1> QED
    BY <1>6, <1>9, <1>11, Frame

\* Load: a lease kept behind a fence ends with the old selection.
LEMMA LoadInv ==
    ASSUME RouteInv, NEW r \in Requests, Load(r)
    PROVE  RouteInv'
  <1>1. TypeOK /\ CapacityExact /\ CapacityBound
    BY DEF RouteInv
  <1>2. PICK s \in Rankings, d \in Drifts :
           SetLocals(r, [loc[r] EXCEPT !.ranking = s, !.drifted = d,
                                       !.fence = fence])
    BY DEF Load
  <1> DEFINE l == [loc[r] EXCEPT !.ranking = s, !.drifted = d, !.fence = fence]
  <1>a. loc[r] \in Locals /\ d \in SUBSET Keys /\ fence \in Nat
    BY <1>1, DriftsAssumption DEF TypeOK
  <1>b. l \in Locals
    BY <1>a, Zenon DEF Locals
  <1>3. l \in Locals /\ l.excluded = loc[r].excluded
    BY <1>a, <1>b DEF Locals
  <1>4. /\ active' \in [Constraints -> Nat]
        /\ lease' = [lease EXCEPT ![r] = NoKey]
        /\ CapacityExact' /\ CapacityBound'
    BY <1>1, ReleaseKeepsCounters DEF Load
  <1>5. /\ lease' \in [Requests -> Keys \cup {NoKey}]
        /\ \A q \in Requests \ {r} : lease'[q] = lease[q]
        /\ lease'[r] = NoKey
    BY <1>1, <1>4 DEF TypeOK
  <1>6. "planning" \in Phases /\ stale' \in [Requests -> BOOLEAN]
    BY <1>1 DEF Phases, Load, TypeOK
  <1>7. /\ SetLocals(r, l) /\ Goto(r, "planning")
        /\ phase[r] = "loading" /\ UNCHANGED <<fence, fencing, hist>>
    BY <1>2 DEF Load
  <1> QED
    BY <1>3, <1>4, <1>5, <1>6, <1>7, LoopStepInv

\* Every planning step preserves the invariant.
LEMMA PlanningInv ==
    ASSUME RouteInv, NEW r \in Requests, Planning(r)
    PROVE  RouteInv'
  <1>1. CASE RuntimeReplan(r)
    BY <1>1, RuntimeReplanInv
  <1>2. CASE ReplanLimit(r)
    BY <1>2, EndRequestQuietly DEF ReplanLimit
  <1>3. CASE NoRoute(r)
    BY <1>3, EndRequestQuietly DEF NoRoute
  <1>4. CASE BeginScan(r)
    BY <1>4, BeginScanInv
  <1>5. ASSUME NEW i \in DOMAIN loc[r].ranking, SnapshotRebuild(r, i)
        PROVE  RouteInv'
    BY <1>5, SnapshotRebuildInv
  <1>6. ASSUME NEW i \in DOMAIN loc[r].ranking, ConfigUnstable(r, i)
        PROVE  RouteInv'
    BY <1>6, EndRequestQuietly DEF ConfigUnstable
  <1>7. ASSUME NEW i \in DOMAIN loc[r].ranking, Acquire(r, i)
        PROVE  RouteInv'
    BY <1>7, AcquireInv
  <1>8. ASSUME NEW i \in DOMAIN loc[r].ranking, Miss(r, i)
        PROVE  RouteInv'
    BY <1>8, MissInv
  <1>9. CASE CapacityExhausted(r)
    BY <1>9, EndRequestQuietly DEF CapacityExhausted
  <1>10. CASE Load(r)
    BY <1>10, LoadInv
  <1> QED
    BY <1>1, <1>2, <1>3, <1>4, <1>5, <1>6, <1>7, <1>8, <1>9, <1>10 DEF Planning

(***************************************************************************)
(* Admission.                                                              *)
(***************************************************************************)
\* FenceDenied, FenceOver: the selection is kept while the request waits.
LEMMA FenceStepInv ==
    ASSUME RouteInv, NEW r \in Requests, FenceDenied(r) \/ FenceOver(r)
    PROVE  RouteInv'
  <1>1. TypeOK /\ CapacityExact /\ CapacityBound /\ Sound(r)
    BY RouteInvSound
  <1>2. CapacityExact' /\ CapacityBound'
    BY <1>1, CountersUntouched DEF FenceDenied, FenceOver
  <1>3. TypeOK' /\ OnlyMoves(r) /\ Sound(r)'
    BY <1>1 DEF FenceDenied, FenceOver, Goto, TypeOK, Phases, OnlyMoves, Sound
  <1> QED
    BY <1>2, <1>3, Frame

\* CircuitDenies: the denied key is excluded and its lease dropped.
LEMMA CircuitDeniesInv ==
    ASSUME RouteInv, NEW r \in Requests, CircuitDenies(r)
    PROVE  RouteInv'
  <1> DEFINE k == lease[r]
             left == [loc[r] EXCEPT !.excluded = @ \cup {k}, !.current = NoKey,
                                    !.retries = 0, !.outbound = FALSE]
             spent == [left EXCEPT !.spent = @ + 1, !.missed = {}]
             l == IF loc[r].outbound THEN spent ELSE left
  <1>1. TypeOK /\ CapacityExact /\ CapacityBound /\ Sound(r)
    BY RouteInvSound
  <1>2. k \in Keys
    BY <1>1 DEF CircuitDenies, Sound, TypeOK
  <1>3. loc[r] \in Locals /\ 0 \in 0 .. Threshold - 1
    BY <1>1, BudgetAssumption DEF TypeOK
  <1>4. left \in Locals
    BY <1>2, <1>3, Zenon DEF Locals
  <1>a. left.spent = loc[r].spent /\ loc[r].spent \in Nat
    BY <1>3 DEF Locals
  <1>5. left.spent + 1 \in Nat
    BY <1>a
  <1>6. spent \in Locals
    BY <1>4, <1>5, Zenon DEF Locals
  <1>7. left.excluded = loc[r].excluded \cup {k}
    BY <1>3 DEF Locals
  <1>8. spent.excluded = left.excluded
    BY <1>4 DEF Locals
  <1>9. l \in Locals /\ loc[r].excluded \subseteq l.excluded
    BY <1>4, <1>6, <1>7, <1>8
  <1>10. /\ active' \in [Constraints -> Nat]
         /\ lease' = [lease EXCEPT ![r] = NoKey]
         /\ CapacityExact' /\ CapacityBound'
    BY <1>1, ReleaseKeepsCounters DEF CircuitDenies
  <1>11. /\ lease' \in [Requests -> Keys \cup {NoKey}]
         /\ \A q \in Requests \ {r} : lease'[q] = lease[q]
         /\ lease'[r] = NoKey
    BY <1>1, <1>10 DEF TypeOK
  <1>12. stale' \in [Requests -> BOOLEAN]
    BY <1>1, Zenon DEF CircuitDenies, TypeOK
  <1>13. /\ SetLocals(r, l) /\ Goto(r, "planning")
         /\ phase[r] = "admitting" /\ UNCHANGED <<fence, fencing, hist>>
    BY DEF CircuitDenies
  <1>14. "planning" \in Phases
    BY DEF Phases
  <1> QED
    BY <1>9, <1>10, <1>11, <1>12, <1>13, <1>14, LoopStepInv

\* CircuitAllows: the selected key is the one that is attempted.
LEMMA CircuitAllowsInv ==
    ASSUME RouteInv, NEW r \in Requests, CircuitAllows(r)
    PROVE  RouteInv'
  <1>1. TypeOK /\ CapacityExact /\ CapacityBound /\ Sound(r)
    BY RouteInvSound
  <1>2. PICK b \in BOOLEAN : SetLocals(r, [loc[r] EXCEPT !.probe = b])
    BY DEF CircuitAllows
  <1> DEFINE l == [loc[r] EXCEPT !.probe = b]
  <1>3. loc[r] \in Locals
    BY <1>1 DEF TypeOK
  <1>4. l \in Locals
    BY <1>3, Zenon DEF Locals
  <1>5. l.excluded = loc[r].excluded
    BY <1>3 DEF Locals
  <1>6. CapacityExact' /\ CapacityBound'
    BY <1>1, CountersUntouched DEF CircuitAllows
  <1>7. /\ SetLocals(r, l) /\ Goto(r, "attempting") /\ phase[r] = "admitting"
        /\ UNCHANGED <<active, lease, stale, fence, fencing, hist>>
    BY <1>2 DEF CircuitAllows
  <1>8. lease'[r] # NoKey /\ lease'[r] \notin l.excluded
    BY <1>1, <1>5, <1>7 DEF Sound
  <1>9. "attempting" \in Phases
    BY DEF Phases
  <1>10. /\ active' \in [Constraints -> Nat]
         /\ lease' \in [Requests -> Keys \cup {NoKey}]
         /\ \A q \in Requests \ {r} : lease'[q] = lease[q]
         /\ stale' \in [Requests -> BOOLEAN]
    BY <1>1, <1>7 DEF TypeOK
  <1> QED
    BY <1>4, <1>5, <1>6, <1>7, <1>8, <1>9, <1>10, LoopStepInv

\* Every admission step preserves the invariant.
LEMMA AdmissionInv ==
    ASSUME RouteInv, NEW r \in Requests, Admission(r)
    PROVE  RouteInv'
  <1>1. CASE FenceTimeout(r)
    BY <1>1, EndRequestQuietly DEF FenceTimeout
  <1> QED
    BY <1>1, FenceStepInv, CircuitDeniesInv, CircuitAllowsInv DEF Admission

(***************************************************************************)
(* Attempts.                                                               *)
(***************************************************************************)
\* Retrying a key takes a replay that is allowed, a budget and no probe.
LEMMA SameKeyFacts ==
    ASSUME NEW r, NEW f, RetryAction(r, f) = "same_key"
    PROVE  ReplayAllowed(r, f) /\ SameKeyBudget(r) > 0
  BY DEF RetryAction

\* Moving on takes a replay that is allowed.
LEMMA NextKeyFacts ==
    ASSUME NEW r, NEW f, RetryAction(r, f) = "next_key"
    PROVE  ReplayAllowed(r, f)
  BY DEF RetryAction

\* A replay of a request without idempotency key follows a proven rejection.
LEMMA ReplayIsSafe ==
    ASSUME NEW r \in Requests \ Idempotent, NEW f \in Failures,
           ReplayAllowed(r, f)
    PROVE  ~MaybeAccepted(f)
  BY DEF ReplayAllowed, MaybeAccepted, Failures

\* What an attempt writes into the history.
LEMMA RecordAttemptFacts ==
    ASSUME TypeOK, NEW r \in Requests, lease[r] # NoKey,
           NEW b \in BOOLEAN, RecordAttempt(r, b)
    PROVE  /\ hist' \in [Requests -> History]
           /\ \A q \in Requests \ {r} : hist'[q] = hist[q]
           /\ hist'[r].accepted =
                 IF b THEN hist[r].accepted + 1 ELSE hist[r].accepted
           /\ hist'[r].probed \subseteq hist[r].probed \cup {lease[r]}
           /\ ~loc[r].probe => hist'[r].probed = hist[r].probed
  <1> DEFINE new == [used |-> hist[r].used \cup {lease[r]},
                     probed |-> IF loc[r].probe
                                THEN hist[r].probed \cup {lease[r]}
                                ELSE hist[r].probed,
                     accepted |-> IF b THEN hist[r].accepted + 1
                                  ELSE hist[r].accepted]
  <1>1. hist[r] \in History /\ lease[r] \in Keys
    BY DEF TypeOK
  <1>2. hist' = [hist EXCEPT ![r] = new]
    BY DEF RecordAttempt
  <1>3. new \in History
    BY <1>1 DEF History
  <1>4. hist'[r] = new
    BY <1>2 DEF TypeOK
  <1> QED
    BY <1>2, <1>3, <1>4 DEF TypeOK

\* The loop goes on, or ends at the attempt limit.
LEMMA NextAttemptInv ==
    ASSUME RouteInv, NEW r \in Requests, NEW l \in Locals, NextAttempt(r, l),
           phase[r] = "attempting", UNCHANGED <<fence, fencing>>,
           hist' \in [Requests -> History],
           \A q \in Requests \ {r} : hist'[q] = hist[q],
           r \notin Idempotent => hist'[r].accepted = 0,
           hist'[r].probed \subseteq l.excluded
    PROVE  RouteInv'
  <1>1. TypeOK /\ CapacityExact /\ CapacityBound
    BY DEF RouteInv
  <1>2. CASE l.index + 1 >= l.limit
    <2>1. EndRequest(r)
      BY <1>2 DEF NextAttempt
    <2> QED
      BY <1>1, <2>1, EndRequestInv DEF TypeOK
  <1>3. CASE ~(l.index + 1 >= l.limit)
    <2> DEFINE m == [l EXCEPT !.index = @ + 1, !.missed = {},
                              !.outbound = l.current # NoKey]
    <2>1. ReleaseLease(r) /\ Goto(r, "planning") /\ SetLocals(r, m) /\ UNCHANGED stale
      BY <1>3 DEF NextAttempt
    <2>2. l.index + 1 \in 0 .. HardCap - 1
      BY <1>3, BudgetAssumption DEF Locals
    <2>3. m \in Locals
      BY <2>2, Zenon DEF Locals
    <2>4. m.excluded = l.excluded
      BY DEF Locals
    <2>5. /\ active' \in [Constraints -> Nat]
          /\ lease' = [lease EXCEPT ![r] = NoKey]
          /\ CapacityExact' /\ CapacityBound'
      BY <1>1, <2>1, ReleaseKeepsCounters
    <2>6. TypeOK'
      BY <1>1, <2>1, <2>3, <2>5 DEF TypeOK, Goto, SetLocals, Phases
    <2>7. OnlyMoves(r)
      BY <1>1, <2>1, <2>5 DEF TypeOK, Goto, SetLocals, OnlyMoves
    <2>8. phase'[r] = "planning" /\ loc'[r] = m /\ lease'[r] = NoKey
      BY <1>1, <2>1, <2>5 DEF TypeOK, Goto, SetLocals
    <2>9. Sound(r)'
      BY <2>4, <2>8 DEF Sound
    <2> QED
      BY <2>5, <2>6, <2>7, <2>9, Frame
  <1> QED
    BY <1>2, <1>3

\* RetrySameKey: never after a probe, never after a possible acceptance.
LEMMA RetrySameKeyInv ==
    ASSUME RouteInv, NEW r \in Requests, NEW f \in Failures, RetrySameKey(r, f)
    PROVE  RouteInv'
  <1> DEFINE l == [loc[r] EXCEPT !.retries = @ + 1]
  <1>1. TypeOK /\ Sound(r) /\ phase[r] = "attempting"
    BY RouteInvSound DEF RetrySameKey
  <1>2. ReplayAllowed(r, f) /\ SameKeyBudget(r) > 0
    BY SameKeyFacts DEF RetrySameKey
  <1>3. loc[r] \in Locals
    BY <1>1 DEF TypeOK
  <1>4. ~loc[r].probe
    BY <1>2 DEF SameKeyBudget
  <1>5. loc[r].retries + 1 \in 0 .. Threshold - 1
    BY <1>2, <1>3, <1>4, BudgetAssumption DEF SameKeyBudget, Locals
  <1>6. l \in Locals
    BY <1>3, <1>5, Zenon DEF Locals
  <1>7. l.excluded = loc[r].excluded
    BY <1>3 DEF Locals
  <1>8. MaybeAccepted(f) \in BOOLEAN /\ lease[r] # NoKey
    BY <1>1 DEF MaybeAccepted, Failures, Sound
  <1>9. /\ hist' \in [Requests -> History]
        /\ \A q \in Requests \ {r} : hist'[q] = hist[q]
        /\ hist'[r].accepted =
              IF MaybeAccepted(f) THEN hist[r].accepted + 1 ELSE hist[r].accepted
        /\ hist'[r].probed = hist[r].probed
    BY <1>1, <1>4, <1>8, RecordAttemptFacts DEF RetrySameKey
  <1>10. r \notin Idempotent => hist'[r].accepted = 0
    BY <1>1, <1>2, <1>9, ReplayIsSafe DEF Sound
  <1>11. hist'[r].probed \subseteq l.excluded
    BY <1>1, <1>7, <1>9 DEF Sound
  <1>12. NextAttempt(r, l) /\ UNCHANGED <<fence, fencing>>
    BY DEF RetrySameKey
  <1> QED
    BY <1>1, <1>6, <1>9, <1>10, <1>11, <1>12, NextAttemptInv

\* TryNextKey: the key that failed, probe or not, is excluded.
LEMMA TryNextKeyInv ==
    ASSUME RouteInv, NEW r \in Requests, NEW f \in Failures, TryNextKey(r, f)
    PROVE  RouteInv'
  <1>1. TypeOK /\ Sound(r) /\ phase[r] = "attempting"
    BY RouteInvSound DEF TryNextKey
  <1>2. PICK s \in Rankings :
           NextAttempt(r, [loc[r] EXCEPT !.ranking = s,
                               !.excluded = @ \cup {lease[r]}, !.spent = @ + 1,
                               !.current = NoKey, !.retries = 0])
    BY DEF TryNextKey
  <1> DEFINE l == [loc[r] EXCEPT !.ranking = s,
                       !.excluded = @ \cup {lease[r]}, !.spent = @ + 1,
                       !.current = NoKey, !.retries = 0]
  <1>3. loc[r] \in Locals /\ lease[r] \in Keys /\ lease[r] # NoKey
    BY <1>1, NoKeyAssumption DEF TypeOK, Sound
  <1>4. loc[r].spent + 1 \in Nat /\ 0 \in 0 .. Threshold - 1
    BY <1>3, BudgetAssumption DEF Locals
  <1>5. l \in Locals
    BY <1>3, <1>4, Zenon DEF Locals
  <1>6. l.excluded = loc[r].excluded \cup {lease[r]}
    BY <1>3 DEF Locals
  <1>7. ReplayAllowed(r, f)
    BY NextKeyFacts DEF TryNextKey
  <1>8. MaybeAccepted(f) \in BOOLEAN
    BY DEF MaybeAccepted, Failures
  <1>9. /\ hist' \in [Requests -> History]
        /\ \A q \in Requests \ {r} : hist'[q] = hist[q]
        /\ hist'[r].accepted =
              IF MaybeAccepted(f) THEN hist[r].accepted + 1 ELSE hist[r].accepted
        /\ hist'[r].probed \subseteq hist[r].probed \cup {lease[r]}
    BY <1>1, <1>3, <1>8, RecordAttemptFacts DEF TryNextKey
  <1>10. r \notin Idempotent => hist'[r].accepted = 0
    BY <1>1, <1>7, <1>9, ReplayIsSafe DEF Sound
  <1>11. hist'[r].probed \subseteq l.excluded
    BY <1>1, <1>6, <1>9 DEF Sound
  <1>12. NextAttempt(r, l) /\ UNCHANGED <<fence, fencing>>
    BY <1>2 DEF TryNextKey
  <1> QED
    BY <1>1, <1>5, <1>9, <1>10, <1>11, <1>12, NextAttemptInv

\* FailAndStop: the last attempt may have been accepted, the loop is over.
LEMMA FailAndStopInv ==
    ASSUME RouteInv, NEW r \in Requests, NEW b \in BOOLEAN, FailAndStop(r, b)
    PROVE  RouteInv'
  <1>1. TypeOK /\ Sound(r) /\ phase[r] = "attempting"
    BY RouteInvSound DEF FailAndStop
  <1>2. lease[r] # NoKey /\ hist[r].accepted \in Nat
    BY <1>1 DEF Sound, TypeOK, History
  <1>3. /\ hist' \in [Requests -> History]
        /\ \A q \in Requests \ {r} : hist'[q] = hist[q]
        /\ hist'[r].accepted =
              IF b THEN hist[r].accepted + 1 ELSE hist[r].accepted
    BY <1>1, <1>2, RecordAttemptFacts DEF FailAndStop
  <1>4. r \notin Idempotent => hist'[r].accepted \in {0, 1}
    BY <1>1, <1>2, <1>3 DEF Sound
  <1>5. EndRequest(r) /\ fence' \in Nat /\ fencing' \in BOOLEAN
    BY <1>1 DEF FailAndStop, TypeOK
  <1> QED
    BY <1>3, <1>4, <1>5, EndRequestInv

\* Succeed: the lease moves into the body.
LEMMA SucceedInv ==
    ASSUME RouteInv, NEW r \in Requests, Succeed(r)
    PROVE  RouteInv'
  <1>1. TypeOK /\ CapacityExact /\ CapacityBound /\ Sound(r)
    BY RouteInvSound
  <1>2. lease[r] # NoKey /\ hist[r].accepted \in Nat
    BY <1>1 DEF Succeed, Sound, TypeOK, History
  <1>3. /\ hist' \in [Requests -> History]
        /\ \A q \in Requests \ {r} : hist'[q] = hist[q]
        /\ hist'[r].accepted = hist[r].accepted + 1
    BY <1>1, <1>2, RecordAttemptFacts DEF Succeed
  <1>4. CapacityExact' /\ CapacityBound'
    BY <1>1, CountersUntouched DEF Succeed
  <1>5. TypeOK' /\ OnlyMoves(r)
    BY <1>1, <1>3, NoLocalsTyped
    DEF Succeed, Goto, SetLocals, TypeOK, Phases, OnlyMoves
  <1>6. phase'[r] = "streaming" /\ lease'[r] = lease[r]
    BY <1>1 DEF Succeed, Goto, TypeOK
  <1>7. Sound(r)'
    BY <1>1, <1>2, <1>3, <1>6 DEF Succeed, Sound
  <1> QED
    BY <1>4, <1>5, <1>7, Frame

\* Every attempt step preserves the invariant.
LEMMA AttemptInv ==
    ASSUME RouteInv, NEW r \in Requests, Attempt(r)
    PROVE  RouteInv'
  <1>1. ASSUME NEW f \in Failures, RetrySameKey(r, f) PROVE RouteInv'
    BY <1>1, RetrySameKeyInv
  <1>2. ASSUME NEW f \in Failures, TryNextKey(r, f) PROVE RouteInv'
    BY <1>2, TryNextKeyInv
  <1>3. ASSUME NEW b \in BOOLEAN, FailAndStop(r, b) PROVE RouteInv'
    BY <1>3, FailAndStopInv
  <1>4. CASE Abandon(r)
    BY <1>4, EndRequestQuietly DEF Abandon
  <1>5. CASE Succeed(r)
    BY <1>5, SucceedInv
  <1>6. CASE BodyEnds(r)
    BY <1>6, EndRequestQuietly DEF BodyEnds
  <1> QED
    BY <1>1, <1>2, <1>3, <1>4, <1>5, <1>6 DEF Attempt

(***************************************************************************)
(* The theorems.                                                           *)
(***************************************************************************)
\* Nothing is taken, sent or excluded at the start.
LEMMA InitInv == Init => RouteInv
  <1> SUFFICES ASSUME Init PROVE RouteInv
    OBVIOUS
  <1>1. TypeOK
    BY NoLocalsTyped, BudgetAssumption DEF Init, TypeOK, Phases, History
  <1>2. \A c \in Constraints : Holders(c) = {}
    BY DEF Init, Holders
  <1>3. CapacityExact
    BY <1>2, FS_EmptySet DEF Init, CapacityExact
  <1>4. CapacityBound
    BY LimitAssumption DEF Init, CapacityBound
  <1>5. \A r \in Requests : Sound(r)
    BY IdempotentAssumption DEF Init, Sound
  <1> QED
    BY <1>1, <1>3, <1>4, <1>5, RouteInvSound

\* Every step preserves the invariant.
LEMMA NextInv == RouteInv /\ [Next]_vars => RouteInv'
  <1> SUFFICES ASSUME RouteInv, [Next]_vars PROVE RouteInv'
    OBVIOUS
  <1>1. TypeOK /\ CapacityExact /\ CapacityBound
    BY DEF RouteInv
  <1>2. ASSUME NEW r \in Requests, GiveUp(r) PROVE RouteInv'
    BY <1>2, EndRequestQuietly DEF GiveUp
  <1>3. ASSUME UNCHANGED <<active, lease, phase, loc, hist>>,
               stale' \in [Requests -> BOOLEAN],
               fence' \in Nat, fencing' \in BOOLEAN
        PROVE  RouteInv'
    <2>1. CapacityExact' /\ CapacityBound'
      BY <1>1, <1>3, CountersUntouched
    <2>2. TypeOK'
      BY <1>1, <1>3 DEF TypeOK
    <2> QED
      BY <1>3, <2>1, <2>2
      DEF RouteInv, LeasePhases, ReplayClosed, ExclusionsFinal
  <1>4. CASE RuntimeChanged
    <2>1. stale' \in [Requests -> BOOLEAN]
      BY <1>1, <1>4, Zenon DEF RuntimeChanged, TypeOK
    <2> QED
      BY <1>1, <1>3, <1>4, <2>1 DEF RuntimeChanged, TypeOK
  <1>5. CASE BeginFence
    BY <1>1, <1>3, <1>5 DEF BeginFence, TypeOK
  <1>6. CASE EndFence
    <2>1. fence \in Nat /\ stale \in [Requests -> BOOLEAN]
      BY <1>1 DEF TypeOK
    <2>2. fence' \in {fence, fence + 1} /\ fencing' = FALSE
      BY <1>6 DEF EndFence
    <2>3. fence' \in Nat
      BY <2>1, <2>2
    <2>4. fencing' \in BOOLEAN
      BY <2>2, Zenon
    <2> QED
      BY <1>3, <1>6, <2>1, <2>3, <2>4 DEF EndFence
  <1>7. CASE UNCHANGED vars
    BY <1>1, <1>3, <1>7 DEF vars, TypeOK
  <1> QED
    BY <1>2, <1>4, <1>5, <1>6, <1>7, StartInv, PlanningInv, AdmissionInv,
       AttemptInv DEF Next

\* The inductive invariant of the loop and the registry: it holds however many
\* requests interleave their planning, scanning, admission, attempts, bodies and
\* cancellations in execution.rs, admission.rs and capacity.rs.
THEOREM RouteInvariance == Spec => []RouteInv
  BY InitInv, NextInv, PTL DEF Spec

\* Attempt indices stay below the hard cap, replans within their bound, same-key
\* retries below the threshold, and no counter of the registry goes negative.
THEOREM RouteTypeCorrectness == Spec => []TypeOK
  <1>1. RouteInv => TypeOK
    BY DEF RouteInv
  <1> QED
    BY <1>1, RouteInvariance, PTL

\* No way out of the loop strands a capacity lease (CapacityLease::drop).
THEOREM NoStrandedLease == Spec => []LeasePhases
  <1>1. RouteInv => LeasePhases
    BY DEF RouteInv
  <1> QED
    BY <1>1, RouteInvariance, PTL

\* The counters of CompositeCapacityRegistry are exact: try_acquire, its rollback
\* and release neither leak a slot nor free one twice.
THEOREM RegistryExact == Spec => []CapacityExact
  <1>1. RouteInv => CapacityExact
    BY DEF RouteInv
  <1> QED
    BY <1>1, RouteInvariance, PTL

\* No constraint of the registry is ever oversubscribed.
THEOREM RegistryBounded == Spec => []CapacityBound
  <1>1. RouteInv => CapacityBound
    BY DEF RouteInv
  <1> QED
    BY <1>1, RouteInvariance, PTL

\* plan_with_context never lets a request without an idempotency key be sent
\* again once an upstream may have accepted it.
THEOREM ReplayIsAlwaysSafe == Spec => []SafeReplay
  <1>1. RouteInv => SafeReplay
    BY DEF RouteInv, ReplayClosed, SafeReplay
  <1> QED
    BY <1>1, RouteInvariance, PTL

\* A key that was excluded or probed gets no further attempt of the request.
THEOREM NoSecondChanceHolds == Spec => NoSecondChance
  <1>1. RouteInv => \A r \in Requests :
           phase[r] = "attempting" => /\ lease[r] \notin loc[r].excluded
                                      /\ lease[r] \notin hist[r].probed
    BY DEF RouteInv, ExclusionsFinal
  <1>2. RouteInv => [\A r \in Requests : phase[r] = "attempting" /\ hist'[r] # hist[r] =>
                        /\ lease[r] \notin loc[r].excluded
                        /\ lease[r] \notin hist[r].probed]_vars
    BY <1>1
  <1> QED
    BY <1>2, RouteInvariance, PTL DEF NoSecondChance
=============================================================================
