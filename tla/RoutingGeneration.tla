------------------------- MODULE RoutingGeneration -------------------------
(***************************************************************************)
(* The routing generation registry and its two activation lanes: the       *)
(* supervised cutover runner, which builds, qualifies, fences, drains and   *)
(* activates a generation, and the fast lane of an interactive policy save  *)
(* (background_tasks/routing_generation_cutover_runner.rs,                  *)
(* persistence/stores/routing_generation_store.rs,                          *)
(* application/routing_generation_coordinator.rs,                           *)
(* application/routing_policy_control_plane.rs and stage_user_policy).      *)
(*                                                                         *)
(* Every action is one SQLite transaction, or one process-local step that   *)
(* holds the generation lane; between two of them requests are admitted     *)
(* and finish, policies are saved, source profiles are edited, evidence is  *)
(* ingested and the process may restart.  The content of a policy, of a     *)
(* quality component and of a circuit component is abstracted to what its   *)
(* identity hash is computed from.                                          *)
(***************************************************************************)
EXTENDS Naturals, Sequences, FiniteSets, FiniteSetsExt

CONSTANTS
  Policies,       \* records [quality, circuit, transport, other]
  FirstPolicy,    \* the policy the schema upgrade staged
  Profiles,       \* station-key and monitor source profiles
  FirstProfile,
  Attempts,       \* slots for concurrently running attempts
  MaxPolicies,    \* bound: policy revisions
  MaxGens,        \* bound: runtime generation rows
  MaxLog,         \* bound: ingestion sequence
  MaxFences,      \* bound: fence revisions
  MaxFaults       \* bound: restarts, gate rejections and profile edits

ASSUME PoliciesAssumption == FirstPolicy \in Policies /\ FirstProfile \in Profiles
\* The schema upgrade has staged the first policy revision.
ASSUME BoundsAssumption ==
  /\ {MaxPolicies, MaxGens, MaxLog, MaxFences, MaxFaults} \subseteq Nat
  /\ MaxPolicies # 0

VARIABLES
  policies,   \* routing_policy_v3_staged: revision -> row
  gens,       \* routing_runtime_generation rows in order of creation
  active,     \* marker: index of the active generation, 0 before the cutover
  fenced,     \* marker: index of the fenced generation, 0 when no fence is up
  fenceRev,   \* marker: fence_revision
  origin,     \* observation watermark of the target the fence was begun for
  expired,    \* the fence has been up for SYSTEM_CUTOVER_FENCE_TIMEOUT_MS
  log,        \* ingestion sequence: "active" and "next" observations, "circuit"
  profile,    \* the current source profile
  attempts,   \* routing_attempt_v3 slots and the guard their plan was made under
  lane,       \* the holder of the generation lane and what it has read
  saving,     \* revision stored by the save that holds the mutation gate, or 0
  faults

vars == <<policies, gens, active, fenced, fenceRev, origin, expired, log, profile,
          attempts, lane, saving, faults>>

registry == <<policies, gens, active, fenced, fenceRev, origin, expired>>

None == 0
NotQualified == MaxGens + 1

-----------------------------------------------------------------------------
(* What the queries of the store return. *)

Live == {"staged", "ready", "active"}
LiveRevisions == {r \in DOMAIN policies : policies[r].status \in Live}
\* Mutant: an active policy does not count as long as another one is unactivated.
LatestUnactivated ==
  LET open == {r \in LiveRevisions : policies[r].status # "active"}
  IN Max(IF open = {} THEN LiveRevisions ELSE open)

LatestRevision == Max(LiveRevisions)

ActiveRevision == IF active = None THEN 1 ELSE gens[active].rev

Ready == {i \in DOMAIN gens : gens[i].status = "ready"}
ReadyFor(r) == {i \in Ready : gens[i].rev = r}

Logged(kinds, from, to) == \E i \in DOMAIN log : log[i] \in kinds /\ from < i /\ i <= to

\* Mutant: only observations count as a tail.
NoTailObservation(g) == ~Logged({"active"}, g.quality.w, Len(log))

(* validate_no_tail_events *)
NoTail(g) == /\ ~Logged({"active"}, g.quality.w, Len(log))
             /\ ~Logged({"circuit"}, g.circuit.w, Len(log))

\* Mutant: the drain counts only attempts of the fenced generation.
PendingOfTarget == {a \in Attempts : attempts[a].st = "pending" /\ attempts[a].gen = fenced}

Pending == {a \in Attempts : attempts[a].st = "pending"}

ActiveComponents == {i \in DOMAIN gens : gens[i].status \in {"active", "retired"}}
ReadyQuality == {gens[i].quality : i \in DOMAIN gens}
                  \ {gens[i].quality : i \in ActiveComponents}

-----------------------------------------------------------------------------
(* Building a generation. *)

QualityImpact(p, q) == p.quality # q.quality
CircuitImpact(p, q) == p.circuit # q.circuit
PolicyOnly(p, q) == ~QualityImpact(p, q) /\ ~CircuitImpact(p, q)
                       /\ p.transport = q.transport

(* The rebuild plan against the active generation, component_rebuild_plan  *)
(* with the watermarks load_staged_build_input derives from it.             *)
FirstBuild(r) ==
  [rev |-> r, base |-> None, quality |-> TRUE, circuit |-> TRUE,
   qrev |-> r, crev |-> r, ow |-> Len(log), cw |-> Len(log), next |-> Len(log)]

NextBuild(r) ==
  LET g  == gens[active]
      p  == policies[r].policy
      ap == policies[g.rev].policy
      q  == \/ QualityImpact(p, ap)
            \/ Logged({"active", "next"}, g.quality.w, Len(log))
            \/ g.quality.profile # profile
      c  == CircuitImpact(p, ap) \/ Logged({"circuit"}, g.circuit.w, Len(log))
      ow == IF q THEN Len(log) ELSE g.quality.w
  IN [rev |-> r, base |-> active, quality |-> q, circuit |-> c,
      qrev |-> IF QualityImpact(p, ap) THEN r ELSE g.quality.rev,
      crev |-> IF CircuitImpact(p, ap) THEN r ELSE g.circuit.rev,
      ow |-> ow, cw |-> IF c THEN Len(log) ELSE g.circuit.w, next |-> ow]

Build(r) == IF active = None THEN FirstBuild(r) ELSE NextBuild(r)

(* A ready row that already stands for this input. *)
Current(i, in) == /\ gens[i].quality.rev = in.qrev
                  /\ gens[i].circuit.rev = in.crev
                  /\ gens[i].quality.w = in.ow
                  /\ gens[i].circuit.w = in.cw

\* Mutant: a newer policy does not ask for a build.
UpToDateProfile == active # None /\ gens[active].quality.profile = profile

UpToDate == /\ active # None
            /\ gens[active].rev = LatestRevision
            /\ gens[active].quality.profile = profile

(* load_staged_build_input finds something to build. *)
HasBuildInput ==
  /\ fenced = None
  /\ ~UpToDate
  /\ \A i \in ReadyFor(LatestRevision) : ~Current(i, Build(LatestRevision))

(* The quality component of a rebuild: its identity holds the evaluation    *)
(* time, which is that of an unactivated component of the same policy       *)
(* revision and watermark when there is one; a component prepared for the   *)
(* very same request is resumed with the source profile it was cut from.    *)
RebuiltQuality(in) ==
  LET same  == {q \in ReadyQuality : q.rev = in.qrev /\ q.w = in.ow}
      older == {gens[i].quality.stamp : i \in {j \in DOMAIN gens :
                  gens[j].quality.rev = in.qrev /\ gens[j].quality.w = in.ow}}
      stamp == IF same # {} THEN Min({q.stamp : q \in same}) ELSE 1 + Max(older \cup {0})
      prepared == {q \in same : q.stamp = stamp /\ q.next = in.next}
  IN IF prepared # {} THEN CHOOSE q \in prepared : TRUE
     ELSE [rev |-> in.qrev, w |-> in.ow, next |-> in.next, profile |-> profile, stamp |-> stamp]

QualityOf(in) == IF in.quality THEN RebuiltQuality(in) ELSE gens[in.base].quality
CircuitOf(in) == IF in.circuit THEN [rev |-> in.crev, w |-> in.cw] ELSE gens[in.base].circuit

\* Mutant: the row names another policy revision.
NewGenForeignRevision(in) ==
  [rev |-> in.rev + 1, quality |-> QualityOf(in), circuit |-> CircuitOf(in),
   status |-> "ready", qual |-> NotQualified]

NewGen(in) == [rev |-> in.rev, quality |-> QualityOf(in), circuit |-> CircuitOf(in),
               status |-> "ready", qual |-> NotQualified]

SameId(g, h) == g.rev = h.rev /\ g.quality = h.quality /\ g.circuit = h.circuit
Existing(g) == {i \in DOMAIN gens : SameId(gens[i], g)}

(* register_ready_generation: the row is inserted, or found with the same   *)
(* identity and still ready; anything else is a revision conflict.          *)
Registrable(g) == IF Existing(g) = {} THEN Len(gens) < MaxGens
                                      ELSE Existing(g) \subseteq Ready

Registered(g, q) ==
  IF Existing(g) = {} THEN Append(gens, [g EXCEPT !.qual = q])
  ELSE [gens EXCEPT ![CHOOSE i \in Existing(g) : TRUE].qual =
          IF @ = NotQualified THEN q ELSE @]
IndexOf(g) == IF Existing(g) = {} THEN Len(gens) + 1 ELSE CHOOSE i \in Existing(g) : TRUE

PolicyReady(r) ==
  [policies EXCEPT ![r].status = IF @ \in {"staged", "ready"} THEN "ready" ELSE @]

(* verify_quality_generation replays the request against today's profile    *)
(* and evidence; the circuit component is replayed from the event log.      *)
Verifies(q, next) ==
  /\ q.profile = profile
  /\ ~Logged({"next"}, Min({q.next, next}), Min({Max({q.next, next}), q.w}))

-----------------------------------------------------------------------------
(* The bound on fence revisions, checked where a lane decides to fence. *)
FencesLeft == fenceRev < MaxFences

NotSaving == 0
FreeLane == [pc |-> "free"]
Release == lane' = FreeLane

Init ==
  /\ policies = <<[policy |-> FirstPolicy, base |-> 1, status |-> "staged"]>>
  /\ gens = <<>>
  /\ active = None
  /\ fenced = None
  /\ fenceRev = 0
  /\ origin = 0
  /\ expired = FALSE
  /\ log = <<>>
  /\ profile = FirstProfile
  /\ attempts = [a \in Attempts |-> [st |-> "idle"]]
  /\ lane = FreeLane
  /\ saving = NotSaving
  /\ faults = 0

(* A save: stage_user_policy under the mutation gate.  The caller names the *)
(* revision it edited: the active one or one that is still staged.          *)
SaveUnchanged(e, p) ==
  /\ policies[e].policy = p
  /\ saving' = e
  /\ UNCHANGED policies

SaveKnown(e, p) ==
  LET known == {r \in DOMAIN policies : policies[r].policy = p
                                          /\ policies[r].base = ActiveRevision}
  IN /\ policies[e].policy # p
     /\ known # {}
     /\ saving' = CHOOSE r \in known : TRUE
     /\ UNCHANGED policies

SaveNew(e, p) ==
  /\ policies[e].policy # p
  /\ \A r \in DOMAIN policies : policies[r].policy # p \/ policies[r].base # ActiveRevision
  /\ Len(policies) < MaxPolicies
  /\ policies' = Append(policies, [policy |-> p, base |-> ActiveRevision, status |-> "staged"])
  /\ saving' = Len(policies) + 1

SavePolicy(e, p) ==
  /\ saving = NotSaving
  /\ e = ActiveRevision \/ policies[e].status = "staged"
  /\ SaveUnchanged(e, p) \/ SaveKnown(e, p) \/ SaveNew(e, p)
  /\ UNCHANGED <<gens, active, fenced, fenceRev, origin, expired, log, profile, attempts, lane, faults>>

(* The save returns without the fast lane: the lane is held, the proxy      *)
(* cannot receive a publication, or the change is no policy-only change.    *)
SaveReturns ==
  /\ saving # NotSaving
  /\ lane.pc \notin {"fast_register", "fast_activate"}
  /\ saving' = NotSaving
  /\ UNCHANGED <<registry, log, profile, attempts, lane, faults>>

(* The fast lane reads its build input; the ready rows the input replaces   *)
(* are marked stale in the transaction that follows.                        *)
MarkStale(r) == [i \in DOMAIN gens |->
                   IF i \in ReadyFor(r) THEN [gens[i] EXCEPT !.status = "failed"] ELSE gens[i]]

FastStart ==
  LET r == LatestRevision IN
  /\ saving # NotSaving
  /\ saving = r
  /\ lane.pc = "free"
  /\ FencesLeft
  /\ HasBuildInput
  /\ active # None
  /\ gens[active].qual # NotQualified
  /\ PolicyOnly(policies[r].policy, policies[gens[active].rev].policy)
  /\ ~Build(r).quality /\ ~Build(r).circuit
  /\ lane' = [pc |-> "fast_register", input |-> Build(r), source |-> active]
  /\ gens' = MarkStale(r)
  /\ UNCHANGED <<policies, active, fenced, fenceRev, origin, expired, log, profile,
                 attempts, saving, faults>>

(* register_ready_generation and qualify_policy_only_generation. *)
FastRegister ==
  LET g == NewGen(lane.input) IN
  /\ lane.pc = "fast_register"
  /\ Registrable(g)
  /\ gens' = Registered(g, lane.source)
  /\ policies' = PolicyReady(g.rev)
  /\ lane' = [pc |-> "fast_activate", target |-> IndexOf(g), source |-> lane.source]
  /\ UNCHANGED <<active, fenced, fenceRev, origin, expired, log, profile, attempts, saving, faults>>

\* Mutant: the generation that was active is not retired.
ActivatedKeepingOld(t) ==
  [gens EXCEPT ![t].status = "active"]

(* switch_component_statuses and the row updates of an activation. *)
Activated(t) ==
  [i \in DOMAIN gens |->
     IF i = t THEN [gens[i] EXCEPT !.status = "active"]
     ELSE IF i = active THEN [gens[i] EXCEPT !.status = "retired"] ELSE gens[i]]

PolicyActivated(t) ==
  [r \in DOMAIN policies |->
     IF r = gens[t].rev THEN [policies[r] EXCEPT !.status = "active"]
     ELSE IF active # None /\ r = gens[active].rev
          THEN [policies[r] EXCEPT !.status = "retired"] ELSE policies[r]]

(* activate_policy_only: fence and pointer swap in one transaction. *)
FastActivatable(t, s) ==
  /\ active = s
  /\ fenced = None
  /\ gens[t].status = "ready"
  /\ gens[t].quality = gens[s].quality
  /\ gens[t].circuit = gens[s].circuit
  /\ LatestRevision = gens[t].rev
  /\ gens[t].quality.profile = profile
  /\ gens[t].qual = s
  /\ NoTail(gens[t])

FastActivate ==
  LET t == lane.target IN
  /\ lane.pc = "fast_activate"
  /\ FastActivatable(t, lane.source)
  /\ fenceRev' = fenceRev + 1
  /\ gens' = Activated(t)
  /\ policies' = PolicyActivated(t)
  /\ active' = t
  /\ saving' = NotSaving
  /\ Release
  /\ UNCHANGED <<fenced, origin, expired, log, profile, attempts, faults>>

(* A conflict on the fast lane leaves the generation to the runner. *)
FastGivesUp ==
  /\ \/ lane.pc = "fast_register" /\ ~Registrable(NewGen(lane.input))
     \/ lane.pc = "fast_activate" /\ ~FastActivatable(lane.target, lane.source)
  /\ saving' = NotSaving
  /\ Release
  /\ UNCHANGED <<registry, log, profile, attempts, faults>>

-----------------------------------------------------------------------------
(* The supervised runner: run_cutover_once. *)

RunnerStart ==
  LET r == LatestRevision IN
  /\ lane.pc = "free"
  /\ IF HasBuildInput
     THEN /\ gens' = MarkStale(r)
          /\ lane' = [pc |-> "register", input |-> Build(r)]
     ELSE /\ lane' = [pc |-> "qualify"]
          /\ UNCHANGED gens
  /\ UNCHANGED <<policies, active, fenced, fenceRev, origin, expired, log, profile,
                 attempts, saving, faults>>

RunnerRegister ==
  LET g == NewGen(lane.input) IN
  /\ lane.pc = "register"
  /\ Registrable(g)
  /\ gens' = Registered(g, NotQualified)
  /\ policies' = PolicyReady(g.rev)
  /\ lane' = [pc |-> "qualify"]
  /\ UNCHANGED <<active, fenced, fenceRev, origin, expired, log, profile, attempts, saving, faults>>

(* load_ready_qualification_input: the newest ready row of the newest live  *)
(* policy.                                                                  *)
Candidate == IF ReadyFor(LatestRevision) = {} THEN None ELSE Max(ReadyFor(LatestRevision))

Qualifies(t, next) == gens[t].qual # NotQualified \/ Verifies(gens[t].quality, next)

Qualified(t) == [gens EXCEPT ![t].qual = IF @ = NotQualified THEN active ELSE @]

RunnerQualify ==
  LET t == Candidate IN
  /\ lane.pc = "qualify"
  /\ fenced = None
  /\ t # None
  /\ FencesLeft
  /\ Qualifies(t, gens[t].quality.w)
  /\ gens' = Qualified(t)
  /\ lane' = [pc |-> "begin", target |-> t, source |-> active]
  /\ UNCHANGED <<policies, active, fenced, fenceRev, origin, expired, log, profile,
                 attempts, saving, faults>>

(* begin_fence *)
Fenceable(t, s) == /\ fenced = None
                   /\ active = s
                   /\ gens[t].status = "ready"
                   /\ gens[t].qual = s

RunnerBegin ==
  LET t == lane.target IN
  /\ lane.pc = "begin"
  /\ Fenceable(t, lane.source)
  /\ gens' = [gens EXCEPT ![t].status = "cutover_fencing"]
  /\ fenced' = t
  /\ fenceRev' = fenceRev + 1
  /\ origin' = gens[t].quality.w
  /\ expired' = FALSE
  /\ lane' = [pc |-> "advance"]
  /\ UNCHANGED <<policies, active, log, profile, attempts, saving, faults>>

(* abort_fence: timeout, a rejected projection gate or a newer policy.      *)
Abort == /\ gens' = [gens EXCEPT ![fenced].status = "ready"]
         /\ fenced' = None
         /\ expired' = FALSE
         /\ Release
         /\ UNCHANGED <<policies, active, fenceRev, origin>>

Advancing == /\ fenced # None
             /\ lane.pc \in {"advance", "qualify"}

\* Mutant: a fence does not time out.
RunnerAbortsOnPolicy ==
  /\ Advancing
  /\ LatestRevision > gens[fenced].rev
  /\ Abort
  /\ UNCHANGED <<log, profile, attempts, saving, faults>>

RunnerAborts ==
  /\ Advancing
  /\ expired \/ LatestRevision > gens[fenced].rev
  /\ Abort
  /\ UNCHANGED <<log, profile, attempts, saving, faults>>

(* The projection gate (external): a lagging projection rejects the cutover. *)
GateRejects ==
  /\ lane.pc \in {"advance", "qualify"}
  /\ faults < MaxFaults
  /\ faults' = faults + 1
  /\ IF fenced # None THEN Abort ELSE Release /\ UNCHANGED registry
  /\ UNCHANGED <<log, profile, attempts, saving>>

(* Admitted attempts are still running: the fence stays up until the next   *)
(* tick.                                                                    *)
RunnerWaits ==
  /\ Advancing
  /\ ~expired /\ LatestRevision <= gens[fenced].rev
  /\ Pending # {}
  /\ Release
  /\ UNCHANGED <<registry, log, profile, attempts, saving, faults>>

LastOf(kind) == Max({0} \cup {i \in DOMAIN log : log[i] = kind})

(* The fence has drained: the tail, if any, is rebuilt into a replacement   *)
(* (load_fenced_build_input), otherwise the target is activated.            *)
RunnerDrained ==
  LET g  == gens[fenced]
      ow == Max({LastOf("active"), g.quality.w})
      cw == Max({LastOf("circuit"), g.circuit.w})
      in == [rev |-> g.rev, base |-> fenced, quality |-> ow > g.quality.w,
             circuit |-> cw > g.circuit.w, qrev |-> g.quality.rev,
             crev |-> g.circuit.rev, ow |-> ow, cw |-> cw, next |-> Min({origin, ow})]
  IN /\ Advancing
     /\ ~expired /\ LatestRevision <= g.rev
     /\ Pending = {}
     /\ lane' = IF in.quality \/ in.circuit
                THEN [pc |-> "replace", input |-> in] ELSE [pc |-> "activate"]
     /\ UNCHANGED <<registry, log, profile, attempts, saving, faults>>

(* The replacement is registered and qualified against the active row. *)
Replaceable(g) == Registrable(g) /\ Verifies(g.quality, lane.input.next)

RunnerReplace ==
  LET g == NewGen(lane.input) IN
  /\ lane.pc = "replace"
  /\ Replaceable(g)
  /\ gens' = Registered(g, active)
  /\ policies' = PolicyReady(g.rev)
  /\ lane' = [pc |-> "retarget", target |-> IndexOf(g)]
  /\ UNCHANGED <<active, fenced, fenceRev, origin, expired, log, profile, attempts, saving, faults>>

(* retarget_fence: the fence moves to the replacement and stays up. *)
Retargetable(t) == gens[t].status = "ready" /\ gens[t].qual = active /\ NoTail(gens[t])

RunnerRetarget ==
  LET t == lane.target IN
  /\ lane.pc = "retarget"
  /\ Retargetable(t)
  /\ gens' = [gens EXCEPT ![fenced].status = "failed", ![t].status = "cutover_fencing"]
  /\ fenced' = t
  /\ lane' = [pc |-> "activate"]
  /\ UNCHANGED <<policies, active, fenceRev, origin, expired, log, profile, attempts, saving, faults>>

(* complete_cutover: activate_fenced_generation in its own transaction.     *)
(* Where the circuit component changes, replace_live_circuit_state also     *)
(* refuses while a half-open lease is held; that cannot happen here, since  *)
(* a lease belongs to a pending slot (StationKeyCircuit!LeaseOwnership) and *)
(* Pending = {} was read in the same transaction.                           *)
Activatable(t) == Pending = {} /\ NoTail(gens[t])

RunnerActivate ==
  /\ lane.pc = "activate"
  /\ Activatable(fenced)
  /\ gens' = Activated(fenced)
  /\ policies' = PolicyActivated(fenced)
  /\ active' = fenced
  /\ fenced' = None
  /\ expired' = FALSE
  /\ Release
  /\ UNCHANGED <<fenceRev, origin, log, profile, attempts, saving, faults>>

(* A tick that finds nothing to do, or whose transaction meets a conflict,   *)
(* ends; the loop sleeps BUILD_INTERVAL and starts over.                     *)
RunnerTickEnds ==
  /\ \/ lane.pc = "register" /\ ~Registrable(NewGen(lane.input))
     \/ /\ lane.pc = "qualify" /\ fenced = None
        /\ FencesLeft /\ Candidate # None
             => ~Qualifies(Candidate, gens[Candidate].quality.w)
     \/ lane.pc = "begin" /\ ~Fenceable(lane.target, lane.source)
     \/ lane.pc = "replace" /\ ~Replaceable(NewGen(lane.input))
     \/ lane.pc = "retarget" /\ ~Retargetable(lane.target)
     \/ lane.pc = "activate" /\ ~Activatable(fenced)
  /\ Release
  /\ UNCHANGED <<registry, log, profile, attempts, saving, faults>>

-----------------------------------------------------------------------------
(* The other actors. *)

(* A request plans under load_routing_generation_admission_guard ... *)
Plan(a) ==
  /\ attempts[a].st = "idle"
  /\ attempts' = [attempts EXCEPT ![a] = [st |-> "planned", gen |-> active, rev |-> fenceRev]]
  /\ UNCHANGED <<registry, log, profile, lane, saving, faults>>

Eligibility == IF active # None /\ fenced = None THEN "active" ELSE "next"

(* ... and is admitted only when that guard still holds and no fence is up. *)
AdmissionGuard(a) == /\ fenced = None
                     /\ attempts[a].gen = active
                     /\ attempts[a].rev = fenceRev

Admit(a) ==
  /\ attempts[a].st = "planned"
  /\ AdmissionGuard(a)
  /\ attempts' = [attempts EXCEPT ![a] = [st |-> "pending", gen |-> active, kind |-> Eligibility]]
  /\ UNCHANGED <<registry, log, profile, lane, saving, faults>>

(* DeniedGenerationFence, DeniedStaleGeneration: the snapshots are reloaded. *)
Deny(a) ==
  /\ attempts[a].st = "planned"
  /\ ~AdmissionGuard(a)
  /\ attempts' = [attempts EXCEPT ![a] = [st |-> "idle"]]
  /\ UNCHANGED <<registry, log, profile, lane, saving, faults>>

(* The attempt's terminal: an observation with the eligibility fixed at     *)
(* admission, and a circuit event when the reducer moved.  A terminal that  *)
(* is lost is an attempt that never finishes and waits for the restart.      *)
Finish(a) ==
  /\ attempts[a].st = "pending"
  /\ attempts' = [attempts EXCEPT ![a] = [st |-> "idle"]]
  /\ \E events \in {<<>>, <<attempts[a].kind>>, <<attempts[a].kind, "circuit">>} :
       /\ Len(log) + Len(events) <= MaxLog
       /\ log' = log \o events
  /\ UNCHANGED <<registry, profile, lane, saving, faults>>

(* A monitor probe appends an observation; a lease reaper or an operator    *)
(* reset appends a circuit event.  Neither waits for the fence.             *)
Ingest ==
  /\ Len(log) < MaxLog
  /\ log' \in {Append(log, Eligibility), Append(log, "circuit")}
  /\ UNCHANGED <<registry, profile, attempts, lane, saving, faults>>

EditProfile(p) ==
  /\ p # profile
  /\ faults < MaxFaults
  /\ faults' = faults + 1
  /\ profile' = p
  /\ UNCHANGED <<registry, log, attempts, lane, saving>>

(* Thirty seconds pass under a fence, whatever it waits for. *)
FenceExpires ==
  /\ fenced # None /\ ~expired
  /\ expired' = TRUE
  /\ UNCHANGED <<policies, gens, active, fenced, fenceRev, origin, log, profile,
                 attempts, lane, saving, faults>>

(* The process dies and starts again: lane, gate and plans are gone, the    *)
(* attempts left pending are reconciled, the registry is as it was.         *)
Restart ==
  /\ faults < MaxFaults
  /\ faults' = faults + 1
  /\ lane' = FreeLane
  /\ saving' = NotSaving
  /\ attempts' = [a \in Attempts |-> [st |-> "idle"]]
  /\ UNCHANGED <<registry, log, profile>>

Runner == \/ RunnerStart \/ RunnerRegister \/ RunnerQualify \/ RunnerBegin
          \/ RunnerAborts \/ RunnerWaits \/ RunnerDrained \/ RunnerReplace
          \/ RunnerRetarget \/ RunnerActivate \/ RunnerTickEnds

Fast == FastStart \/ FastRegister \/ FastActivate \/ FastGivesUp

Next ==
  \/ Runner
  \/ Fast
  \/ SaveReturns \/ GateRejects \/ FenceExpires \/ Ingest \/ Restart
  \/ \E e \in DOMAIN policies, p \in Policies : SavePolicy(e, p)
  \/ \E p \in Profiles : EditProfile(p)
  \/ \E a \in Attempts : Plan(a) \/ Admit(a) \/ Deny(a) \/ Finish(a)

Spec == Init /\ [][Next]_vars

(* The runner is a supervised loop that sleeps five seconds between ticks,  *)
(* every step of a lane holder is followed by the next one, and time passes *)
(* under a fence.  No attempt is assumed to finish.                         *)
LaneStep == Runner \/ FastRegister \/ FastActivate \/ FastGivesUp
Fairness == WF_vars(LaneStep) /\ WF_vars(FenceExpires)

FairSpec == Spec /\ Fairness
-----------------------------------------------------------------------------
(* Properties. *)

Statuses == {"ready", "cutover_fencing", "active", "retired", "failed"}
QualityComponents == [rev : 1 .. MaxPolicies, w : 0 .. MaxLog, next : 0 .. MaxLog,
                      profile : Profiles, stamp : 1 .. MaxGens]
CircuitComponents == [rev : 1 .. MaxPolicies, w : 0 .. MaxLog]

(* Type invariant of the registry, the log and the attempt slots. *)
TypeOK ==
  /\ \A r \in DOMAIN policies : /\ policies[r].policy \in Policies
                                /\ policies[r].base \in 1 .. r
                                /\ policies[r].status \in Live \cup {"retired"}
  /\ Len(policies) \in 1 .. MaxPolicies
  /\ Len(gens) \in 0 .. MaxGens
  /\ \A i \in DOMAIN gens : /\ gens[i].rev \in DOMAIN policies
                            /\ gens[i].quality \in QualityComponents
                            /\ gens[i].circuit \in CircuitComponents
                            /\ gens[i].status \in Statuses
                            /\ gens[i].qual \in 0 .. MaxGens + 1
  /\ {active, fenced} \subseteq 0 .. Len(gens)
  /\ fenceRev \in 0 .. MaxFences
  /\ origin \in 0 .. MaxLog
  /\ log \in Seq({"active", "next", "circuit"}) /\ Len(log) <= MaxLog
  /\ profile \in Profiles
  /\ \A a \in Attempts : attempts[a].st \in {"idle", "planned", "pending"}
  /\ saving \in 0 .. Len(policies)

(* load_registry_snapshot refuses to work on a registry whose rows and       *)
(* marker disagree, which would stop every admission and every later         *)
(* cutover: in every state reached by saves, ticks, fast activations,        *)
(* conflicts and restarts, exactly the marker's generation is active, exactly *)
(* the fenced one is fencing, and the only active policy row is the active    *)
(* generation's.                                                             *)
RegistryConsistent ==
  /\ \A i \in DOMAIN gens : /\ gens[i].status = "active" <=> i = active
                            /\ gens[i].status = "cutover_fencing" <=> i = fenced
  /\ \A r \in DOMAIN policies :
       policies[r].status = "active" <=> (active # None /\ r = gens[active].rev)

(* No attempt outlives the circuit component it was admitted under: the       *)
(* cutover replaces the live circuit table only when nothing is in flight,    *)
(* and a fast activation under running attempts keeps the component.  An      *)
(* attempt planned under an older guard must not slip in.                     *)
NoAttemptSpansCutover ==
  \A a \in Attempts : attempts[a].st = "pending" =>
    \/ attempts[a].gen = active
    \/ /\ attempts[a].gen # None
       /\ gens[attempts[a].gen].circuit = gens[active].circuit

(* A generation is activated only with qualification evidence against the     *)
(* generation it replaces and with every active observation and every circuit *)
(* event behind its watermarks: what was recorded under the old generation    *)
(* while the fence drained is never lost.                                     *)
ActiveBehind ==
  \A i \in DOMAIN log :
    /\ log[i] = "active" => i <= gens[active].quality.w
    /\ log[i] = "circuit" => i <= gens[active].circuit.w
ActivationComplete ==
  [][active' # active => gens[active'].qual = active /\ ActiveBehind']_vars

(* The active policy never moves back to an older revision, whichever lane    *)
(* activates and however the ticks, saves and conflicts interleave.           *)
PolicyNeverMovesBack == [][active' # active => ActiveRevision' >= ActiveRevision]_vars

(* A fence is not left up: it ends in an activation or an abort, also when a  *)
(* terminal is lost, a conflict stops a tick or the process restarts.         *)
FenceLifts == fenced # None ~> fenced = None

(* The runner does not give up: while the source profile stays as it is, the  *)
(* lanes end with the newest saved policy active, however often fences are    *)
(* aborted, ticks conflict and the process restarts - or the model has no     *)
(* fence or no row left for another try.                                      *)
Settled == active # None /\ ActiveRevision = LatestRevision
OutOfBounds == fenced = None /\ (~FencesLeft \/ Len(gens) = MaxGens)
NewestPolicyActivated ==
  [](profile = FirstProfile) => <>[](Settled \/ OutOfBounds)

(* An edit of the newest revision is the newest live policy when the save      *)
(* returns, so it is what the lanes work towards.                              *)
LastSaveWins ==
  [][\A e \in DOMAIN policies, p \in Policies :
       SavePolicy(e, p) /\ e = LatestRevision => (policies[LatestRevision].policy)' = p]_vars
=============================================================================
