# Relay Pool Desktop: verification project

Relay Pool Desktop is a Tauri application. Its Rust backend (`src/src-tauri/src`) runs a
local AI gateway in front of a pool of relay stations, each with one or more keys. A client
request enters the local proxy, is planned onto a ranking of keys, takes a capacity lease,
asks the durable circuit of the selected key for admission, crosses the outbound boundary,
and ends in a terminal that is written to the attempt ledger and applied to the circuit.
All durable state is in one SQLite database. Supervised background tasks reap leases,
collect station data, run monitors and deliver alerts.

The TLA+ modules here model the parts of this that carry protocol state: the **circuit** of
a key, the **attempt loop** of a request, the **capacity registry** between requests, what
happens when the **circuit store cannot be written**, the **routing generations** with their
fence and their two activation lanes, the **registry of long operations** with its drain, and
the **activation of an imported database** with its recovery at every start. Paths below are
relative to `src/src-tauri/src/` unless they start with `docs/`.

1. [Inventory](#1-inventory)
2. [Modules and how they correspond to the code](#2-modules-and-how-they-correspond-to-the-code)
3. [Runs](#3-runs)
4. [Findings, further divergences and observations](#4-findings-further-divergences-and-observations)
5. [Fairness](#5-fairness)
6. [Proofs](#6-proofs)
7. [What is not modelled](#7-what-is-not-modelled)
8. [Plan](#8-plan)
9. [Running it](#9-running-it)

## 1. Inventory

### The request path

| Component | State it keeps | Operations | Why it is hard, and what makes it correct |
|---|---|---|---|
| Station-key circuit reducer, `application/station_key_circuit.rs` | one row per key: closed / open / half-open, failure streak, reopen level, recovery count, half-open lease, policy revision | `admit`, `finish`, `reap_expired_lease`, `open_with_policy` | A result may come before or after its lease expired, under another policy, or twice. Streak, recovery count and reopen level must count each attempt once; a circuit closes only by an in-time recovery. |
| Circuit store and attempt ledger, `persistence/stores/station_key_circuit_store.rs`, `routing_attempt_store.rs`, `application/request_finalization/` | rows, clock watermark, attempt slots, circuit and lease events, clusters | admit, mark the boundary, persist a terminal, finalize, recover pending slots, reap | Five tables written by executor, writer, reaper and startup, with crashes and lost acknowledgements between transactions. A lease has one owner, a pending probe is accounted for, a finalized request is frozen. |
| Capacity registry, `application/routing_engine/capacity.rs` | counters for the process, each station, each key | `try_acquire` with rollback, `release`, `Drop` | Three limits taken one after the other by concurrent requests. Counters are exact and bounded. |
| Admission coordinator and attempt loop, `application/routing_engine/admission.rs`, `services/proxy/execution.rs` | excluded keys, capacity misses, same-key retries, replan guard, leases | plan, replan, acquire, load, wait for a fence, admit, send, retry or move on | Replans bring back stale candidates, cancellation can hit any await, retries may duplicate an accepted request. It never strands a lease, never replays unsafely, and ends. |
| Response body, `services/proxy/response_body.rs` | the leases handed over, the finalization flag | poll, end, drop | The one place that releases the leases of a streamed answer. |
| Planner and scoring, `application/routing_engine/intelligent_planner.rs`, `runtime_metrics.rs` | none (pure over a snapshot) | rank candidates | Floating-point scores; the model admits every ranking. |
| Failure classification, `application/request_finalization/failure.rs`, `application/routing_engine/routing_failure.rs` | none | classify a failure | Decides replay safety, blame and retry disposition. |
| Persistence gate and terminal backlog, `application/station_key_circuit.rs` (gate), `application/request_finalization/mod.rs` (backlog), `background_tasks/station_key_circuit_reaper.rs` | gate keys and revision, durable `persistence_unavailable` rows, bounded backlog, overflow count | mark, retain, replay, health check, clear | Writer, executors and reaper interleave during an outage. No terminal is forgotten silently; a check never reopens the gate over a failure it has not seen; recovery completes. |
| Lifecycle writer, `services/proxy/lifecycle/writer.rs` | bounded queue, reservations, health flag | reserve, submit, try with retries, drain | A retry of what the reaper already replayed; a full queue. |
| Terminal outbox, `persistence/stores/request_terminal_outbox.rs`, `request_outcome_store.rs` | outbox rows with claims | append, claim, project | A poison record; projection by a later request. |
| Routing generation, `persistence/stores/routing_generation_store.rs`, `application/routing_generation_coordinator.rs`, `routing_policy_control_plane.rs`, `background_tasks/routing_generation_cutover_runner.rs` | staged policy rows, generation rows with quality and circuit components, the marker (active, fenced, fence revision), the ingestion log | save, build, register, qualify, begin / retarget / abort a fence, drain, activate; the fast lane of a save | Each of these is a transaction of its own; between two of them attempts finish, probes record, policies are saved and the process restarts. Rows and marker agree, no event is lost at the switch, no attempt spans it, every fence is lifted, the newest policy wins. |
| SQLite runtime, `persistence/runtime.rs` | one writer connection, reader pool | write, read | A commit whose acknowledgement is lost. |
| Proxy runtime and commands, `services/proxy/runtime.rs`, `startup.rs`, `application/command_facades/local_proxy.rs` | the running server | start, stop, restart | Startup reconciliation beside live requests. |

### Around it

| Component | State it keeps | Hard behaviour and what makes it correct |
|---|---|---|
| Operation registry, `background_tasks/operation.rs`, and the drain of `application/data_maintenance.rs` | slots, two counters, the order of terminals, join handles | start, cancel, deadline, commit barrier, panic and drain race; counters are exact, a clean drain means that nothing executes |
| Task supervisor, blocking executor | tasks, restart budgets, bounded pool | a task that crashes is restarted within its budget; the pool never exceeds its bound |
| Alerting | incidents, delivery leases | an incident opens once, a delivery is retried and not duplicated |
| Collection coordinator | single flight per station | two triggers, one collection; a late result does not overwrite a newer one |
| Channel monitoring | due times, run leases | due selection, crash in a run |
| Data store upgrade, relocation, installation lease | journals with phases, a lease on the installation | a crash between any two phases resumes or rolls back |
| Portable migration, `application/data_migration/import_service.rs`, `services/portable_migration/` | activation journal, active / staged / rollback files, verified backup, receipt | a crash between any two renames or journal writes; the user's database is never lost, a decided switch is never taken back |
| Secrets rekey | journal | never a state with two keys in use |
| Model-mapping glob | none | the matcher agrees with its definition |
| Protocol streaming, outbound client, observability, updater, desktop UI | caches and views | no protocol state shared with the above |

### How the parts meet

* **Executor and store.** Admission, boundary and terminal are separate transactions. Between
  them the executor holds only volatile state (attempt index, exclusions, budget), so a crash
  leaves a pending slot and maybe a lease.
* **Executor and writer.** Terminals go through the writer's queue; the writer tries a bounded
  number of times and then retains the terminal in the backlog and marks the gate.
* **Reaper.** One tick replays the backlog, runs the health check, clears the gates, and only
  then reaps expired leases. An error in an earlier step ends the tick.
* **Requests with each other.** They share the capacity registry, the runtime revision (each
  circuit denial advances it and makes others replan), and the routing generation.
* **Generations and requests.** A request plans under the marker's (generation, fence revision)
  and is admitted only under the same pair. A fence denies every admission until the runner
  has activated or aborted; `RouteExecution` has the request's side of this,
  `RoutingGeneration` the runner's and the store's.
* **Saves and the runner.** Both take the generation lane; a save whose change needs no new
  component is activated at once, any other one is left to the runner's next tick.
* **Maintenance and operations.** An import drains the operation registry, stops the proxy and
  closes the persistence runtime before it publishes its journal (`OperationRegistry` has the
  drain, `PortableActivation` takes over at the freeze).
* **Startup.** The recovery of an import runs before a runtime is opened. Pending slots of unfinished requests are terminalised by the same reducer that
  applies results.

`PROJECT.json` lists under `hazards` the lines at which this goes wrong in ways a test would
hardly reach, each with the properties that would notice.

## 2. Modules and how they correspond to the code

| Module | Extends | Models |
|---|---|---|
| `CircuitReducer` | | the reducer over one durable row, as operators |
| `CircuitContract` | | what the circuit of a key promises to those who route over it |
| `StationKeyCircuit` | `CircuitReducer`, instantiates `CircuitContract` | rows, ledger, events, requests, crashes, reaper, recovery |
| `StationKeyCircuitProofs` | `StationKeyCircuit` | theorems: leases, slots, finalized requests, the refinement |
| `CircuitHistoryProofs` | `StationKeyCircuitProofs` | theorems: the exact counts, and what a recovery takes |
| `CompositeCapacity` | | one step of the capacity registry, as operators |
| `RouteExecution` | `CompositeCapacity` | the attempt loop of concurrent requests over the registry |
| `RouteExecutionProofs` | `RouteExecution` | theorems |
| `CircuitPersistence` | | gate, rows, backlog, writer and reaper during outages |
| `CircuitPersistenceProofs` | `CircuitPersistence` | theorems |
| `RoutingGeneration` | | registry, both activation lanes, requests, evidence, restarts |
| `RoutingGenerationProofs` | `RoutingGeneration` | theorems: registry, lanes and attempts |
| `RoutingTypingProofs` | `RoutingGenerationProofs` | theorems: types, and what an activation has ingested |
| `OperationRegistry` | | slots, counters, bodies, cancels and the drain |
| `OperationRegistryProofs` | `OperationRegistry` | theorems |
| `ImportContract` | | what an import promises: an atomic switch of databases |
| `PortableActivation` | instantiates `ImportContract` | preparation, journal, files, recovery of every start |
| `PortableActivationProofs` | `PortableActivation` | theorems, the refinement among them |
| `MC*` | the module they name | constants of the runs |

Definitions whose name ends in a description of an error (`LeasedRowSameRevision`,
`PersistTerminalUncrossed`, `FitsShared`, `TryNextKeyKeepingIt`, ...) are variants with one
plausible mistake each. Nothing uses them; they exist so that every property can be shown to
notice a mistake of the code it is about (`mutants` in `PROJECT.json`).

### StationKeyCircuit

Each action is one SQLite write transaction plus the volatile step of the caller that issued
it. Writers are serialised by the runtime, so a transaction is atomic.

| Action | Code |
|---|---|
| `Begin` | request log row, attempt budget from the active policy |
| `Admit`, `AdmitDenied`, `AdmitRejected` | circuit admission and slot insertion in one transaction: granted, denied by the circuit, or rolled back (clock past the deadline, attempt id already taken) |
| `AdmitLostAck` | the transaction commits and the caller sees an error |
| `AdmitUnavailable` | the persistence gate, a storage error before the commit or the late-admission fence: nothing changes but the exclusions of the request |
| `CrossBoundary`, `CrossLost` | the boundary mark in ledger and circuit; the mark commits and the caller never learns it |
| `FailBeforeOutbound` | target resolution fails, the deadline passes or the boundary is refused |
| `LastTerminal`, `RetryTerminal`, `TerminalLost` | a terminal is persisted and ends the request or starts the next attempt; the terminal is dropped by the writer |
| `GiveUp`, `Finalize` | no candidate, time or stable plan is left; clusters finalized and request log closed, unless a slot is still pending |
| `Recover` | reconciliation of requests still in progress: at startup, and when start or restart is called on a running proxy |
| `Reap` | the reaper's transaction over expired leases |
| `SetPolicy`, `Crash` | a policy save; the process dies between any two transactions |

Abstractions: a key stands for a station key with its lifecycle revision; the wall clock of a
transaction is any instant of a bounded range and may run backwards, the durable watermark is
the running maximum; a terminal is one of five outcomes that the reducer and the ledger tell
apart; diagnostics columns are left out. `hist` is a history variable: the attempts that make
up the streak, the recovery count and the reopen level of a key. No action reads it. Milliseconds
are instants of the bounded clock; the doubling of the cooldown and its cap are kept.

`CircuitContract` knows of each key only whether it is closed, cooling down, half-open without
a probe or held by one, and of a probe whether it was sent, when it expires and how many
successes were asked for when it was granted. The refinement mapping (`View`) reads this off
the row alone: a key without a row is closed, and streaks, levels, revisions, policies, the
ledger and the executors are not visible. The reaper may move several keys in one step, so the
contract takes a step on every key at once.

### RouteExecution

One action per step of the loop between two awaits or two critical sections of the registry.
`phase` is the program point: `loading` (snapshots), `planning` and `scanning` (choose a key),
`admitting` (durable circuit), `fenced` (waiting for a generation transition), `attempting`,
`streaming`, `done`.

| Action | Code |
|---|---|
| `Start` | entry of the generation loop, attempt limit from budget and hard cap |
| `RuntimeReplan`, `ReplanLimit`, `SnapshotRebuild`, `ConfigUnstable` | replans after the runtime revision moved or a candidate drifted, and the guard that ends them |
| `NoRoute`, `BeginScan`, `Acquire`, `Miss`, `CapacityExhausted` | one planned order, the capacity pass over it, the rollback of a partial acquisition |
| `Load`, `FenceDenied`, `FenceOver`, `FenceTimeout` | fresh snapshots; a fence and the wait behind it, with the lease in hand |
| `CircuitDenies`, `CircuitAllows` | the answer of the circuit; a denial excludes the key and advances the runtime revision |
| `RetrySameKey`, `TryNextKey`, `FailAndStop`, `Abandon`, `Succeed`, `BodyEnds` | end of an attempt, retry decision, hand-over of the leases to the body |
| `GiveUp` | the deadline passes, the runtime is at capacity, a repository call fails or the client goes away |
| `RuntimeChanged`, `BeginFence`, `EndFence` | other parts of the process |

Abstractions: a snapshot is the ranking of its eligible keys and the set of drifted ones; the
planner is deterministic in the snapshot, so a ranking is chosen when a snapshot is loaded or
a key is excluded. The circuit may answer anything. The runtime revision is kept as "moved
since this coordinator looked". A failure is any combination of sent / acceptance / replay
safety / disposition the classifier can return. Limits are one constant per constraint; in the
code they come from the snapshot.

### CircuitPersistence

Every database transaction and every critical section of the gate and of the backlog is one
step; between them the lifecycle writer, the executors and the reaper interleave. A
transaction fails exactly when the database is down.

| Action | Code |
|---|---|
| `AskGate`, `Admit`, `BoundaryFails`, `DenyMark`, `DenyRow` | the gate before admission; an admission or boundary that fails marks process gate and durable row |
| `EndAttempt`, `TakeCommand`, `WriteSucceeds`, `WriteFails` | a terminal enters the queue; the writer's tries |
| `MarkFailure`, `Retain`, `RowFailure` | after the last try: process gate, backlog, durable row, in this order |
| `FinishRequest`, `ProjectOutbox` | the request terminal, directly or through the outbox |
| `ReplayBegins`, `ReplayOne`, `ReplayFails`, `ReplayRefused`, `ReadRevision`, `Check`, `Clear`, `TickEnds` | one tick of the reaper |
| `GoDown`, `ComeUp`, `Restart` | outage of the database; the process restarts and loses gate and backlog |

Abstractions: the gate revision is only compared with the value the check read, so the model
keeps the outcome (`unmoved`); each request has one attempt; what a terminal does to the
circuit row is `StationKeyCircuit`. The variant `CommitOutcomeUnknown` of the store's errors
is never constructed in the code and has no counterpart. The ledger accepts a second terminal
of a finalized request and refuses one of an open request: the duplicate check compares
`ingested_at_ms`, which every try stamps anew.

### RoutingGeneration

Every action is one SQLite transaction or one step of the holder of the generation lane.

| Action | Code |
|---|---|
| `SavePolicy` (`SaveUnchanged`, `SaveKnown`, `SaveNew`), `SaveReturns` | `stage_user_policy` under the mutation gate; the save returns without the fast lane |
| `FastStart`, `FastRegister`, `FastActivate`, `FastGivesUp` | the fast lane of a policy-only change: build input, registration and qualification, fence and switch in one transaction, conflict |
| `RunnerStart`, `RunnerRegister`, `RunnerQualify`, `RunnerBegin` | one tick of the runner up to the fence |
| `RunnerWaits`, `RunnerDrained`, `RunnerReplace`, `RunnerRetarget`, `RunnerActivate` | the fence drains, the tail is rebuilt into a replacement, the fence moves to it, the switch |
| `RunnerAborts`, `GateRejects`, `RunnerTickEnds` | timeout, newer policy, lagging projection; a tick that has nothing to do or meets a conflict |
| `Plan`, `Admit`, `Deny`, `Finish` | the generation guard of an attempt and what its terminal records |
| `Ingest`, `EditProfile`, `FenceExpires`, `Restart` | probes and reaper, edits of the source profile, time, the process |

Abstractions: a policy is the four parts that `RoutingPolicyImpact` compares; a component is
what its identity hash is computed from (policy revision, watermark, profile, evaluation time);
the log keeps for each ingestion whether it is an observation of the active or of the next
generation or a circuit event. `stamp` stands for the evaluation time, which a rebuild takes
from an unactivated component of the same revision and watermark. The refusal of
`replace_live_circuit_state` while a half-open lease is held is left out: the activation has
found no pending admitted slot in the same transaction, and a lease belongs to such a slot
(`StationKeyCircuit!LeaseOwnership`, a theorem), so it never refuses.

### OperationRegistry

Every critical section of the registry mutex is one step. `task` is the start and the body of
an operation, `slot` what the registry says of it; the two are related by `SlotsMatchTasks`.

| Action | Code |
|---|---|
| `StartBegins`, `Admit`, `Refuse`, `StoreJoin` | `start`: the check before the mutex, slot and spawn, the refusals, the join handle stored afterwards |
| `BodyEnds`, `BodyPanics`, `EnterCommitBarrier` | the spawned task: result, deadline, unwinding; the barrier |
| `CancelBegins`, `CancelReturns`, `CancelTimesOut` | `cancel`: the critical section, the join, the timeout |
| `DrainCloses`, `DrainLists`, `DrainCancels`, `DrainJoins`, `DrainTimesOut`, `DrainReports` | `stop_admission_and_cancel_except` |

One assumption concerns the callers: a body reports `Cancelled` only when its token was
cancelled. `operation.rs` takes any result a body returns, and `finish` looks at the commit
barrier only for an operation that was asked to stop, so `CommitNeverDenied` rests on it.

### PortableActivation

Every durable effect is one step: a journal publication, a rename, a receipt, the removal of
the journal. `at` is what the process does.

| Action | Code |
|---|---|
| `PrepareTarget`, `PrepareBackup`, `Freeze`, `PublishPrepared`, `PrepareFails`, `PublishFails` | preparation in the running process |
| `StartUp`, `Plan`, `PlanUnreadable`, `StartError` | a start: journal read, `plan_recovery`, files that cannot be read, key or journal errors |
| `StartReplacement`, `Swap`, `SwapSecond`, `SwapFails`, `CommitReplacement`, `ValidateActive` | the replacement, as one system call or two renames |
| `StartRollback`, `Unswap`, `UnswapSecond`, `FinishRollback` | `rollback_or_manual` |
| `Compose`, `ComposeFails`, `WriteReceipt`, `CompleteJournal`, `RemoveJournal` | the rest of the start and `complete_portable_activation` |
| `Write`, `Exit`, `Crash`, `LoseBackup` | the runtime, the end of a process, the user |

A content is the import it came from and the number of writes since; a file identity is equal
exactly when the content is. Staged and rollback paths carry the operation id, so a new import
finds them empty. `ImportContract` knows one database, the candidate, how far the import is,
whether a runtime is open, and what the receipt told. It lets an import be given up at every
stage while no runtime is open, so it does not exclude manual recovery after a decided switch
(section 4). The refinement mapping takes for its
database the active file, or the rollback file between two renames (`Found`), for its stage the
journal's phase, with `switched` read off the files (`Stage`), and for `open` the states in
which a runtime exists (`Opened`).

## 3. Runs

| Run | Instance | Distinct states | Checks |
|---|---|---|---|
| `circuit` | 1 key, 2 requests with a retry each, 2 policies, 4 instants | 385,083 | `TypeOK`, `LeaseOwnership`, `PendingProbeAccounted`, `StreakExact`, `RecoveryExact`, `ReopenLevelExact`, `KeepsContract`, `RecoveryEarned`, `LeaseRevisionFresh`, `FinalizedFrozen` |
| `circuit_two_keys` | 2 keys, 2 requests, 3 instants, fair reaper | 75,304 | `CircuitInv`, `LeaseReleased` |
| `route` | 2 requests, 2 keys of 2 stations; one slot on the station of the first key and on the second key, two elsewhere | 500,996 | `TypeOK`, `LeasePhases`, `CapacityExact`, `CapacityBound` |
| `route_request` | 1 request, all rankings of 2 keys, all drifts, fair steps | 219,352 | `RouteInv`, `SafeReplay`, `NoSecondChance`, `RequestEnds` |
| `persistence` | 2 attempts on 2 keys, backlog of 1, 2 tries, 2 faults | 360,943 | `TerminalKept`, `PersistenceInv`, `FailureOutlivesCheck`, `RecoveryCompletes` |
| `generation` | 3 policies, 2 profiles, 1 attempt, 2 policy revisions, 3 generations, 1 log entry, 2 fences, 1 fault | 212,319 | `TypeOK`, `RegistryConsistent`, `NoAttemptSpansCutover`, `ActivationComplete`, `PolicyNeverMovesBack`, `FenceLifts`, `NewestPolicyActivated` |
| `operations` | 3 operations, 2 under one key, 2 at a time, 1 terminal kept, 1 caller, 1 drain | 753,647 | `RegistryInv`, `BodiesBounded`, `OutcomeFinal`, `DrainQuiescent`, `CommitNeverDenied` |
| `activation` | 2 imports, the second unsound, 2 writes, 3 faults of 6 kinds, both ways to replace a file | 5,766 | `ActivationInv`, `DatabaseSurvives`, `ImplementsContract`, `StartupLoopEnds` |
| `circuit_late_result`, `persistence_poison`, `generation_last_save`, `activation_files` | | violated | one statement of a document or comment each, see the findings |

Why the bounds are enough for the cases that matter:

* *circuit*: two requests are enough for one to lose its lease to the reaper while the other
  takes the next one; a retry each lets one request hit the same key twice, which is what
  could forge a recovery or count a failure twice. The two policies differ in both thresholds
  and the wait, so mixing them shows. Four instants hold an open period, its end, a lease
  deadline and an instant after it.
* *circuit_two_keys*: a request leaves its slot on one key while the reaper works on both; the
  first failure opens a key, and every deadline lies within the clock.
* *route*: the first key is limited by its station and the second by itself, so an acquisition
  fails at the station, with one counter to give back, and at the key, with two. Two requests
  cannot fill the two slots of the process; for that limit, and for all others, the theorems
  `RegistryExact` and `RegistryBounded` stand. `MaxReplans` is 1 so that guard and replan both
  happen.
* *route_request*: one request, because the others are represented by a runtime revision that
  moves at will and a circuit that answers anything; the hard cap is the code's 40.
* *persistence*: a backlog of one and two attempts overflow it; two tries leave the gap in
  which the reaper replays; two faults are an outage and a restart, or two outages.
* *generation*: the three policies are a base, one that changes only the weights (fast lane)
  and one that needs both components rebuilt. Three rows are an active one, a fenced one and
  its replacement; two fences are one that is aborted and one that succeeds, or two
  activations; one log entry is a tail. One fault is a restart, a rejected gate or a profile
  edit at any point. The theorems carry the five safety properties to every bound.
* *operations*: two operations contend for one key while a third takes the other place; one
  kept terminal makes every second one evict. Operations that differ in nothing are symmetric.
  The drain ends for good, so the run may stop.
* *activation*: the second import meets the staged and rollback files, the receipt and the
  closed registry of the first; three faults are a crash in the replacement, one in the
  rollback, and one in the completion.

The symmetric runs check invariants and action properties only; liveness is checked without
symmetry. No run uses a state constraint: the bounds are guards (`MaxIndex`, `MaxTime`,
`MaxFence`, `MaxFaults`, `MaxPolicies`, `MaxGens`, `MaxLog`, `MaxFences`, `MaxImports`,
`MaxWrites`) or constants of the code.

## 4. Findings, further divergences and observations

| Run | What the code does | What it is compared with |
|---|---|---|
| `circuit_late_result` | The closed branch of `finish` looks at neither lease nor circuit cycle, so the late terminal of a reaped attempt counts once the key has recovered. | `docs/specs/INTELLIGENT_ROUTING_SCORING_CIRCUIT_REDESIGN_SPEC.md:483`: an old event may not raise the failure count again |
| `persistence_poison` | A terminal that the reaper replayed between two tries of the writer is retained again; if the request terminal is not written either, every later replay is refused and each tick then fails before the health check and the reaping, for all keys, until the process restarts. | `background_tasks/station_key_circuit_reaper.rs:67`: "A transient database failure must not stop future recovery" |
| `generation_last_save` | A save that takes an unactivated edit back returns the older row with that content; the abandoned edit stays the newest revision and is activated. | `persistence/stores/routing_policy_v3_stage_upgrade.rs:180`: "This allows a user to make consecutive edits" |
| `activation_files` | After a crash between the replacement of the database and the `ReplacementCommitted` phase, every start validates the new database and then fails to publish `ActivatedValidated`, because the journal names no rollback file. | `docs/proposals/CROSS_DEVICE_ENCRYPTED_MIGRATION_SPEC.md:892`: active matches the new hash and rollback the old one: go on with validating |

**Further divergences.** Three statements of the documents are defined in the modules and false
of the code; no configuration is kept for them:

* `StationKeyCircuit!StreakIsAttributable` (violated on the instance of `circuit`): a body that
  the client dropped raises the failure streak of the key, although the ledger excludes it;
  the specification says in line 115 that downstream cancellation is not disguised as a key
  failure.
* `StationKeyCircuit!LiveSlotPending` (the same instance): start or restart of a running proxy
  reconciles the slots of requests that are on the wire in the same process;
  `persistence/stores/routing_attempt_store.rs:363` says "left pending by a previous process".
* `RouteExecution!DistinctKeyBudget` (the instance of `route_request` with `MaxKeys = 1` and an
  idempotent request): a same-key retry drops its lease, is planned afresh and can move to
  another key without being counted; the specification says in line 567 that at most
  `1 + maxRetryCount` distinct keys are tried.

**Observations** made while modelling, for which no document says otherwise or no property is
stated:

* Generations. A row that was marked failed and is wanted again has the same identity, so the
  registration conflicts on every tick until new evidence or a new policy changes it. A profile
  edit after a build with unchanged watermarks makes the verification of that row fail on
  every tick until something is ingested; `NewestPolicyActivated` therefore presumes that the
  profile stays as it is. A lost terminal makes the fence wait its thirty seconds, abort, and
  go up again on the next tick.
* Operations. A body that panics keeps its slot and its places in both counters until somebody
  cancels it. A second cancel never waits, because the first one took the join handle. The
  admission that a drain closed is never opened again, so after a failed freeze every start is
  refused until the restart. Garbage collection of terminals has no caller outside the tests.
* Import. A crash between the `Completed` phase and the removal of the journal makes every
  later start plan a completion that `complete_portable_activation` refuses. A crash after the
  runtime wrote to the switched database changes its hash, and the next start asks for manual
  recovery although `docs/proposals/CROSS_DEVICE_ENCRYPTED_MIGRATION_SPEC.md:845` lets it
  retry. A file that cannot be read once has the same lasting effect. The verified backup
  predates what is written until the freeze.

## 5. Fairness

* `StationKeyCircuit!FairSpec`: weak fairness of the reaper alone, at the last instant of the
  clock. The reaper is a supervised task with a fixed interval and time passes every deadline.
  Executors, finalization and recovery may stop for ever. This presumes that replay and
  health check, which stand before the reaping in the same tick, get through;
  `persistence_poison` shows when they do not.
* `RouteExecution!FairSpec`: weak fairness of the steps of each request: a task that can run
  is polled, storage calls return, attempts end by transport timeouts and bodies by the idle
  timeout. The request deadline is relied on only behind a fence (`FenceTimeout`), where the
  code waits under it. Client disconnects, other requests, and fences are not fair.
* `RoutingGeneration!FairSpec`: weak fairness of the lane's holder and of the fence timeout. The
  runner is a supervised loop, each of its steps is followed by the next one, and time passes.
  No attempt is assumed to finish, no save and no probe to happen.
* `PortableActivation!FairSpec`: weak fairness of the recovery and the completion of a start,
  which is one thread that waits for nobody. No process is assumed to be started again.
* `CircuitPersistence!FairSpec`: weak fairness of the reaper, of the writer, and of the end of
  an attempt that was sent or failed. Admissions, outbox projection, outages and recovery of
  the database are not fair; `RecoveryCompletes` and `RecoveryResumes` presuppose in their
  statement that the database stays up.

## 6. Proofs

All theorems hold for every value of the constants that satisfies the named `ASSUME`s
(finite sets where counting is involved, bounds that are naturals, thresholds that are
positive, distinguished values outside the sets they are distinguished from). TLC evaluates
the same assumptions in every run.

**StationKeyCircuitProofs.** `CircuitInvariance` proves `Spec => []CircuitInv`.
`LeaseOwnership` alone is not inductive: a terminal of one attempt could release the lease of
another unless slots name existing rows and lease revisions are bounded by the row's revision
(`SlotsValid`), a request could have two pending slots after a crash (`OnePending`), and a
finalized request could still be pending (`FinalizedSettled`). With those, each transaction is
treated once: lemmas about the reducer say what `admit`, `finish` and `reap` do to the lease of
a row, and the action proofs combine them with the ledger. From the invariant follow
`TypeCorrectness`, `LeaseOwnershipHolds`, `PendingProbesAccounted`, and the action properties
`FinalizedFrozenHolds` (a finalized request has no pending slot, and only pending slots are
written) and `LeaseRevisionFreshHolds` (a grant increments the revision that bounds all
earlier ones). `CircuitKeepsContract` proves `Spec => KeepsContract`. One lemma per operator of
the reducer says which step of the contract its transitions are (`AdmitView`, `FinishView`,
`ReapView`, `BoundaryView`); one lemma per transaction lifts it to all keys and the clock. That
a counted result comes from a sent probe is `LeaseOwnership` (ledger and row agree on the
boundary), that no attempt holds two keys is `LeaseOwnership` of the next state, and the bound
of the cooldown is the cap that `Cooldown` takes from the configuration it opens under.

**CircuitHistoryProofs.** `HistoryInvariance` proves `Spec => [](CircuitInv /\ HistoryInv)`.
The three counts are sizes of the sets in `hist`, and none of them is inductive alone. `Counted`
adds that the sets are finite and that each counter is zero in the states in which the reducer
starts it afresh. A recovery counts requests, so two probes of one request must not both be in
the set: `SuccessIsLast` says that a success ends its request and leaves no slot pending. A
reopening must add a new element: `OpenersSpent` says that an attempt that opened the circuit
of a key holds no lease on it and cannot get one, because its slot exists, its request has
excluded the key, or its executor is gone; the last two are needed for an admission that opens
the circuit and leaves no slot. From it follow `StreakIsExact`, `RecoveryIsExact`,
`ReopenLevelIsExact` and the action property `RecoveryIsEarned`.

**RouteExecutionProofs.** `RouteInvariance` proves `Spec => []RouteInv`. Exactness of the
counters is an argument about cardinalities: an acquisition adds one holder to each of three
constraints, a release removes one, and the prefix that a miss takes is given back.
`LeasePhases` says at which program points a lease exists, which makes each release happen
once. `ReplayClosed` strengthens `SafeReplay`: a possible acceptance of a request without
idempotency key takes it out of the loop. `ExclusionsFinal` ties probed keys to the exclusions
that survive replans. Corollaries: `RouteTypeCorrectness`, `NoStrandedLease`, `RegistryExact`,
`RegistryBounded`, `ReplayIsAlwaysSafe`, `NoSecondChanceHolds`.

**CircuitPersistenceProofs.** `PersistenceInvariance` proves `Spec => []PersistenceInv`:
`TerminalKept` needs that the writer retains a record before it moves on to the durable row,
and `FailureOutlivesCheck` that a gate revision that has not moved means no key was marked
since the check. Corollaries: `PersistenceTypeCorrectness`,
`TerminalsAreKept`, `ChecksNeverHideFailures`.

**RoutingGenerationProofs.** `Invariance` proves the inductive invariant of registry, lane and
attempts. `RegistryConsistent` is not inductive: an activation could take a row that is no
longer there, or switch to an older policy, unless what the holder of the lane has read is
still true. `LaneOK` says for each program point of the lane what holds of its target and its
build input (a fence that has drained is no older than the active policy), `LiveOK` that there
is a live policy, `RowsOK` and `PointersOK` that revisions and indices stay within the tables,
`AttemptsOK` which generation a pending attempt names. `AttemptsKeepTheirCircuit` follows
because an admission needs the marker's own pair, a fast activation shares the circuit component
and a fenced one waits for the drain; `ActivePolicyMovesForward` because either lane checks,
under the lane's lock, that no newer policy is live than the one it switches to.

**RoutingTypingProofs.** `TypedInvariance` proves `Spec => [](IInv /\ TInv)`. `TypeOK` bounds
the tables (`MaxPolicies`, `MaxGens`, `MaxFences`), and is not inductive: the lane writes later
what it read earlier. `TInv` therefore types the lane's build input as well (`LaneTyped`: its
policy revision exists, its watermarks are no longer than the log, a lane that has decided to
fence has a fence left), keeps the stamp of a component within the rows up to its own
(`GensTyped`), and says that a fenced row was qualified against the active one
(`FencedQualified`). `RegistryIsTyped` is `TypeOK`. `ActivationLosesNothing` follows from
`FencedQualified`, from `NoTail` in the transaction that switches, and from watermarks within
the log. The bounds need one assumption that the code gives: the schema upgrade has staged the
first policy revision, so `MaxPolicies` is not zero.

**OperationRegistryProofs.** `Invariance` proves `RegistryInv` together with
`CommitNeverDenied` and what the drain still has to cover (`DrainCovers`). Exactness of the counters is a cardinality
argument, one element per start and finish. `OutcomeIsFinal` goes through the steps with that
invariant: finish changes a second slot only when `terminal_order` is full, and then its head,
which `OrderTerminal` knows to be terminal; the commit barrier belongs to a body that
executes, whose slot `SlotsMatchTasks` knows to be live. `DrainIsQuiescent` needs that nothing becomes alive
once admission is closed, and that what was alive when the drain listed is either still to do,
waited for, terminal or reported.

**PortableActivationProofs.** `Invariance` proves `ActivationInv`: `DatabaseSurvives` alone is
not inductive, since a rename could move a file that is not the one the journal names. `InHand`
says what the process holds at each program point, `JournalTrue` where the databases are in
each phase (before, after or between the renames), `Known` that an empty active path is
covered by the rollback file. `Refinement` proves `Spec => ImplementsContract`: the initial
state maps to an initial state, and each action maps to one action of the contract or to a
stutter, e.g. `Swap` at once to `Switch`, the first of two renames to a stutter and the second
to `Switch`, `FinishRollback` to `Decide`.

**Only model-checked.** Liveness (`LeaseReleased`, `RequestEnds`, `RecoveryCompletes`,
`FenceLifts`, `NewestPolicyActivated`, `StartupLoopEnds`): TLAPS does not prove liveness under
fairness here. Every invariant and every action property of a passing run has a theorem.

## 7. What is not modelled

* The leases of the aggregated `/models` request and the waiter queue of the registry (the
  proxy configures no waiters, so it is unreachable).
* Scores, tiers, model variants and fallback ranks: they decide which ranking is used, and
  every ranking is admitted. Floating point is out of TLC's reach.
* The classification tables of failures: every classification is admitted.
* Read-side snapshots of the gate (key pool and status queries) and all diagnostics queries.
* Of generations: the rollback of an activation (no caller), the conversion of open and
  half-open circuit rows at the switch, the publication of transport policies, and what the
  quality rebuild computes.
* Of operations: progress, garbage collection and detach (no callers outside the tests), the
  blocking executor and the task supervisor.
* Of imports: archive format and encryption, the catalogue of tables, the merge of the rows,
  and the file identity beyond content. An error while the target key is loaded is one of the
  start faults.
* Collectors, station drivers and the catalogues of SQL migrations are by far the largest part
  of the code: parsers of foreign formats, HTTP sessions and table definitions, with little
  state that two actors share.
* Byte-level parsing, usage extraction, SSE rewriting, logging, network I/O, the updater and
  the user interface.
* The components of section 1 that the plan below takes up.

## 8. Plan

Theorems to come: contracts for the other components on the pattern of `CircuitContract` (what
an attempt loop promises to its client, what a drained registry promises to maintenance), and
the safety halves of the liveness properties (the variants that decrease on the way).

Modules to come, the most important first:

1. `LifecycleWriter`: reservations, the sticky unhealthy state, drain at shutdown; with it
   `RequestTerminalOutbox`: claims and leases, a poison record.
2. `UpgradeJournal`: upgrade, relocation and rekey as journals with a crash between any two
   phases, on the pattern of `PortableActivation`.
3. `AlertIncident`, `CollectionCoordinator`, `ChannelMonitor`: incident life cycle and
   delivery leases, single flight, due selection.
4. Pure algorithms: the model-mapping glob against a reference definition.

Runs that ask the same question of a larger system will replace smaller ones, as
`circuit_two_keys` has taken over the liveness of the leases.

## 9. Running it

```
tlc -workers 2 -config MCCircuit.cfg MCCircuit
tlapm StationKeyCircuitProofs.tla
```

Each `runs` entry of `PROJECT.json` names its module and configuration.
