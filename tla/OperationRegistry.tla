------------------------- MODULE OperationRegistry -------------------------
(***************************************************************************)
(* The registry of long user operations (background_tasks/operation.rs):   *)
(* admission under a global limit and a limit per concurrency key, the     *)
(* operation bodies with their deadline and commit barrier, cancellation   *)
(* by command handlers, and the drain that data maintenance makes before   *)
(* an import is activated (application/data_maintenance.rs).               *)
(*                                                                         *)
(* Every critical section of the registry mutex is one step.  Between two  *)
(* of them other callers run: a start that has passed its first check, a   *)
(* cancel that waits for the join handle it took, a body that ends.        *)
(*                                                                         *)
(* Abstractions.  An operation identifier is allocated once, so a model    *)
(* value stands for it, with the key and the cancellation policy of its    *)
(* request.  Progress messages are left out.  The garbage collection and   *)
(* detach have no caller outside the tests and are left out.               *)
(***************************************************************************)
EXTENDS Naturals, Sequences, FiniteSets

CONSTANTS
    Operations,    \* operation identifiers
    Keys,          \* concurrency keys
    NoKey,         \* the request names no concurrency key
    KeyOf,         \* the key of an operation
    Cooperative,   \* operations whose policy hands the token to the body
    Callers,       \* command handlers that may cancel
    NoOperation,   \* no operation is excluded from the drain
    MaxRunning,    \* max_running_global
    MaxPerKey,     \* max_running_per_concurrency_key
    TerminalMax    \* terminal_max_entries

ASSUME OperationsAssumption ==
    /\ IsFiniteSet(Operations)
    /\ NoOperation \notin Operations
    /\ NoKey \notin Keys
    /\ KeyOf \in [Operations -> Keys \cup {NoKey}]
    /\ Cooperative \subseteq Operations
ASSUME LimitsAssumption ==
    {MaxRunning, MaxPerKey, TerminalMax} \subseteq Nat \ {0}

VARIABLES
    closed,    \* admission_closed
    task,      \* the start of an operation and the life of its body
    slot,      \* the slots of the registry
    running,   \* running_count
    perKey,    \* running_by_concurrency_key
    order,     \* terminal_order
    handle,    \* where the join handle of an operation is
    call,      \* what a command handler waits for
    drain      \* where stop_admission_and_cancel_except stands

vars == <<closed, task, slot, running, perKey, order, handle, call, drain>>

Terminals == {"completed", "failed", "cancelled", "timed_out", "result_unknown"}
Alive == {"running", "stopping"}

Absent == [state |-> "absent", asked |-> FALSE, barrier |-> FALSE]
Live == {o \in Operations : slot[o].state \in Alive}
LiveWith(k) == {o \in Live : KeyOf[o] = k}

IdleDrain == [at |-> "none", todo |-> {}, op |-> NoOperation,
              excluded |-> NoOperation, failed |-> {}]

TypeOK ==
    /\ closed \in BOOLEAN
    /\ task \in [Operations ->
          {"new", "starting", "refused", "running", "ended", "panicked"}]
    /\ slot \in [Operations -> [state : Alive \cup Terminals \cup {"absent"},
                                asked : BOOLEAN, barrier : BOOLEAN]]
    /\ running \in Nat
    /\ perKey \in [Keys -> Nat]
    /\ order \in Seq(Operations)
    /\ handle \in [Operations -> {"none", "starter", "slot", "waiter", "dropped"}]
    /\ call \in [Callers -> Operations \cup {NoOperation}]
    /\ drain \in [at : {"none", "closed", "cancelling", "waiting", "done"},
                  todo : SUBSET Operations, op : Operations \cup {NoOperation},
                  excluded : Operations \cup {NoOperation},
                  failed : SUBSET Operations]

Init ==
    /\ closed = FALSE
    /\ task = [o \in Operations |-> "new"]
    /\ slot = [o \in Operations |-> Absent]
    /\ running = 0
    /\ perKey = [k \in Keys |-> 0]
    /\ order = <<>>
    /\ handle = [o \in Operations |-> "none"]
    /\ call = [c \in Callers |-> NoOperation]
    /\ drain = IdleDrain

-----------------------------------------------------------------------------
(* start *)

\* The first look at admission_closed, before the mutex is taken.
StartBegins(o) ==
    /\ task[o] = "new"
    /\ ~closed
    /\ task' = [task EXCEPT ![o] = "starting"]
    /\ UNCHANGED <<closed, slot, running, perKey, order, handle, call, drain>>

KeyFree(o) == KeyOf[o] \in Keys => perKey[KeyOf[o]] < MaxPerKey
\* Mutant: admission_closed is not looked at again under the mutex.
AdmissibleUnchecked(o) == running < MaxRunning /\ KeyFree(o)

Admissible(o) == ~closed /\ running < MaxRunning /\ KeyFree(o)

\* The critical section of start; the body is spawned right after it.
Admit(o) ==
    /\ task[o] = "starting"
    /\ Admissible(o)
    /\ task' = [task EXCEPT ![o] = "running"]
    /\ slot' = [slot EXCEPT ![o] = [Absent EXCEPT !.state = "running"]]
    /\ running' = running + 1
    /\ perKey' = [k \in Keys |-> IF k = KeyOf[o] THEN perKey[k] + 1 ELSE perKey[k]]
    /\ handle' = [handle EXCEPT ![o] = "starter"]
    /\ UNCHANGED <<closed, order, call, drain>>

\* AdmissionClosed, Overloaded or Conflict.
Refuse(o) ==
    /\ task[o] = "starting"
    /\ ~Admissible(o)
    /\ task' = [task EXCEPT ![o] = "refused"]
    /\ UNCHANGED <<closed, slot, running, perKey, order, handle, call, drain>>

\* The handle is stored in a second critical section, when the operation may
\* have been cancelled, finished or evicted already.
StoreJoin(o) ==
    /\ handle[o] = "starter"
    /\ handle' = [handle EXCEPT ![o] =
                    IF slot[o].state = "absent" THEN "dropped" ELSE "slot"]
    /\ UNCHANGED <<closed, task, slot, running, perKey, order, call, drain>>

-----------------------------------------------------------------------------
(* finish *)

\* Mutant: the commit barrier is not asked for.
RecordedPlain(o, t) ==
    IF slot[o].asked /\ t = "timed_out" THEN "result_unknown" ELSE t

\* What a cancelled operation is recorded as.
Recorded(o, t) ==
    IF slot[o].asked
         /\ (t = "timed_out" \/ (t = "cancelled" /\ slot[o].barrier))
    THEN "result_unknown" ELSE t

\* The oldest terminal is evicted when terminal_order is full.
Evicted(o) == IF Len(order) < TerminalMax THEN {} ELSE {Head(Append(order, o))}

FinishedSlot(o, t) ==
    [p \in Operations |->
       IF p \in Evicted(o) THEN Absent
       ELSE IF p = o THEN [slot[o] EXCEPT !.state = Recorded(o, t)]
       ELSE slot[p]]

\* Mutant: the concurrency key is not released.
FinishKeepingKey(o, t) ==
    IF slot[o].state \in Alive
    THEN /\ slot' = FinishedSlot(o, t)
         /\ running' = running - 1
         /\ order' = IF Evicted(o) = {} THEN Append(order, o)
                                        ELSE Tail(Append(order, o))
         /\ UNCHANGED perKey
    ELSE UNCHANGED <<slot, running, perKey, order>>

Finish(o, t) ==
    IF slot[o].state \in Alive
    THEN /\ slot' = FinishedSlot(o, t)
         /\ running' = running - 1
         /\ perKey' = [k \in Keys |->
                         IF k = KeyOf[o] THEN perKey[k] - 1 ELSE perKey[k]]
         /\ order' = IF Evicted(o) = {} THEN Append(order, o)
                                        ELSE Tail(Append(order, o))
    ELSE UNCHANGED <<slot, running, perKey, order>>

\* The body returns before its deadline, or the deadline ends it.  That it
\* reports Cancelled only when its token was cancelled is an assumption about
\* the bodies that the callers of start pass in; operation.rs does not enforce
\* it, and CommitNeverDenied rests on it.
BodyEnds(o, t) ==
    /\ task[o] = "running"
    /\ t = "cancelled" => slot[o].asked /\ o \in Cooperative
    /\ task' = [task EXCEPT ![o] = "ended"]
    /\ Finish(o, t)
    /\ handle' = [handle EXCEPT ![o] = IF @ = "slot" THEN "dropped" ELSE @]
    /\ UNCHANGED <<closed, call, drain>>

\* A panic unwinds the spawned task before it reaches finish.
BodyPanics(o) ==
    /\ task[o] = "running"
    /\ task' = [task EXCEPT ![o] = "panicked"]
    /\ UNCHANGED <<closed, slot, running, perKey, order, handle, call, drain>>

\* enter_commit_barrier
EnterCommitBarrier(o) ==
    /\ task[o] = "running"
    /\ slot' = [slot EXCEPT ![o].barrier = TRUE]
    /\ UNCHANGED <<closed, task, running, perKey, order, handle, call, drain>>

-----------------------------------------------------------------------------
(* cancel *)

\* The critical section of cancel on a slot that is not terminal yet.
Ask(o) ==
    /\ slot' = [slot EXCEPT ![o].asked = TRUE, ![o].state = "stopping"]
    /\ handle' = [handle EXCEPT ![o] = IF @ = "slot" THEN "waiter" ELSE @]

\* Mutant: the terminal that finish recorded meanwhile is not looked at.
CancelBeginsLate(c, o) ==
    /\ call[c] = NoOperation
    /\ slot[o].state # "absent"
    /\ Ask(o)
    /\ call' = [call EXCEPT ![c] = IF handle[o] = "slot" THEN o ELSE @]
    /\ UNCHANGED <<closed, task, running, perKey, order, drain>>

\* A handler asks; it waits when it got the handle, and is told that the
\* operation is still stopping when somebody else has it.
CancelBegins(c, o) ==
    /\ call[c] = NoOperation
    /\ slot[o].state \in Alive
    /\ Ask(o)
    /\ call' = [call EXCEPT ![c] = IF handle[o] = "slot" THEN o ELSE @]
    /\ UNCHANGED <<closed, task, running, perKey, order, drain>>

\* The task was joined: it had finished, or its panic is recorded now.
Joined(o) ==
    /\ handle' = [handle EXCEPT ![o] = "dropped"]
    /\ \/ task[o] = "ended" /\ UNCHANGED <<slot, running, perKey, order>>
       \/ task[o] = "panicked" /\ Finish(o, "failed")

CancelReturns(c) ==
    /\ call[c] # NoOperation
    /\ Joined(call[c])
    /\ call' = [call EXCEPT ![c] = NoOperation]
    /\ UNCHANGED <<closed, task, drain>>

\* Mutant: the operation is written off while its body still executes.
CancelTimesOutFinishing(c) ==
    /\ call[c] # NoOperation
    /\ Finish(call[c], "timed_out")
    /\ handle' = [handle EXCEPT ![call[c]] = "dropped"]
    /\ call' = [call EXCEPT ![c] = NoOperation]
    /\ UNCHANGED <<closed, task, drain>>

\* The wait is over before the task is: the handle is dropped.
CancelTimesOut(c) ==
    /\ call[c] # NoOperation
    /\ handle' = [handle EXCEPT ![call[c]] = "dropped"]
    /\ call' = [call EXCEPT ![c] = NoOperation]
    /\ UNCHANGED <<closed, task, slot, running, perKey, order, drain>>

-----------------------------------------------------------------------------
(* stop_admission_and_cancel_except *)

\* The operation that prepares the import asks for the drain and is excluded.
DrainCloses(o) ==
    /\ drain.at = "none"
    /\ o # NoOperation => task[o] = "running"
    /\ closed' = TRUE
    /\ drain' = [drain EXCEPT !.at = "closed", !.excluded = o]
    /\ UNCHANGED <<task, slot, running, perKey, order, handle, call>>

DrainLists ==
    /\ drain.at = "closed"
    /\ drain' = [drain EXCEPT !.at = "cancelling", !.todo = Live \ {drain.excluded}]
    /\ UNCHANGED <<closed, task, slot, running, perKey, order, handle, call>>

\* One cancel of the drain: already terminal, still stopping without a handle
\* to wait for, or a wait.
DrainCancels(o) ==
    /\ drain.at = "cancelling"
    /\ o \in drain.todo
    /\ UNCHANGED <<closed, task, running, perKey, order, call>>
    /\ LET rest == drain.todo \ {o} IN
       \/ /\ slot[o].state \in Terminals
          /\ drain' = [drain EXCEPT !.todo = rest]
          /\ UNCHANGED <<slot, handle>>
       \/ /\ slot[o].state = "absent"
          /\ drain' = [drain EXCEPT !.todo = rest, !.failed = @ \cup {o}]
          /\ UNCHANGED <<slot, handle>>
       \/ /\ slot[o].state \in Alive
          /\ Ask(o)
          /\ drain' = IF handle[o] = "slot"
                      THEN [drain EXCEPT !.todo = rest, !.at = "waiting", !.op = o]
                      ELSE [drain EXCEPT !.todo = rest, !.failed = @ \cup {o}]

\* The terminal is read back; one that was evicted meanwhile counts as failed.
DrainJoins ==
    /\ drain.at = "waiting"
    /\ Joined(drain.op)
    /\ drain' = [drain EXCEPT !.at = "cancelling", !.op = NoOperation,
                   !.failed = IF slot'[drain.op].state = "absent"
                              THEN @ \cup {drain.op} ELSE @]
    /\ UNCHANGED <<closed, task, call>>

DrainTimesOut ==
    /\ drain.at = "waiting"
    /\ handle' = [handle EXCEPT ![drain.op] = "dropped"]
    /\ drain' = [drain EXCEPT !.at = "cancelling", !.op = NoOperation,
                              !.failed = @ \cup {drain.op}]
    /\ UNCHANGED <<closed, task, slot, running, perKey, order, call>>

DrainReports ==
    /\ drain.at = "cancelling"
    /\ drain.todo = {}
    /\ drain' = [drain EXCEPT !.at = "done"]
    /\ UNCHANGED <<closed, task, slot, running, perKey, order, handle, call>>

-----------------------------------------------------------------------------

BodyStep(o) == \E t \in {"completed", "failed", "cancelled", "timed_out"} : BodyEnds(o, t)

Next ==
    \/ \E o \in Operations :
         \/ StartBegins(o) \/ Admit(o) \/ Refuse(o) \/ StoreJoin(o)
         \/ BodyStep(o) \/ BodyPanics(o) \/ EnterCommitBarrier(o)
         \/ DrainCancels(o)
         \/ \E c \in Callers : CancelBegins(c, o)
    \/ \E c \in Callers : CancelReturns(c) \/ CancelTimesOut(c)
    \/ \E o \in Operations \cup {NoOperation} : DrainCloses(o)
    \/ DrainLists \/ DrainJoins \/ DrainTimesOut \/ DrainReports

Spec == Init /\ [][Next]_vars

-----------------------------------------------------------------------------
CountersExact ==
    /\ running = Cardinality(Live)
    /\ \A k \in Keys : perKey[k] = Cardinality(LiveWith(k))

WithinLimits ==
    /\ running <= MaxRunning
    /\ \A k \in Keys : perKey[k] <= MaxPerKey

OrderTerminal ==
    /\ Len(order) <= TerminalMax
    /\ \A i \in DOMAIN order : slot[order[i]].state \in Terminals
    /\ \A i, j \in DOMAIN order : order[i] = order[j] => i = j

SlotsMatchTasks ==
    \A o \in Operations :
      /\ task[o] \in {"new", "starting", "refused"} => slot[o].state = "absent"
      /\ task[o] = "running" => slot[o].state \in Alive
      /\ slot[o].state \in Alive => task[o] \in {"running", "panicked"}

(* The two counters are exactly the slots that are not terminal, within     *)
(* their limits, although start, finish and the finish of a joined panic    *)
(* change them in separate critical sections; terminal_order holds only     *)
(* terminals, each once and no more than its bound; and the slot of a body  *)
(* that executes is neither evicted nor terminal.                           *)
RegistryInv ==
    TypeOK /\ CountersExact /\ WithinLimits /\ OrderTerminal /\ SlotsMatchTasks

(* At most max_running_per_concurrency_key bodies of one key, and at most   *)
(* max_running_global bodies in all, are executing at any moment, whatever  *)
(* cancels timed out on them (ADR 0005: admission checks global and per-key *)
(* capacity atomically).                                                    *)
Executing(S) == {o \in S : task[o] = "running"}
BodiesBounded ==
    /\ Cardinality(Executing(Operations)) <= MaxRunning
    /\ \A k \in Keys :
         Cardinality(Executing({o \in Operations : KeyOf[o] = k})) <= MaxPerKey

\* What one step may do to what status reports of an operation.
OutcomeKept(o) ==
    /\ slot[o].state \in Terminals /\ slot'[o] # slot[o] =>
         slot'[o] = Absent /\ Len(order) >= TerminalMax /\ o = Head(order)
    /\ slot[o].state \in Alive => slot'[o].state # "absent"
    /\ task[o] \in {"ended", "panicked"} /\ slot[o].state = "absent" =>
         slot'[o].state = "absent"

(* A recorded outcome is final: no cancel, late join of a panic, drain or   *)
(* later finish overwrites it, and it leaves the registry only as the       *)
(* oldest entry of a full terminal_order.  An operation that is running or  *)
(* stopping never disappears (ADR 0005: running operations are never        *)
(* evicted), and one that was evicted never comes back, so status goes from *)
(* live to one terminal and from there at most to not found.                *)
OutcomeFinal == [][\A o \in Operations : OutcomeKept(o)]_vars

(* freeze_dependencies_for_activation_except goes on only when the report   *)
(* names no timed-out operation; then no body but the excluded one executes *)
(* and none can be admitted any more, whoever was inside start meanwhile.   *)
DrainQuiescent ==
    (drain.at = "done" /\ drain.failed = {}) =>
        /\ closed
        /\ \A o \in Operations \ {drain.excluded} :
             task[o] # "running" /\ slot[o].state \notin Alive

(* A cancelled operation that had entered its commit barrier is never       *)
(* reported as cancelled: its effects may be there (finish).                *)
CommitNeverDenied ==
    \A o \in Operations : slot[o].state = "cancelled" => ~slot[o].barrier
=============================================================================
