------------------------- MODULE CircuitPersistence -------------------------
(***************************************************************************)
(* What happens when the circuit store cannot be written: the process gate *)
(* of application/station_key_circuit.rs, its durable rows, the bounded    *)
(* backlog of terminals in application/request_finalization/mod.rs, and    *)
(* the supervised reaper that replays the backlog, checks the database,    *)
(* reopens the gates and only then reaps leases.                           *)
(*                                                                         *)
(* A database transaction is one step, and so is every critical section of *)
(* the gate and of the backlog; between them the lifecycle writer, the     *)
(* admissions and the reaper interleave.  A transaction fails exactly when *)
(* the database is down.                                                   *)
(*                                                                         *)
(* Abstractions.  A key stands for a station key with its lifecycle        *)
(* revision.  The gate revision is only ever compared with the value the   *)
(* health check read, so the model keeps the outcome of that comparison    *)
(* (unmoved).  Every request has one attempt.  What a terminal does to the *)
(* circuit row is the subject of StationKeyCircuit.  The terminal outbox   *)
(* is a set of requests that a later request may project.                  *)
(***************************************************************************)
EXTENDS Naturals, FiniteSets

CONSTANTS
    Attempts,    \* routing attempts, one per request
    Keys,        \* station keys
    KeyOf,       \* the key of an attempt
    NoAttempt,   \* the writer has no command
    Capacity,    \* MAX_CIRCUIT_PERSISTENCE_BACKLOG
    MaxTries,    \* MAX_WRITE_ATTEMPTS
    MaxFaults    \* bound: outages of the database and crashes of the process

ASSUME KeyOfAssumption == KeyOf \in [Attempts -> Keys]
ASSUME NoAttemptAssumption == NoAttempt \notin Attempts
ASSUME PersistenceBounds ==
    /\ Capacity \in Nat
    /\ MaxTries \in Nat \ {0}
    /\ MaxFaults \in Nat

VARIABLES
    up,         \* the database accepts transactions
    faults,     \* outages and crashes so far
    slot,       \* durable: the row of an attempt in the ledger
    outbox,     \* durable: attempts whose request terminal waits in the outbox
    rows,       \* durable: keys with a persistence_unavailable row
    gate,       \* process: keys of the gate
    unmoved,    \* process: the gate revision is the one the check expects
    backlog,    \* process: retained terminals
    overflowed, \* process: overflow_count > 0
    stage,      \* process: where the executor of an attempt stands
    abandoned,  \* attempts that end before anything was sent
    writer,     \* process: the command of the lifecycle writer
    reaper,     \* process: where the tick of the reaper stands
    unchecked   \* history: keys marked since the last successful check

vars == <<up, faults, slot, outbox, rows, gate, unmoved, backlog, overflowed,
          stage, abandoned, writer, reaper, unchecked>>

durable == <<slot, outbox, rows>>

Stages ==
    {"new", "admitting", "denying", "closing", "live", "queued", "finished",
     "ended"}

TypeOK ==
    /\ up \in BOOLEAN
    /\ faults \in 0 .. MaxFaults
    /\ slot \in [Attempts -> {"none", "pending", "terminal", "finalized"}]
    /\ outbox \subseteq Attempts
    /\ rows \subseteq Keys
    /\ gate \subseteq Keys
    /\ unmoved \in BOOLEAN
    /\ backlog \subseteq Attempts
    /\ overflowed \in BOOLEAN
    /\ stage \in [Attempts -> Stages]
    /\ abandoned \subseteq Attempts
    /\ writer \in [attempt : Attempts \cup {NoAttempt},
                   at : {"idle", "write", "mark", "retain", "row"},
                   try : 0 .. MaxTries, again : BOOLEAN]
    /\ reaper \in [at : {"idle", "replay", "check", "clear", "reap"},
                   todo : SUBSET Attempts]
    /\ unchecked \subseteq Keys

IdleWriter ==
    [attempt |-> NoAttempt, at |-> "idle", try |-> 0, again |-> FALSE]

IdleReaper == [at |-> "idle", todo |-> {}]

Init ==
    /\ up = TRUE
    /\ faults = 0
    /\ slot = [a \in Attempts |-> "none"]
    /\ outbox = {}
    /\ rows = {}
    /\ gate = {}
    /\ unmoved = FALSE
    /\ backlog = {}
    /\ overflowed = FALSE
    /\ stage = [a \in Attempts |-> "new"]
    /\ abandoned = {}
    /\ writer = IdleWriter
    /\ reaper = IdleReaper
    /\ unchecked = {}

-----------------------------------------------------------------------------

\* CircuitPersistenceGate::mark_station_key
MarkKey(k) ==
    /\ gate' = gate \cup {k}
    /\ unmoved' = FALSE
    /\ unchecked' = unchecked \cup {k}

\* mark_persistence_unavailable in a transaction whose failure is ignored.
MarkRow(k) == rows' = IF up THEN rows \cup {k} ELSE rows

Goto(a, s) == stage' = [stage EXCEPT ![a] = s]

\* The process gate is read before the admission transaction begins.
AskGate(a) ==
    /\ stage[a] = "new"
    /\ KeyOf[a] \notin gate
    /\ Goto(a, "admitting")
    /\ UNCHANGED <<up, faults, durable, gate, unmoved, backlog, overflowed,
                   abandoned, writer, reaper, unchecked>>

\* The admission transaction: a durable row denies, a failure gates the key.
Admit(a) ==
    /\ stage[a] = "admitting"
    /\ IF ~up
       THEN Goto(a, "denying") /\ UNCHANGED slot
       ELSE IF KeyOf[a] \in rows
       THEN Goto(a, "new") /\ UNCHANGED slot
       ELSE Goto(a, "live") /\ slot' = [slot EXCEPT ![a] = "pending"]
    /\ UNCHANGED <<up, faults, outbox, rows, gate, unmoved, backlog, overflowed,
                   abandoned, writer, reaper, unchecked>>

\* mark_station_key_attempt_boundary fails: the attempt ends before outbound.
BoundaryFails(a) ==
    /\ stage[a] = "live"
    /\ ~up
    /\ a \notin abandoned
    /\ abandoned' = abandoned \cup {a}
    /\ Goto(a, "denying")
    /\ UNCHANGED <<up, faults, durable, gate, unmoved, backlog, overflowed,
                   writer, reaper, unchecked>>

\* The executor's side of a failed admission or boundary: process gate first,
\* durable row in a transaction of its own.
DenyMark(a) ==
    /\ stage[a] = "denying"
    /\ MarkKey(KeyOf[a])
    /\ Goto(a, "closing")
    /\ UNCHANGED <<up, faults, durable, backlog, overflowed, abandoned, writer,
                   reaper>>

DenyRow(a) ==
    /\ stage[a] = "closing"
    /\ MarkRow(KeyOf[a])
    /\ Goto(a, IF a \in abandoned THEN "queued" ELSE "new")
    /\ UNCHANGED <<up, faults, slot, outbox, gate, unmoved, backlog, overflowed,
                   abandoned, writer, reaper, unchecked>>

\* The attempt ends, possibly before outbound, and its terminal is sent to the
\* lifecycle writer.
EndAttempt(a) ==
    /\ stage[a] = "live"
    /\ abandoned' \in {abandoned, abandoned \cup {a}}
    /\ Goto(a, "queued")
    /\ UNCHANGED <<up, faults, durable, gate, unmoved, backlog, overflowed,
                   writer, reaper, unchecked>>

-----------------------------------------------------------------------------
(* The lifecycle writer: one command at a time, at most MaxTries tries.      *)

TakeCommand(a) ==
    /\ writer.at = "idle"
    /\ stage[a] = "queued"
    /\ writer' = [attempt |-> a, at |-> "write", try |-> 1, again |-> FALSE]
    /\ UNCHANGED <<up, faults, durable, gate, unmoved, backlog, overflowed,
                   stage, abandoned, reaper, unchecked>>

\* persist_attempt_terminal_once succeeds: on a pending slot, or as a late
\* terminal of a finalized request.  A terminal that is already there carries
\* another ingested_at_ms and is refused by validate_duplicate_terminal.
Persists(a) == up /\ slot[a] \in {"pending", "finalized"}

PersistedSlot(a) ==
    [slot EXCEPT ![a] = IF slot[a] = "pending" THEN "terminal" ELSE slot[a]]

\* The end of a try that failed: another one after a retryable error, or the
\* command is over.
TryEnds(a, again) ==
    IF again /\ writer.try < MaxTries
    THEN /\ writer' = [writer EXCEPT !.at = "write", !.try = @ + 1,
                                     !.again = FALSE]
         /\ UNCHANGED stage
    ELSE writer' = IdleWriter /\ Goto(a, "finished")

WriteSucceeds(a) ==
    /\ writer.at = "write" /\ writer.attempt = a
    /\ Persists(a)
    /\ slot' = PersistedSlot(a)
    /\ backlog' = backlog \ {a}
    /\ writer' = IdleWriter
    /\ Goto(a, "finished")
    /\ UNCHANGED <<up, faults, outbox, rows, gate, unmoved, overflowed,
                   abandoned, reaper, unchecked>>

\* Only an outage can be retryable (DatabaseBusy, runtime not accepting).  The
\* terminal of an abandoned attempt neither gates the key nor is retained.
WriteFails(a) ==
    /\ writer.at = "write" /\ writer.attempt = a
    /\ ~Persists(a)
    /\ \E again \in {FALSE} \cup {~up} :
         IF a \in abandoned
         THEN TryEnds(a, again)
         ELSE /\ writer' = [writer EXCEPT !.at = "mark", !.again = again]
              /\ UNCHANGED stage
    /\ UNCHANGED <<up, faults, durable, gate, unmoved, backlog, overflowed,
                   abandoned, reaper, unchecked>>

\* record_circuit_persistence_failure: gate, backlog, durable row.
MarkFailure(a) ==
    /\ writer.at = "mark" /\ writer.attempt = a
    /\ MarkKey(KeyOf[a])
    /\ writer' = [writer EXCEPT !.at = "retain"]
    /\ UNCHANGED <<up, faults, durable, backlog, overflowed, stage, abandoned,
                   reaper>>

\* Mutant: a full backlog drops the record without counting it.
RetainSilently(a) ==
    /\ writer.at = "retain" /\ writer.attempt = a
    /\ backlog' = IF a \in backlog \/ Cardinality(backlog) < Capacity
                  THEN backlog \cup {a} ELSE backlog
    /\ writer' = [writer EXCEPT !.at = "row"]
    /\ UNCHANGED <<up, faults, durable, gate, unmoved, overflowed, stage,
                   abandoned, reaper, unchecked>>

Retain(a) ==
    /\ writer.at = "retain" /\ writer.attempt = a
    /\ LET room == a \in backlog \/ Cardinality(backlog) < Capacity
       IN  /\ backlog' = IF room THEN backlog \cup {a} ELSE backlog
           /\ overflowed' = (overflowed \/ ~room)
    /\ writer' = [writer EXCEPT !.at = "row"]
    /\ UNCHANGED <<up, faults, durable, gate, unmoved, stage, abandoned, reaper,
                   unchecked>>

RowFailure(a) ==
    /\ writer.at = "row" /\ writer.attempt = a
    /\ MarkRow(KeyOf[a])
    /\ TryEnds(a, writer.again)
    /\ UNCHANGED <<up, faults, slot, outbox, gate, unmoved, backlog, overflowed,
                   abandoned, reaper, unchecked>>

\* finish_request: enqueue in the outbox, then project it, which needs every
\* attempt of the request to be terminal.  A failed enqueue is not repeated.
FinishRequest(a) ==
    /\ writer.at = "idle"
    /\ stage[a] = "finished"
    /\ Goto(a, "ended")
    /\ IF up /\ slot[a] = "terminal"
       THEN slot' = [slot EXCEPT ![a] = "finalized"] /\ UNCHANGED outbox
       ELSE outbox' = (IF up THEN outbox \cup {a} ELSE outbox) /\ UNCHANGED slot
    /\ UNCHANGED <<up, faults, rows, gate, unmoved, backlog, overflowed,
                   abandoned, writer, reaper, unchecked>>

\* The finish_request of some other request also projects what waits.
ProjectOutbox(a) ==
    /\ up
    /\ a \in outbox
    /\ slot[a] = "terminal"
    /\ slot' = [slot EXCEPT ![a] = "finalized"]
    /\ outbox' = outbox \ {a}
    /\ UNCHANGED <<up, faults, rows, gate, unmoved, backlog, overflowed, stage,
                   abandoned, writer, reaper, unchecked>>

-----------------------------------------------------------------------------
(* One tick of the reaper: replay, health check, reap.  An error ends the    *)
(* tick; the next one starts from the beginning.                             *)

ReplayBegins ==
    /\ reaper.at = "idle"
    /\ ~overflowed
    /\ reaper' = [at |-> "replay", todo |-> backlog]
    /\ UNCHANGED <<up, faults, durable, gate, unmoved, backlog, overflowed,
                   stage, abandoned, writer, unchecked>>

\* An overflowed backlog is never replayed: the tick fails at once.
ReplayRefused ==
    /\ reaper.at = "idle"
    /\ overflowed
    /\ UNCHANGED vars

ReplayOne(a) ==
    /\ reaper.at = "replay"
    /\ a \in reaper.todo
    /\ Persists(a)
    /\ slot' = PersistedSlot(a)
    /\ backlog' = backlog \ {a}
    /\ reaper' = [reaper EXCEPT !.todo = @ \ {a}]
    /\ UNCHANGED <<up, faults, outbox, rows, gate, unmoved, overflowed, stage,
                   abandoned, writer, unchecked>>

\* Mutant: the record leaves the backlog before it is persisted.
ReplayFailsDropping(a) ==
    /\ reaper.at = "replay"
    /\ a \in reaper.todo
    /\ ~Persists(a)
    /\ backlog' = backlog \ {a}
    /\ reaper' = IdleReaper
    /\ UNCHANGED <<up, faults, durable, gate, unmoved, overflowed, stage,
                   abandoned, writer, unchecked>>

ReplayFails(a) ==
    /\ reaper.at = "replay"
    /\ a \in reaper.todo
    /\ ~Persists(a)
    /\ reaper' = IdleReaper
    /\ UNCHANGED <<up, faults, durable, gate, unmoved, backlog, overflowed,
                   stage, abandoned, writer, unchecked>>

\* The health check reads the gate revision first.
ReadRevision ==
    /\ reaper.at = "replay"
    /\ reaper.todo = {}
    /\ unmoved' = TRUE
    /\ reaper' = [reaper EXCEPT !.at = "check"]
    /\ UNCHANGED <<up, faults, durable, gate, backlog, overflowed, stage,
                   abandoned, writer, unchecked>>

\* Mutant: the durable rows stay.
CheckKeepingRows ==
    /\ reaper.at = "check"
    /\ up
    /\ unchecked' = {}
    /\ reaper' = [reaper EXCEPT !.at = "clear"]
    /\ UNCHANGED <<up, faults, durable, gate, unmoved, backlog, overflowed,
                   stage, abandoned, writer>>

\* health_check_and_clear_persistence_gates
Check ==
    /\ reaper.at = "check"
    /\ up
    /\ rows' = {}
    /\ unchecked' = {}
    /\ reaper' = [reaper EXCEPT !.at = "clear"]
    /\ UNCHANGED <<up, faults, slot, outbox, gate, unmoved, backlog, overflowed,
                   stage, abandoned, writer>>

\* Mutant: the process gate is cleared whatever its revision.
ClearAnyway ==
    /\ reaper.at = "clear"
    /\ gate' = {}
    /\ reaper' = [reaper EXCEPT !.at = "reap"]
    /\ unmoved' = FALSE
    /\ UNCHANGED <<up, faults, durable, backlog, overflowed, stage, abandoned,
                   writer, unchecked>>

\* clear_if_unchanged
Clear ==
    /\ reaper.at = "clear"
    /\ IF unmoved
       THEN gate' = {} /\ reaper' = [reaper EXCEPT !.at = "reap"]
       ELSE UNCHANGED gate /\ reaper' = IdleReaper
    /\ unmoved' = FALSE
    /\ UNCHANGED <<up, faults, durable, backlog, overflowed, stage, abandoned,
                   writer, unchecked>>

\* The check or the reaping finds the database down, or leases are reaped.
TickEnds ==
    /\ \/ reaper.at = "check" /\ ~up
       \/ reaper.at = "reap"
    /\ reaper' = IdleReaper
    /\ unmoved' = FALSE
    /\ UNCHANGED <<up, faults, durable, gate, backlog, overflowed, stage,
                   abandoned, writer, unchecked>>

-----------------------------------------------------------------------------

GoDown ==
    /\ up
    /\ faults < MaxFaults
    /\ up' = FALSE
    /\ faults' = faults + 1
    /\ UNCHANGED <<durable, gate, unmoved, backlog, overflowed, stage,
                   abandoned, writer, reaper, unchecked>>

ComeUp ==
    /\ ~up
    /\ up' = TRUE
    /\ UNCHANGED <<faults, durable, gate, unmoved, backlog, overflowed, stage,
                   abandoned, writer, reaper, unchecked>>

\* The process dies and starts again: its gate and its backlog are gone, and
\* the startup reconciliation finalizes what was left open.
Restart ==
    /\ up
    /\ faults < MaxFaults
    /\ faults' = faults + 1
    /\ gate' = {}
    /\ unmoved' = FALSE
    /\ backlog' = {}
    /\ overflowed' = FALSE
    /\ writer' = IdleWriter
    /\ reaper' = IdleReaper
    /\ slot' = [a \in Attempts |-> IF slot[a] = "none" THEN "none"
                                   ELSE "finalized"]
    /\ outbox' = {}
    /\ stage' = [a \in Attempts |-> IF slot[a] = "none" THEN "new"
                                    ELSE "ended"]
    /\ unchecked' = rows
    /\ UNCHANGED <<up, rows, abandoned>>

ExecutorStep(a) ==
    AskGate(a) \/ Admit(a) \/ BoundaryFails(a) \/ DenyMark(a) \/ DenyRow(a)
    \/ EndAttempt(a)

WriterStep(a) ==
    TakeCommand(a) \/ WriteSucceeds(a) \/ WriteFails(a) \/ MarkFailure(a)
    \/ Retain(a) \/ RowFailure(a) \/ FinishRequest(a)

ReaperStep ==
    \/ ReplayBegins
    \/ \E a \in Attempts : ReplayOne(a) \/ ReplayFails(a)
    \/ ReadRevision
    \/ Check
    \/ Clear
    \/ TickEnds

Next ==
    \/ \E a \in Attempts : ExecutorStep(a) \/ WriterStep(a) \/ ProjectOutbox(a)
    \/ ReaperStep
    \/ ReplayRefused
    \/ GoDown
    \/ ComeUp
    \/ Restart

Spec == Init /\ [][Next]_vars

\* The reaper is a supervised task that ticks for as long as the process runs,
\* and the writer is the worker of a queue.  Attempts that were sent end, and
\* a failed one records its failure; nothing else is certain to happen.
FairSpec ==
    /\ Spec
    /\ WF_vars(ReaperStep)
    /\ \A a \in Attempts :
         /\ WF_vars(WriterStep(a))
         /\ WF_vars(DenyMark(a) \/ DenyRow(a) \/ EndAttempt(a))

-----------------------------------------------------------------------------

\* The terminal of an attempt that was sent is never forgotten by the running
\* process: once its command is over, it is in the ledger or in the backlog,
\* unless the backlog has counted an overflow.
TerminalKept ==
    \A a \in Attempts \ abandoned :
        stage[a] \in {"finished", "ended"} /\ slot[a] = "pending" =>
            a \in backlog \/ overflowed

\* The health check reopens the process gate only over failures that are older
\* than the transaction that proved the database healthy: a failure recorded
\* while the check was under way keeps the gate closed (clear_if_unchanged).
FailureOutlivesCheck ==
    [][reaper.at = "clear" /\ gate' # gate /\ reaper'.at = "reap" =>
         gate \cap unchecked = {}]_vars

\* The inductive invariant behind both: what the writer works on is queued, it
\* comes to the durable row with the record retained, and a check whose gate
\* revision has not moved has seen every failure in the gate.
PersistenceInv ==
    /\ TypeOK
    /\ writer.at # "idle" =>
         writer.attempt \in Attempts /\ stage[writer.attempt] = "queued"
    /\ writer.at = "row" /\ slot[writer.attempt] = "pending" =>
         writer.attempt \in backlog \/ overflowed
    /\ TerminalKept
    /\ reaper.at = "clear" /\ unmoved => gate \cap unchecked = {}

\* A retained record whose terminal is in the ledger of an open request.
Poisoned == \E a \in backlog : slot[a] = "terminal"

\* Once the database stays healthy, nothing overflowed and no record is
\* poisoned, every gate reopens and every terminal reaches the ledger.
RecoveryCompletes ==
    <>[](up /\ ~overflowed /\ ~Poisoned) =>
        <>[](gate = {} /\ rows = {} /\ backlog = {})

\* A transient database failure does not stop future recovery: when the
\* database stays healthy the reaper reaches its lease reaping again and again
\* (station_key_circuit_reaper.rs).  A record replayed between two tries of the
\* writer breaks this when the request terminal is not written either: the
\* ledger of a finalized request would accept the second terminal.
RecoveryResumes == <>[]up => []<>(reaper.at = "reap")
=============================================================================
