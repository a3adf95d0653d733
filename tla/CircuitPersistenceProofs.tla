---------------------- MODULE CircuitPersistenceProofs ----------------------
(***************************************************************************)
(* Proofs about the persistence gate and the terminal backlog, for any     *)
(* attempts, keys, backlog capacity and number of tries.                   *)
(***************************************************************************)
EXTENDS CircuitPersistence, TLAPS

\* The parts of PersistenceInv that relate the writer, the slots and the gate.
WriterQueued ==
    writer.at # "idle" =>
        writer.attempt \in Attempts /\ stage[writer.attempt] = "queued"

RowRetained ==
    writer.at = "row" /\ slot[writer.attempt] = "pending" =>
        writer.attempt \in backlog \/ overflowed

CheckedGate == reaper.at = "clear" /\ unmoved => gate \cap unchecked = {}

\* The types of the writer's command and of the reaper's tick.
Commands ==
    [attempt : Attempts \cup {NoAttempt},
     at : {"idle", "write", "mark", "retain", "row"},
     try : 0 .. MaxTries, again : BOOLEAN]

Ticks ==
    [at : {"idle", "replay", "check", "clear", "reap"}, todo : SUBSET Attempts]

\* Idle values and updated ones have the types.
LEMMA CommandsTyped ==
    /\ IdleWriter \in Commands
    /\ IdleReaper \in Ticks
    /\ \A w \in Commands, s \in {"idle", "write", "mark", "retain", "row"},
          b \in BOOLEAN :
         /\ [w EXCEPT !.at = s] \in Commands
         /\ [w EXCEPT !.at = s, !.again = b] \in Commands
         /\ w.try < MaxTries =>
              [w EXCEPT !.at = s, !.try = @ + 1, !.again = b] \in Commands
  <1>1. IdleWriter \in Commands
    BY PersistenceBounds DEF Commands, IdleWriter
  <1>2. IdleReaper \in Ticks
    BY DEF Ticks, IdleReaper
  <1>3. ASSUME NEW w \in Commands,
               NEW s \in {"idle", "write", "mark", "retain", "row"},
               NEW b \in BOOLEAN
        PROVE  /\ [w EXCEPT !.at = s] \in Commands
               /\ [w EXCEPT !.at = s, !.again = b] \in Commands
    BY DEF Commands
  <1>4. ASSUME NEW w \in Commands,
               NEW s \in {"idle", "write", "mark", "retain", "row"},
               NEW b \in BOOLEAN, w.try < MaxTries
        PROVE  [w EXCEPT !.at = s, !.try = @ + 1, !.again = b] \in Commands
    <2>1. w.try + 1 \in 0 .. MaxTries
      BY <1>4, PersistenceBounds DEF Commands
    <2> QED
      BY <2>1 DEF Commands
  <1> QED
    BY <1>1, <1>2, <1>3, <1>4

\* The end of a try leaves a typed command and a typed stage.
LEMMA TryEndsTyped ==
    ASSUME writer \in Commands, stage \in [Attempts -> Stages],
           NEW a \in Attempts, NEW b \in BOOLEAN, TryEnds(a, b)
    PROVE  writer' \in Commands /\ stage' \in [Attempts -> Stages]
  <1>1. CASE b /\ writer.try < MaxTries
    BY <1>1, CommandsTyped DEF TryEnds
  <1>2. CASE ~(b /\ writer.try < MaxTries)
    <2>1. writer' = IdleWriter /\ stage' = [stage EXCEPT ![a] = "finished"]
      BY <1>2 DEF TryEnds, Goto
    <2> QED
      BY <2>1, CommandsTyped DEF Stages
  <1> QED
    BY <1>1, <1>2

\* Initially nothing is queued, retained or gated.
LEMMA InitPersistence == Init => PersistenceInv
  <1> SUFFICES ASSUME Init PROVE PersistenceInv
    OBVIOUS
  <1>1. writer \in Commands /\ reaper \in Ticks
    BY CommandsTyped DEF Init
  <1>2. TypeOK
    <2>1. /\ slot \in [Attempts -> {"none", "pending", "terminal", "finalized"}]
          /\ stage \in [Attempts -> Stages]
      BY DEF Init, Stages
    <2>2. up \in BOOLEAN /\ unmoved \in BOOLEAN /\ overflowed \in BOOLEAN
      BY DEF Init
    <2>3. faults \in 0 .. MaxFaults
      BY PersistenceBounds DEF Init
    <2>4. /\ outbox \subseteq Attempts /\ backlog \subseteq Attempts
          /\ abandoned \subseteq Attempts /\ rows \subseteq Keys
          /\ gate \subseteq Keys /\ unchecked \subseteq Keys
      BY DEF Init
    <2> QED
      BY <1>1, <2>1, <2>2, <2>3, <2>4 DEF TypeOK, Commands, Ticks
  <1>3. writer.at = "idle" /\ reaper.at = "idle"
    BY DEF Init, IdleWriter, IdleReaper
  <1>4. TerminalKept
    BY DEF Init, TerminalKept
  <1> QED
    BY <1>2, <1>3, <1>4 DEF PersistenceInv

\* Every step keeps the types.
LEMMA StepTyped ==
    ASSUME PersistenceInv, [Next]_vars
    PROVE  TypeOK'
  <1> USE PersistenceBounds, NoAttemptAssumption, KeyOfAssumption
  <1> USE DEF PersistenceInv, TypeOK, Stages, Goto, durable
  <1>0. /\ writer \in Commands /\ reaper \in Ticks
        /\ stage \in [Attempts -> Stages]
    BY DEF Commands, Ticks
  <1>1. ASSUME NEW a \in Attempts, AskGate(a)
        PROVE  TypeOK'
    BY <1>1 DEF AskGate
  <1>2. ASSUME NEW a \in Attempts, Admit(a)
        PROVE  TypeOK'
    BY <1>2 DEF Admit
  <1>3. ASSUME NEW a \in Attempts, BoundaryFails(a)
        PROVE  TypeOK'
    BY <1>3 DEF BoundaryFails
  <1>4. ASSUME NEW a \in Attempts, DenyMark(a)
        PROVE  TypeOK'
    BY <1>4 DEF DenyMark, MarkKey
  <1>5. ASSUME NEW a \in Attempts, DenyRow(a)
        PROVE  TypeOK'
    BY <1>5 DEF DenyRow, MarkRow
  <1>6. ASSUME NEW a \in Attempts, EndAttempt(a)
        PROVE  TypeOK'
    BY <1>6 DEF EndAttempt
  <1>7. ASSUME NEW a \in Attempts, TakeCommand(a)
        PROVE  TypeOK'
    BY <1>7 DEF TakeCommand
  <1>8. ASSUME NEW a \in Attempts, WriteSucceeds(a)
        PROVE  TypeOK'
    BY <1>8 DEF WriteSucceeds, Persists, PersistedSlot, IdleWriter
  <1>9. ASSUME NEW a \in Attempts, WriteFails(a)
        PROVE  TypeOK'
    <2>1. writer' \in Commands /\ stage' \in [Attempts -> Stages]
      <3>1. PICK again \in BOOLEAN :
               IF a \in abandoned THEN TryEnds(a, again)
               ELSE /\ writer' = [writer EXCEPT !.at = "mark", !.again = again]
                    /\ UNCHANGED stage
        BY <1>9 DEF WriteFails
      <3>2. CASE a \in abandoned
        BY <3>1, <3>2, <1>0, TryEndsTyped
      <3>3. CASE a \notin abandoned
        <4>1. [writer EXCEPT !.at = "mark", !.again = again] \in Commands
          BY <1>0, CommandsTyped
        <4> QED
          BY <3>1, <3>3, <4>1
      <3> QED
        BY <3>2, <3>3
    <2> QED
      BY <1>9, <2>1 DEF WriteFails, Commands
  <1>10. ASSUME NEW a \in Attempts, MarkFailure(a)
        PROVE  TypeOK'
    <2>1. writer' \in Commands
      BY <1>10, <1>0, CommandsTyped DEF MarkFailure
    <2>2. gate' \subseteq Keys /\ unchecked' \subseteq Keys
      BY <1>10 DEF MarkFailure, MarkKey
    <2>3. unmoved' \in BOOLEAN
      BY <1>10 DEF MarkFailure, MarkKey
    <2> QED
      BY <1>10, <2>1, <2>2, <2>3 DEF MarkFailure, Commands
  <1>11. ASSUME NEW a \in Attempts, Retain(a)
        PROVE  TypeOK'
    BY <1>11 DEF Retain
  <1>12. ASSUME NEW a \in Attempts, RowFailure(a)
        PROVE  TypeOK'
    <2>1. writer' \in Commands /\ stage' \in [Attempts -> Stages]
      <3>1. TryEnds(a, writer.again) /\ writer.again \in BOOLEAN
        BY <1>12 DEF RowFailure
      <3> QED
        BY <3>1, <1>0, TryEndsTyped
    <2>2. rows' \subseteq Keys
      BY <1>12 DEF RowFailure, MarkRow
    <2> QED
      BY <1>12, <2>1, <2>2 DEF RowFailure, Commands
  <1>13. ASSUME NEW a \in Attempts, FinishRequest(a)
        PROVE  TypeOK'
    BY <1>13 DEF FinishRequest
  <1>14. ASSUME NEW a \in Attempts, ProjectOutbox(a)
        PROVE  TypeOK'
    BY <1>14 DEF ProjectOutbox
  <1>15. ASSUME NEW a \in Attempts, ReplayOne(a)
        PROVE  TypeOK'
    BY <1>15 DEF ReplayOne, Persists, PersistedSlot
  <1>16. ASSUME NEW a \in Attempts, ReplayFails(a)
        PROVE  TypeOK'
    BY <1>16 DEF ReplayFails, IdleReaper
  <1>17. CASE ReplayBegins
    BY <1>17 DEF ReplayBegins
  <1>18. CASE ReadRevision
    BY <1>18 DEF ReadRevision
  <1>19. CASE Check
    BY <1>19 DEF Check
  <1>20. CASE Clear
    <2>1. reaper' \in Ticks /\ gate' \subseteq Keys
      BY <1>20, <1>0, CommandsTyped DEF Clear, Ticks
    <2> QED
      BY <1>20, <2>1 DEF Clear, Ticks
  <1>21. CASE TickEnds
    BY <1>21 DEF TickEnds, IdleReaper
  <1>22. CASE GoDown
    <2>1. faults' \in 0 .. MaxFaults
      BY <1>22 DEF GoDown
    <2> QED
      BY <1>22, <2>1 DEF GoDown
  <1>23. CASE ComeUp
    BY <1>23 DEF ComeUp
  <1>24. CASE Restart
    <2>1. faults' \in 0 .. MaxFaults
      BY <1>24 DEF Restart
    <2>2. writer' \in Commands /\ reaper' \in Ticks
      BY <1>24, CommandsTyped DEF Restart
    <2>3. /\ slot' \in [Attempts -> {"none", "pending", "terminal", "finalized"}]
          /\ stage' \in [Attempts -> Stages]
      BY <1>24 DEF Restart
    <2> QED
      BY <1>24, <2>1, <2>2, <2>3 DEF Restart, Commands, Ticks
  <1>25. CASE UNCHANGED vars
    BY <1>25 DEF vars
  <1> QED
    BY <1>1, <1>2, <1>3, <1>4, <1>5, <1>6, <1>7, <1>8, <1>9, <1>10,
       <1>11, <1>12, <1>13, <1>14, <1>15, <1>16, <1>17, <1>18, <1>19,
       <1>20, <1>21, <1>22, <1>23, <1>24, <1>25
    DEF Next, ExecutorStep, WriterStep, ReaperStep, ReplayRefused

\* Every step keeps the writer, its retained record, the kept terminals and the
\* checked gate.
LEMMA StepKept ==
    ASSUME PersistenceInv, [Next]_vars
    PROVE  WriterQueued' /\ RowRetained' /\ TerminalKept' /\ CheckedGate'
  <1> DEFINE Parts == WriterQueued /\ RowRetained /\ TerminalKept /\ CheckedGate
  <1> USE NoAttemptAssumption, KeyOfAssumption
  <1> USE DEF PersistenceInv, TypeOK, WriterQueued, RowRetained, TerminalKept,
              CheckedGate, Goto, durable
  <1>1. ASSUME NEW a \in Attempts, AskGate(a)
        PROVE  Parts'
    BY <1>1 DEF AskGate
  <1>2. ASSUME NEW a \in Attempts, Admit(a)
        PROVE  Parts'
    BY <1>2 DEF Admit
  <1>3. ASSUME NEW a \in Attempts, BoundaryFails(a)
        PROVE  Parts'
    BY <1>3 DEF BoundaryFails
  <1>4. ASSUME NEW a \in Attempts, DenyMark(a)
        PROVE  Parts'
    BY <1>4 DEF DenyMark, MarkKey
  <1>5. ASSUME NEW a \in Attempts, DenyRow(a)
        PROVE  Parts'
    BY <1>5 DEF DenyRow, MarkRow
  <1>6. ASSUME NEW a \in Attempts, EndAttempt(a)
        PROVE  Parts'
    BY <1>6 DEF EndAttempt
  <1>7. ASSUME NEW a \in Attempts, TakeCommand(a)
        PROVE  Parts'
    BY <1>7 DEF TakeCommand
  <1>8. ASSUME NEW a \in Attempts, WriteSucceeds(a)
        PROVE  Parts'
    BY <1>8 DEF WriteSucceeds, Persists, PersistedSlot, IdleWriter
  <1>9. ASSUME NEW a \in Attempts, WriteFails(a)
        PROVE  Parts'
    <2>1. PICK again \in BOOLEAN :
             IF a \in abandoned THEN TryEnds(a, again)
             ELSE /\ writer' = [writer EXCEPT !.at = "mark", !.again = again]
                  /\ UNCHANGED stage
      BY <1>9 DEF WriteFails
    <2>2. CASE a \notin abandoned
      <3>1. /\ writer'.at = "mark" /\ writer'.attempt = writer.attempt
            /\ stage' = stage
        BY <2>1, <2>2
      <3>2. WriterQueued' /\ RowRetained'
        BY <1>9, <3>1 DEF WriteFails
      <3>3. TerminalKept' /\ CheckedGate'
        BY <1>9, <3>1 DEF WriteFails
      <3> QED
        BY <3>2, <3>3
    <2>3. CASE a \in abandoned
      <3>0. CheckedGate' /\ TryEnds(a, again)
        BY <1>9, <2>1, <2>3 DEF WriteFails
      <3>1. CASE again /\ writer.try < MaxTries
        <4>1. /\ writer'.at = "write" /\ writer'.attempt = writer.attempt
              /\ stage' = stage
          BY <3>0, <3>1 DEF TryEnds
        <4> QED
          BY <1>9, <3>0, <4>1 DEF WriteFails
      <3>2. CASE ~(again /\ writer.try < MaxTries)
        <4>1. writer' = IdleWriter /\ stage' = [stage EXCEPT ![a] = "finished"]
          BY <3>0, <3>2 DEF TryEnds
        <4> QED
          BY <1>9, <2>3, <3>0, <4>1 DEF WriteFails, IdleWriter
      <3> QED
        BY <3>1, <3>2
    <2> QED
      BY <2>2, <2>3
  <1>10. ASSUME NEW a \in Attempts, MarkFailure(a)
        PROVE  Parts'
    BY <1>10 DEF MarkFailure, MarkKey
  <1>11. ASSUME NEW a \in Attempts, Retain(a)
        PROVE  Parts'
    BY <1>11 DEF Retain
  <1>12. ASSUME NEW a \in Attempts, RowFailure(a)
        PROVE  Parts'
    <2>1. CheckedGate' /\ reaper' = reaper /\ TryEnds(a, writer.again)
      BY <1>12 DEF RowFailure
    <2>2. CASE writer.again /\ writer.try < MaxTries
      BY <1>12, <2>1, <2>2 DEF RowFailure, TryEnds
    <2>3. CASE ~(writer.again /\ writer.try < MaxTries)
      <3>1. writer' = IdleWriter /\ stage' = [stage EXCEPT ![a] = "finished"]
        BY <2>1, <2>3 DEF TryEnds
      <3>2. slot[a] = "pending" => a \in backlog \/ overflowed
        BY <1>12 DEF RowFailure
      <3> QED
        BY <1>12, <2>1, <3>1, <3>2 DEF RowFailure, IdleWriter
    <2> QED
      BY <2>2, <2>3
  <1>13. ASSUME NEW a \in Attempts, FinishRequest(a)
        PROVE  Parts'
    BY <1>13 DEF FinishRequest
  <1>14. ASSUME NEW a \in Attempts, ProjectOutbox(a)
        PROVE  Parts'
    BY <1>14 DEF ProjectOutbox
  <1>15. ASSUME NEW a \in Attempts, ReplayOne(a)
        PROVE  Parts'
    BY <1>15 DEF ReplayOne, Persists, PersistedSlot
  <1>16. ASSUME NEW a \in Attempts, ReplayFails(a)
        PROVE  Parts'
    BY <1>16 DEF ReplayFails, IdleReaper
  <1>17. CASE ReplayBegins
    BY <1>17 DEF ReplayBegins
  <1>18. CASE ReadRevision
    BY <1>18 DEF ReadRevision
  <1>19. CASE Check
    BY <1>19 DEF Check
  <1>20. CASE Clear
    BY <1>20 DEF Clear, IdleReaper
  <1>21. CASE TickEnds
    BY <1>21 DEF TickEnds, IdleReaper
  <1>22. CASE GoDown
    BY <1>22 DEF GoDown
  <1>23. CASE ComeUp
    BY <1>23 DEF ComeUp
  <1>24. CASE Restart
    BY <1>24 DEF Restart, IdleReaper, IdleWriter
  <1>25. CASE UNCHANGED vars
    BY <1>25 DEF vars
  <1> QED
    BY <1>1, <1>2, <1>3, <1>4, <1>5, <1>6, <1>7, <1>8, <1>9, <1>10,
       <1>11, <1>12, <1>13, <1>14, <1>15, <1>16, <1>17, <1>18, <1>19,
       <1>20, <1>21, <1>22, <1>23, <1>24, <1>25
    DEF Next, ExecutorStep, WriterStep, ReaperStep, ReplayRefused

\* The inductive invariant of the gate and the backlog holds for all values of
\* the constants.
THEOREM PersistenceInvariance == Spec => []PersistenceInv
  <1>1. ASSUME PersistenceInv, [Next]_vars
        PROVE  PersistenceInv'
    BY <1>1, StepTyped, StepKept
    DEF PersistenceInv, WriterQueued, RowRetained, CheckedGate
  <1> QED
    BY <1>1, InitPersistence, PTL DEF Spec

\* No terminal of a sent attempt is forgotten by the running process, whatever
\* the size of the backlog and the number of tries.
THEOREM TerminalsAreKept == Spec => []TerminalKept
  <1>1. PersistenceInv => TerminalKept
    BY DEF PersistenceInv
  <1> QED
    BY <1>1, PersistenceInvariance, PTL

\* Every step of the persistence pipeline keeps the types of the gate, the
\* backlog, the ledger slots and the two workers' program counters.
THEOREM PersistenceTypeCorrectness == Spec => []TypeOK
  <1>1. PersistenceInv => TypeOK
    BY DEF PersistenceInv
  <1> QED
    BY <1>1, PersistenceInvariance, PTL

\* The health check never reopens the gate over a failure it has not seen.
THEOREM ChecksNeverHideFailures == Spec => FailureOutlivesCheck
  <1>1. ASSUME PersistenceInv, [Next]_vars
        PROVE  [reaper.at = "clear" /\ gate' # gate /\ reaper'.at = "reap" =>
                  gate \cap unchecked = {}]_vars
    <2> SUFFICES ASSUME Next, reaper.at = "clear", gate' # gate,
                        reaper'.at = "reap"
                 PROVE  gate \cap unchecked = {}
      BY <1>1 DEF vars
    <2>1. CASE Clear
      BY <1>1, <2>1 DEF Clear, PersistenceInv
    <2>2. CASE Restart
      BY <2>2 DEF Restart, IdleReaper
    <2>3. ASSUME NEW a \in Attempts, DenyMark(a) \/ MarkFailure(a)
          PROVE  FALSE
      BY <2>3 DEF DenyMark, MarkFailure
    <2>4. ASSUME NEW a \in Attempts,
                 \/ AskGate(a) \/ Admit(a) \/ BoundaryFails(a) \/ DenyRow(a)
                 \/ EndAttempt(a) \/ TakeCommand(a) \/ WriteSucceeds(a)
                 \/ WriteFails(a) \/ Retain(a) \/ RowFailure(a)
                 \/ FinishRequest(a) \/ ProjectOutbox(a) \/ ReplayOne(a)
                 \/ ReplayFails(a)
          PROVE  FALSE
      BY <2>4 DEF AskGate, Admit, BoundaryFails, DenyRow, EndAttempt,
                  TakeCommand, WriteSucceeds, WriteFails, Retain, RowFailure,
                  FinishRequest, ProjectOutbox, ReplayOne, ReplayFails
    <2>5. CASE \/ ReplayBegins \/ ReplayRefused \/ ReadRevision \/ Check
               \/ TickEnds \/ GoDown \/ ComeUp
      BY <2>5 DEF ReplayBegins, ReplayRefused, ReadRevision, Check, TickEnds,
                  GoDown, ComeUp, vars
    <2> QED
      BY <2>1, <2>2, <2>3, <2>4, <2>5
      DEF Next, ExecutorStep, WriterStep, ReaperStep
  <1> QED
    BY <1>1, PersistenceInvariance, PTL DEF Spec, FailureOutlivesCheck
=============================================================================
