---------------------- MODULE PortableActivationProofs ----------------------
(***************************************************************************)
(* The activation of an import, for any number of imports, writes and      *)
(* faults: the inductive invariant of journal, files and process, that the *)
(* user's database is kept, and that the protocol implements the contract  *)
(* of an atomic switch.                                                    *)
(***************************************************************************)
EXTENDS PortableActivation, TLAPS

USE ActivationAssumption
USE DEF Contents, Phases, Journals, Starting, Composing, Finishing, Preparing, Running,
        RuntimeOpen, files

\* A fault is counted within its bound.
LEMMA FaultCounted ==
  ASSUME TypeOK, NEW kind, Fault(kind)
  PROVE  faults' \in 0 .. MaxFaults
  BY DEF TypeOK, Fault

\* What mark_manual leaves behind: only the phase of the journal changes.
LEMMA Marked ==
  ASSUME TypeOK, journal # NoJournal, MarkManual
  PROVE  /\ at' = "recovery"
         /\ journal' \in Journals
         /\ journal'.phase = "ManualRecoveryRequired"
         /\ journal'.active = journal.active
         /\ journal'.staged = journal.staged
         /\ journal'.observed = journal.observed
  BY DEF TypeOK, MarkManual

\* What persist_phase leaves behind.
Advances(phase, observed, next) ==
  \/ ~ShapeOK(phase, observed) /\ at' = "recovery" /\ journal' = journal
  \/ /\ at' = next
     /\ ShapeOK(phase, observed)
     /\ journal' \in Journals
     /\ journal'.phase = phase
     /\ journal'.active = journal.active
     /\ journal'.staged = journal.staged
     /\ journal'.observed = observed

\* persist_phase publishes the phase, or the shape check refuses it and the
\* start ends in recovery.
LEMMA Persisted ==
  ASSUME TypeOK, journal # NoJournal, NEW phase \in Phases, NEW observed \in BOOLEAN,
     NEW next,
         Persist(phase, observed, next)
  PROVE  Advances(phase, observed, next)
  <1>1. CASE ~ShapeOK(phase, observed)
    BY <1>1 DEF Persist, Advances
  <1>2. CASE ShapeOK(phase, observed)
    <2>1. at' = next /\ journal' = [journal EXCEPT !.phase = phase, !.observed = observed]
      BY <1>2 DEF Persist
    <2>2. journal \in Journals
      BY DEF TypeOK
    <2>3. journal' \in Journals
      BY <2>1, <2>2 DEF Journals
    <2>4. journal'.phase = phase /\ journal'.active = journal.active
            /\ journal'.staged = journal.staged
      BY <2>1, <2>2 DEF Journals
    <2>5. journal'.observed = observed
      BY <2>1, <2>2 DEF Journals
    <2> QED
      BY <1>2, <2>1, <2>3, <2>4, <2>5 DEF Advances
  <1> QED
    BY <1>1, <1>2

-----------------------------------------------------------------------------
(* The invariant is kept by each step: first the running process and the   *)
(* preparation of an import, ...                                            *)

LEMMA WriteStep ==
  ASSUME ActivationInv, Write
  PROVE  ActivationInv'
  <1> USE DEF Write, Written
  <1>1. TypeOK'
    BY ActivationAssumption DEF ActivationInv, TypeOK
  <1>2. InHand'
    BY <1>1 DEF ActivationInv, InHand
  <1>3. JournalTrue'
    BY <1>1 DEF ActivationInv, InHand, JournalTrue
  <1>4. Known'
    BY <1>1 DEF ActivationInv, JournalTrue, Known
  <1>5. DatabaseSurvives'
    BY <1>1 DEF ActivationInv, InHand, DatabaseSurvives
  <1> QED
    BY <1>1, <1>2, <1>3, <1>4, <1>5 DEF ActivationInv

LEMMA PrepareTargetStep ==
  ASSUME ActivationInv, PrepareTarget
  PROVE  ActivationInv'
  <1> USE DEF PrepareTarget
  <1>1. TypeOK'
    BY ActivationAssumption DEF ActivationInv, TypeOK
  <1>2. InHand'
    BY <1>1 DEF ActivationInv, TypeOK, InHand, Known
  <1>3. JournalTrue'
    BY <1>1 DEF ActivationInv, InHand, JournalTrue
  <1>4. Known'
    BY <1>1 DEF ActivationInv, TypeOK, JournalTrue, Known
  <1>5. DatabaseSurvives'
    BY <1>1 DEF ActivationInv, InHand, DatabaseSurvives
  <1> QED
    BY <1>1, <1>2, <1>3, <1>4, <1>5 DEF ActivationInv

LEMMA PrepareBackupStep ==
  ASSUME ActivationInv, PrepareBackup
  PROVE  ActivationInv'
  <1> USE DEF PrepareBackup
  <1>1. TypeOK'
    BY ActivationAssumption DEF ActivationInv, TypeOK
  <1>2. InHand'
    BY <1>1 DEF ActivationInv, InHand
  <1>3. JournalTrue'
    BY <1>1 DEF ActivationInv, JournalTrue
  <1>4. Known'
    BY <1>1 DEF ActivationInv, Known
  <1>5. DatabaseSurvives'
    BY <1>1 DEF ActivationInv, DatabaseSurvives
  <1> QED
    BY <1>1, <1>2, <1>3, <1>4, <1>5 DEF ActivationInv

LEMMA FreezeStep ==
  ASSUME ActivationInv, Freeze
  PROVE  ActivationInv'
  <1> USE DEF Freeze
  <1>1. TypeOK'
    BY ActivationAssumption DEF ActivationInv, TypeOK
  <1>2. InHand'
    BY <1>1 DEF ActivationInv, InHand
  <1>3. JournalTrue'
    BY <1>1 DEF ActivationInv, JournalTrue
  <1>4. Known'
    BY <1>1 DEF ActivationInv, Known
  <1>5. DatabaseSurvives'
    BY <1>1 DEF ActivationInv, DatabaseSurvives
  <1> QED
    BY <1>1, <1>2, <1>3, <1>4, <1>5 DEF ActivationInv

LEMMA PrepareFailsStep ==
  ASSUME ActivationInv, PrepareFails
  PROVE  ActivationInv'
  <1>a. faults' \in 0 .. MaxFaults
    BY FaultCounted DEF ActivationInv, PrepareFails
  <1> USE DEF PrepareFails
  <1>1. TypeOK'
    BY <1>a DEF ActivationInv, TypeOK, InHand, Known
  <1>2. InHand'
    BY <1>1 DEF ActivationInv, InHand
  <1>3. JournalTrue'
    BY <1>1 DEF ActivationInv, JournalTrue
  <1>4. Known'
    BY <1>1 DEF ActivationInv, Known
  <1>5. DatabaseSurvives'
    BY <1>1 DEF ActivationInv, DatabaseSurvives
  <1> QED
    BY <1>1, <1>2, <1>3, <1>4, <1>5 DEF ActivationInv

LEMMA PublishPreparedStep ==
  ASSUME ActivationInv, PublishPrepared
  PROVE  ActivationInv'
  <1> USE DEF PublishPrepared, Prepared
  <1>1. TypeOK'
    BY ActivationAssumption DEF ActivationInv, TypeOK, InHand, Known
  <1>2. InHand'
    BY <1>1 DEF InHand
  <1>3. JournalTrue'
    BY <1>1 DEF ActivationInv, TypeOK, InHand, JournalTrue, Before, ShapeOK
  <1>4. Known'
    BY <1>1 DEF ActivationInv, JournalTrue, Known
  <1>5. DatabaseSurvives'
    BY <1>1 DEF TypeOK, Descends, DatabaseSurvives
  <1> QED
    BY <1>1, <1>2, <1>3, <1>4, <1>5 DEF ActivationInv

LEMMA PublishFailsStep ==
  ASSUME ActivationInv, PublishFails
  PROVE  ActivationInv'
  <1>a. faults' \in 0 .. MaxFaults
    BY FaultCounted DEF ActivationInv, PublishFails
  <1>b. Prepared \in Journals
    BY DEF ActivationInv, TypeOK, InHand, Known, Prepared, PublishFails
  <1> USE DEF PublishFails
  <1>1. TypeOK'
    BY <1>a, <1>b DEF ActivationInv, TypeOK
  <1>2. InHand'
    BY <1>1 DEF InHand
  <1>3. JournalTrue'
    BY <1>1 DEF Prepared, ActivationInv, TypeOK, InHand, JournalTrue, Before, ShapeOK
  <1>4. Known'
    BY <1>1 DEF ActivationInv, JournalTrue, Known
  <1>5. DatabaseSurvives'
    BY <1>1 DEF Prepared, ActivationInv, TypeOK, Descends, DatabaseSurvives
  <1> QED
    BY <1>1, <1>2, <1>3, <1>4, <1>5 DEF ActivationInv

(* ... the end of a process and the start of the next one, ... *)

LEMMA ExitStep ==
  ASSUME ActivationInv, Exit
  PROVE  ActivationInv'
  <1> USE DEF Exit
  <1>1. TypeOK'
    BY ActivationAssumption DEF ActivationInv, TypeOK
  <1>2. InHand'
    BY <1>1 DEF InHand
  <1>3. JournalTrue'
    BY <1>1 DEF ActivationInv, JournalTrue, Before, After, Between
  <1>4. Known'
    BY <1>1 DEF ActivationInv, Known
  <1>5. DatabaseSurvives'
    BY <1>1 DEF ActivationInv, DatabaseSurvives
  <1> QED
    BY <1>1, <1>2, <1>3, <1>4, <1>5 DEF ActivationInv

LEMMA CrashStep ==
  ASSUME ActivationInv, Crash
  PROVE  ActivationInv'
  <1>a. faults' \in 0 .. MaxFaults
    BY FaultCounted DEF ActivationInv, Crash
  <1> USE DEF Crash
  <1>1. TypeOK'
    BY <1>a DEF ActivationInv, TypeOK
  <1>2. InHand'
    BY <1>1 DEF InHand
  <1>3. JournalTrue'
    BY <1>1 DEF ActivationInv, JournalTrue, Before, After, Between
  <1>4. Known'
    BY <1>1 DEF ActivationInv, Known
  <1>5. DatabaseSurvives'
    BY <1>1 DEF ActivationInv, DatabaseSurvives
  <1> QED
    BY <1>1, <1>2, <1>3, <1>4, <1>5 DEF ActivationInv

LEMMA LoseBackupStep ==
  ASSUME ActivationInv, LoseBackup
  PROVE  ActivationInv'
  <1>a. faults' \in 0 .. MaxFaults
    BY FaultCounted DEF ActivationInv, LoseBackup
  <1> USE DEF LoseBackup
  <1>1. TypeOK'
    BY <1>a DEF ActivationInv, TypeOK
  <1>2. InHand'
    BY <1>1 DEF InHand
  <1>3. JournalTrue'
    BY <1>1 DEF ActivationInv, JournalTrue, Before, After, Between
  <1>4. Known'
    BY <1>1 DEF ActivationInv, Known
  <1>5. DatabaseSurvives'
    BY <1>1 DEF ActivationInv, DatabaseSurvives
  <1> QED
    BY <1>1, <1>2, <1>3, <1>4, <1>5 DEF ActivationInv

LEMMA StartUpStep ==
  ASSUME ActivationInv, StartUp
  PROVE  ActivationInv'
  <1> USE DEF StartUp
  <1>1. TypeOK'
    BY ActivationAssumption DEF ActivationInv, TypeOK
  <1>2. InHand'
    BY <1>1 DEF InHand
  <1>3. JournalTrue'
    BY <1>1 DEF ActivationInv, JournalTrue, Before, After, Between
  <1>4. Known'
    BY <1>1 DEF ActivationInv, Known
  <1>5. DatabaseSurvives'
    BY <1>1 DEF ActivationInv, DatabaseSurvives
  <1> QED
    BY <1>1, <1>2, <1>3, <1>4, <1>5 DEF ActivationInv

LEMMA StartErrorStep ==
  ASSUME ActivationInv, StartError
  PROVE  ActivationInv'
  <1>a. faults' \in 0 .. MaxFaults
    BY FaultCounted DEF ActivationInv, StartError
  <1> USE DEF StartError
  <1>1. TypeOK'
    BY <1>a DEF ActivationInv, TypeOK
  <1>2. InHand'
    BY <1>1 DEF InHand
  <1>3. JournalTrue'
    BY <1>1 DEF ActivationInv, JournalTrue, Before, After, Between
  <1>4. Known'
    BY <1>1 DEF ActivationInv, Known
  <1>5. DatabaseSurvives'
    BY <1>1 DEF ActivationInv, DatabaseSurvives
  <1> QED
    BY <1>1, <1>2, <1>3, <1>4, <1>5 DEF ActivationInv

(* ... the recovery by plan, replacement, validation and rollback, where an *)
(* Effect lemma says what the published phase is, ...                       *)

LEMMA PlanStep ==
  ASSUME ActivationInv, Plan
  PROVE  ActivationInv'
  <1> USE DEF Plan, PlanRecovery, Undecided, MarkManual, ActiveOld, ActiveNew,
     StagedNew, RollbackOld
  <1>1. TypeOK'
    BY ActivationAssumption DEF ActivationInv, TypeOK, InHand, Known
  <1>2. InHand'
    BY <1>1 DEF ActivationInv, TypeOK, InHand, JournalTrue, Before, After, Between,
       Undecideds
  <1>3. JournalTrue'
    BY <1>1 DEF ActivationInv, TypeOK, InHand, JournalTrue, Before, After, Between,
       Undecideds, ShapeOK
  <1>4. Known'
    BY <1>1 DEF ActivationInv, TypeOK, Known
  <1>5. DatabaseSurvives'
    BY <1>1 DEF ActivationInv, TypeOK, InHand, DatabaseSurvives
  <1> QED
    BY <1>1, <1>2, <1>3, <1>4, <1>5 DEF ActivationInv

LEMMA PlanUnreadableStep ==
  ASSUME ActivationInv, PlanUnreadable
  PROVE  ActivationInv'
  <1>a. TypeOK /\ journal # NoJournal /\ journal \in Journals
    BY DEF ActivationInv, TypeOK, InHand, PlanUnreadable
  <1>b. /\ at' = "recovery"
        /\ journal' \in Journals
        /\ journal'.phase = "ManualRecoveryRequired"
        /\ journal'.active = journal.active
        /\ journal'.staged = journal.staged
        /\ journal'.observed = journal.observed
    BY <1>a, Marked DEF PlanUnreadable
  <1>c. faults' \in 0 .. MaxFaults /\ UNCHANGED <<files, receipt, closed, imports>>
    BY <1>a, FaultCounted DEF PlanUnreadable, TypeOK
  <1>d. at \in Starting
    BY DEF PlanUnreadable
  <1>1. TypeOK'
    BY <1>a, <1>b, <1>c, <1>d, <1>a DEF ActivationInv, TypeOK
  <1>2. InHand'
    BY <1>a, <1>b, <1>c, <1>d, <1>1 DEF InHand
  <1>3. JournalTrue'
    BY <1>a, <1>b, <1>c, <1>d, <1>1 DEF ActivationInv, JournalTrue, Undecideds, ShapeOK
  <1>4. Known'
    BY <1>a, <1>b, <1>c, <1>d, <1>1 DEF ActivationInv, Known
  <1>5. DatabaseSurvives'
    BY <1>a, <1>b, <1>c, <1>d, <1>1 DEF ActivationInv, DatabaseSurvives
  <1> QED
    BY <1>1, <1>2, <1>3, <1>4, <1>5 DEF ActivationInv

LEMMA StartReplacementEffect ==
  ASSUME ActivationInv, StartReplacement
  PROVE  /\ TypeOK /\ journal # NoJournal /\ journal \in Journals /\ at = "replace"
         /\ UNCHANGED <<files, receipt, closed, imports, faults>>
         /\ Advances("ActivationStarted", FALSE, "swap")
  <1>a. TypeOK /\ journal # NoJournal /\ journal \in Journals /\ at = "replace"
    BY DEF ActivationInv, TypeOK, InHand, StartReplacement
  <1>b. journal.observed \in BOOLEAN
    BY <1>a
  <1>c. Persist("ActivationStarted", FALSE, "swap") /\ UNCHANGED <<files, receipt,
     closed, imports, faults>>
    BY <1>a DEF StartReplacement
  <1>d. Advances("ActivationStarted", FALSE, "swap")
    BY <1>a, <1>b, <1>c, Persisted
  <1> QED
    BY <1>a, <1>c, <1>d

LEMMA StartReplacementStep ==
  ASSUME ActivationInv, StartReplacement
  PROVE  ActivationInv'
  <1>a. /\ TypeOK /\ journal # NoJournal /\ journal \in Journals /\ at = "replace"
        /\ UNCHANGED <<files, receipt, closed, imports, faults>>
        /\ Advances("ActivationStarted", FALSE, "swap")
    BY StartReplacementEffect
  <1>1. TypeOK'
    BY <1>a, <1>a DEF Advances, ActivationInv, TypeOK
  <1>2. InHand'
    BY <1>a, <1>1 DEF Advances, ActivationInv, InHand, Before, Undecideds
  <1>3. JournalTrue'
    BY <1>a, <1>1 DEF Advances, ActivationInv, InHand, JournalTrue, Before
  <1>4. Known'
    BY <1>a, <1>1 DEF ActivationInv, InHand, Known, Before
  <1>5. DatabaseSurvives'
    BY <1>a, <1>1 DEF Advances, ActivationInv, DatabaseSurvives
  <1> QED
    BY <1>1, <1>2, <1>3, <1>4, <1>5 DEF ActivationInv

LEMMA SwapStep ==
  ASSUME ActivationInv, Swap
  PROVE  ActivationInv'
  <1> USE DEF Swap
  <1>1. TypeOK'
    BY ActivationAssumption DEF ActivationInv, TypeOK
  <1>2. InHand'
    BY <1>1 DEF ActivationInv, InHand, Before, After, Between
  <1>3. JournalTrue'
    BY <1>1 DEF ActivationInv, InHand, JournalTrue, Before, After, Between, Undecideds
  <1>4. Known'
    BY <1>1 DEF ActivationInv, InHand, Known
  <1>5. DatabaseSurvives'
    BY <1>1 DEF ActivationInv, Descends, DatabaseSurvives
  <1> QED
    BY <1>1, <1>2, <1>3, <1>4, <1>5 DEF ActivationInv

LEMMA SwapSecondStep ==
  ASSUME ActivationInv, SwapSecond
  PROVE  ActivationInv'
  <1> USE DEF SwapSecond
  <1>1. TypeOK'
    BY ActivationAssumption DEF ActivationInv, TypeOK
  <1>2. InHand'
    BY <1>1 DEF ActivationInv, InHand, After, Between
  <1>3. JournalTrue'
    BY <1>1 DEF ActivationInv, InHand, JournalTrue, After, Between, Undecideds
  <1>4. Known'
    BY <1>1 DEF ActivationInv, InHand, Known, Between
  <1>5. DatabaseSurvives'
    BY <1>1 DEF ActivationInv, InHand, Descends, Between, DatabaseSurvives
  <1> QED
    BY <1>1, <1>2, <1>3, <1>4, <1>5 DEF ActivationInv

LEMMA SwapFailsStep ==
  ASSUME ActivationInv, SwapFails
  PROVE  ActivationInv'
  <1>a. TypeOK /\ journal # NoJournal /\ journal \in Journals
    BY DEF ActivationInv, TypeOK, InHand, SwapFails
  <1>b. /\ at' = "recovery"
        /\ journal' \in Journals
        /\ journal'.phase = "ManualRecoveryRequired"
        /\ journal'.active = journal.active
        /\ journal'.staged = journal.staged
        /\ journal'.observed = journal.observed
    BY <1>a, Marked DEF SwapFails
  <1>c. faults' \in 0 .. MaxFaults /\ UNCHANGED <<files, receipt, closed, imports>>
    BY <1>a, FaultCounted DEF SwapFails, TypeOK
  <1>d. at \in Starting
    BY DEF SwapFails
  <1>1. TypeOK'
    BY <1>a, <1>b, <1>c, <1>d, <1>a DEF ActivationInv, TypeOK
  <1>2. InHand'
    BY <1>a, <1>b, <1>c, <1>d, <1>1 DEF InHand
  <1>3. JournalTrue'
    BY <1>a, <1>b, <1>c, <1>d, <1>1 DEF ActivationInv, JournalTrue, Undecideds, ShapeOK
  <1>4. Known'
    BY <1>a, <1>b, <1>c, <1>d, <1>1 DEF ActivationInv, Known
  <1>5. DatabaseSurvives'
    BY <1>a, <1>b, <1>c, <1>d, <1>1 DEF ActivationInv, DatabaseSurvives
  <1> QED
    BY <1>1, <1>2, <1>3, <1>4, <1>5 DEF ActivationInv

LEMMA CommitReplacementEffect ==
  ASSUME ActivationInv, CommitReplacement
  PROVE  /\ TypeOK /\ journal # NoJournal /\ journal \in Journals /\ at = "committed"
         /\ UNCHANGED <<files, receipt, closed, imports, faults>>
         /\ Advances("ReplacementCommitted", TRUE, "plan")
  <1>a. TypeOK /\ journal # NoJournal /\ journal \in Journals /\ at = "committed"
    BY DEF ActivationInv, TypeOK, InHand, CommitReplacement
  <1>b. journal.observed \in BOOLEAN
    BY <1>a
  <1>c. Persist("ReplacementCommitted", TRUE, "plan") /\ UNCHANGED <<files, receipt,
     closed, imports, faults>>
    BY <1>a DEF ActivationInv, InHand, After, CommitReplacement, ActiveNew, RollbackOld
  <1>d. Advances("ReplacementCommitted", TRUE, "plan")
    BY <1>a, <1>b, <1>c, Persisted
  <1> QED
    BY <1>a, <1>c, <1>d

LEMMA CommitReplacementStep ==
  ASSUME ActivationInv, CommitReplacement
  PROVE  ActivationInv'
  <1>a. /\ TypeOK /\ journal # NoJournal /\ journal \in Journals /\ at = "committed"
        /\ UNCHANGED <<files, receipt, closed, imports, faults>>
        /\ Advances("ReplacementCommitted", TRUE, "plan")
    BY CommitReplacementEffect
  <1>1. TypeOK'
    BY <1>a, <1>a DEF Advances, ActivationInv, TypeOK
  <1>2. InHand'
    BY <1>a, <1>1 DEF Advances, InHand
  <1>3. JournalTrue'
    BY <1>a, <1>1 DEF Advances, ActivationInv, InHand, JournalTrue, After
  <1>4. Known'
    BY <1>a, <1>1 DEF ActivationInv, InHand, Known, After
  <1>5. DatabaseSurvives'
    BY <1>a, <1>1 DEF Advances, ActivationInv, DatabaseSurvives
  <1> QED
    BY <1>1, <1>2, <1>3, <1>4, <1>5 DEF ActivationInv

LEMMA ValidateActiveEffect ==
  ASSUME ActivationInv, ValidateActive
  PROVE  /\ TypeOK /\ journal # NoJournal /\ journal \in Journals /\ at = "validate"
         /\ UNCHANGED <<files, receipt, closed, imports, faults>>
         /\ Advances("ActivatedValidated", journal.observed, "compose_activated")
  <1>a. TypeOK /\ journal # NoJournal /\ journal \in Journals /\ at = "validate"
    BY DEF ActivationInv, TypeOK, InHand, ValidateActive
  <1>b. journal.observed \in BOOLEAN
    BY <1>a
  <1>c. Persist("ActivatedValidated", journal.observed,
     "compose_activated") /\ UNCHANGED <<files, receipt, closed, imports, faults>>
    BY <1>a DEF ValidateActive
  <1>d. Advances("ActivatedValidated", journal.observed, "compose_activated")
    BY <1>a, <1>b, <1>c, Persisted
  <1> QED
    BY <1>a, <1>c, <1>d

LEMMA ValidateActiveStep ==
  ASSUME ActivationInv, ValidateActive
  PROVE  ActivationInv'
  <1>a. /\ TypeOK /\ journal # NoJournal /\ journal \in Journals /\ at = "validate"
        /\ UNCHANGED <<files, receipt, closed, imports, faults>>
        /\ Advances("ActivatedValidated", journal.observed, "compose_activated")
    BY ValidateActiveEffect
  <1>1. TypeOK'
    BY <1>a, <1>a DEF Advances, ActivationInv, TypeOK
  <1>2. InHand'
    BY <1>a, <1>1 DEF Advances, InHand
  <1>3. JournalTrue'
    BY <1>a, <1>1 DEF Advances, ActivationInv, InHand, JournalTrue, Descends, After,
       Undecideds
  <1>4. Known'
    BY <1>a, <1>1 DEF ActivationInv, InHand, Known, After
  <1>5. DatabaseSurvives'
    BY <1>a, <1>1 DEF Advances, ActivationInv, DatabaseSurvives
  <1> QED
    BY <1>1, <1>2, <1>3, <1>4, <1>5 DEF ActivationInv

LEMMA StartRollbackEffect ==
  ASSUME ActivationInv, StartRollback
  PROVE  /\ TypeOK /\ journal # NoJournal /\ journal \in Journals /\ at = "validate"
         /\ UNCHANGED <<files, receipt, closed, imports>>
         /\ Advances("RollbackStarted", TRUE, "unswap")
  <1>a. TypeOK /\ journal # NoJournal /\ journal \in Journals /\ at = "validate"
    BY DEF ActivationInv, TypeOK, InHand, StartRollback
  <1>b. journal.observed \in BOOLEAN
    BY <1>a
  <1>c. Persist("RollbackStarted", TRUE, "unswap") /\ UNCHANGED <<files, receipt,
     closed, imports>>
    BY <1>a DEF ActivationInv, InHand, After, StartRollback, ActiveNew, RollbackOld
  <1>d. Advances("RollbackStarted", TRUE, "unswap")
    BY <1>a, <1>b, <1>c, Persisted
  <1> QED
    BY <1>a, <1>c, <1>d

LEMMA StartRollbackStep ==
  ASSUME ActivationInv, StartRollback
  PROVE  ActivationInv'
  <1>e. faults' \in 0 .. MaxFaults
    BY FaultCounted DEF ActivationInv, TypeOK, StartRollback
  <1>a. /\ TypeOK /\ journal # NoJournal /\ journal \in Journals /\ at = "validate"
        /\ UNCHANGED <<files, receipt, closed, imports>>
        /\ Advances("RollbackStarted", TRUE, "unswap")
    BY StartRollbackEffect
  <1>1. TypeOK'
    BY <1>a, <1>e DEF Advances, ActivationInv, TypeOK
  <1>2. InHand'
    BY <1>a, <1>1 DEF Advances, ActivationInv, InHand, After, Undecideds
  <1>3. JournalTrue'
    BY <1>a, <1>1 DEF Advances, ActivationInv, InHand, JournalTrue, After
  <1>4. Known'
    BY <1>a, <1>1 DEF ActivationInv, InHand, Known, After
  <1>5. DatabaseSurvives'
    BY <1>a, <1>1 DEF Advances, ActivationInv, DatabaseSurvives
  <1> QED
    BY <1>1, <1>2, <1>3, <1>4, <1>5 DEF ActivationInv

LEMMA UnswapStep ==
  ASSUME ActivationInv, Unswap
  PROVE  ActivationInv'
  <1> USE DEF Unswap
  <1>1. TypeOK'
    BY ActivationAssumption DEF ActivationInv, TypeOK
  <1>2. InHand'
    BY <1>1 DEF ActivationInv, InHand, Before, After, Between
  <1>3. JournalTrue'
    BY <1>1 DEF ActivationInv, InHand, JournalTrue, Before, After, Between, Undecideds
  <1>4. Known'
    BY <1>1 DEF ActivationInv, TypeOK, InHand, Known, After
  <1>5. DatabaseSurvives'
    BY <1>1 DEF ActivationInv, InHand, JournalTrue, Descends, After, DatabaseSurvives
  <1> QED
    BY <1>1, <1>2, <1>3, <1>4, <1>5 DEF ActivationInv

LEMMA UnswapSecondStep ==
  ASSUME ActivationInv, UnswapSecond
  PROVE  ActivationInv'
  <1> USE DEF UnswapSecond
  <1>1. TypeOK'
    BY ActivationAssumption DEF ActivationInv, TypeOK
  <1>2. InHand'
    BY <1>1 DEF ActivationInv, InHand, Before, Between
  <1>3. JournalTrue'
    BY <1>1 DEF ActivationInv, InHand, JournalTrue, Before, Between, Undecideds
  <1>4. Known'
    BY <1>1 DEF ActivationInv, InHand, Known, Between
  <1>5. DatabaseSurvives'
    BY <1>1 DEF ActivationInv, InHand, Between, DatabaseSurvives
  <1> QED
    BY <1>1, <1>2, <1>3, <1>4, <1>5 DEF ActivationInv

LEMMA FinishRollbackEffect ==
  ASSUME ActivationInv, FinishRollback
  PROVE  /\ TypeOK /\ journal # NoJournal /\ journal \in Journals /\ at = "unswapped"
         /\ UNCHANGED <<files, receipt, closed, imports, faults>>
         /\ Advances("RolledBack", journal.observed, "compose_rolled_back")
  <1>a. TypeOK /\ journal # NoJournal /\ journal \in Journals /\ at = "unswapped"
    BY DEF ActivationInv, TypeOK, InHand, FinishRollback
  <1>b. journal.observed \in BOOLEAN
    BY <1>a
  <1>c. Persist("RolledBack", journal.observed,
     "compose_rolled_back") /\ UNCHANGED <<files, receipt, closed, imports, faults>>
    BY <1>a DEF ActivationInv, InHand, Before, FinishRollback, ActiveOld
  <1>d. Advances("RolledBack", journal.observed, "compose_rolled_back")
    BY <1>a, <1>b, <1>c, Persisted
  <1> QED
    BY <1>a, <1>c, <1>d

LEMMA FinishRollbackStep ==
  ASSUME ActivationInv, FinishRollback
  PROVE  ActivationInv'
  <1>a. /\ TypeOK /\ journal # NoJournal /\ journal \in Journals /\ at = "unswapped"
        /\ UNCHANGED <<files, receipt, closed, imports, faults>>
        /\ Advances("RolledBack", journal.observed, "compose_rolled_back")
    BY FinishRollbackEffect
  <1>1. TypeOK'
    BY <1>a, <1>a DEF Advances, ActivationInv, TypeOK
  <1>2. InHand'
    BY <1>a, <1>1 DEF Advances, InHand
  <1>3. JournalTrue'
    BY <1>a, <1>1 DEF Advances, ActivationInv, InHand, JournalTrue, Descends, Before,
       Undecideds
  <1>4. Known'
    BY <1>a, <1>1 DEF ActivationInv, InHand, Known, Before
  <1>5. DatabaseSurvives'
    BY <1>a, <1>1 DEF Advances, ActivationInv, DatabaseSurvives
  <1> QED
    BY <1>1, <1>2, <1>3, <1>4, <1>5 DEF ActivationInv

(* ... and the rest of the start. *)

LEMMA ComposeStep ==
  ASSUME ActivationInv, Compose
  PROVE  ActivationInv'
  <1> USE DEF Compose, Written
  <1>1. TypeOK'
    BY ActivationAssumption DEF ActivationInv, TypeOK
  <1>2. InHand'
    BY <1>1 DEF ActivationInv, InHand
  <1>3. JournalTrue'
    BY <1>1 DEF ActivationInv, TypeOK, JournalTrue, Descends
  <1>4. Known'
    BY <1>1 DEF ActivationInv, JournalTrue, Known
  <1>5. DatabaseSurvives'
    BY <1>1 DEF ActivationInv, TypeOK, Descends, DatabaseSurvives
  <1> QED
    BY <1>1, <1>2, <1>3, <1>4, <1>5 DEF ActivationInv

LEMMA ComposeFailsStep ==
  ASSUME ActivationInv, ComposeFails
  PROVE  ActivationInv'
  <1>a. faults' \in 0 .. MaxFaults
    BY FaultCounted DEF ActivationInv, ComposeFails
  <1> USE DEF ComposeFails
  <1>1. TypeOK'
    BY <1>a DEF ActivationInv, TypeOK
  <1>2. InHand'
    BY <1>1 DEF InHand
  <1>3. JournalTrue'
    BY <1>1 DEF ActivationInv, JournalTrue
  <1>4. Known'
    BY <1>1 DEF ActivationInv, Known
  <1>5. DatabaseSurvives'
    BY <1>1 DEF ActivationInv, DatabaseSurvives
  <1> QED
    BY <1>1, <1>2, <1>3, <1>4, <1>5 DEF ActivationInv

LEMMA WriteReceiptStep ==
  ASSUME ActivationInv, WriteReceipt
  PROVE  ActivationInv'
  <1> USE DEF WriteReceipt
  <1>1. TypeOK'
    BY ActivationAssumption DEF ActivationInv, TypeOK
  <1>2. InHand'
    BY <1>1 DEF ActivationInv, InHand
  <1>3. JournalTrue'
    BY <1>1 DEF ActivationInv, JournalTrue
  <1>4. Known'
    BY <1>1 DEF ActivationInv, Known
  <1>5. DatabaseSurvives'
    BY <1>1 DEF ActivationInv, DatabaseSurvives
  <1> QED
    BY <1>1, <1>2, <1>3, <1>4, <1>5 DEF ActivationInv

LEMMA CompleteJournalEffect ==
  ASSUME ActivationInv, CompleteJournal
  PROVE  /\ TypeOK /\ journal # NoJournal /\ journal \in Journals /\ at = "receipt"
         /\ UNCHANGED <<files, receipt, closed, imports, faults>>
         /\ Advances("Completed", journal.observed, "completed")
  <1>a. TypeOK /\ journal # NoJournal /\ journal \in Journals /\ at = "receipt"
    BY DEF ActivationInv, TypeOK, InHand, CompleteJournal
  <1>b. journal.observed \in BOOLEAN
    BY <1>a
  <1>c. Persist("Completed", journal.observed, "completed") /\ UNCHANGED <<files,
     receipt, closed, imports, faults>>
    BY <1>a DEF CompleteJournal
  <1>d. Advances("Completed", journal.observed, "completed")
    BY <1>a, <1>b, <1>c, Persisted
  <1> QED
    BY <1>a, <1>c, <1>d

LEMMA CompleteJournalStep ==
  ASSUME ActivationInv, CompleteJournal
  PROVE  ActivationInv'
  <1>a. /\ TypeOK /\ journal # NoJournal /\ journal \in Journals /\ at = "receipt"
        /\ UNCHANGED <<files, receipt, closed, imports, faults>>
        /\ Advances("Completed", journal.observed, "completed")
    BY CompleteJournalEffect
  <1>1. TypeOK'
    BY <1>a, <1>a DEF Advances, ActivationInv, TypeOK
  <1>2. InHand'
    BY <1>a, <1>1 DEF Advances, InHand
  <1>3. JournalTrue'
    BY <1>a, <1>1 DEF Advances, ActivationInv, JournalTrue, Descends, Undecideds
  <1>4. Known'
    BY <1>a, <1>1 DEF ActivationInv, JournalTrue, Known
  <1>5. DatabaseSurvives'
    BY <1>a, <1>1 DEF Advances, ActivationInv, DatabaseSurvives
  <1> QED
    BY <1>1, <1>2, <1>3, <1>4, <1>5 DEF ActivationInv

LEMMA RemoveJournalStep ==
  ASSUME ActivationInv, RemoveJournal
  PROVE  ActivationInv'
  <1> USE DEF RemoveJournal
  <1>1. TypeOK'
    BY ActivationAssumption DEF ActivationInv, TypeOK
  <1>2. InHand'
    BY <1>1 DEF InHand
  <1>3. JournalTrue'
    BY <1>1 DEF JournalTrue
  <1>4. Known'
    BY <1>1 DEF ActivationInv, JournalTrue, Known
  <1>5. DatabaseSurvives'
    BY <1>1 DEF DatabaseSurvives
  <1> QED
    BY <1>1, <1>2, <1>3, <1>4, <1>5 DEF ActivationInv

-----------------------------------------------------------------------------
\* A first start finds a database and no journal.
LEMMA InitInv == Init => ActivationInv
  <1> SUFFICES ASSUME Init PROVE ActivationInv
    OBVIOUS
  <1>1. [db |-> 0, v |-> 0] \in Contents
    OBVIOUS
  <1>2. TypeOK
    <2>1. /\ active \in Contents \cup {NoFile} /\ staged \in Contents \cup {NoFile}
          /\ rollback \in Contents \cup {NoFile} /\ journal \in Journals \cup {NoJournal}
      BY <1>1 DEF Init
    <2>2. backup \in BOOLEAN /\ closed \in BOOLEAN
      BY DEF Init
    <2>3. imports \in 0 .. MaxImports /\ faults \in 0 .. MaxFaults
      BY DEF Init
    <2> QED
      BY <2>1, <2>2, <2>3 DEF Init, TypeOK
  <1>3. InHand /\ JournalTrue /\ Known /\ DatabaseSurvives
    BY <1>1 DEF Init, InHand, JournalTrue, Known, DatabaseSurvives
  <1> QED
    BY <1>2, <1>3 DEF ActivationInv

\* Every step of the process, of the platform and of the user keeps the invariant.
LEMMA NextInv == ActivationInv /\ [Next]_vars => ActivationInv'
  <1> SUFFICES ASSUME ActivationInv, [Next]_vars PROVE ActivationInv'
    OBVIOUS
  <1>1. CASE Write
    BY <1>1, WriteStep
  <1>2. CASE PrepareTarget
    BY <1>2, PrepareTargetStep
  <1>3. CASE PrepareBackup
    BY <1>3, PrepareBackupStep
  <1>4. CASE Freeze
    BY <1>4, FreezeStep
  <1>5. CASE PrepareFails
    BY <1>5, PrepareFailsStep
  <1>6. CASE PublishPrepared
    BY <1>6, PublishPreparedStep
  <1>7. CASE PublishFails
    BY <1>7, PublishFailsStep
  <1>8. CASE Exit
    BY <1>8, ExitStep
  <1>9. CASE Crash
    BY <1>9, CrashStep
  <1>10. CASE LoseBackup
    BY <1>10, LoseBackupStep
  <1>11. CASE StartUp
    BY <1>11, StartUpStep
  <1>12. CASE StartError
    BY <1>12, StartErrorStep
  <1>13. CASE Plan
    BY <1>13, PlanStep
  <1>14. CASE PlanUnreadable
    BY <1>14, PlanUnreadableStep
  <1>15. CASE StartReplacement
    BY <1>15, StartReplacementStep
  <1>16. CASE Swap
    BY <1>16, SwapStep
  <1>17. CASE SwapSecond
    BY <1>17, SwapSecondStep
  <1>18. CASE SwapFails
    BY <1>18, SwapFailsStep
  <1>19. CASE CommitReplacement
    BY <1>19, CommitReplacementStep
  <1>20. CASE ValidateActive
    BY <1>20, ValidateActiveStep
  <1>21. CASE StartRollback
    BY <1>21, StartRollbackStep
  <1>22. CASE Unswap
    BY <1>22, UnswapStep
  <1>23. CASE UnswapSecond
    BY <1>23, UnswapSecondStep
  <1>24. CASE FinishRollback
    BY <1>24, FinishRollbackStep
  <1>25. CASE Compose
    BY <1>25, ComposeStep
  <1>26. CASE ComposeFails
    BY <1>26, ComposeFailsStep
  <1>27. CASE WriteReceipt
    BY <1>27, WriteReceiptStep
  <1>28. CASE CompleteJournal
    BY <1>28, CompleteJournalStep
  <1>29. CASE RemoveJournal
    BY <1>29, RemoveJournalStep
  <1>u. CASE UNCHANGED vars
    BY <1>u DEF vars, ActivationInv, TypeOK, InHand, JournalTrue, Known,
       DatabaseSurvives, Descends,
             Before, After, Between
  <1> QED
    BY <1>1, <1>2, <1>3, <1>4, <1>5, <1>6, <1>7, <1>8, <1>9, <1>10, <1>11, <1>12, <1>13,
       <1>14, <1>15, <1>16, <1>17, <1>18, <1>19, <1>20, <1>21, <1>22, <1>23, <1>24,
       <1>25, <1>26, <1>27, <1>28, <1>29, <1>u DEF Next, Prepare, Recover, Finish

(* The journal is true of the files in every reachable state: whatever dies  *)
(* between two durable effects of the preparation or of a recovery, the phase *)
(* and the identities that plan_recovery reads say where the databases are.   *)
THEOREM Invariance == Spec => []ActivationInv
  BY InitInv, NextInv, PTL DEF Spec

(* The database that an import replaces is at the active or at the rollback  *)
(* path, with everything written to it, as long as there is a journal,        *)
(* whichever rename of replace_database_with_rollback was the last one.       *)
THEOREM DatabaseIsKept == Spec => []DatabaseSurvives
  <1>1. ActivationInv => DatabaseSurvives
    BY DEF ActivationInv
  <1> QED
    BY <1>1, Invariance, PTL

-----------------------------------------------------------------------------
-----------------------------------------------------------------------------
(* Each step maps to one step of the contract or to a stutter. *)

LEMMA WriteRefines ==
  ASSUME ActivationInv, Write
  PROVE  Contract!Write
  BY DEF ActivationInv, TypeOK, JournalTrue, Known, Undecideds, Found, Replaced,
     Offered, Stage, Pending, Ongoing, Opened, Contract!Write, Contract!Descends, Write,
     Written

LEMMA PrepareTargetRefines ==
  ASSUME ActivationInv, PrepareTarget
  PROVE  UNCHANGED <<Found, Replaced, Offered, Stage, Opened, receipt>>
  BY DEF ActivationInv, JournalTrue, Known, Found, Replaced, Offered, Stage, Pending,
     Ongoing, Opened, ActiveNew, PrepareTarget

LEMMA PrepareBackupRefines ==
  ASSUME ActivationInv, PrepareBackup
  PROVE  UNCHANGED <<Found, Replaced, Offered, Stage, Opened, receipt>>
  BY DEF Found, Replaced, Offered, Stage, Pending, Ongoing, Opened, ActiveNew, PrepareBackup

LEMMA FreezeRefines ==
  ASSUME ActivationInv, Freeze
  PROVE  Contract!Close
  BY DEF Found, Replaced, Offered, Stage, Pending, Ongoing, Opened, ActiveNew,
     Contract!Close, Freeze

LEMMA PrepareFailsRefines ==
  ASSUME ActivationInv, PrepareFails
  PROVE  \/ Contract!Close
         \/ UNCHANGED <<Found, Replaced, Offered, Stage, Opened, receipt>>
  BY DEF Found, Replaced, Offered, Stage, Pending, Ongoing, Opened, ActiveNew,
     Contract!Close, PrepareFails

LEMMA PublishPreparedRefines ==
  ASSUME ActivationInv, PublishPrepared
  PROVE  Contract!Offer
  <1>1. /\ active \in Contents /\ staged \in Contents /\ active.db # staged.db
        /\ journal = NoJournal /\ at = "frozen" /\ at' = "pending"
        /\ UNCHANGED <<files, receipt>>
    BY DEF ActivationInv, TypeOK, InHand, Known, PublishPrepared
  <1>2. /\ journal' \in Journals /\ journal'.phase = "Prepared"
        /\ journal'.active = active /\ journal'.staged = staged
    BY <1>1 DEF PublishPrepared, Prepared
  <1>3. journal' # NoJournal
    BY <1>2
  <1> QED
    BY <1>1, <1>2, <1>3 DEF Found, Replaced, Offered, Stage, Pending, Ongoing, Opened,
       ActiveNew, Contract!Offer

LEMMA PublishFailsRefines ==
  ASSUME ActivationInv, PublishFails
  PROVE  \/ Contract!Offer
         \/ UNCHANGED <<Found, Replaced, Offered, Stage, Opened, receipt>>
  BY DEF ActivationInv, TypeOK, InHand, Found, Replaced, Offered, Stage, Pending,
     Ongoing, Opened, ActiveNew, Contract!Offer, PublishFails, Prepared

LEMMA ExitRefines ==
  ASSUME ActivationInv, Exit
  PROVE  \/ Contract!Close
         \/ UNCHANGED <<Found, Replaced, Offered, Stage, Opened, receipt>>
  BY DEF Found, Replaced, Offered, Stage, Pending, Ongoing, Opened, ActiveNew,
     Contract!Close, Exit

LEMMA CrashRefines ==
  ASSUME ActivationInv, Crash
  PROVE  \/ Contract!Close
         \/ UNCHANGED <<Found, Replaced, Offered, Stage, Opened, receipt>>
  BY DEF Found, Replaced, Offered, Stage, Pending, Ongoing, Opened, ActiveNew,
     Contract!Close, Crash

LEMMA LoseBackupRefines ==
  ASSUME ActivationInv, LoseBackup
  PROVE  UNCHANGED <<Found, Replaced, Offered, Stage, Opened, receipt>>
  BY DEF Found, Replaced, Offered, Stage, Pending, Ongoing, Opened, ActiveNew, LoseBackup

LEMMA StartUpRefines ==
  ASSUME ActivationInv, StartUp
  PROVE  UNCHANGED <<Found, Replaced, Offered, Stage, Opened, receipt>>
  BY DEF Found, Replaced, Offered, Stage, Pending, Ongoing, Opened, ActiveNew, StartUp

LEMMA StartErrorRefines ==
  ASSUME ActivationInv, StartError
  PROVE  UNCHANGED <<Found, Replaced, Offered, Stage, Opened, receipt>>
  BY DEF Found, Replaced, Offered, Stage, Pending, Ongoing, Opened, ActiveNew, StartError

LEMMA PlanRefines ==
  ASSUME ActivationInv, Plan
  PROVE  \/ Contract!GiveUp
         \/ UNCHANGED <<Found, Replaced, Offered, Stage, Opened, receipt>>
  BY DEF ActivationInv, TypeOK, InHand, Found, Replaced, Offered, Stage, Pending,
     Ongoing, Opened, Contract!GiveUp, Plan, PlanRecovery, Undecided, MarkManual,
     ActiveNew

LEMMA PlanUnreadableRefines ==
  ASSUME ActivationInv, PlanUnreadable
  PROVE  \/ Contract!GiveUp
         \/ UNCHANGED <<Found, Replaced, Offered, Stage, Opened, receipt>>
  BY DEF ActivationInv, TypeOK, Found, Replaced, Offered, Stage, Pending, Ongoing,
     Opened, Contract!GiveUp, PlanUnreadable, MarkManual

LEMMA StartReplacementRefines ==
  ASSUME ActivationInv, StartReplacement
  PROVE  UNCHANGED <<Found, Replaced, Offered, Stage, Opened, receipt>>
  <1>1. /\ TypeOK /\ journal # NoJournal /\ journal \in Journals /\ at = "replace"
        /\ UNCHANGED <<files, receipt, closed, imports, faults>>
        /\ Advances("ActivationStarted", FALSE, "swap")
    BY StartReplacementEffect
  <1> QED
    BY <1>1 DEF Advances, ActivationInv, InHand, Undecideds, ShapeOK, Found, Replaced,
       Offered, Stage, Pending, Ongoing, Opened, ActiveNew

LEMMA SwapRefines ==
  ASSUME ActivationInv, Swap
  PROVE  \/ Contract!Switch
         \/ UNCHANGED <<Found, Replaced, Offered, Stage, Opened, receipt>>
  BY DEF ActivationInv, TypeOK, InHand, JournalTrue, Before, Undecideds, Found,
     Replaced, Offered, Stage, Pending, Ongoing, Opened, ActiveNew, Contract!Switch,
     Swap

LEMMA SwapSecondRefines ==
  ASSUME ActivationInv, SwapSecond
  PROVE  Contract!Switch
  BY DEF ActivationInv, TypeOK, InHand, Between, Undecideds, Found, Replaced, Offered,
     Stage, Pending, Ongoing, Opened, ActiveNew, Contract!Switch, SwapSecond

LEMMA SwapFailsRefines ==
  ASSUME ActivationInv, SwapFails
  PROVE  Contract!GiveUp
  BY DEF ActivationInv, TypeOK, InHand, Found, Replaced, Offered, Stage, Pending,
     Ongoing, Opened, Contract!GiveUp, SwapFails, MarkManual

LEMMA CommitReplacementRefines ==
  ASSUME ActivationInv, CommitReplacement
  PROVE  UNCHANGED <<Found, Replaced, Offered, Stage, Opened, receipt>>
  <1>1. /\ TypeOK /\ journal # NoJournal /\ journal \in Journals /\ at = "committed"
        /\ UNCHANGED <<files, receipt, closed, imports, faults>>
        /\ Advances("ReplacementCommitted", TRUE, "plan")
    BY CommitReplacementEffect
  <1> QED
    BY <1>1 DEF Advances, ActivationInv, InHand, Undecideds, ShapeOK, Found, Replaced,
       Offered, Stage, Pending, Ongoing, Opened, ActiveNew

LEMMA ValidateActiveRefines ==
  ASSUME ActivationInv, ValidateActive
  PROVE  \/ Contract!Decide
         \/ UNCHANGED <<Found, Replaced, Offered, Stage, Opened, receipt>>
  <1>1. /\ TypeOK /\ journal # NoJournal /\ journal \in Journals /\ at = "validate"
        /\ UNCHANGED <<files, receipt, closed, imports, faults>>
        /\ Advances("ActivatedValidated", journal.observed, "compose_activated")
    BY ValidateActiveEffect
  <1> QED
    BY <1>1 DEF Advances, ActivationInv, InHand, After, Undecideds, Found, Replaced,
       Offered, Stage, Pending, Ongoing, Opened, ActiveNew, Contract!Decide

LEMMA StartRollbackRefines ==
  ASSUME ActivationInv, StartRollback
  PROVE  UNCHANGED <<Found, Replaced, Offered, Stage, Opened, receipt>>
  <1>1. /\ TypeOK /\ journal # NoJournal /\ journal \in Journals /\ at = "validate"
        /\ UNCHANGED <<files, receipt, closed, imports>>
        /\ Advances("RollbackStarted", TRUE, "unswap")
    BY StartRollbackEffect
  <1> QED
    BY <1>1 DEF Advances, ActivationInv, InHand, Undecideds, ShapeOK, Found, Replaced,
       Offered, Stage, Pending, Ongoing, Opened, ActiveNew

LEMMA UnswapRefines ==
  ASSUME ActivationInv, Unswap
  PROVE  Contract!Revert
  BY DEF ActivationInv, TypeOK, InHand, JournalTrue, After, Undecideds, Found, Replaced,
     Offered, Stage, Pending, Ongoing, Opened, ActiveNew, Contract!Revert, Unswap

LEMMA UnswapSecondRefines ==
  ASSUME ActivationInv, UnswapSecond
  PROVE  UNCHANGED <<Found, Replaced, Offered, Stage, Opened, receipt>>
  BY DEF ActivationInv, TypeOK, InHand, JournalTrue, Between, Found, Replaced, Offered,
     Stage, Pending, Ongoing, Opened, ActiveNew, UnswapSecond

LEMMA FinishRollbackRefines ==
  ASSUME ActivationInv, FinishRollback
  PROVE  Contract!Decide
  <1>1. /\ TypeOK /\ journal # NoJournal /\ journal \in Journals /\ at = "unswapped"
        /\ UNCHANGED <<files, receipt, closed, imports, faults>>
        /\ Advances("RolledBack", journal.observed, "compose_rolled_back")
    BY FinishRollbackEffect
  <1> QED
    BY <1>1 DEF Advances, ActivationInv, InHand, JournalTrue, Before, Undecideds,
       ShapeOK, Found, Replaced, Offered, Stage, Pending, Ongoing, Opened, ActiveNew,
       Contract!Decide

LEMMA ComposeRefines ==
  ASSUME ActivationInv, Compose
  PROVE  Contract!Open
  BY DEF ActivationInv, TypeOK, JournalTrue, Known, Undecideds, Found, Replaced,
     Offered, Stage, Pending, Ongoing, Opened, Contract!Open, Contract!Descends,
     Contract!Usable, Contract!Decided, Compose, Written

LEMMA ComposeFailsRefines ==
  ASSUME ActivationInv, ComposeFails
  PROVE  Contract!Close
  BY DEF Found, Replaced, Offered, Stage, Pending, Ongoing, Opened, ActiveNew,
     Contract!Close, ComposeFails

LEMMA WriteReceiptRefines ==
  ASSUME ActivationInv, WriteReceipt
  PROVE  \/ Contract!Tell
         \/ Contract!Close
  BY DEF ActivationInv, InHand, Found, Replaced, Offered, Stage, Pending, Ongoing,
     Opened, Contract!Tell, Contract!Close, Contract!Decided, WriteReceipt

LEMMA CompleteJournalRefines ==
  ASSUME ActivationInv, CompleteJournal
  PROVE  \/ Contract!Settle
         \/ Contract!Close
  <1>1. /\ TypeOK /\ journal # NoJournal /\ journal \in Journals /\ at = "receipt"
        /\ UNCHANGED <<files, receipt, closed, imports, faults>>
        /\ Advances("Completed", journal.observed, "completed")
    BY CompleteJournalEffect
  <1> QED
    BY <1>1 DEF Advances, ActivationInv, InHand, Found, Replaced, Offered, Stage,
       Pending, Ongoing, Opened, Contract!Settle, Contract!Close, Contract!Decided

LEMMA RemoveJournalRefines ==
  ASSUME ActivationInv, RemoveJournal
  PROVE  UNCHANGED <<Found, Replaced, Offered, Stage, Opened, receipt>>
  BY DEF ActivationInv, InHand, Found, Replaced, Offered, Stage, Pending, Ongoing,
     Opened, RemoveJournal

(* Journal, renames, crashes and restarts implement the contract of an atomic *)
(* switch: a runtime is opened only before or after the decision, a decision   *)
(* that recover_portable_activation published is never taken back, and the     *)
(* receipt of complete_portable_activation tells it.                           *)
THEOREM Refinement == Spec => ImplementsContract
  <1>1. Init => Contract!CInit
    BY DEF Init, Contract!CInit, Found, Replaced, Offered, Stage, Pending, Ongoing, Opened
  <1>2. ActivationInv /\ [Next]_vars => [Contract!CNext]_(Contract!cvars)
    <2> SUFFICES ASSUME ActivationInv, [Next]_vars
                 PROVE  Contract!CNext \/ UNCHANGED Contract!cvars
      OBVIOUS
    <2> USE DEF Contract!CNext, Contract!cvars
    <2>1. CASE Write
      BY <2>1, WriteRefines
    <2>2. CASE PrepareTarget
      BY <2>2, PrepareTargetRefines
    <2>3. CASE PrepareBackup
      BY <2>3, PrepareBackupRefines
    <2>4. CASE Freeze
      BY <2>4, FreezeRefines
    <2>5. CASE PrepareFails
      BY <2>5, PrepareFailsRefines
    <2>6. CASE PublishPrepared
      BY <2>6, PublishPreparedRefines
    <2>7. CASE PublishFails
      BY <2>7, PublishFailsRefines
    <2>8. CASE Exit
      BY <2>8, ExitRefines
    <2>9. CASE Crash
      BY <2>9, CrashRefines
    <2>10. CASE LoseBackup
      BY <2>10, LoseBackupRefines
    <2>11. CASE StartUp
      BY <2>11, StartUpRefines
    <2>12. CASE StartError
      BY <2>12, StartErrorRefines
    <2>13. CASE Plan
      BY <2>13, PlanRefines
    <2>14. CASE PlanUnreadable
      BY <2>14, PlanUnreadableRefines
    <2>15. CASE StartReplacement
      BY <2>15, StartReplacementRefines
    <2>16. CASE Swap
      BY <2>16, SwapRefines
    <2>17. CASE SwapSecond
      BY <2>17, SwapSecondRefines
    <2>18. CASE SwapFails
      BY <2>18, SwapFailsRefines
    <2>19. CASE CommitReplacement
      BY <2>19, CommitReplacementRefines
    <2>20. CASE ValidateActive
      BY <2>20, ValidateActiveRefines
    <2>21. CASE StartRollback
      BY <2>21, StartRollbackRefines
    <2>22. CASE Unswap
      BY <2>22, UnswapRefines
    <2>23. CASE UnswapSecond
      BY <2>23, UnswapSecondRefines
    <2>24. CASE FinishRollback
      BY <2>24, FinishRollbackRefines
    <2>25. CASE Compose
      BY <2>25, ComposeRefines
    <2>26. CASE ComposeFails
      BY <2>26, ComposeFailsRefines
    <2>27. CASE WriteReceipt
      BY <2>27, WriteReceiptRefines
    <2>28. CASE CompleteJournal
      BY <2>28, CompleteJournalRefines
    <2>29. CASE RemoveJournal
      BY <2>29, RemoveJournalRefines
    <2>u. CASE UNCHANGED vars
      BY <2>u DEF vars, Found, Replaced, Offered, Stage, Pending, Ongoing, Opened, ActiveNew
    <2> QED
      BY <2>1, <2>2, <2>3, <2>4, <2>5, <2>6, <2>7, <2>8, <2>9, <2>10, <2>11, <2>12,
         <2>13, <2>14, <2>15, <2>16, <2>17, <2>18, <2>19, <2>20, <2>21, <2>22, <2>23,
         <2>24, <2>25, <2>26, <2>27, <2>28, <2>29, <2>u DEF Next, Prepare, Recover,
         Finish
  <1> QED
    BY <1>1, <1>2, Invariance, PTL DEF Spec, ImplementsContract, Contract!CSpec
=============================================================================
