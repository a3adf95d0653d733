------------------------- MODULE PortableActivation -------------------------
(***************************************************************************)
(* The activation of a portable import: the preparation that stages the    *)
(* imported database, freezes the running process and publishes the        *)
(* activation journal (application/data_migration/import_service.rs), and  *)
(* the recovery that every start makes from journal and files before a     *)
(* runtime is opened (services/portable_migration/recovery.rs and          *)
(* activation_journal.rs, services/data_store/atomic_file.rs, the startup  *)
(* sequence of lib.rs).                                                    *)
(*                                                                         *)
(* Every durable effect is a step of its own: a journal publication, a     *)
(* rename, a receipt, the removal of the journal.  The process may die     *)
(* between any two of them and is started again under the installation     *)
(* lease, so there is never more than one.                                 *)
(*                                                                         *)
(* The content of a database is [db, v]: the import it came from and the   *)
(* number of writes since.  A file identity (file id, length and SHA-256)  *)
(* is equal exactly when the content is.  The staged and the rollback path *)
(* carry the operation id, so every import has its own.                    *)
(***************************************************************************)
EXTENDS Naturals, FiniteSets

CONSTANTS
  NoFile,       \* a path where there is no file
  NoJournal,    \* there is no journal
  Unsound,      \* imports whose database does not validate after the swap
  Replacements, \* how the platform replaces a file: at once, by two renames
  Faults,       \* the kinds of faults that happen
  MaxImports,   \* bound: imports
  MaxWrites,    \* bound: writes to one database
  MaxFaults     \* bound: faults

VARIABLES
  active,     \* content of the active database path
  staged,     \* content of the staged path
  rollback,   \* content of the rollback path
  backup,     \* the verified backup is where the journal says
  journal,    \* the activation journal
  receipt,    \* outcome of the last receipt
  at,         \* what the process does
  closed,     \* the operation registry admits nothing any more
  imports,    \* imports so far
  faults      \* faults so far

vars == <<active, staged, rollback, backup, journal, receipt, at, closed, imports, faults>>
files == <<active, staged, rollback, backup>>

Contents == [db : 0 .. MaxImports, v : 0 .. MaxWrites]
Phases == {"Prepared", "ActivationStarted", "ReplacementCommitted", "ActivatedValidated",
           "RollbackStarted", "RolledBack", "ManualRecoveryRequired", "Completed"}
Journals == [phase : Phases, active : Contents, staged : Contents, observed : BOOLEAN]

ASSUME ActivationAssumption ==
  /\ Replacements \subseteq {"at_once", "renames"}
  /\ {MaxImports, MaxWrites, MaxFaults} \subseteq Nat
  /\ Unsound \subseteq 1 .. MaxImports
  /\ NoFile \notin Contents
  /\ NoJournal \notin Journals

Starting == {"plan", "replace", "swap", "swap2", "committed", "validate", "unswap", "unswap2",
             "unswapped"}
Composing == {"compose", "compose_activated", "compose_rolled_back"}
Finishing == {"composed_activated", "composed_rolled_back",
              "receipt", "completed"}
Preparing == {"target", "backed_up"}
Running == {"serving"} \cup Preparing
RuntimeOpen == Running \cup Finishing

TypeOK ==
  /\ active \in Contents \cup {NoFile}
  /\ staged \in Contents \cup {NoFile}
  /\ rollback \in Contents \cup {NoFile}
  /\ backup \in BOOLEAN
  /\ journal \in Journals \cup {NoJournal}
  /\ receipt \in {"none", "activated", "rolled_back"}
  /\ at \in {"down", "frozen", "halted", "pending", "recovery", "failed"}
              \cup Starting \cup Composing \cup RuntimeOpen
  /\ closed \in BOOLEAN
  /\ imports \in 0 .. MaxImports
  /\ faults \in 0 .. MaxFaults

Init ==
  /\ active = [db |-> 0, v |-> 0]
  /\ staged = NoFile /\ rollback = NoFile /\ backup = FALSE
  /\ journal = NoJournal
  /\ receipt = "none"
  /\ at = "down"
  /\ closed = FALSE
  /\ imports = 0
  /\ faults = 0

Fault(kind) == kind \in Faults /\ faults < MaxFaults /\ faults' = faults + 1

\* The contents that writes to c lead to.
Written(c) == {d \in Contents : d.db = c.db /\ d.v \in {c.v, c.v + 1}}

-----------------------------------------------------------------------------
(* The running process and the preparation of an import. *)

Write ==
  /\ at \in Running
  /\ active' \in Written(active) \ {active}
  /\ UNCHANGED <<staged, rollback, backup, journal, receipt, at, closed, imports, faults>>

\* The maintenance lease, the inspection and the target that is built from it.
PrepareTarget ==
  /\ at = "serving" /\ ~closed
  /\ imports < MaxImports
  /\ imports' = imports + 1
  /\ staged' = [db |-> imports + 1, v |-> 0]
  /\ rollback' = NoFile
  /\ at' = "target"
  /\ UNCHANGED <<active, backup, journal, receipt, closed, faults>>

PrepareBackup ==
  /\ at = "target"
  /\ backup' = TRUE
  /\ at' = "backed_up"
  /\ UNCHANGED <<active, staged, rollback, journal, receipt, closed, imports, faults>>

\* freeze_dependencies_for_activation_except: operations, runner, proxy and
\* then the persistence runtime.
Freeze ==
  /\ at = "backed_up"
  /\ closed' = TRUE
  /\ at' = "frozen"
  /\ UNCHANGED <<files, journal, receipt, imports, faults>>

\* A preparation that fails before the freeze gives its lease back; one that
\* fails inside it leaves the operation registry closed, with the runtime
\* still open or already draining.
PrepareFails ==
  /\ Fault("prepare")
  /\ \/ at \in Preparing /\ at' = "serving" /\ UNCHANGED closed
     \/ at = "backed_up" /\ at' \in {"serving", "halted"} /\ closed' = TRUE
     \/ at = "frozen" /\ at' = "halted" /\ UNCHANGED closed
  /\ UNCHANGED <<files, journal, receipt, imports>>

\* Mutant: the identity is the one of the inspection, before the last writes.
PreparedStale ==
  [phase |-> "Prepared", active |-> [active EXCEPT !.v = 0], staged |-> staged,
   observed |-> FALSE]

\* The identity of the active database is taken after the freeze.
Prepared == [phase |-> "Prepared", active |-> active, staged |-> staged, observed |-> FALSE]

PublishPrepared ==
  /\ at = "frozen"
  /\ journal' = Prepared
  /\ at' = "pending"
  /\ UNCHANGED <<files, receipt, closed, imports, faults>>

\* The publication fails, or its outcome is unknown: the process stays
\* frozen until the restart.
PublishFails ==
  /\ at = "frozen"
  /\ Fault("prepare")
  /\ journal' \in {journal, Prepared}
  /\ at' = "pending"
  /\ UNCHANGED <<files, receipt, closed, imports>>

-----------------------------------------------------------------------------
(* The end of a process, and the next one. *)

Exit ==
  /\ at \in Running \cup {"halted", "pending", "recovery", "failed"}
  /\ at' = "down"
  /\ UNCHANGED <<files, journal, receipt, closed, imports, faults>>

Crash ==
  /\ at # "down"
  /\ Fault("crash")
  /\ at' = "down"
  /\ UNCHANGED <<files, journal, receipt, closed, imports>>

\* The user removes the backup while the application is not running.
LoseBackup ==
  /\ at = "down" /\ backup
  /\ Fault("backup")
  /\ backup' = FALSE
  /\ UNCHANGED <<active, staged, rollback, journal, receipt, at, closed, imports>>

StartUp ==
  /\ at = "down"
  /\ closed' = FALSE
  /\ at' = IF journal = NoJournal THEN "compose" ELSE "plan"
  /\ UNCHANGED <<files, journal, receipt, imports, faults>>

\* The target key cannot be loaded, or the journal cannot be read or written:
\* the start ends in recovery and the journal stays.
StartError ==
  /\ at \in Starting \cup Composing
  /\ Fault("start")
  /\ at' = "recovery"
  /\ UNCHANGED <<files, journal, receipt, closed, imports>>

-----------------------------------------------------------------------------
(* recover_portable_activation_with_resolver *)

ActiveOld == active = journal.active
ActiveNew == active = journal.staged
StagedNew == staged = journal.staged
RollbackOld == rollback = journal.active

\* plan_recovery: the step after it, or "manual".
Undecided ==
  IF ActiveOld /\ StagedNew THEN "replace"
  ELSE IF ActiveNew /\ RollbackOld THEN "validate" ELSE "manual"

\* Mutant: the files decide although the new database has been validated.
PlanRecoveryByFiles ==
  IF backup /\ journal.phase # "ManualRecoveryRequired" THEN Undecided ELSE "manual"

PlanRecovery ==
  CASE ~backup -> "manual"
    [] backup /\ journal.phase \in {"Prepared", "ActivationStarted",
                                    "ReplacementCommitted", "RollbackStarted"} -> Undecided
    [] backup /\ journal.phase = "ActivatedValidated" ->
         IF ActiveNew /\ RollbackOld THEN "compose_activated" ELSE "manual"
    [] backup /\ journal.phase = "RolledBack" ->
         IF ActiveOld THEN "compose_rolled_back" ELSE "manual"
    [] backup /\ journal.phase = "ManualRecoveryRequired" -> "manual"
    [] backup /\ journal.phase = "Completed" -> "compose_activated"

\* mark_manual; when the write of the journal fails too, see StartError.
MarkManual ==
  /\ at' = "recovery"
  /\ journal' = [journal EXCEPT !.phase = "ManualRecoveryRequired"]

Plan ==
  /\ at = "plan"
  /\ IF PlanRecovery = "manual" THEN MarkManual
     ELSE at' = PlanRecovery /\ UNCHANGED journal
  /\ UNCHANGED <<files, receipt, closed, imports, faults>>

\* A file cannot be read, or a path is rejected: the plan is manual.
PlanUnreadable ==
  /\ at = "plan"
  /\ Fault("start")
  /\ MarkManual
  /\ UNCHANGED <<files, receipt, closed, imports>>

\* persist_phase; advance refuses a phase after the replacement that names no
\* rollback file.
ShapeOK(phase, observed) ==
  IF phase \in {"Prepared", "ActivationStarted"} THEN ~observed
  ELSE phase = "ManualRecoveryRequired" \/ observed

Persist(phase, observed, next) ==
  IF ShapeOK(phase, observed)
  THEN /\ journal' = [journal EXCEPT !.phase = phase, !.observed = observed]
       /\ at' = next
  ELSE /\ at' = "recovery"
       /\ UNCHANGED journal

StartReplacement ==
  /\ at = "replace"
  /\ Persist("ActivationStarted", FALSE, "swap")
  /\ UNCHANGED <<files, receipt, closed, imports, faults>>

\* Mutant: the staged database is renamed over the active one.
SwapInPlace ==
  /\ at = "swap"
  /\ active' = staged /\ staged' = NoFile
  /\ at' = "committed"
  /\ UNCHANGED <<rollback, backup, journal, receipt, closed, imports, faults>>

\* replace_with_rollback of the staged database: one system call, or two
\* renames with the active path empty between them.
Swap ==
  /\ at = "swap"
  /\ rollback = NoFile
  /\ rollback' = active
  /\ \E how \in Replacements :
       \/ /\ how = "at_once"
          /\ active' = staged /\ staged' = NoFile
          /\ at' = "committed"
       \/ /\ how = "renames"
          /\ active' = NoFile /\ UNCHANGED staged
          /\ at' = "swap2"
  /\ UNCHANGED <<backup, journal, receipt, closed, imports, faults>>

SwapSecond ==
  /\ at = "swap2"
  /\ active' = staged /\ staged' = NoFile
  /\ at' = "committed"
  /\ UNCHANGED <<rollback, backup, journal, receipt, closed, imports, faults>>

\* A replacement reports an error, before or after it took place, or the path
\* for the file it moves away is taken: ReplacementFailed, RollbackFailed.
PathTaken == (at = "swap" /\ rollback # NoFile) \/ (at = "unswap" /\ staged # NoFile)

SwapFails ==
  /\ at \in {"swap", "swap2", "committed", "unswap", "unswap2", "unswapped"}
  /\ IF PathTaken THEN UNCHANGED faults ELSE Fault("replace")
  /\ MarkManual
  /\ UNCHANGED <<files, receipt, closed, imports>>

CommitReplacement ==
  /\ at = "committed"
  /\ IF ActiveNew /\ RollbackOld
     THEN Persist("ReplacementCommitted", TRUE, "plan") ELSE MarkManual
  /\ UNCHANGED <<files, receipt, closed, imports, faults>>

ValidateActive ==
  /\ at = "validate"
  /\ active.db \notin Unsound
  /\ Persist("ActivatedValidated", journal.observed, "compose_activated")
  /\ UNCHANGED <<files, receipt, closed, imports, faults>>

\* rollback_or_manual, when the database or the attempt to read it is bad.
StartRollback ==
  /\ at = "validate"
  /\ \/ active.db \in Unsound /\ UNCHANGED faults
     \/ Fault("validate")
  /\ IF ActiveNew /\ RollbackOld
     THEN Persist("RollbackStarted", TRUE, "unswap") ELSE MarkManual
  /\ UNCHANGED <<files, receipt, closed, imports>>

Unswap ==
  /\ at = "unswap"
  /\ staged = NoFile
  /\ staged' = active
  /\ \E how \in Replacements :
       \/ /\ how = "at_once"
          /\ active' = rollback /\ rollback' = NoFile
          /\ at' = "unswapped"
       \/ /\ how = "renames"
          /\ active' = NoFile /\ UNCHANGED rollback
          /\ at' = "unswap2"
  /\ UNCHANGED <<backup, journal, receipt, closed, imports, faults>>

UnswapSecond ==
  /\ at = "unswap2"
  /\ active' = rollback /\ rollback' = NoFile
  /\ at' = "unswapped"
  /\ UNCHANGED <<staged, backup, journal, receipt, closed, imports, faults>>

\* Mutant: the plan is made again without the outcome of the rollback.
FinishRollbackReplan ==
  /\ at = "unswapped"
  /\ IF ActiveOld THEN at' = "plan" /\ UNCHANGED journal ELSE MarkManual
  /\ UNCHANGED <<files, receipt, closed, imports, faults>>

FinishRollback ==
  /\ at = "unswapped"
  /\ IF ActiveOld
     THEN Persist("RolledBack", journal.observed, "compose_rolled_back") ELSE MarkManual
  /\ UNCHANGED <<files, receipt, closed, imports, faults>>

-----------------------------------------------------------------------------
(* The rest of the start. *)

\* The runtime is opened, migrated and written to.
Compose ==
  /\ at \in Composing
  /\ active' \in Written(active)
  /\ at' = CASE at = "compose" -> "serving"
             [] at = "compose_activated" -> "composed_activated"
             [] at = "compose_rolled_back" -> "composed_rolled_back"
  /\ UNCHANGED <<staged, rollback, backup, journal, receipt, closed, imports, faults>>

\* A later part of the composition fails and so does the start.
ComposeFails ==
  /\ at \in Finishing
  /\ Fault("start")
  /\ at' = "failed"
  /\ UNCHANGED <<files, journal, receipt, closed, imports>>

\* complete_portable_activation
WriteReceipt ==
  /\ at \in {"composed_activated", "composed_rolled_back"}
  /\ IF journal.phase \in {"ActivatedValidated", "RolledBack"}
     THEN /\ receipt' = IF at = "composed_activated" THEN "activated" ELSE "rolled_back"
          /\ at' = "receipt"
     ELSE at' = "failed" /\ UNCHANGED receipt
  /\ UNCHANGED <<files, journal, closed, imports, faults>>

CompleteJournal ==
  /\ at = "receipt"
  /\ Persist("Completed", journal.observed, "completed")
  /\ UNCHANGED <<files, receipt, closed, imports, faults>>

RemoveJournal ==
  /\ at = "completed"
  /\ journal' = NoJournal
  /\ at' = "serving"
  /\ UNCHANGED <<files, receipt, closed, imports, faults>>

-----------------------------------------------------------------------------
Prepare == PrepareTarget \/ PrepareBackup \/ Freeze \/ PrepareFails
             \/ PublishPrepared \/ PublishFails

Recover == Plan \/ PlanUnreadable \/ StartReplacement \/ Swap \/ SwapSecond \/ SwapFails
             \/ CommitReplacement \/ ValidateActive \/ StartRollback \/ Unswap
             \/ UnswapSecond \/ FinishRollback

Finish == Compose \/ ComposeFails \/ WriteReceipt \/ CompleteJournal
            \/ RemoveJournal

Next == Write \/ Prepare \/ Exit \/ Crash \/ LoseBackup \/ StartUp \/ StartError
          \/ Recover \/ Finish

Spec == Init /\ [][Next]_vars

(* The start is one thread that runs without waiting for anybody. *)
FairSpec == Spec /\ WF_vars(Recover \/ Finish)

-----------------------------------------------------------------------------
(* The inductive invariant. *)

\* A database that came from d by writes alone.
Descends(e, d) == e # NoFile /\ e.db = d.db /\ e.v >= d.v

\* Where the two databases are while the switch is undecided: before it,
\* after it, or between two renames.
Before == active = journal.active /\ staged = journal.staged /\ rollback = NoFile
After == active = journal.staged /\ rollback = journal.active /\ staged = NoFile
Between == active = NoFile /\ staged = journal.staged /\ rollback = journal.active

Undecideds == {"Prepared", "ActivationStarted", "ReplacementCommitted", "RollbackStarted"}

\* What the process has in hand.
InHand ==
  /\ at \in Running \cup {"compose", "frozen", "halted"} => journal = NoJournal
  /\ at \in Starting \cup Finishing \cup {"compose_activated", "compose_rolled_back"} =>
       journal # NoJournal
  /\ at \in Preparing \cup {"frozen"} =>
       staged = [db |-> imports, v |-> 0] /\ rollback = NoFile /\ active.db < imports
  /\ at \in Starting \ {"plan"} => journal.phase \in Undecideds
  /\ at \in {"replace", "swap"} => Before
  /\ at \in {"committed", "validate", "unswap"} => After
  /\ at \in {"swap2", "unswap2"} => Between
  /\ at = "unswapped" => Before
  /\ at \in {"unswap", "unswap2", "unswapped"} => journal.observed
  /\ at \in {"compose_activated", "composed_activated"} =>
       journal.phase \in {"ActivatedValidated", "Completed"}
  /\ at \in {"compose_rolled_back", "composed_rolled_back"} => journal.phase = "RolledBack"
  /\ at = "receipt" => \/ journal.phase = "ActivatedValidated" /\ receipt = "activated"
                       \/ journal.phase = "RolledBack" /\ receipt = "rolled_back"
  /\ at = "completed" => journal.phase = "Completed"

\* What the journal says of the files, in every phase.
JournalTrue ==
  journal # NoJournal =>
    /\ journal.active.db # journal.staged.db
    /\ ShapeOK(journal.phase, journal.observed)
    /\ journal.phase \in Undecideds =>
         /\ Before \/ After \/ Between
         /\ at \in Starting \cup {"down", "pending", "recovery"}
    /\ journal.phase = "ActivatedValidated" =>
         rollback = journal.active /\ Descends(active, journal.staged)
    /\ journal.phase = "RolledBack" => Descends(active, journal.active)
    /\ journal.phase = "ManualRecoveryRequired" => at \in {"down", "recovery", "plan"}
    /\ journal.phase = "Completed" => active # NoFile

\* Databases come from imports that were made.
Known ==
  /\ \A c \in {active, staged, rollback} \ {NoFile} : c.db <= imports
  /\ active = NoFile =>
       /\ rollback # NoFile
       /\ journal # NoJournal
       /\ journal.phase \in Undecideds \cup {"ManualRecoveryRequired"}

(* Properties. *)

(* The user's database survives: whatever dies, fails or is repeated, the      *)
(* database the journal replaces is at the active or the rollback path, with   *)
(* everything written to it, as long as there is a journal.                    *)
DatabaseSurvives ==
  journal # NoJournal => \E c \in {active, rollback} : Descends(c, journal.active)

(* The journal is true of the files at every step: whatever dies between two   *)
(* durable effects, the phase that plan_recovery reads and the identities in   *)
(* the journal describe where the two databases are, the process holds what    *)
(* its next step needs, and the active path is empty only while the rollback   *)
(* path keeps the database and a journal says so.                              *)
ActivationInv == TypeOK /\ InHand /\ JournalTrue /\ Known /\ DatabaseSurvives

(* The import as the user sees it. *)
Pending == journal # NoJournal /\ journal.phase # "Completed"
Stage ==
  IF ~Pending THEN "idle"
  ELSE CASE journal.phase = "ManualRecoveryRequired" -> "given_up"
         [] journal.phase = "ActivatedValidated" -> "activated"
         [] journal.phase = "RolledBack" -> "rolled_back"
         [] OTHER -> IF ActiveNew THEN "switched" ELSE "offered"
Ongoing == Pending /\ journal.phase # "ManualRecoveryRequired"
Found == IF active = NoFile THEN rollback ELSE active
Replaced == IF Ongoing THEN journal.active ELSE NoFile
Offered == IF Ongoing THEN journal.staged ELSE NoFile
Opened == at \in RuntimeOpen

Contract == INSTANCE ImportContract WITH
  db <- Found, prev <- Replaced, candidate <- Offered, st <- Stage, open <- Opened,
  told <- receipt

(* The protocol of journal, files and restarts implements the contract of an   *)
(* atomic switch: nothing is opened while the switch is undecided, a decided   *)
(* switch is never taken back, and the receipt tells what was decided.         *)
ImplementsContract == Contract!CSpec

(* The recovery loop of a start comes to an end: replacing, validating and     *)
(* rolling back do not chase one another.                                      *)
StartupLoopEnds == at \in Starting ~> at \notin Starting

(* The recovery is by files and not by phase: when the files are those of a    *)
(* replacement that did not or did happen, a start does not end in recovery.   *)
Provable == /\ journal # NoJournal /\ backup
            /\ (ActiveOld /\ StagedNew) \/ (ActiveNew /\ RollbackOld)
RecoveredByFiles == at = "recovery" => ~Provable
=============================================================================
