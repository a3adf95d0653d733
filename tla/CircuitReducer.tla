--------------------------- MODULE CircuitReducer ---------------------------
(***************************************************************************)
(* The pure reducer behind the durable circuit of one station key:         *)
(* src-tauri/src/application/station_key_circuit.rs.  A row of             *)
(* routing_circuit_state_v3 is a record; admit, finish and                 *)
(* reap_expired_lease are operators from a row to a row and a verdict.     *)
(*                                                                         *)
(* Abstractions.  A policy is known by its revision: FailThreshold,        *)
(* RecoveryThreshold and RecoveryWait give the parameters of each          *)
(* revision, so the lease's policy snapshot is the revision it was taken   *)
(* from (NoPolicy for None).  opened_at_ms is not kept: no decision reads  *)
(* it.  The counters are unbounded here; the code saturates them at        *)
(* u16/u32/u64 widths, and max_cooldown_ms hides the saturation of the     *)
(* cooldown product.                                                       *)
(***************************************************************************)
EXTENDS Integers

CONSTANTS
    Attempts,           \* attempt ids, which are also the lease ids
    NoLease,            \* lease_id = None
    Policies,           \* revisions of the routing policy
    FailThreshold,      \* consecutive_failure_threshold of a revision
    RecoveryThreshold,  \* recovery_success_threshold of a revision
    RecoveryWait,       \* recovery_wait_ms of a revision
    MaxCooldown         \* MAX_COOLDOWN_MS

NoPolicy == 0

ASSUME NoLeaseAssumption == NoLease \notin Attempts
ASSUME PoliciesAssumption == Policies \subseteq Nat \ {NoPolicy}
ASSUME FailThresholdAssumption == FailThreshold \in [Policies -> Nat \ {0}]
ASSUME RecoveryThresholdAssumption ==
    RecoveryThreshold \in [Policies -> Nat \ {0}]
ASSUME RecoveryWaitAssumption == RecoveryWait \in [Policies -> Nat \ {0}]
ASSUME MaxCooldownAssumption == MaxCooldown \in Nat \ {0}

(***************************************************************************)
(* Rows.  "absent" is a key without a row: ensure_state creates it.        *)
(***************************************************************************)
Row ==
    [st : {"absent", "closed", "open", "half_open"},
     rev : Nat, policy : Policies \cup {NoPolicy},
     fails : Nat, level : Nat, until : Nat, succ : Nat,
     lease : Attempts \cup {NoLease}, leaseRev : Nat, expires : Nat,
     leasePolicy : Policies \cup {NoPolicy}, crossed : BOOLEAN]

AbsentRow ==
    [st |-> "absent", rev |-> 0, policy |-> NoPolicy,
     fails |-> 0, level |-> 0, until |-> 0, succ |-> 0,
     lease |-> NoLease, leaseRev |-> 0, expires |-> 0,
     leasePolicy |-> NoPolicy, crossed |-> FALSE]

ClosedRow(rev, policy, fails, level) ==
    [st |-> "closed", rev |-> rev, policy |-> policy,
     fails |-> fails, level |-> level, until |-> 0, succ |-> 0,
     lease |-> NoLease, leaseRev |-> 0, expires |-> 0,
     leasePolicy |-> NoPolicy, crossed |-> FALSE]

OpenRow(rev, policy, fails, level, until) ==
    [st |-> "open", rev |-> rev, policy |-> policy,
     fails |-> fails, level |-> level, until |-> until, succ |-> 0,
     lease |-> NoLease, leaseRev |-> 0, expires |-> 0,
     leasePolicy |-> NoPolicy, crossed |-> FALSE]

\* HalfOpen with no lease in flight: lease_revision repeats the row revision.
IdleRow(rev, policy, level, succ) ==
    [st |-> "half_open", rev |-> rev, policy |-> policy,
     fails |-> 0, level |-> level, until |-> 0, succ |-> succ,
     lease |-> NoLease, leaseRev |-> rev, expires |-> 0,
     leasePolicy |-> NoPolicy, crossed |-> FALSE]

\* Mutant: the recovery success is counted at admission, not by the result.
LeasedRowCountingAdmission(rev, policy, level, succ, attempt, deadline) ==
    [st |-> "half_open", rev |-> rev, policy |-> policy,
     fails |-> 0, level |-> level, until |-> 0, succ |-> succ + 1,
     lease |-> attempt, leaseRev |-> rev, expires |-> deadline,
     leasePolicy |-> policy, crossed |-> FALSE]

\* Mutant: the lease is granted under the revision the row already had.
LeasedRowSameRevision(rev, policy, level, succ, attempt, deadline) ==
    [st |-> "half_open", rev |-> rev - 1, policy |-> policy,
     fails |-> 0, level |-> level, until |-> 0, succ |-> succ,
     lease |-> attempt, leaseRev |-> rev - 1, expires |-> deadline,
     leasePolicy |-> policy, crossed |-> FALSE]

\* HalfOpen with a freshly granted lease under the policy of the admission.
LeasedRow(rev, policy, level, succ, attempt, deadline) ==
    [st |-> "half_open", rev |-> rev, policy |-> policy,
     fails |-> 0, level |-> level, until |-> 0, succ |-> succ,
     lease |-> attempt, leaseRev |-> rev, expires |-> deadline,
     leasePolicy |-> policy, crossed |-> FALSE]

EnsureState(row, policy) ==
    IF row.st = "absent" THEN ClosedRow(1, policy, 0, 0) ELSE row

\* What validate_state and the store's columns promise about a lease: only a
\* half-open row holds one, with the policy snapshot it was granted under, and
\* its revision is one the row had.
LeaseShape(row) ==
    /\ row.lease # NoLease =>
          /\ row.st = "half_open"
          /\ row.leasePolicy \in Policies
          /\ row.leaseRev \in 1 .. row.rev
    /\ row.lease = NoLease => ~row.crossed

(***************************************************************************)
(* open_with_policy: the exponential cooldown and the next Open row.       *)
(***************************************************************************)
Least(a, b) == IF a <= b THEN a ELSE b
Greatest(a, b) == IF a >= b THEN a ELSE b

\* Mutant: the cooldown doubles without end.
CooldownUncapped(level, wait, config) == wait * (2 ^ Least(level - 1, 63))

\* The cap of the cooldown comes from the reducer's configuration, the wait
\* from the policy the row opens under; the two differ for a leased row.
Cooldown(level, wait, config) ==
    LET product == wait * (2 ^ Least(level - 1, 63))
        cap == Greatest(MaxCooldown, RecoveryWait[config])
    IN  IF product \in 0 .. cap THEN product ELSE cap

\* Mutant: reopening does not raise the level again.
OpenWithPolicyOneLevel(row, config, now, fails, policy) ==
    OpenRow(row.rev + 1, policy, fails, 1,
            now + Cooldown(1, RecoveryWait[policy], config))

OpenWithPolicy(row, config, now, fails, policy) ==
    OpenRow(row.rev + 1, policy, fails, row.level + 1,
            now + Cooldown(row.level + 1, RecoveryWait[policy], config))

(***************************************************************************)
(* admit: what an admission finds, and the row it leaves.                  *)
(***************************************************************************)
AdmitVerdict(row, config, now) ==
    CASE row.st = "closed" /\ row.fails >= FailThreshold[config] -> "opens"
      [] row.st = "closed" /\ row.fails < FailThreshold[config] ->
            "allowed_closed"
      [] row.st = "open" /\ row.until > now -> "cooling"
      [] row.st = "half_open" /\ row.lease # NoLease -> "occupied"
      [] OTHER -> "allowed_half_open"

Allowed(verdict) == verdict \in {"allowed_closed", "allowed_half_open"}

\* A Closed or Open row adopts the caller's policy in a revision of its own.
AdoptPolicy(row, config) ==
    IF row.policy = config
    THEN row
    ELSE [row EXCEPT !.policy = config, !.rev = row.rev + 1]

AdmitRow(row, config, now, deadline, attempt) ==
    LET verdict == AdmitVerdict(row, config, now) IN
    CASE verdict = "opens" ->
            OpenWithPolicy(row, config, now, row.fails, config)
      [] verdict = "allowed_closed" \/ verdict = "cooling" ->
            AdoptPolicy(row, config)
      [] verdict = "occupied" -> row
      [] verdict = "allowed_half_open" /\ row.st = "open" ->
            LeasedRow(AdoptPolicy(row, config).rev + 1, config, row.level, 0,
                      attempt, deadline)
      [] OTHER ->
            LeasedRow(row.rev + 1, config, row.level, row.succ,
                      attempt, deadline)

(***************************************************************************)
(* finish: a terminal result.  counts is boundary_crossed /\               *)
(* affects_circuit.                                                        *)
(***************************************************************************)
\* Mutant: a result exactly at the deadline is still in time.
LapsedAfter(row, now) == row.expires < now

\* The lease is over from its deadline on.
Lapsed(row, now) == row.expires <= now

FinishTransition(row, config, now, attempt, success, counts) ==
    CASE row.st = "open" -> "ignored"
      [] row.st = "half_open" /\ row.lease # attempt -> "ignored"
      [] row.st = "closed" /\ ~counts -> "observed"
      [] row.st = "closed" /\ counts ->
            IF success THEN "reset"
            ELSE IF row.fails + 1 < FailThreshold[config] THEN "counted"
            ELSE "opened"
      [] OTHER ->
            IF ~counts THEN "released"
            ELSE IF Lapsed(row, now) \/ ~success THEN "reopened"
            ELSE IF row.succ + 1 >= RecoveryThreshold[row.leasePolicy]
                 THEN "closed"
                 ELSE "recovering"

FinishRow(row, config, now, attempt, success, counts) ==
    LET transition ==
            FinishTransition(row, config, now, attempt, success, counts) IN
    CASE transition = "reset" -> ClosedRow(row.rev + 1, config, 0, row.level)
      [] transition = "counted" ->
            ClosedRow(row.rev + 1, config, row.fails + 1, row.level)
      [] transition = "opened" ->
            OpenWithPolicy(row, config, now, row.fails + 1, config)
      [] transition = "released" ->
            IdleRow(row.rev, row.policy, row.level, row.succ)
      [] transition = "reopened" ->
            OpenWithPolicy(row, config, now, 0, row.leasePolicy)
      [] transition = "closed" -> ClosedRow(row.rev + 1, row.leasePolicy, 0, 0)
      [] transition = "recovering" ->
            IdleRow(row.rev + 1, row.leasePolicy, row.level, row.succ + 1)
      [] OTHER -> row

(***************************************************************************)
(* The reaper: an expired lease reopens the circuit when it crossed the    *)
(* outbound boundary and is only released when it did not.                 *)
(***************************************************************************)
Expired(row, now) ==
    row.st = "half_open" /\ row.lease # NoLease /\ Lapsed(row, now)

ReapRow(row, config, now) ==
    IF row.crossed
    THEN OpenWithPolicy(row, config, now, 0, row.leasePolicy)
    ELSE FinishRow(row, config, now, row.lease, FALSE, FALSE)
=============================================================================
