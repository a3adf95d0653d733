------------------------- MODULE CompositeCapacity -------------------------
(***************************************************************************)
(* The in-process capacity registry: application/routing_engine/           *)
(* capacity.rs.  A lease on a station key occupies a slot of the global    *)
(* constraint, of the station of the key and of the key itself.            *)
(*                                                                         *)
(* One mutex guards the counters, so try_acquire and release are functions *)
(* of the counters.  Production code never sets a half-open probe id, a    *)
(* provider account or a runtime override, and admits no waiters, so       *)
(* those parts of the registry are left out.  The limit of a constraint    *)
(* is the same in every planning snapshot.                                 *)
(***************************************************************************)
EXTENDS Integers

CONSTANTS
    Keys,       \* station keys
    Stations,   \* station accounts
    Global,     \* the constraint shared by all of them
    StationOf,  \* the station of a key
    Limit       \* max_concurrency of a constraint, 0 for unlimited

Constraints == {Global} \cup Stations \cup Keys

ASSUME ConstraintsDistinct ==
    /\ Global \notin Stations \cup Keys
    /\ Stations \cap Keys = {}
ASSUME StationOfAssumption == StationOf \in [Keys -> Stations]
ASSUME LimitAssumption == Limit \in [Constraints -> Nat]

\* ordered_constraints, as a set and as the part before a constraint.
ConstraintsOf(k) == {Global, StationOf[k], k}

Before(k, c) ==
    CASE c = Global -> {}
      [] c = StationOf[k] -> {Global}
      [] OTHER -> {Global, StationOf[k]}

Full(active, c) == Limit[c] > 0 /\ active[c] >= Limit[c]

\* Mutant: the loop over the constraints ends before the last one, the key's.
FitsShared(active, k) == \A c \in Before(k, k) : ~Full(active, c)

Fits(active, k) == \A c \in ConstraintsOf(k) : ~Full(active, c)

\* The constraint that try_acquire stops at.
Stops(active, k, c) ==
    /\ c \in ConstraintsOf(k)
    /\ Full(active, c)
    /\ \A b \in Before(k, c) : ~Full(active, b)

Take(active, cs) ==
    [c \in Constraints |-> IF c \in cs THEN active[c] + 1 ELSE active[c]]

\* Mutant: a release or rollback forgets the global counter.
RollbackSkipsGlobal(active, cs) ==
    [c \in Constraints |-> IF c \in cs \ {Global} /\ active[c] > 0
                           THEN active[c] - 1 ELSE active[c]]

Rollback(active, cs) ==
    [c \in Constraints |-> IF c \in cs /\ active[c] > 0
                           THEN active[c] - 1 ELSE active[c]]
=============================================================================
