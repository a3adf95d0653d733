---------------------- MODULE RoutingGenerationProofs ----------------------
(***************************************************************************)
(* Proofs about the routing generation registry, for any policies, source  *)
(* profiles, attempts and bounds.                                          *)
(***************************************************************************)
EXTENDS RoutingGeneration, WellFoundedInduction, TLAPS

\* A non-empty set of naturals below a bound has the maximum Max returns.
LEMMA MaxInSet ==
    ASSUME NEW n \in Nat, NEW S, S \subseteq 0 .. n, S # {}
    PROVE  Max(S) \in S /\ \A y \in S : Max(S) >= y
  <1> DEFINE T == {n - x : x \in S}
  <1>1. T \subseteq Nat /\ T # {}
    <2>1. \A x \in S : n - x \in Nat
      OBVIOUS
    <2>2. PICK z \in S : TRUE
      OBVIOUS
    <2>3. n - z \in T
      BY <2>2
    <2> QED
      BY <2>1, <2>3
  <1>2. PICK m \in T : \A y \in T : ~(<<y, m>> \in OpToRel(<, Nat))
    <2> HIDE DEF T
    <2> QED
      BY <1>1, NatLessThanWellFounded, WFMin
  <1>3. \A y \in T : ~(y < m)
    <2> SUFFICES ASSUME NEW y \in T, y < m PROVE FALSE
      OBVIOUS
    <2>1. y \in Nat /\ m \in Nat
      BY <1>1
    <2>2. <<y, m>> \in OpToRel(<, Nat)
      BY <2>1 DEF OpToRel
    <2> QED
      BY <2>2, <1>2
  <1>4. PICK x \in S : m = n - x
    OBVIOUS
  <1>5. \A y \in S : x >= y
    <2> SUFFICES ASSUME NEW y \in S PROVE x >= y
      OBVIOUS
    <2>1. ~(n - y < m) /\ x \in Nat /\ y \in Nat
      BY <1>3
    <2> QED
      BY <2>1, <1>4
  <1> QED
    BY <1>5 DEF Max

-----------------------------------------------------------------------------
(* Sequences of rows. *)

IsSeq(s) == s \in Seq({s[i] : i \in DOMAIN s})

\* The domain of a sequence, and functions on 1 .. n that are sequences.
LEMMA SeqDomain ==
    ASSUME NEW s, IsSeq(s)
    PROVE  Len(s) \in Nat /\ DOMAIN s = 1 .. Len(s) /\ s = [i \in DOMAIN s |-> s[i]]
  BY DEF IsSeq

LEMMA SeqOfFunction ==
    ASSUME NEW s, NEW n \in Nat, DOMAIN s = 1 .. n, s = [i \in DOMAIN s |-> s[i]]
    PROVE  IsSeq(s) /\ Len(s) = n
  <1> DEFINE S == {s[i] : i \in DOMAIN s}
  <1>1. s \in [1 .. n -> S]
    OBVIOUS
  <1>2. s \in Seq(S)
    <2> HIDE DEF S
    <2> QED
      BY <1>1
  <1> QED
    BY <1>1, <1>2 DEF IsSeq

LEMMA SeqAppended ==
    ASSUME NEW s, NEW x, IsSeq(s)
    PROVE  LET t == Append(s, x) IN
           /\ IsSeq(t) /\ Len(t) = Len(s) + 1 /\ DOMAIN t = 1 .. (Len(s) + 1)
           /\ \A i \in DOMAIN s : t[i] = s[i]
           /\ t[Len(s) + 1] = x
  <1> DEFINE S == {s[i] : i \in DOMAIN s} \cup {x}
  <1> DEFINE t == Append(s, x)
  <1>1. Len(s) \in Nat /\ DOMAIN s = 1 .. Len(s) /\ s = [i \in DOMAIN s |-> s[i]]
    BY SeqDomain
  <1>2. s \in [1 .. Len(s) -> S]
    BY <1>1
  <1>3. s \in Seq(S) /\ x \in S
    <2>1. x \in S
      OBVIOUS
    <2> HIDE DEF S
    <2> QED
      BY <1>1, <1>2, <2>1
  <1>4. /\ Len(t) = Len(s) + 1 /\ t \in Seq(S)
        /\ \A i \in 1 .. Len(s) : t[i] = s[i]
        /\ t[Len(s) + 1] = x
    <2> HIDE DEF S
    <2> QED
      BY <1>3
  <1>5. DOMAIN t = 1 .. (Len(s) + 1) /\ t = [i \in DOMAIN t |-> t[i]]
    <2> HIDE DEF S, t
    <2> QED
      BY <1>4
  <1>6. IsSeq(t)
    <2> HIDE DEF t
    <2> QED
      BY <1>5, <1>1, SeqOfFunction
  <1> QED
    BY <1>1, <1>4, <1>5, <1>6

-----------------------------------------------------------------------------
(* The inductive invariant. *)

Row(g) == g = [rev |-> g.rev, quality |-> g.quality, circuit |-> g.circuit,
               status |-> g.status, qual |-> g.qual]
PolicyRow(p) == p = [policy |-> p.policy, base |-> p.base, status |-> p.status]

RowsOK ==
    /\ IsSeq(policies) /\ IsSeq(gens)
    /\ \A r \in DOMAIN policies : PolicyRow(policies[r])
    /\ \A i \in DOMAIN gens : Row(gens[i]) /\ gens[i].rev \in DOMAIN policies

PointersOK == active \in 0 .. Len(gens) /\ fenced \in 0 .. Len(gens)

\* A policy is live: the active one, or every one before the first cutover.
LiveOK ==
    /\ 1 \in DOMAIN policies
    /\ active = None => \A r \in DOMAIN policies : policies[r].status \in Live

\* What the holder of the lane knows while nobody else can move the pointers.
LaneOK ==
    /\ lane.pc \in {"register", "fast_register"} => lane.input.rev \in DOMAIN policies
    /\ lane.pc \in {"begin", "fast_activate", "retarget"} => lane.target \in DOMAIN gens
    /\ lane.pc \in {"advance", "replace", "retarget", "activate"} => fenced # None
    /\ lane.pc = "replace" => lane.input.rev = gens[fenced].rev
    /\ lane.pc = "retarget" => gens[lane.target].rev = gens[fenced].rev
    /\ lane.pc \in {"replace", "retarget", "activate"} => gens[fenced].rev >= ActiveRevision
    /\ lane.pc \in {"fast_register", "fast_activate"} => lane.source # None

AttemptsOK ==
    /\ attempts = [a \in Attempts |-> attempts[a]]
    /\ \A a \in Attempts : attempts[a].st = "pending" =>
         attempts[a].gen \in 0 .. Len(gens) /\ (active = None => attempts[a].gen = None)
    /\ NoAttemptSpansCutover

IInv == RowsOK /\ PointersOK /\ LiveOK /\ LaneOK /\ RegistryConsistent /\ AttemptsOK

\* The newest live revision exists and is no older than the active one.
LEMMA LatestKnown ==
    ASSUME RowsOK, PointersOK, LiveOK, RegistryConsistent
    PROVE  /\ LatestRevision \in DOMAIN policies /\ LatestRevision \in Nat
           /\ ActiveRevision \in Nat
           /\ LatestRevision >= ActiveRevision
           /\ DOMAIN policies \subseteq Nat
           /\ DOMAIN gens \subseteq Nat
           /\ active # None => active \in DOMAIN gens
           /\ fenced # None => fenced \in DOMAIN gens
  <1>1. /\ Len(policies) \in Nat /\ DOMAIN policies = 1 .. Len(policies)
        /\ Len(gens) \in Nat /\ DOMAIN gens = 1 .. Len(gens)
    BY SeqDomain DEF RowsOK
  <1>2. /\ active # None => active \in DOMAIN gens
        /\ fenced # None => fenced \in DOMAIN gens
    BY <1>1 DEF PointersOK, None
  <1>3. LiveRevisions \subseteq 0 .. Len(policies) /\ LiveRevisions \subseteq DOMAIN policies
    BY <1>1 DEF LiveRevisions
  <1>4. CASE active = None
    <2>1. 1 \in LiveRevisions
      BY <1>4 DEF LiveOK, LiveRevisions
    <2>2. Max(LiveRevisions) \in LiveRevisions /\ Max(LiveRevisions) >= 1
      BY <1>1, <1>3, <2>1, MaxInSet
    <2> QED
      BY <1>1, <1>2, <1>3, <1>4, <2>2 DEF LatestRevision, ActiveRevision
  <1>5. CASE active # None
    <2>1. gens[active].rev \in DOMAIN policies
      BY <1>2, <1>5 DEF RowsOK
    <2>2. gens[active].rev \in LiveRevisions
      BY <1>5, <2>1 DEF RegistryConsistent, LiveRevisions, Live
    <2>3. Max(LiveRevisions) \in LiveRevisions /\ Max(LiveRevisions) >= gens[active].rev
      BY <1>1, <1>3, <2>2, MaxInSet
    <2> QED
      BY <1>1, <1>2, <1>3, <1>5, <2>1, <2>3 DEF LatestRevision, ActiveRevision
  <1> QED
    BY <1>4, <1>5

\* The input of a build names the revision it is built for.
LEMMA BuildRevision == \A r : Build(r).rev = r
  BY DEF Build, FirstBuild, NextBuild

\* An update that touches status or qualification of rows keeps the rest.
LEMMA RowsUpdated ==
    ASSUME RowsOK, UNCHANGED policies,
           gens' = [i \in DOMAIN gens |-> gens'[i]],
           \A i \in DOMAIN gens :
             \/ gens'[i] = gens[i]
             \/ \E v : gens'[i] = [gens[i] EXCEPT !.status = v]
             \/ \E v : gens'[i] = [gens[i] EXCEPT !.qual = v]
    PROVE  /\ RowsOK' /\ Len(gens') = Len(gens) /\ DOMAIN gens' = DOMAIN gens
           /\ \A i \in DOMAIN gens :
                gens'[i].rev = gens[i].rev /\ gens'[i].circuit = gens[i].circuit
  <1>1. Len(gens) \in Nat /\ DOMAIN gens = 1 .. Len(gens)
    BY SeqDomain DEF RowsOK
  <1>2. DOMAIN gens' = DOMAIN gens
    OBVIOUS
  <1>3. IsSeq(gens') /\ Len(gens') = Len(gens)
    BY <1>1, <1>2, SeqOfFunction
  <1>4. ASSUME NEW i \in DOMAIN gens
        PROVE  /\ Row(gens'[i]) /\ gens'[i].rev = gens[i].rev
               /\ gens'[i].circuit = gens[i].circuit
    BY <1>4 DEF RowsOK, Row
  <1> QED
    BY <1>2, <1>3, <1>4 DEF RowsOK

\* Rows that only gain elements keep what the attempts rely on.
LEMMA AttemptsKept ==
    ASSUME AttemptsOK, PointersOK, IsSeq(gens), IsSeq(gens)',
           Len(gens) <= Len(gens'),
           \A i \in DOMAIN gens : gens'[i].circuit = gens[i].circuit,
           UNCHANGED <<attempts, active>>
    PROVE  AttemptsOK'
  <1>1. /\ Len(gens) \in Nat /\ DOMAIN gens = 1 .. Len(gens)
        /\ Len(gens') \in Nat /\ DOMAIN gens' = 1 .. Len(gens')
    <2>1. Len(gens) \in Nat /\ DOMAIN gens = 1 .. Len(gens)
      BY SeqDomain
    <2>2. IsSeq(gens')
      BY DEF IsSeq
    <2> QED
      BY <2>1, <2>2, SeqDomain
  <1>2. ASSUME NEW a \in Attempts, attempts[a].st = "pending"
        PROVE  attempts[a].gen \in 0 .. Len(gens')
    BY <1>1, <1>2 DEF AttemptsOK
  <1>3. ASSUME NEW a \in Attempts, attempts[a].st = "pending", attempts[a].gen # active
        PROVE  attempts[a].gen # None /\ gens'[attempts[a].gen].circuit = gens'[active].circuit
    <2>1. attempts[a].gen # None /\ gens[attempts[a].gen].circuit = gens[active].circuit
      BY <1>3 DEF AttemptsOK, NoAttemptSpansCutover
    <2>2. attempts[a].gen \in DOMAIN gens
      BY <1>1, <1>3, <2>1 DEF AttemptsOK, None
    <2>3. CASE active # None
      <3>1. active \in DOMAIN gens
        BY <1>1, <2>3 DEF PointersOK, None
      <3> QED
        BY <2>1, <2>2, <3>1
    <2>4. CASE active = None
      BY <1>3, <2>1, <2>4 DEF AttemptsOK
    <2> QED
      BY <2>3, <2>4
  <1> QED
    BY <1>2, <1>3 DEF AttemptsOK, NoAttemptSpansCutover

-----------------------------------------------------------------------------
(* The pieces of a step. *)

\* A lane that is released knows nothing.
LEMMA LaneReleased == lane' = FreeLane => LaneOK'
  BY DEF FreeLane, LaneOK

\* A step that leaves policies, rows and pointers alone.
LEMMA QuietStep ==
    ASSUME IInv, UNCHANGED <<policies, gens, active, fenced>>, AttemptsOK',
           LaneOK' \/ UNCHANGED lane
    PROVE  IInv'
  <1>1. RowsOK' /\ PointersOK' /\ LiveOK' /\ RegistryConsistent'
    BY DEF IInv, RowsOK, PointersOK, LiveOK, RegistryConsistent, IsSeq
  <1>2. LaneOK'
    BY DEF IInv, LaneOK, ActiveRevision
  <1> QED
    BY <1>1, <1>2 DEF IInv

\* Attempts and registry alone: nothing the attempts rely on changes.
LEMMA AttemptsQuiet ==
    ASSUME IInv, UNCHANGED <<gens, active, attempts>>
    PROVE  AttemptsOK'
  BY DEF IInv, AttemptsOK, NoAttemptSpansCutover

\* The rows after ready rows of a revision were marked stale.
LEMMA StaleMarked ==
    ASSUME IInv, NEW r, gens' = MarkStale(r),
           UNCHANGED <<policies, active, fenced, attempts>>
    PROVE  /\ RowsOK' /\ PointersOK' /\ LiveOK' /\ RegistryConsistent' /\ AttemptsOK'
           /\ DOMAIN gens' = DOMAIN gens
           /\ \A i \in DOMAIN gens : gens'[i].rev = gens[i].rev
  <1>1. gens' = [i \in DOMAIN gens |-> gens'[i]]
    BY DEF MarkStale
  <1>2. \A i \in DOMAIN gens : \/ gens'[i] = gens[i]
                               \/ /\ gens'[i] = [gens[i] EXCEPT !.status = "failed"]
                                  /\ gens[i].status = "ready"
    BY DEF MarkStale, ReadyFor, Ready
  <1>3. /\ RowsOK' /\ Len(gens') = Len(gens) /\ DOMAIN gens' = DOMAIN gens
        /\ \A i \in DOMAIN gens :
             gens'[i].rev = gens[i].rev /\ gens'[i].circuit = gens[i].circuit
    BY <1>1, <1>2, RowsUpdated DEF IInv
  <1>4. \A i \in DOMAIN gens : \/ gens'[i] = gens[i]
                               \/ gens'[i].status = "failed" /\ gens[i].status = "ready"
    BY <1>2 DEF IInv, RowsOK, Row
  <1>5. active # None => active \in DOMAIN gens
    BY LatestKnown DEF IInv
  <1>6. RegistryConsistent'
    BY <1>3, <1>4, <1>5 DEF IInv, RegistryConsistent
  <1>7. PointersOK' /\ LiveOK'
    BY <1>3 DEF IInv, PointersOK, LiveOK
  <1>8. IsSeq(gens) /\ IsSeq(gens)'
    BY <1>3 DEF IInv, RowsOK
  <1>9. Len(gens) <= Len(gens')
    <2>1. Len(gens) \in Nat
      BY <1>8, SeqDomain
    <2> QED
      BY <2>1, <1>3
  <1>10. AttemptsOK'
    BY <1>3, <1>8, <1>9, AttemptsKept DEF IInv
  <1> QED
    BY <1>3, <1>6, <1>7, <1>10

\* register_ready_generation: a row is appended or found, its policy is ready.
LEMMA RegisteredRow ==
    ASSUME IInv, NEW in, NEW q, in.rev \in DOMAIN policies,
           gens' = Registered(NewGen(in), q), policies' = PolicyReady(in.rev),
           Registrable(NewGen(in)),
           UNCHANGED <<active, fenced, attempts>>
    PROVE  /\ RowsOK' /\ PointersOK' /\ LiveOK' /\ RegistryConsistent' /\ AttemptsOK'
           /\ DOMAIN policies' = DOMAIN policies
           /\ DOMAIN gens \subseteq DOMAIN gens'
           /\ \A i \in DOMAIN gens : gens'[i].rev = gens[i].rev
           /\ IndexOf(NewGen(in)) \in DOMAIN gens'
           /\ gens'[IndexOf(NewGen(in))].rev = in.rev
  <1> DEFINE g == NewGen(in)
  <1> DEFINE t == IndexOf(g)
  <1>1. /\ Len(gens) \in Nat /\ DOMAIN gens = 1 .. Len(gens)
        /\ Len(policies) \in Nat /\ DOMAIN policies = 1 .. Len(policies)
        /\ IsSeq(gens) /\ IsSeq(policies)
    BY SeqDomain DEF IInv, RowsOK
  <1>2. /\ DOMAIN policies' = DOMAIN policies
        /\ IsSeq(policies')
        /\ \A r \in DOMAIN policies :
             /\ PolicyRow(policies'[r])
             /\ policies'[r].status = "active" <=> policies[r].status = "active"
             /\ policies[r].status \in Live => policies'[r].status \in Live
    <2>1. policies' = [r \in DOMAIN policies |-> policies'[r]] /\ DOMAIN policies' = DOMAIN policies
      BY DEF PolicyReady
    <2>2. IsSeq(policies')
      BY <1>1, <2>1, SeqOfFunction
    <2>3. ASSUME NEW r \in DOMAIN policies
          PROVE  /\ PolicyRow(policies'[r])
                 /\ policies'[r].status = "active" <=> policies[r].status = "active"
                 /\ policies[r].status \in Live => policies'[r].status \in Live
      <3>1. PolicyRow(policies[r])
        BY DEF IInv, RowsOK
      <3>2. \/ policies'[r] = policies[r]
            \/ /\ policies[r].status \in {"staged", "ready"}
               /\ policies'[r] = [policies[r] EXCEPT !.status = "ready"]
        BY <3>1 DEF PolicyReady, PolicyRow
      <3> QED
        BY <3>1, <3>2 DEF PolicyRow, Live
    <2> QED
      BY <2>1, <2>2, <2>3
  <1>3. g.rev = in.rev /\ g.status = "ready" /\ Row(g)
    BY DEF NewGen, Row
  <1>4. /\ IsSeq(gens') /\ Len(gens') \in Nat /\ Len(gens) <= Len(gens')
        /\ DOMAIN gens' = 1 .. Len(gens')
        /\ \A i \in DOMAIN gens : /\ Row(gens'[i]) /\ gens'[i].rev = gens[i].rev
                                  /\ gens'[i].circuit = gens[i].circuit
                                  /\ gens'[i].status = gens[i].status
        /\ \A i \in DOMAIN gens' \ DOMAIN gens : Row(gens'[i]) /\ gens'[i].rev = in.rev
                                  /\ gens'[i].status = "ready"
        /\ t \in DOMAIN gens' /\ gens'[t].rev = in.rev
    <2> HIDE DEF g
    <2>1. CASE Existing(g) = {}
      <3> DEFINE h == [g EXCEPT !.qual = q]
      <3>1. Row(h) /\ h.rev = in.rev /\ h.status = "ready"
        BY <1>3 DEF Row
      <3>2. gens' = Append(gens, h) /\ t = Len(gens) + 1
        BY <2>1 DEF Registered, IndexOf, g
      <3> HIDE DEF h
      <3>3. /\ IsSeq(gens') /\ Len(gens') = Len(gens) + 1 /\ DOMAIN gens' = 1 .. (Len(gens) + 1)
            /\ \A i \in DOMAIN gens : gens'[i] = gens[i]
            /\ gens'[Len(gens) + 1] = h
        BY <1>1, <3>2, SeqAppended
      <3>4. \A i \in DOMAIN gens' \ DOMAIN gens : i = Len(gens) + 1
        BY <1>1, <3>3
      <3> QED
        BY <1>1, <3>1, <3>2, <3>3, <3>4 DEF IInv, RowsOK
    <2>2. CASE Existing(g) # {}
      <3>1. t \in Existing(g)
        BY <2>2 DEF IndexOf
      <3>2. t \in DOMAIN gens /\ gens[t].rev = in.rev
        BY <3>1, <1>3 DEF Existing, SameId
      <3>3. gens' = [gens EXCEPT ![t].qual = IF @ = NotQualified THEN q ELSE @]
        BY <2>2 DEF Registered, IndexOf, g
      <3>4. gens' = [i \in DOMAIN gens |-> gens'[i]] /\ DOMAIN gens' = DOMAIN gens
        BY <3>3
      <3>5. IsSeq(gens') /\ Len(gens') = Len(gens)
        BY <1>1, <3>4, SeqOfFunction
      <3>6. ASSUME NEW i \in DOMAIN gens
            PROVE  /\ Row(gens'[i]) /\ gens'[i].rev = gens[i].rev
                   /\ gens'[i].circuit = gens[i].circuit
                   /\ gens'[i].status = gens[i].status
        <4>1. Row(gens[i])
          BY DEF IInv, RowsOK
        <4>2. \/ gens'[i] = gens[i]
              \/ \E v : gens'[i] = [gens[i] EXCEPT !.qual = v]
          BY <3>3
        <4> QED
          BY <4>1, <4>2 DEF Row
      <3> QED
        BY <1>1, <3>2, <3>4, <3>5, <3>6
    <2> QED
      BY <2>1, <2>2
  <1> HIDE DEF g, t
  <1>5. RowsOK'
    <2>1. \A i \in DOMAIN gens' : Row(gens'[i]) /\ gens'[i].rev \in DOMAIN policies'
      BY <1>2, <1>4 DEF IInv, RowsOK
    <2> QED
      BY <1>2, <1>4, <2>1 DEF RowsOK, IsSeq
  <1>6. /\ active # None => active \in DOMAIN gens
        /\ active \in 0 .. Len(gens) /\ fenced \in 0 .. Len(gens)
    BY <1>1 DEF IInv, PointersOK, None
  <1>7. RegistryConsistent'
    <2>1. ASSUME NEW i \in DOMAIN gens'
          PROVE  /\ gens'[i].status = "active" <=> i = active
                 /\ gens'[i].status = "cutover_fencing" <=> i = fenced
      <3>1. CASE i \in DOMAIN gens
        BY <3>1, <1>4 DEF IInv, RegistryConsistent
      <3>2. CASE i \notin DOMAIN gens
        <4>1. i # active /\ i # fenced
          BY <3>2, <1>1, <1>4, <1>6
        <4> QED
          BY <4>1, <3>2, <1>4
      <3> QED
        BY <3>1, <3>2
    <2>2. \A r \in DOMAIN policies' :
            policies'[r].status = "active" <=> (active # None /\ r = gens'[active].rev)
      BY <1>2, <1>4, <1>6 DEF IInv, RegistryConsistent
    <2> QED
      BY <2>1, <2>2 DEF RegistryConsistent
  <1>8. PointersOK' /\ LiveOK'
    BY <1>1, <1>2, <1>4, <1>6 DEF IInv, PointersOK, LiveOK
  <1>9. IsSeq(gens) /\ IsSeq(gens)'
    BY <1>1, <1>5 DEF RowsOK
  <1>10. AttemptsOK'
    BY <1>4, <1>9, AttemptsKept DEF IInv
  <1> QED
    BY <1>1, <1>2, <1>4, <1>5, <1>7, <1>8, <1>10 DEF g, t

\* Status updates of rows together with the fence pointer.
LEMMA StatusMoved ==
    ASSUME IInv, UNCHANGED <<policies, active, attempts>>,
           fenced' \in 0 .. Len(gens),
           gens' = [i \in DOMAIN gens |-> gens'[i]],
           \A i \in DOMAIN gens :
             \/ gens'[i] = gens[i]
             \/ \E v : gens'[i] = [gens[i] EXCEPT !.status = v]
             \/ \E v : gens'[i] = [gens[i] EXCEPT !.qual = v],
           \A i \in DOMAIN gens :
             /\ gens'[i].status = "active" <=> gens[i].status = "active"
             /\ gens'[i].status = "cutover_fencing" <=> i = fenced'
    PROVE  /\ RowsOK' /\ PointersOK' /\ LiveOK' /\ RegistryConsistent' /\ AttemptsOK'
           /\ DOMAIN gens' = DOMAIN gens
           /\ \A i \in DOMAIN gens : gens'[i].rev = gens[i].rev
           /\ ActiveRevision' = ActiveRevision
  <1>1. /\ RowsOK' /\ Len(gens') = Len(gens) /\ DOMAIN gens' = DOMAIN gens
        /\ \A i \in DOMAIN gens :
             gens'[i].rev = gens[i].rev /\ gens'[i].circuit = gens[i].circuit
    BY RowsUpdated DEF IInv
  <1>2. active # None => active \in DOMAIN gens
    BY LatestKnown DEF IInv
  <1>3. RegistryConsistent'
    BY <1>1, <1>2 DEF IInv, RegistryConsistent
  <1>4. PointersOK' /\ LiveOK'
    BY <1>1 DEF IInv, PointersOK, LiveOK
  <1>5. IsSeq(gens) /\ IsSeq(gens)'
    BY <1>1 DEF IInv, RowsOK
  <1>6. Len(gens) <= Len(gens')
    <2>1. Len(gens) \in Nat
      BY <1>5, SeqDomain
    <2> QED
      BY <2>1, <1>1
  <1>7. AttemptsOK'
    BY <1>1, <1>5, <1>6, AttemptsKept DEF IInv
  <1> QED
    BY <1>1, <1>2, <1>3, <1>4, <1>7 DEF ActiveRevision

\* The pointer swap: the target becomes active, the old generation retires.
LEMMA Swapped ==
    ASSUME IInv, NEW t \in DOMAIN gens,
           gens' = Activated(t), policies' = PolicyActivated(t),
           active' = t, fenced' = None,
           fenced = None \/ fenced = t,
           t # active, UNCHANGED attempts,
           \/ Pending = {}
           \/ active # None /\ gens[t].circuit = gens[active].circuit
    PROVE  /\ RowsOK' /\ PointersOK' /\ LiveOK' /\ RegistryConsistent' /\ AttemptsOK'
           /\ ActiveRevision' = gens[t].rev
  <1>1. /\ Len(gens) \in Nat /\ DOMAIN gens = 1 .. Len(gens)
        /\ Len(policies) \in Nat /\ DOMAIN policies = 1 .. Len(policies)
        /\ IsSeq(gens) /\ IsSeq(policies)
    BY SeqDomain DEF IInv, RowsOK
  <1>2. t # None /\ (active # None => active \in DOMAIN gens)
    BY <1>1, LatestKnown DEF IInv, None
  <1>3. /\ gens' = [i \in DOMAIN gens |-> gens'[i]] /\ DOMAIN gens' = DOMAIN gens
        /\ policies' = [r \in DOMAIN policies |-> policies'[r]]
        /\ DOMAIN policies' = DOMAIN policies
    BY DEF Activated, PolicyActivated
  <1>4. IsSeq(gens') /\ Len(gens') = Len(gens) /\ IsSeq(policies')
    BY <1>1, <1>3, SeqOfFunction
  <1>5. ASSUME NEW i \in DOMAIN gens
        PROVE  /\ Row(gens'[i]) /\ gens'[i].rev = gens[i].rev
               /\ gens'[i].circuit = gens[i].circuit
               /\ i = t => gens'[i].status = "active"
               /\ i # t /\ i = active => gens'[i].status = "retired"
               /\ i # t /\ i # active => gens'[i].status = gens[i].status
    <2>1. Row(gens[i])
      BY DEF IInv, RowsOK
    <2>2. CASE i = t
      <3>1. gens'[i] = [gens[i] EXCEPT !.status = "active"]
        BY <2>2 DEF Activated
      <3> QED
        BY <2>1, <2>2, <3>1 DEF Row
    <2>3. CASE i # t /\ i = active
      <3>1. gens'[i] = [gens[i] EXCEPT !.status = "retired"]
        BY <2>3 DEF Activated
      <3> QED
        BY <2>1, <2>3, <3>1 DEF Row
    <2>4. CASE i # t /\ i # active
      <3>1. gens'[i] = gens[i]
        BY <2>4 DEF Activated
      <3> QED
        BY <2>1, <2>4, <3>1
    <2> QED
      BY <2>2, <2>3, <2>4
  <1>6. ASSUME NEW r \in DOMAIN policies
        PROVE  PolicyRow(policies'[r]) /\ (policies'[r].status = "active" <=> r = gens[t].rev)
    <2>1. PolicyRow(policies[r])
      BY DEF IInv, RowsOK
    <2>2. CASE r = gens[t].rev
      <3>1. policies'[r] = [policies[r] EXCEPT !.status = "active"]
        BY <2>2 DEF PolicyActivated
      <3> QED
        BY <2>1, <2>2, <3>1 DEF PolicyRow
    <2>3. CASE r # gens[t].rev /\ active # None /\ r = gens[active].rev
      <3>1. policies'[r] = [policies[r] EXCEPT !.status = "retired"]
        BY <2>3 DEF PolicyActivated
      <3> QED
        BY <2>1, <2>3, <3>1 DEF PolicyRow
    <2>4. CASE r # gens[t].rev /\ ~(active # None /\ r = gens[active].rev)
      <3>1. policies'[r] = policies[r]
        BY <2>4 DEF PolicyActivated
      <3> QED
        BY <2>1, <2>4, <3>1 DEF IInv, RegistryConsistent
    <2> QED
      BY <2>2, <2>3, <2>4
  <1>7. RowsOK'
    <2>1. \A i \in DOMAIN gens' : Row(gens'[i]) /\ gens'[i].rev \in DOMAIN policies'
      BY <1>3, <1>5 DEF IInv, RowsOK
    <2>2. \A r \in DOMAIN policies' : PolicyRow(policies'[r])
      BY <1>3, <1>6
    <2> QED
      BY <1>4, <2>1, <2>2 DEF RowsOK, IsSeq
  <1>8. PointersOK' /\ LiveOK'
    BY <1>1, <1>2, <1>3, <1>4 DEF IInv, PointersOK, LiveOK, None
  <1>9. RegistryConsistent'
    <2>1. ASSUME NEW i \in DOMAIN gens
          PROVE  /\ gens'[i].status = "active" <=> i = t
                 /\ gens'[i].status = "cutover_fencing" <=> i = None
      <3>1. i # None
        BY <1>1 DEF None
      <3>2. gens[i].status = "active" <=> i = active
        BY DEF IInv, RegistryConsistent
      <3>3. gens[i].status = "cutover_fencing" <=> i = fenced
        BY DEF IInv, RegistryConsistent
      <3> QED
        BY <1>5, <3>1, <3>2, <3>3
    <2> QED
      BY <1>2, <1>3, <1>5, <1>6, <2>1 DEF RegistryConsistent
  <1>10. AttemptsOK'
    <2>1. CASE Pending = {}
      BY <2>1 DEF IInv, AttemptsOK, NoAttemptSpansCutover, Pending
    <2>2. CASE active # None /\ gens[t].circuit = gens[active].circuit
      <3>1. ASSUME NEW a \in Attempts, attempts[a].st = "pending"
            PROVE  /\ attempts[a].gen \in 0 .. Len(gens') /\ attempts[a].gen # None
                   /\ gens'[attempts[a].gen].circuit = gens'[t].circuit
        <4>1. attempts[a].gen \in 0 .. Len(gens) /\ attempts[a].gen # None
          BY <2>2, <3>1 DEF IInv, AttemptsOK, NoAttemptSpansCutover
        <4>2. attempts[a].gen \in DOMAIN gens
          BY <4>1, <1>1 DEF None
        <4>3. gens[attempts[a].gen].circuit = gens[active].circuit
          BY <3>1 DEF IInv, AttemptsOK, NoAttemptSpansCutover
        <4> QED
          BY <1>4, <1>5, <2>2, <4>1, <4>2, <4>3
      <3> QED
        BY <1>2, <3>1 DEF IInv, AttemptsOK, NoAttemptSpansCutover
    <2> QED
      BY <2>1, <2>2
  <1> QED
    BY <1>2, <1>5, <1>7, <1>8, <1>9, <1>10 DEF ActiveRevision

-----------------------------------------------------------------------------
(* The initial state and the actions. *)

LEMMA InitIInv == Init => IInv
  <1> SUFFICES ASSUME Init PROVE IInv
    OBVIOUS
  <1>1. DOMAIN gens = 1 .. 0 /\ gens = [i \in DOMAIN gens |-> gens[i]]
    BY DEF Init
  <1>2. IsSeq(gens) /\ Len(gens) = 0
    BY <1>1, SeqOfFunction
  <1>3. /\ DOMAIN policies = 1 .. 1 /\ policies = [i \in DOMAIN policies |-> policies[i]]
        /\ policies[1] = [policy |-> FirstPolicy, base |-> 1, status |-> "staged"]
    BY DEF Init
  <1>4. IsSeq(policies) /\ Len(policies) = 1
    BY <1>3, SeqOfFunction
  <1>5. \A r \in DOMAIN policies : r = 1
    BY <1>3
  <1>6. RowsOK /\ LiveOK
    BY <1>1, <1>2, <1>3, <1>4, <1>5 DEF RowsOK, LiveOK, PolicyRow, Live
  <1>7. PointersOK /\ RegistryConsistent
    BY <1>1, <1>2, <1>3, <1>5 DEF Init, PointersOK, RegistryConsistent, None
  <1>8. LaneOK /\ AttemptsOK
    BY DEF Init, LaneOK, AttemptsOK, FreeLane, NoAttemptSpansCutover
  <1> QED
    BY <1>6, <1>7, <1>8 DEF IInv

LEMMA SavePolicyStep ==
    ASSUME IInv, NEW e \in DOMAIN policies, NEW p \in Policies, SavePolicy(e, p)
    PROVE  IInv'
  <1>1. CASE UNCHANGED policies
    BY <1>1, QuietStep, AttemptsQuiet DEF SavePolicy
  <1>2. CASE SaveNew(e, p)
    <2> DEFINE row == [policy |-> p, base |-> ActiveRevision, status |-> "staged"]
    <2>1. policies' = Append(policies, row)
      BY <1>2 DEF SaveNew
    <2>2. PolicyRow(row) /\ row.status = "staged"
      BY DEF PolicyRow
    <2>3. UNCHANGED <<gens, active, fenced, attempts, lane>>
      BY DEF SavePolicy
    <2> HIDE DEF row
    <2>4. /\ Len(policies) \in Nat /\ DOMAIN policies = 1 .. Len(policies) /\ IsSeq(policies)
      BY SeqDomain DEF IInv, RowsOK
    <2>5. /\ IsSeq(policies') /\ DOMAIN policies' = 1 .. (Len(policies) + 1)
          /\ \A i \in DOMAIN policies : policies'[i] = policies[i]
          /\ policies'[Len(policies) + 1] = row
      BY <2>1, <2>4, SeqAppended
    <2>6. \A r \in DOMAIN policies' : \/ r \in DOMAIN policies /\ policies'[r] = policies[r]
                                      \/ r \notin DOMAIN policies /\ policies'[r] = row
      <3>1. \A r \in DOMAIN policies' :
              r \in DOMAIN policies \/ (r = Len(policies) + 1 /\ r \notin DOMAIN policies)
        BY <2>4, <2>5
      <3> QED
        BY <2>5, <3>1
    <2>7. DOMAIN policies \subseteq DOMAIN policies'
      BY <2>4, <2>5
    <2>8. RowsOK'
      <3>1. \A r \in DOMAIN policies' : PolicyRow(policies'[r])
        BY <2>2, <2>6 DEF IInv, RowsOK
      <3>2. \A i \in DOMAIN gens' : Row(gens'[i]) /\ gens'[i].rev \in DOMAIN policies'
        BY <2>3, <2>7 DEF IInv, RowsOK
      <3> QED
        BY <2>3, <2>5, <3>1, <3>2 DEF IInv, RowsOK, IsSeq
    <2>9. RegistryConsistent'
      <3>1. active # None => gens[active].rev \in DOMAIN policies
        BY LatestKnown DEF IInv, RowsOK
      <3> QED
        BY <2>2, <2>3, <2>6, <3>1 DEF IInv, RegistryConsistent
    <2>10. PointersOK' /\ LiveOK'
      BY <2>2, <2>3, <2>6, <2>7 DEF IInv, PointersOK, LiveOK, Live
    <2>11. LaneOK' /\ AttemptsOK'
      BY <2>3, <2>7, AttemptsQuiet DEF IInv, LaneOK, ActiveRevision
    <2> QED
      BY <2>8, <2>9, <2>10, <2>11 DEF IInv
  <1> QED
    BY <1>1, <1>2 DEF SavePolicy, SaveUnchanged, SaveKnown

LEMMA FastStep == IInv /\ Fast => IInv'
  <1> SUFFICES ASSUME IInv, Fast PROVE IInv'
    OBVIOUS
  <1>0. LatestRevision \in DOMAIN policies
    BY LatestKnown DEF IInv
  <1>1. CASE FastStart
    <2>1. RowsOK' /\ PointersOK' /\ LiveOK' /\ RegistryConsistent' /\ AttemptsOK'
      BY <1>1, StaleMarked DEF FastStart
    <2>2. LaneOK'
      BY <1>0, <1>1, BuildRevision DEF FastStart, LaneOK
    <2> QED
      BY <2>1, <2>2 DEF IInv
  <1>2. CASE FastRegister
    <2> DEFINE in == lane.input
    <2>1. in.rev \in DOMAIN policies /\ lane.source # None
      BY <1>2 DEF IInv, LaneOK, FastRegister
    <2>2. NewGen(in).rev = in.rev
      BY DEF NewGen
    <2>3. /\ gens' = Registered(NewGen(in), lane.source) /\ policies' = PolicyReady(in.rev)
          /\ Registrable(NewGen(in)) /\ UNCHANGED <<active, fenced, attempts>>
      BY <1>2, <2>2 DEF FastRegister
    <2>4. /\ RowsOK' /\ PointersOK' /\ LiveOK' /\ RegistryConsistent' /\ AttemptsOK'
          /\ IndexOf(NewGen(in)) \in DOMAIN gens'
      <3> HIDE DEF in
      <3> QED
        BY <2>1, <2>3, RegisteredRow
    <2>5. LaneOK'
      BY <1>2, <2>1, <2>4 DEF FastRegister, LaneOK
    <2> QED
      BY <2>4, <2>5 DEF IInv
  <1>3. CASE FastActivate
    <2> DEFINE t == lane.target
    <2>1. t \in DOMAIN gens /\ lane.source # None
      BY <1>3 DEF IInv, LaneOK, FastActivate
    <2>2. /\ active = lane.source /\ fenced = None /\ gens[t].status = "ready"
          /\ gens[t].circuit = gens[active].circuit
      BY <1>3 DEF FastActivate, FastActivatable
    <2>3. t # active
      BY <2>1, <2>2 DEF IInv, RegistryConsistent
    <2>4. /\ gens' = Activated(t) /\ policies' = PolicyActivated(t) /\ active' = t
          /\ fenced' = None /\ UNCHANGED attempts /\ lane' = FreeLane
      BY <1>3, <2>2 DEF FastActivate, Release
    <2>5. RowsOK' /\ PointersOK' /\ LiveOK' /\ RegistryConsistent' /\ AttemptsOK'
      <3> HIDE DEF t
      <3> QED
        BY <2>1, <2>2, <2>3, <2>4, Swapped
    <2> QED
      BY <2>4, <2>5, LaneReleased DEF IInv
  <1>4. CASE FastGivesUp
    BY <1>4, QuietStep, AttemptsQuiet, LaneReleased DEF FastGivesUp, registry, Release
  <1> QED
    BY <1>1, <1>2, <1>3, <1>4 DEF Fast

LEMMA AbortStep ==
    ASSUME IInv, Abort, fenced # None, UNCHANGED attempts
    PROVE  IInv'
  <1>1. fenced \in DOMAIN gens /\ 0 \in 0 .. Len(gens)
    <2>1. Len(gens) \in Nat
      BY SeqDomain DEF IInv, RowsOK
    <2> QED
      BY <2>1, LatestKnown DEF IInv
  <1>2. /\ gens' = [gens EXCEPT ![fenced].status = "ready"] /\ fenced' = None
        /\ UNCHANGED <<policies, active>> /\ lane' = FreeLane
    BY DEF Abort, Release
  <1>3. gens' = [i \in DOMAIN gens |-> gens'[i]]
    BY <1>2
  <1>4. ASSUME NEW i \in DOMAIN gens
        PROVE  /\ gens'[i] = gens[i] \/ gens'[i] = [gens[i] EXCEPT !.status = "ready"]
               /\ gens'[i].status = "active" <=> gens[i].status = "active"
               /\ gens'[i].status = "cutover_fencing" <=> i = None
    <2>1. i # None
      <3>1. DOMAIN gens = 1 .. Len(gens)
        BY SeqDomain DEF IInv, RowsOK
      <3> QED
        BY <3>1 DEF None
    <2>2. Row(gens[i]) /\ (gens[i].status = "cutover_fencing" <=> i = fenced)
      BY DEF IInv, RowsOK, RegistryConsistent
    <2>3. CASE i = fenced
      <3>1. gens'[i] = [gens[i] EXCEPT !.status = "ready"]
        BY <1>2, <2>3
      <3> QED
        BY <2>1, <2>2, <2>3, <3>1 DEF Row
    <2>4. CASE i # fenced
      BY <1>2, <2>1, <2>2, <2>4
    <2> QED
      BY <2>3, <2>4
  <1>5. RowsOK' /\ PointersOK' /\ LiveOK' /\ RegistryConsistent' /\ AttemptsOK'
    BY <1>1, <1>2, <1>3, <1>4, StatusMoved DEF None
  <1> QED
    BY <1>2, <1>5, LaneReleased DEF IInv

LEMMA RunnerBeginStep == IInv /\ RunnerBegin => IInv'
  <1> SUFFICES ASSUME IInv, RunnerBegin PROVE IInv'
    OBVIOUS
  <1> DEFINE t == lane.target
  <1>1. t \in DOMAIN gens /\ fenced = None /\ gens[t].status = "ready"
    BY DEF IInv, LaneOK, RunnerBegin, Fenceable
  <1>2. /\ gens' = [gens EXCEPT ![t].status = "cutover_fencing"] /\ fenced' = t
        /\ UNCHANGED <<policies, active, attempts>> /\ lane' = [pc |-> "advance"]
    BY DEF RunnerBegin
  <1> HIDE DEF t
  <1>3. DOMAIN gens = 1 .. Len(gens) /\ Len(gens) \in Nat
    BY SeqDomain DEF IInv, RowsOK
  <1>4. gens' = [i \in DOMAIN gens |-> gens'[i]]
    BY <1>2
  <1>5. ASSUME NEW i \in DOMAIN gens
        PROVE  /\ gens'[i] = gens[i] \/ gens'[i] = [gens[i] EXCEPT !.status = "cutover_fencing"]
               /\ gens'[i].status = "active" <=> gens[i].status = "active"
               /\ gens'[i].status = "cutover_fencing" <=> i = t
    <2>1. /\ Row(gens[i]) /\ (gens[i].status = "cutover_fencing" <=> i = fenced)
      BY DEF IInv, RowsOK, RegistryConsistent
    <2>2. CASE i = t
      <3>1. gens'[i] = [gens[i] EXCEPT !.status = "cutover_fencing"]
        BY <1>2, <2>2
      <3> QED
        BY <1>1, <2>1, <2>2, <3>1 DEF Row
    <2>3. CASE i # t
      BY <1>1, <1>2, <1>3, <2>1, <2>3 DEF None
    <2> QED
      BY <2>2, <2>3
  <1>6. RowsOK' /\ PointersOK' /\ LiveOK' /\ RegistryConsistent' /\ AttemptsOK'
    <2>1. fenced' \in 0 .. Len(gens)
      BY <1>1, <1>2, <1>3
    <2> QED
      BY <1>2, <1>4, <1>5, <2>1, StatusMoved
  <1>7. LaneOK'
    BY <1>1, <1>2, <1>3 DEF LaneOK, None
  <1> QED
    BY <1>6, <1>7 DEF IInv

LEMMA RunnerQualifyStep == IInv /\ RunnerQualify => IInv'
  <1> SUFFICES ASSUME IInv, RunnerQualify PROVE IInv'
    OBVIOUS
  <1> DEFINE t == Candidate
  <1>1. DOMAIN gens = 1 .. Len(gens) /\ Len(gens) \in Nat
    BY SeqDomain DEF IInv, RowsOK
  <1>2. t \in DOMAIN gens
    <2>1. ReadyFor(LatestRevision) # {} /\ t = Max(ReadyFor(LatestRevision))
      BY DEF RunnerQualify, Candidate
    <2>2. ReadyFor(LatestRevision) \subseteq DOMAIN gens
      BY DEF ReadyFor, Ready
    <2>3. ReadyFor(LatestRevision) \subseteq 0 .. Len(gens)
      BY <1>1, <2>2
    <2>4. t \in ReadyFor(LatestRevision)
      BY <1>1, <2>1, <2>3, MaxInSet
    <2> QED
      BY <2>2, <2>4
  <1>3. /\ gens' = [gens EXCEPT ![t].qual = IF @ = NotQualified THEN active ELSE @]
        /\ UNCHANGED <<policies, active, fenced, attempts>>
        /\ lane' = [pc |-> "begin", target |-> t, source |-> active]
    BY DEF RunnerQualify, Qualified
  <1> HIDE DEF t
  <1>4. gens' = [i \in DOMAIN gens |-> gens'[i]]
    BY <1>3
  <1>5. ASSUME NEW i \in DOMAIN gens
        PROVE  /\ gens'[i] = gens[i] \/ \E v : gens'[i] = [gens[i] EXCEPT !.qual = v]
               /\ gens'[i].status = "active" <=> gens[i].status = "active"
               /\ gens'[i].status = "cutover_fencing" <=> i = fenced
    <2>1. /\ Row(gens[i]) /\ (gens[i].status = "cutover_fencing" <=> i = fenced)
      BY DEF IInv, RowsOK, RegistryConsistent
    <2>2. gens'[i] = gens[i] \/ \E v : gens'[i] = [gens[i] EXCEPT !.qual = v]
      BY <1>3
    <2> QED
      BY <2>1, <2>2 DEF Row
  <1>6. /\ RowsOK' /\ PointersOK' /\ LiveOK' /\ RegistryConsistent' /\ AttemptsOK'
        /\ DOMAIN gens' = DOMAIN gens
    <2>1. fenced' \in 0 .. Len(gens)
      BY <1>3 DEF IInv, PointersOK
    <2> QED
      BY <1>3, <1>4, <1>5, <2>1, StatusMoved
  <1>7. LaneOK'
    BY <1>2, <1>3, <1>6 DEF LaneOK
  <1> QED
    BY <1>6, <1>7 DEF IInv

LEMMA RunnerRetargetStep == IInv /\ RunnerRetarget => IInv'
  <1> SUFFICES ASSUME IInv, RunnerRetarget PROVE IInv'
    OBVIOUS
  <1> DEFINE t == lane.target
  <1>1. /\ t \in DOMAIN gens /\ fenced # None /\ gens[t].status = "ready"
        /\ gens[t].rev = gens[fenced].rev /\ gens[fenced].rev >= ActiveRevision
    BY DEF IInv, LaneOK, RunnerRetarget, Retargetable
  <1>2. /\ gens' = [gens EXCEPT ![fenced].status = "failed", ![t].status = "cutover_fencing"]
        /\ fenced' = t
        /\ UNCHANGED <<policies, active, attempts>> /\ lane' = [pc |-> "activate"]
    BY DEF RunnerRetarget
  <1> HIDE DEF t
  <1>3. DOMAIN gens = 1 .. Len(gens) /\ Len(gens) \in Nat
    BY SeqDomain DEF IInv, RowsOK
  <1>4. gens' = [i \in DOMAIN gens |-> gens'[i]]
    BY <1>2
  <1>5. t # fenced
    BY <1>1 DEF IInv, RegistryConsistent
  <1>6. ASSUME NEW i \in DOMAIN gens
        PROVE  /\ gens'[i] = gens[i] \/ \E v : gens'[i] = [gens[i] EXCEPT !.status = v]
               /\ gens'[i].status = "active" <=> gens[i].status = "active"
               /\ gens'[i].status = "cutover_fencing" <=> i = t
    <2>1. /\ Row(gens[i]) /\ (gens[i].status = "cutover_fencing" <=> i = fenced)
      BY DEF IInv, RowsOK, RegistryConsistent
    <2>2. CASE i = t
      <3>1. gens'[i] = [gens[i] EXCEPT !.status = "cutover_fencing"]
        BY <1>2, <1>5, <2>2
      <3> QED
        BY <1>1, <2>1, <2>2, <3>1 DEF Row
    <2>3. CASE i = fenced
      <3>1. gens'[i] = [gens[i] EXCEPT !.status = "failed"]
        BY <1>2, <1>5, <2>3
      <3> QED
        BY <1>5, <2>1, <2>3, <3>1 DEF Row
    <2>4. CASE i # t /\ i # fenced
      BY <1>2, <2>1, <2>4
    <2> QED
      BY <2>2, <2>3, <2>4
  <1>7. /\ RowsOK' /\ PointersOK' /\ LiveOK' /\ RegistryConsistent' /\ AttemptsOK'
        /\ \A i \in DOMAIN gens : gens'[i].rev = gens[i].rev
        /\ ActiveRevision' = ActiveRevision
    <2>1. fenced' \in 0 .. Len(gens)
      BY <1>1, <1>2, <1>3
    <2> QED
      BY <1>2, <1>4, <1>6, <2>1, StatusMoved
  <1>8. LaneOK'
    BY <1>1, <1>2, <1>3, <1>7 DEF LaneOK, None
  <1> QED
    BY <1>7, <1>8 DEF IInv

LEMMA RunnerRegisterStep == IInv /\ (RunnerRegister \/ RunnerReplace) => IInv'
  <1> SUFFICES ASSUME IInv, RunnerRegister \/ RunnerReplace PROVE IInv'
    OBVIOUS
  <1> DEFINE in == lane.input
  <1>0. fenced # None => fenced \in DOMAIN gens
    BY LatestKnown DEF IInv
  <1>1. in.rev \in DOMAIN policies
    <2>1. CASE RunnerRegister
      BY <2>1 DEF IInv, LaneOK, RunnerRegister
    <2>2. CASE RunnerReplace
      BY <1>0, <2>2 DEF IInv, LaneOK, RowsOK, RunnerReplace
    <2> QED
      BY <2>1, <2>2
  <1>2. NewGen(in).rev = in.rev
    BY DEF NewGen
  <1>3. PICK q : gens' = Registered(NewGen(in), q)
    BY DEF RunnerRegister, RunnerReplace
  <1>4. /\ policies' = PolicyReady(in.rev)
        /\ Registrable(NewGen(in)) /\ UNCHANGED <<active, fenced, attempts>>
    BY <1>2 DEF RunnerRegister, RunnerReplace, Replaceable
  <1>5. /\ RowsOK' /\ PointersOK' /\ LiveOK' /\ RegistryConsistent' /\ AttemptsOK'
        /\ \A i \in DOMAIN gens : gens'[i].rev = gens[i].rev
        /\ IndexOf(NewGen(in)) \in DOMAIN gens'
        /\ gens'[IndexOf(NewGen(in))].rev = in.rev
    <2> HIDE DEF in
    <2> QED
      BY <1>1, <1>3, <1>4, RegisteredRow
  <1>6. LaneOK'
    <2>1. CASE RunnerRegister
      BY <2>1 DEF RunnerRegister, LaneOK
    <2>2. CASE RunnerReplace
      <3>1. /\ fenced # None /\ in.rev = gens[fenced].rev /\ gens[fenced].rev >= ActiveRevision
        BY <2>2 DEF IInv, LaneOK, RunnerReplace
      <3>2. active # None => active \in DOMAIN gens
        BY LatestKnown DEF IInv
      <3>3. ActiveRevision' = ActiveRevision
        BY <1>4, <1>5, <3>2 DEF ActiveRevision
      <3> QED
        BY <1>0, <1>4, <1>5, <2>2, <3>1, <3>3 DEF RunnerReplace, LaneOK
    <2> QED
      BY <2>1, <2>2
  <1> QED
    BY <1>5, <1>6 DEF IInv

LEMMA RunnerActivateStep == IInv /\ RunnerActivate => IInv'
  <1> SUFFICES ASSUME IInv, RunnerActivate PROVE IInv'
    OBVIOUS
  <1>1. fenced # None /\ fenced \in DOMAIN gens
    BY LatestKnown DEF IInv, LaneOK, RunnerActivate
  <1>2. fenced # active
    BY <1>1 DEF IInv, RegistryConsistent
  <1>3. /\ gens' = Activated(fenced) /\ policies' = PolicyActivated(fenced)
        /\ active' = fenced /\ fenced' = None /\ UNCHANGED attempts /\ Pending = {}
        /\ lane' = FreeLane
    BY DEF RunnerActivate, Activatable, Release
  <1>4. RowsOK' /\ PointersOK' /\ LiveOK' /\ RegistryConsistent' /\ AttemptsOK'
    BY <1>1, <1>2, <1>3, Swapped
  <1> QED
    BY <1>3, <1>4, LaneReleased DEF IInv

LEMMA RunnerDrainedStep == IInv /\ RunnerDrained => IInv'
  <1> SUFFICES ASSUME IInv, RunnerDrained PROVE IInv'
    OBVIOUS
  <1>1. /\ LatestRevision \in Nat /\ ActiveRevision \in Nat /\ LatestRevision >= ActiveRevision
        /\ fenced \in DOMAIN gens /\ fenced # None /\ gens[fenced].rev \in Nat
    <2>1. fenced # None
      BY DEF RunnerDrained, Advancing
    <2>2. fenced \in DOMAIN gens /\ DOMAIN policies \subseteq Nat
      BY <2>1, LatestKnown DEF IInv
    <2>3. gens[fenced].rev \in DOMAIN policies
      BY <2>2 DEF IInv, RowsOK
    <2> QED
      BY <2>1, <2>2, <2>3, LatestKnown DEF IInv
  <1>2. gens[fenced].rev >= ActiveRevision
    <2>1. LatestRevision <= gens[fenced].rev
      BY DEF RunnerDrained
    <2> QED
      BY <1>1, <2>1
  <1>3. UNCHANGED <<policies, gens, active, fenced, attempts>>
    BY DEF RunnerDrained, registry
  <1>4. \/ lane'.pc = "replace" /\ lane'.input.rev = gens[fenced].rev
        \/ lane'.pc = "activate"
    BY DEF RunnerDrained
  <1>5. LaneOK'
    BY <1>1, <1>2, <1>3, <1>4 DEF LaneOK, ActiveRevision
  <1> QED
    BY <1>3, <1>5, QuietStep, AttemptsQuiet

LEMMA RunnerStep == IInv /\ Runner => IInv'
  <1> SUFFICES ASSUME IInv, Runner PROVE IInv'
    OBVIOUS
  <1>1. CASE RunnerStart
    <2>0. LatestRevision \in DOMAIN policies
      BY LatestKnown DEF IInv
    <2>1. CASE HasBuildInput
      <3>1. RowsOK' /\ PointersOK' /\ LiveOK' /\ RegistryConsistent' /\ AttemptsOK'
        BY <1>1, <2>1, StaleMarked DEF RunnerStart
      <3>2. LaneOK'
        BY <1>1, <2>0, <2>1, BuildRevision DEF RunnerStart, LaneOK
      <3> QED
        BY <3>1, <3>2 DEF IInv
    <2>2. CASE ~HasBuildInput
      <3>1. LaneOK'
        BY <1>1, <2>2 DEF RunnerStart, LaneOK
      <3>2. UNCHANGED <<policies, gens, active, fenced, attempts>>
        BY <1>1, <2>2 DEF RunnerStart
      <3> QED
        BY <3>1, <3>2, QuietStep, AttemptsQuiet
    <2> QED
      BY <2>1, <2>2
  <1>2. CASE RunnerAborts
    BY <1>2, AbortStep DEF RunnerAborts, Advancing
  <1>3. CASE RunnerWaits \/ RunnerTickEnds
    <2>1. UNCHANGED <<policies, gens, active, fenced, attempts>> /\ lane' = FreeLane
      BY <1>3 DEF RunnerWaits, RunnerTickEnds, registry, Release
    <2> QED
      BY <2>1, QuietStep, AttemptsQuiet, LaneReleased
  <1> QED
    BY <1>1, <1>2, <1>3, RunnerRegisterStep, RunnerQualifyStep, RunnerBeginStep,
       RunnerDrainedStep, RunnerRetargetStep, RunnerActivateStep DEF Runner

LEMMA AttemptStep ==
    ASSUME IInv, NEW a \in Attempts, Plan(a) \/ Admit(a) \/ Deny(a) \/ Finish(a)
    PROVE  IInv'
  <1>1. UNCHANGED <<policies, gens, active, fenced, lane>>
    BY DEF Plan, Admit, Deny, Finish, registry
  <1>2. PICK x : /\ attempts' = [attempts EXCEPT ![a] = x]
                 /\ x.st = "pending" => x.gen = active
    <2>1. CASE Plan(a)
      <3> DEFINE x == [st |-> "planned", gen |-> active, rev |-> fenceRev]
      <3>1. attempts' = [attempts EXCEPT ![a] = x] /\ x.st # "pending"
        BY <2>1 DEF Plan
      <3> QED
        BY <3>1
    <2>2. CASE Admit(a)
      <3> DEFINE x == [st |-> "pending", gen |-> active, kind |-> Eligibility]
      <3>1. attempts' = [attempts EXCEPT ![a] = x] /\ x.gen = active
        BY <2>2 DEF Admit
      <3> QED
        BY <3>1
    <2>3. CASE Deny(a) \/ Finish(a)
      <3> DEFINE x == [st |-> "idle"]
      <3>1. attempts' = [attempts EXCEPT ![a] = x] /\ x.st # "pending"
        BY <2>3 DEF Deny, Finish
      <3> QED
        BY <3>1
    <2> QED
      BY <2>1, <2>2, <2>3
  <1>3. AttemptsOK'
    <2>1. attempts' = [b \in Attempts |-> attempts'[b]]
      BY <1>2 DEF IInv, AttemptsOK
    <2>2. ASSUME NEW b \in Attempts, attempts'[b].st = "pending"
          PROVE  \/ attempts'[b].gen = active
                 \/ attempts[b].st = "pending" /\ attempts'[b] = attempts[b]
      BY <1>2, <2>2 DEF IInv, AttemptsOK
    <2> QED
      BY <1>1, <2>1, <2>2 DEF IInv, PointersOK, AttemptsOK, NoAttemptSpansCutover
  <1> QED
    BY <1>1, <1>3, QuietStep

\* The environment: time, evidence, profiles and restarts.
LEMMA OtherStep ==
    ASSUME IInv,
           \/ SaveReturns \/ GateRejects \/ FenceExpires \/ Ingest \/ Restart
           \/ \E p \in Profiles : EditProfile(p)
    PROVE  IInv'
  <1>1. CASE SaveReturns \/ FenceExpires \/ Ingest \/ (\E p \in Profiles : EditProfile(p))
    <2>1. UNCHANGED <<policies, gens, active, fenced, attempts, lane>>
      BY <1>1 DEF SaveReturns, FenceExpires, Ingest, EditProfile, registry
    <2> QED
      BY <2>1, QuietStep, AttemptsQuiet
  <1>2. CASE GateRejects
    <2>1. CASE fenced # None
      BY <1>2, <2>1, AbortStep DEF GateRejects
    <2>2. CASE fenced = None
      BY <1>2, <2>2, QuietStep, AttemptsQuiet, LaneReleased DEF GateRejects, registry, Release
    <2> QED
      BY <2>1, <2>2
  <1>3. CASE Restart
    <2>1. UNCHANGED <<policies, gens, active, fenced>> /\ lane' = FreeLane
      BY <1>3 DEF Restart, registry
    <2>2. AttemptsOK'
      BY <1>3 DEF Restart, AttemptsOK, NoAttemptSpansCutover
    <2> QED
      BY <2>1, <2>2, QuietStep, LaneReleased
  <1> QED
    BY <1>1, <1>2, <1>3

LEMMA NextIInv == IInv /\ [Next]_vars => IInv'
  <1> SUFFICES ASSUME IInv, [Next]_vars PROVE IInv'
    OBVIOUS
  <1>1. CASE UNCHANGED vars
    BY <1>1, QuietStep, AttemptsQuiet DEF vars
  <1>2. CASE Next
    BY <1>2, RunnerStep, FastStep, SavePolicyStep, AttemptStep, OtherStep DEF Next
  <1> QED
    BY <1>1, <1>2

THEOREM Invariance == Spec => []IInv
  BY InitIInv, NextIInv, PTL DEF Spec

-----------------------------------------------------------------------------
(* What the invariant gives. *)

\* load_registry_snapshot never meets rows and a marker that disagree: at
\* most one active and one fencing generation, the ones the marker names, and
\* one active policy, for any number of saves, ticks, conflicts and restarts.
THEOREM RegistryStaysConsistent == Spec => []RegistryConsistent
  <1>1. IInv => RegistryConsistent
    BY DEF IInv
  <1> QED
    BY <1>1, Invariance, PTL

\* An attempt that passed the admission guard finishes under the circuit
\* component it was admitted under, whichever lane activates.
THEOREM AttemptsKeepTheirCircuit == Spec => []NoAttemptSpansCutover
  <1>1. IInv => NoAttemptSpansCutover
    BY DEF IInv, AttemptsOK
  <1> QED
    BY <1>1, Invariance, PTL

LEMMA SwapsMoveForward ==
    ASSUME IInv, [Next]_vars, active' # active
    PROVE  ActiveRevision' >= ActiveRevision
  <1>1. /\ LatestRevision \in Nat /\ ActiveRevision \in Nat /\ LatestRevision >= ActiveRevision
    BY LatestKnown DEF IInv
  <1>2. FastActivate \/ RunnerActivate
    BY DEF Next, vars, Runner, Fast, RunnerStart, RunnerRegister, RunnerQualify, RunnerBegin,
           RunnerAborts, RunnerWaits, RunnerDrained, RunnerReplace, RunnerRetarget,
           RunnerTickEnds, FastStart, FastRegister, FastGivesUp, SaveReturns, GateRejects,
           FenceExpires, Ingest, Restart, SavePolicy, EditProfile, Plan, Admit, Deny, Finish,
           Abort, registry
  <1>3. CASE FastActivate
    <2> DEFINE t == lane.target
    <2>1. t \in DOMAIN gens
      BY <1>3 DEF IInv, LaneOK, FastActivate
    <2>2. gens'[t].rev = gens[t].rev /\ active' = t /\ gens[t].rev = LatestRevision
      <3>1. gens' = Activated(t) /\ active' = t /\ gens[t].rev = LatestRevision
        BY <1>3 DEF FastActivate, FastActivatable
      <3>2. gens'[t] = [gens[t] EXCEPT !.status = "active"] /\ Row(gens[t])
        BY <2>1, <3>1 DEF Activated, IInv, RowsOK
      <3> QED
        BY <3>1, <3>2 DEF Row
    <2>3. active' # None
      <3>1. DOMAIN gens = 1 .. Len(gens)
        BY SeqDomain DEF IInv, RowsOK
      <3> QED
        BY <2>1, <2>2, <3>1 DEF None
    <2> QED
      BY <1>1, <2>2, <2>3 DEF ActiveRevision
  <1>4. CASE RunnerActivate
    <2>1. fenced # None /\ fenced \in DOMAIN gens /\ gens[fenced].rev >= ActiveRevision
      BY <1>4, LatestKnown DEF IInv, LaneOK, RunnerActivate
    <2>2. gens'[fenced].rev = gens[fenced].rev /\ active' = fenced
      <3>1. gens' = Activated(fenced) /\ active' = fenced
        BY <1>4 DEF RunnerActivate
      <3>2. gens'[fenced] = [gens[fenced] EXCEPT !.status = "active"] /\ Row(gens[fenced])
        BY <2>1, <3>1 DEF Activated, IInv, RowsOK
      <3> QED
        BY <3>1, <3>2 DEF Row
    <2> QED
      BY <2>1, <2>2 DEF ActiveRevision
  <1> QED
    BY <1>2, <1>3, <1>4

\* The active policy revision never decreases, whichever lane activates.
THEOREM ActivePolicyMovesForward == Spec => PolicyNeverMovesBack
  <1>1. IInv /\ [Next]_vars => [active' # active => ActiveRevision' >= ActiveRevision]_vars
    BY SwapsMoveForward
  <1> QED
    BY <1>1, Invariance, PTL DEF Spec, PolicyNeverMovesBack

=============================================================================
