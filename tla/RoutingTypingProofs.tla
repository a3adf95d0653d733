------------------------ MODULE RoutingTypingProofs ------------------------
(***************************************************************************)
(* What the rows of the routing generation registry hold, for any          *)
(* policies, source profiles, attempts and bounds: the type invariant, the *)
(* qualification of a fenced generation, and with them that an activation  *)
(* loses no observation and no circuit event.                              *)
(***************************************************************************)
EXTENDS RoutingGenerationProofs

-----------------------------------------------------------------------------
(* The inductive invariant, on top of IInv. *)

\* A component never names a revision or an event that does not exist yet,
\* and a quality component has been evaluated at most once per row.
Qualities(i) == [rev : DOMAIN policies, w : 0 .. Len(log), next : 0 .. Len(log),
                 profile : Profiles, stamp : 1 .. i]
Circuits == [rev : DOMAIN policies, w : 0 .. Len(log)]
Qualifications == 0 .. Len(gens) \cup {NotQualified}

PoliciesTyped ==
    /\ Len(policies) <= MaxPolicies
    /\ \A r \in DOMAIN policies : /\ policies[r].policy \in Policies
                                  /\ policies[r].base \in 1 .. r
                                  /\ policies[r].status \in Live \cup {"retired"}

GensTyped ==
    /\ Len(gens) <= MaxGens
    /\ \A i \in DOMAIN gens : /\ gens[i].quality \in Qualities(i)
                              /\ gens[i].circuit \in Circuits
                              /\ gens[i].status \in Statuses
                              /\ gens[i].qual \in Qualifications

LogTyped ==
    /\ log \in Seq({"active", "next", "circuit"})
    /\ Len(log) <= MaxLog
    /\ origin \in 0 .. Len(log)
    /\ profile \in Profiles

InputTyped(in) ==
    /\ in.qrev \in DOMAIN policies /\ in.crev \in DOMAIN policies
    /\ in.ow \in 0 .. Len(log) /\ in.cw \in 0 .. Len(log) /\ in.next \in 0 .. Len(log)
    /\ in.quality \/ in.base \in DOMAIN gens
    /\ in.circuit \/ in.base \in DOMAIN gens

\* A lane that has decided to fence holds the last decision to do so.
LaneTyped ==
    /\ lane.pc \in {"register", "fast_register", "replace"} => InputTyped(lane.input)
    /\ lane.pc \in {"begin", "fast_register", "fast_activate"} =>
         FencesLeft /\ lane.source \in 0 .. Len(gens)

MarkersTyped ==
    /\ fenceRev \in 0 .. MaxFences
    /\ saving \in 0 .. Len(policies)

SlotsTyped ==
    \A a \in Attempts : /\ attempts[a].st \in {"idle", "planned", "pending"}
                        /\ attempts[a].st = "pending" => attempts[a].kind \in {"active", "next"}

\* The fence only ever guards a row qualified against the active generation.
FencedQualified == fenced # None => gens[fenced].qual = active

TInv == PoliciesTyped /\ GensTyped /\ LogTyped /\ LaneTyped /\ MarkersTyped
          /\ SlotsTyped /\ FencedQualified

-----------------------------------------------------------------------------
(* Sets of naturals and the shape of the state. *)

\* A non-empty set of naturals has the minimum Min returns.
LEMMA MinInSet ==
    ASSUME NEW S, S \subseteq Nat, S # {}
    PROVE  Min(S) \in S /\ \A y \in S : Min(S) <= y
  <1>1. PICK m \in S : \A y \in S : ~(<<y, m>> \in OpToRel(<, Nat))
    BY NatLessThanWellFounded, WFMin
  <1>2. \A y \in S : m <= y
    <2> SUFFICES ASSUME NEW y \in S PROVE m <= y
      OBVIOUS
    <2>1. y < m => <<y, m>> \in OpToRel(<, Nat)
      BY DEF OpToRel
    <2>2. y \in Nat /\ m \in Nat /\ ~(y < m)
      BY <1>1, <2>1
    <2> QED
      BY <2>2
  <1> QED
    BY <1>2 DEF Min

\* The larger and the smaller of two positions of the log.
LEMMA MaxOfTwo ==
    ASSUME NEW n \in Nat, NEW a \in 0 .. n, NEW b \in 0 .. n
    PROVE  Max({a, b}) \in 0 .. n
  <1>1. {a, b} \subseteq 0 .. n /\ {a, b} # {}
    OBVIOUS
  <1>2. Max({a, b}) \in {a, b}
    BY <1>1, MaxInSet
  <1> QED
    BY <1>2

LEMMA MinOfTwo ==
    ASSUME NEW n \in Nat, NEW a \in 0 .. n, NEW b \in 0 .. n
    PROVE  Min({a, b}) \in 0 .. n
  <1>1. {a, b} \subseteq Nat /\ {a, b} # {}
    OBVIOUS
  <1>2. Min({a, b}) \in {a, b}
    BY <1>1, MinInSet
  <1> QED
    BY <1>2

LEMMA Shape ==
    ASSUME IInv, TInv
    PROVE  /\ Len(policies) \in Nat /\ DOMAIN policies = 1 .. Len(policies)
           /\ Len(gens) \in Nat /\ DOMAIN gens = 1 .. Len(gens)
           /\ Len(log) \in Nat /\ DOMAIN log = 1 .. Len(log)
           /\ active \in 0 .. Len(gens) /\ fenced \in 0 .. Len(gens)
           /\ active # None => active \in DOMAIN gens
           /\ fenced # None => fenced \in DOMAIN gens
           /\ ActiveRevision \in DOMAIN policies
           /\ LatestRevision \in DOMAIN policies
  <1>1. IsSeq(policies) /\ IsSeq(gens)
    BY DEF IInv, RowsOK
  <1>2. /\ Len(policies) \in Nat /\ DOMAIN policies = 1 .. Len(policies)
        /\ Len(gens) \in Nat /\ DOMAIN gens = 1 .. Len(gens)
    BY <1>1, SeqDomain
  <1>3. Len(log) \in Nat /\ DOMAIN log = 1 .. Len(log)
    BY DEF TInv, LogTyped
  <1>4. /\ active # None => active \in DOMAIN gens
        /\ fenced # None => fenced \in DOMAIN gens
        /\ LatestRevision \in DOMAIN policies
    BY LatestKnown DEF IInv
  <1>5. ActiveRevision \in DOMAIN policies
    BY <1>4 DEF IInv, RowsOK, LiveOK, ActiveRevision
  <1> QED
    BY <1>2, <1>3, <1>4, <1>5 DEF IInv, PointersOK

\* The same shape after a step, where the log is a sequence again.
LEMMA ShapeNext ==
    ASSUME IInv'
    PROVE  /\ Len(policies') \in Nat /\ DOMAIN policies' = 1 .. Len(policies')
           /\ Len(gens') \in Nat /\ DOMAIN gens' = 1 .. Len(gens')
  <1>1. IsSeq(policies') /\ IsSeq(gens')
    BY DEF IInv, RowsOK, IsSeq
  <1> QED
    BY <1>1, SeqDomain

-----------------------------------------------------------------------------
(* Components. *)

\* Revisions and events are only added.
Wider == /\ DOMAIN policies \subseteq DOMAIN policies'
         /\ Len(log) \in Nat /\ Len(log') \in Nat /\ Len(log) <= Len(log')

LEMMA ComponentsKept ==
    ASSUME Wider, NEW i
    PROVE  Qualities(i) \subseteq Qualities(i)' /\ Circuits \subseteq Circuits'
  <1>1. 0 .. Len(log) \subseteq 0 .. Len(log')
    BY DEF Wider
  <1> DEFINE L == 0 .. Len(log)
             M == 0 .. Len(log')
             D == DOMAIN policies
             E == DOMAIN policies'
             K == 1 .. i
  <1>2. L \subseteq M /\ D \subseteq E
    BY <1>1 DEF Wider
  <1>3. /\ Qualities(i) = [rev : D, w : L, next : L, profile : Profiles, stamp : K]
        /\ Qualities(i)' = [rev : E, w : M, next : M, profile : Profiles, stamp : K]
        /\ Circuits = [rev : D, w : L] /\ Circuits' = [rev : E, w : M]
    BY DEF Qualities, Circuits
  <1> HIDE DEF L, M, D, E, K
  <1> QED
    BY <1>2, <1>3

\* A component of an older row is one of a newer row.
LEMMA QualitiesGrow ==
    ASSUME NEW i \in Nat, NEW j \in Nat, i <= j
    PROVE  Qualities(i) \subseteq Qualities(j)
  <1> DEFINE L == 0 .. Len(log)
             D == DOMAIN policies
             I == 1 .. i
             J == 1 .. j
  <1>1. I \subseteq J
    OBVIOUS
  <1>2. /\ Qualities(i) = [rev : D, w : L, next : L, profile : Profiles, stamp : I]
        /\ Qualities(j) = [rev : D, w : L, next : L, profile : Profiles, stamp : J]
    BY DEF Qualities
  <1> HIDE DEF L, D, I, J
  <1> QED
    BY <1>1, <1>2

\* Every component on record is one the next row may carry.
LEMMA ComponentsOnRecord ==
    ASSUME IInv, TInv, NEW i \in DOMAIN gens
    PROVE  /\ gens[i].quality \in Qualities(Len(gens))
           /\ gens[i].quality.stamp \in 1 .. Len(gens)
           /\ gens[i].circuit \in Circuits
  <1>1. i \in Nat /\ Len(gens) \in Nat /\ i <= Len(gens)
    BY Shape
  <1>2. gens[i].quality \in Qualities(i) /\ gens[i].circuit \in Circuits
    BY DEF TInv, GensTyped
  <1>3. gens[i].quality \in Qualities(Len(gens))
    BY <1>1, <1>2, QualitiesGrow
  <1> QED
    BY <1>2, <1>3 DEF Qualities

\* The quality component a build produces: one on record, or a new one whose
\* evaluation is at most one later than every evaluation on record.
LEMMA QualityBuilt ==
    ASSUME IInv, TInv, NEW in, InputTyped(in)
    PROVE  QualityOf(in) \in Qualities(Len(gens) + 1)
  <1> DEFINE n == Len(gens)
             same == {q \in ReadyQuality : q.rev = in.qrev /\ q.w = in.ow}
             rows == {j \in DOMAIN gens : gens[j].quality.rev = in.qrev
                                            /\ gens[j].quality.w = in.ow}
             older == {gens[i].quality.stamp : i \in rows}
             stamp == IF same # {} THEN Min({q.stamp : q \in same})
                                   ELSE 1 + Max(older \cup {0})
             prepared == {q \in same : q.stamp = stamp /\ q.next = in.next}
             fresh == [rev |-> in.qrev, w |-> in.ow, next |-> in.next,
                       profile |-> profile, stamp |-> stamp]
  <1>0. n \in Nat /\ n + 1 \in Nat /\ n <= n + 1
    BY Shape
  <1>1. Qualities(n) \subseteq Qualities(n + 1)
    BY <1>0, QualitiesGrow
  <1>2. same \subseteq Qualities(n)
    <2>1. \A q \in ReadyQuality : \E i \in DOMAIN gens : q = gens[i].quality
      BY DEF ReadyQuality
    <2> QED
      BY <2>1, ComponentsOnRecord
  <1>3. CASE in.quality
    <2>1. QualityOf(in) = IF prepared # {} THEN CHOOSE q \in prepared : TRUE ELSE fresh
      BY <1>3 DEF QualityOf, RebuiltQuality
    <2>2. CASE prepared # {}
      <3>1. QualityOf(in) \in prepared
        BY <2>1, <2>2
      <3> QED
        BY <1>1, <1>2, <3>1
    <2>3. CASE prepared = {}
      <3>1. QualityOf(in) = fresh
        BY <2>1, <2>3
      <3>2. stamp \in 1 .. (n + 1)
        <4>1. CASE same # {}
          <5> DEFINE S == {q.stamp : q \in same}
          <5>1. S \subseteq 1 .. n
            <6>1. \A q \in Qualities(n) : q.stamp \in 1 .. n
              BY DEF Qualities
            <6> HIDE DEF same, n
            <6> QED
              BY <1>2, <6>1
          <5>2. S # {} /\ S \subseteq Nat
            <6>1. PICK q \in same : TRUE
              BY <4>1
            <6>2. q.stamp \in S
              BY <6>1
            <6> HIDE DEF S
            <6> QED
              BY <5>1, <6>2
          <5>3. stamp = Min(S)
            BY <4>1
          <5> HIDE DEF S, stamp
          <5>4. Min(S) \in S
            BY <5>2, MinInSet
          <5>5. stamp \in 1 .. n
            BY <5>1, <5>3, <5>4
          <5> HIDE DEF n
          <5> QED
            BY <1>0, <5>5
        <4>2. CASE same = {}
          <5> DEFINE S == older \cup {0}
          <5>1. S \subseteq 0 .. n /\ S # {}
            <6>1. \A i \in DOMAIN gens : gens[i].quality.stamp \in 1 .. n
              BY ComponentsOnRecord
            <6>2. older \subseteq 0 .. n
              <7> HIDE DEF n
              <7> QED
                BY <1>0, <6>1
            <6> HIDE DEF older
            <6> QED
              BY <1>0, <6>2
          <5>2. stamp = 1 + Max(S)
            BY <4>2
          <5> HIDE DEF S, stamp
          <5>3. Max(S) \in S
            BY <1>0, <5>1, MaxInSet
          <5>4. Max(S) \in 0 .. n
            BY <5>1, <5>3
          <5> HIDE DEF n
          <5> QED
            BY <1>0, <5>2, <5>4
        <4> QED
          BY <4>1, <4>2
      <3> HIDE DEF stamp
      <3> QED
        BY <3>1, <3>2 DEF Qualities, InputTyped, TInv, LogTyped
    <2> QED
      BY <2>2, <2>3
  <1>4. CASE ~in.quality
    <2>1. QualityOf(in) = gens[in.base].quality /\ in.base \in DOMAIN gens
      BY <1>4 DEF QualityOf, InputTyped
    <2> QED
      BY <1>1, <2>1, ComponentsOnRecord
  <1> QED
    BY <1>3, <1>4

LEMMA CircuitBuilt ==
    ASSUME IInv, TInv, NEW in, InputTyped(in)
    PROVE  CircuitOf(in) \in Circuits
  <1>1. CASE in.circuit
    BY <1>1 DEF CircuitOf, Circuits, InputTyped
  <1>2. CASE ~in.circuit
    BY <1>2, ComponentsOnRecord DEF CircuitOf, InputTyped
  <1> QED
    BY <1>1, <1>2

-----------------------------------------------------------------------------
(* Build inputs. *)

\* load_staged_build_input names revisions and events that exist.
LEMMA BuildTyped ==
    ASSUME IInv, TInv, NEW r \in DOMAIN policies
    PROVE  InputTyped(Build(r))
  <1>1. Len(log) \in Nat /\ Len(log) \in 0 .. Len(log)
    BY Shape
  <1>2. CASE active = None
    BY <1>1, <1>2 DEF Build, FirstBuild, InputTyped
  <1>3. CASE active # None
    <2>1. active \in DOMAIN gens
      BY <1>3, Shape
    <2>2. gens[active].quality \in Qualities(Len(gens)) /\ gens[active].circuit \in Circuits
      BY <2>1, ComponentsOnRecord
    <2>3. /\ gens[active].quality.rev \in DOMAIN policies
          /\ gens[active].quality.w \in 0 .. Len(log)
          /\ gens[active].circuit.rev \in DOMAIN policies
          /\ gens[active].circuit.w \in 0 .. Len(log)
      BY <2>2 DEF Qualities, Circuits
    <2> DEFINE b == NextBuild(r)
    <2>4. /\ b.base = active
          /\ b.qrev = r \/ b.qrev = gens[active].quality.rev
          /\ b.crev = r \/ b.crev = gens[active].circuit.rev
          /\ b.ow = Len(log) \/ b.ow = gens[active].quality.w
          /\ b.cw = Len(log) \/ b.cw = gens[active].circuit.w
          /\ b.next = b.ow
      BY DEF NextBuild
    <2>5. Build(r) = b
      BY <1>3 DEF Build
    <2> HIDE DEF b
    <2> QED
      BY <1>1, <2>1, <2>3, <2>4, <2>5 DEF InputTyped
  <1> QED
    BY <1>2, <1>3

\* The last event of a kind is in the log.
LEMMA LastInLog ==
    ASSUME IInv, TInv, NEW kind
    PROVE  LastOf(kind) \in 0 .. Len(log)
  <1> DEFINE S == {0} \cup {i \in DOMAIN log : log[i] = kind}
  <1>1. Len(log) \in Nat /\ DOMAIN log = 1 .. Len(log)
    BY Shape
  <1>2. S \subseteq 0 .. Len(log) /\ S # {}
    BY <1>1
  <1>3. LastOf(kind) = Max(S)
    BY DEF LastOf
  <1> HIDE DEF S
  <1> QED
    BY <1>1, <1>2, <1>3, MaxInSet

-----------------------------------------------------------------------------
(* The rows after a step. *)

\* Policy rows of which only the status moves.
LEMMA PoliciesMoved ==
    ASSUME IInv, TInv, IInv',
           policies' = [r \in DOMAIN policies |-> policies'[r]],
           \A r \in DOMAIN policies :
             \/ policies'[r] = policies[r]
             \/ \E v \in Live \cup {"retired"} : policies'[r] = [policies[r] EXCEPT !.status = v]
    PROVE  /\ PoliciesTyped'
           /\ DOMAIN policies' = DOMAIN policies /\ Len(policies') = Len(policies)
  <1>1. DOMAIN policies' = DOMAIN policies
    OBVIOUS
  <1>2. Len(policies') = Len(policies)
    <2>1. Len(policies) \in Nat /\ DOMAIN policies = 1 .. Len(policies)
      BY Shape
    <2> QED
      BY <2>1, SeqOfFunction
  <1>3. ASSUME NEW r \in DOMAIN policies
        PROVE  /\ policies'[r].policy \in Policies /\ policies'[r].base \in 1 .. r
               /\ policies'[r].status \in Live \cup {"retired"}
    <2>1. PolicyRow(policies[r])
      BY DEF IInv, RowsOK
    <2>2. /\ policies[r].policy \in Policies /\ policies[r].base \in 1 .. r
          /\ policies[r].status \in Live \cup {"retired"}
      BY DEF TInv, PoliciesTyped
    <2>3. CASE policies'[r] = policies[r]
      BY <2>2, <2>3
    <2>4. ASSUME NEW v \in Live \cup {"retired"},
                 policies'[r] = [policies[r] EXCEPT !.status = v]
          PROVE  /\ policies'[r].policy = policies[r].policy
                 /\ policies'[r].base = policies[r].base
                 /\ policies'[r].status = v
      BY <2>1, <2>4 DEF PolicyRow
    <2> QED
      BY <2>2, <2>3, <2>4
  <1>4. Len(policies) <= MaxPolicies
    BY DEF TInv, PoliciesTyped
  <1> QED
    BY <1>1, <1>2, <1>3, <1>4 DEF PoliciesTyped

\* Generation rows that keep their components, and well-typed new ones.
LEMMA GensGrown ==
    ASSUME IInv, TInv, IInv', Wider, Len(gens') <= MaxGens, Len(gens) <= Len(gens'),
           \A i \in DOMAIN gens :
             /\ gens'[i].quality = gens[i].quality /\ gens'[i].circuit = gens[i].circuit
             /\ gens'[i].status \in Statuses
             /\ gens'[i].qual \in Qualifications,
           \A i \in DOMAIN gens' \ DOMAIN gens :
             /\ gens'[i].quality \in Qualities(i) /\ gens'[i].circuit \in Circuits
             /\ gens'[i].status \in Statuses
             /\ gens'[i].qual \in Qualifications
    PROVE  GensTyped'
  <1>1. /\ Len(gens) \in Nat /\ Len(gens') \in Nat
    BY Shape, ShapeNext
  <1>2. Qualifications \subseteq Qualifications'
    BY <1>1 DEF Qualifications, NotQualified
  <1>3. ASSUME NEW i \in DOMAIN gens'
        PROVE  /\ gens'[i].quality \in Qualities(i)' /\ gens'[i].circuit \in Circuits'
               /\ gens'[i].status \in Statuses /\ gens'[i].qual \in Qualifications'
    <2>1. Qualities(i) \subseteq Qualities(i)' /\ Circuits \subseteq Circuits'
      BY ComponentsKept
    <2>2. CASE i \in DOMAIN gens
      <3>1. gens[i].quality \in Qualities(i) /\ gens[i].circuit \in Circuits
        BY <2>2 DEF TInv, GensTyped
      <3> QED
        BY <1>2, <2>1, <2>2, <3>1
    <2>3. CASE i \notin DOMAIN gens
      BY <1>2, <2>1, <2>3
    <2> QED
      BY <2>2, <2>3
  <1> QED
    BY <1>3 DEF GensTyped, Statuses

\* Generation rows of which only status or qualification moves.
LEMMA GensMoved ==
    ASSUME IInv, TInv, IInv', Wider,
           gens' = [i \in DOMAIN gens |-> gens'[i]],
           \A i \in DOMAIN gens :
             \/ gens'[i] = gens[i]
             \/ \E v \in Statuses : gens'[i] = [gens[i] EXCEPT !.status = v]
             \/ \E v \in Qualifications : gens'[i] = [gens[i] EXCEPT !.qual = v]
    PROVE  GensTyped' /\ Len(gens') = Len(gens) /\ DOMAIN gens' = DOMAIN gens
  <1>1. DOMAIN gens' = DOMAIN gens
    OBVIOUS
  <1>2. Len(gens') = Len(gens) /\ Len(gens) \in Nat
    <2>1. Len(gens) \in Nat /\ DOMAIN gens = 1 .. Len(gens)
      BY Shape
    <2> QED
      BY <2>1, SeqOfFunction
  <1>3. ASSUME NEW i \in DOMAIN gens
        PROVE  /\ gens'[i].quality = gens[i].quality /\ gens'[i].circuit = gens[i].circuit
               /\ gens'[i].status \in Statuses
               /\ gens'[i].qual \in Qualifications
    <2>1. Row(gens[i])
      BY DEF IInv, RowsOK
    <2>2. gens[i].status \in Statuses /\ gens[i].qual \in Qualifications
      BY DEF TInv, GensTyped
    <2>3. CASE gens'[i] = gens[i]
      BY <2>2, <2>3
    <2>4. ASSUME NEW v \in Statuses, gens'[i] = [gens[i] EXCEPT !.status = v]
          PROVE  /\ gens'[i].quality = gens[i].quality /\ gens'[i].circuit = gens[i].circuit
                 /\ gens'[i].status = v /\ gens'[i].qual = gens[i].qual
      BY <2>1, <2>4 DEF Row
    <2>5. ASSUME NEW v \in Qualifications, gens'[i] = [gens[i] EXCEPT !.qual = v]
          PROVE  /\ gens'[i].quality = gens[i].quality /\ gens'[i].circuit = gens[i].circuit
                 /\ gens'[i].status = gens[i].status /\ gens'[i].qual = v
      BY <2>1, <2>5 DEF Row
    <2> QED
      BY <2>2, <2>3, <2>4, <2>5
  <1>4. Len(gens) <= MaxGens
    BY DEF TInv, GensTyped
  <1>5. Len(gens') <= MaxGens /\ Len(gens) <= Len(gens')
    BY <1>2, <1>4
  <1>6. GensTyped'
    BY <1>1, <1>3, <1>5, GensGrown
  <1> QED
    BY <1>1, <1>2, <1>6

\* Policies and rows as they were, under a log that may have grown.
LEMMA RowsQuiet ==
    ASSUME IInv, TInv, IInv', Wider, UNCHANGED <<policies, gens>>
    PROVE  PoliciesTyped' /\ GensTyped'
  <1>1. IsSeq(gens) /\ IsSeq(policies)
    BY DEF IInv, RowsOK
  <1>2. /\ gens' = [i \in DOMAIN gens |-> gens'[i]]
        /\ policies' = [r \in DOMAIN policies |-> policies'[r]]
    BY <1>1, SeqDomain
  <1> QED
    BY <1>2, GensMoved, PoliciesMoved

\* The lane keeps what it knows while revisions, rows and events are added.
LEMMA LaneKept ==
    ASSUME IInv, TInv, IInv', Wider, Len(gens) <= Len(gens'), UNCHANGED <<lane, fenceRev>>
    PROVE  LaneTyped'
  <1>1. 0 .. Len(log) \subseteq 0 .. Len(log') /\ DOMAIN policies \subseteq DOMAIN policies'
    BY DEF Wider
  <1>2. 0 .. Len(gens) \subseteq 0 .. Len(gens') /\ DOMAIN gens \subseteq DOMAIN gens'
    BY Shape, ShapeNext
  <1>3. LaneTyped
    BY DEF TInv
  <1> QED
    BY <1>1, <1>2, <1>3 DEF LaneTyped, InputTyped, FencesLeft

LEMMA LaneFreed == lane' = FreeLane => LaneTyped'
  BY DEF LaneTyped, FreeLane

-----------------------------------------------------------------------------
(* The registry transactions. *)

\* register_ready_generation: a well-typed row is appended, or the ready row
\* of the same identity is found; the fenced row is not touched.
LEMMA RegisteredTyped ==
    ASSUME IInv, TInv, IInv', NEW in, NEW q \in Qualifications, InputTyped(in),
           gens' = Registered(NewGen(in), q), policies' = PolicyReady(in.rev),
           Registrable(NewGen(in)), UNCHANGED <<active, fenced, log>>
    PROVE  /\ PoliciesTyped' /\ GensTyped' /\ FencedQualified'
           /\ DOMAIN policies' = DOMAIN policies /\ Len(policies') = Len(policies)
           /\ Len(gens) <= Len(gens') /\ Wider
  <1> DEFINE g == NewGen(in)
  <1>1. /\ policies' = [r \in DOMAIN policies |-> policies'[r]]
        /\ \A r \in DOMAIN policies :
             \/ policies'[r] = policies[r]
             \/ \E v \in Live \cup {"retired"} : policies'[r] = [policies[r] EXCEPT !.status = v]
    <2>1. policies' = [r \in DOMAIN policies |-> policies'[r]]
      BY DEF PolicyReady
    <2>2. ASSUME NEW r \in DOMAIN policies
          PROVE  \/ policies'[r] = policies[r]
                 \/ policies'[r] = [policies[r] EXCEPT !.status = "ready"]
      <3>1. PolicyRow(policies[r])
        BY DEF IInv, RowsOK
      <3> QED
        BY <3>1 DEF PolicyReady, PolicyRow
    <2> QED
      BY <2>1, <2>2 DEF Live
  <1>2. /\ PoliciesTyped'
        /\ DOMAIN policies' = DOMAIN policies /\ Len(policies') = Len(policies)
    BY <1>1, PoliciesMoved
  <1>3. Wider
    BY <1>2, Shape DEF Wider
  <1>4. /\ g.quality \in Qualities(Len(gens) + 1) /\ g.circuit \in Circuits
        /\ g.status = "ready" /\ Row(g)
    BY QualityBuilt, CircuitBuilt DEF NewGen, Row
  <1>5. IsSeq(gens) /\ Len(gens) \in Nat /\ DOMAIN gens = 1 .. Len(gens)
    BY Shape DEF IInv, RowsOK
  <1> HIDE DEF g
  <1>6. CASE Existing(g) = {}
    <2> DEFINE h == [g EXCEPT !.qual = q]
    <2>1. /\ h.quality = g.quality /\ h.circuit = g.circuit /\ h.status = "ready" /\ h.qual = q
      BY <1>4 DEF Row
    <2>2. gens' = Append(gens, h) /\ Len(gens) < MaxGens
      BY <1>6 DEF Registered, Registrable, g
    <2> HIDE DEF h
    <2>3. /\ Len(gens') = Len(gens) + 1 /\ DOMAIN gens' = 1 .. (Len(gens) + 1)
          /\ \A i \in DOMAIN gens : gens'[i] = gens[i]
          /\ gens'[Len(gens) + 1] = h
      BY <1>5, <2>2, SeqAppended
    <2>4. \A i \in DOMAIN gens' \ DOMAIN gens : i = Len(gens) + 1
      BY <1>5, <2>3
    <2>5. Len(gens') <= MaxGens /\ Len(gens) <= Len(gens')
      BY <1>5, <2>2, <2>3, BoundsAssumption
    <2>6. \A i \in DOMAIN gens :
            /\ gens'[i].quality = gens[i].quality /\ gens'[i].circuit = gens[i].circuit
            /\ gens'[i].status \in Statuses
            /\ gens'[i].qual \in Qualifications
      BY <2>3 DEF TInv, GensTyped
    <2>7. \A i \in DOMAIN gens' \ DOMAIN gens :
            /\ gens'[i].quality \in Qualities(i) /\ gens'[i].circuit \in Circuits
            /\ gens'[i].status \in Statuses
            /\ gens'[i].qual \in Qualifications
      BY <1>4, <2>1, <2>3, <2>4 DEF Statuses
    <2>8. GensTyped'
      BY <1>3, <2>5, <2>6, <2>7, GensGrown
    <2>9. FencedQualified'
      BY <2>3, Shape DEF TInv, FencedQualified
    <2> QED
      BY <1>2, <1>3, <2>5, <2>8, <2>9
  <1>7. CASE Existing(g) # {}
    <2> DEFINE t == CHOOSE i \in Existing(g) : TRUE
    <2>1. t \in Existing(g) /\ Existing(g) \subseteq Ready
      BY <1>7 DEF Registrable, g
    <2>2. t \in DOMAIN gens /\ gens[t].status = "ready"
      BY <2>1 DEF Existing, Ready
    <2>3. gens' = [gens EXCEPT ![t].qual = IF @ = NotQualified THEN q ELSE @]
      BY <1>7 DEF Registered, g
    <2> HIDE DEF t
    <2>4. gens' = [i \in DOMAIN gens |-> gens'[i]]
      BY <2>3
    <2>5. ASSUME NEW i \in DOMAIN gens
          PROVE  \/ gens'[i] = gens[i]
                 \/ \E v \in Qualifications : gens'[i] = [gens[i] EXCEPT !.qual = v]
      <3> DEFINE v == IF gens[t].qual = NotQualified THEN q ELSE gens[t].qual
      <3>1. v \in Qualifications
        BY <2>2 DEF TInv, GensTyped
      <3>2. i = t => gens'[i] = [gens[i] EXCEPT !.qual = v]
        BY <2>3
      <3>3. i # t => gens'[i] = gens[i]
        BY <2>3
      <3> HIDE DEF v
      <3> QED
        BY <3>1, <3>2, <3>3
    <2>6. GensTyped' /\ Len(gens') = Len(gens)
      BY <1>3, <2>4, <2>5, GensMoved
    <2>7. FencedQualified'
      <3>1. fenced # None => fenced \in DOMAIN gens /\ gens[fenced].status = "cutover_fencing"
        BY Shape DEF IInv, RegistryConsistent
      <3>2. fenced # None => gens'[fenced] = gens[fenced]
        BY <2>2, <2>3, <3>1
      <3> QED
        BY <3>2 DEF TInv, FencedQualified
    <2> QED
      BY <1>2, <1>3, <1>5, <2>6, <2>7
  <1> QED
    BY <1>6, <1>7

\* switch_component_statuses and the policy rows of an activation.
LEMMA SwappedTyped ==
    ASSUME IInv, TInv, IInv', NEW t \in DOMAIN gens,
           gens' = Activated(t), policies' = PolicyActivated(t), UNCHANGED log
    PROVE  /\ PoliciesTyped' /\ GensTyped'
           /\ Len(policies') = Len(policies) /\ DOMAIN policies' = DOMAIN policies
           /\ DOMAIN gens' = DOMAIN gens
  <1>1. policies' = [r \in DOMAIN policies |-> policies'[r]]
    BY DEF PolicyActivated
  <1>2. \A r \in DOMAIN policies :
          \/ policies'[r] = policies[r]
          \/ \E v \in Live \cup {"retired"} : policies'[r] = [policies[r] EXCEPT !.status = v]
    BY DEF PolicyActivated, Live
  <1>3. /\ PoliciesTyped'
        /\ DOMAIN policies' = DOMAIN policies /\ Len(policies') = Len(policies)
    BY <1>1, <1>2, PoliciesMoved
  <1>4. Wider
    BY <1>3, Shape DEF Wider
  <1>5. gens' = [i \in DOMAIN gens |-> gens'[i]]
    BY DEF Activated
  <1>6. \A i \in DOMAIN gens :
          \/ gens'[i] = gens[i]
          \/ \E v \in Statuses : gens'[i] = [gens[i] EXCEPT !.status = v]
    BY DEF Activated, Statuses
  <1>7. GensTyped' /\ DOMAIN gens' = DOMAIN gens
    BY <1>4, <1>5, <1>6, GensMoved
  <1> QED
    BY <1>3, <1>7

\* Rows, fence and lane of a step that moves statuses or qualifications only.
LEMMA StatusTyped ==
    ASSUME IInv, TInv, IInv', UNCHANGED <<policies, log>>,
           gens' = [i \in DOMAIN gens |-> gens'[i]],
           \A i \in DOMAIN gens :
             \/ gens'[i] = gens[i]
             \/ \E v \in Statuses : gens'[i] = [gens[i] EXCEPT !.status = v]
             \/ \E v \in Qualifications : gens'[i] = [gens[i] EXCEPT !.qual = v]
    PROVE  /\ PoliciesTyped' /\ GensTyped'
           /\ Len(gens') = Len(gens) /\ DOMAIN gens' = DOMAIN gens
  <1>1. Wider
    BY Shape DEF Wider
  <1>2. GensTyped' /\ Len(gens') = Len(gens) /\ DOMAIN gens' = DOMAIN gens
    BY <1>1, GensMoved
  <1>3. PoliciesTyped'
    BY DEF TInv, PoliciesTyped
  <1> QED
    BY <1>2, <1>3

LEMMA StaleTyped ==
    ASSUME IInv, TInv, IInv', NEW r, gens' = MarkStale(r), UNCHANGED <<policies, log>>
    PROVE  /\ PoliciesTyped' /\ GensTyped'
           /\ Len(gens') = Len(gens) /\ DOMAIN gens' = DOMAIN gens
  <1>1. gens' = [i \in DOMAIN gens |-> gens'[i]]
    BY DEF MarkStale
  <1>2. \A i \in DOMAIN gens :
          \/ gens'[i] = gens[i]
          \/ \E v \in Statuses : gens'[i] = [gens[i] EXCEPT !.status = v]
    BY DEF MarkStale, Statuses
  <1> QED
    BY <1>1, <1>2, StatusTyped

-----------------------------------------------------------------------------
(* The initial state and the actions. *)

LEMMA InitTInv == Init => TInv
  <1> SUFFICES ASSUME Init PROVE TInv
    OBVIOUS
  <1>1. MaxPolicies \in Nat /\ MaxPolicies # 0 /\ MaxGens \in Nat /\ MaxLog \in Nat
          /\ MaxFences \in Nat
    BY BoundsAssumption
  <1>2. /\ DOMAIN gens = 1 .. 0 /\ gens = [i \in DOMAIN gens |-> gens[i]]
        /\ DOMAIN policies = 1 .. 1 /\ policies = [i \in DOMAIN policies |-> policies[i]]
        /\ policies[1] = [policy |-> FirstPolicy, base |-> 1, status |-> "staged"]
    BY DEF Init
  <1>3. Len(gens) = 0 /\ Len(policies) = 1
    BY <1>2, SeqOfFunction
  <1>4. \A r \in DOMAIN policies : r = 1
    BY <1>2
  <1>5. PoliciesTyped /\ GensTyped
    BY <1>1, <1>2, <1>3, <1>4, PoliciesAssumption DEF PoliciesTyped, GensTyped, Live
  <1>6. LogTyped
    BY <1>1, PoliciesAssumption DEF Init, LogTyped
  <1>7. LaneTyped /\ SlotsTyped /\ FencedQualified
    BY DEF Init, LaneTyped, SlotsTyped, FencedQualified, FreeLane
  <1>8. MarkersTyped
    BY <1>1, <1>3 DEF Init, MarkersTyped, NotSaving
  <1> QED
    BY <1>5, <1>6, <1>7, <1>8 DEF TInv

\* A step that leaves the registry and the log alone.
LEMMA QuietTyped ==
    ASSUME IInv, TInv, IInv', UNCHANGED <<policies, gens, active, fenced, fenceRev, origin, log>>,
           profile' \in Profiles, SlotsTyped', LaneTyped' \/ UNCHANGED lane,
           saving' \in {saving, NotSaving}
    PROVE  TInv'
  <1>1. Wider /\ Len(gens) <= Len(gens') /\ Len(policies) \in Nat
    BY Shape DEF Wider
  <1>2. PoliciesTyped' /\ GensTyped'
    BY <1>1, RowsQuiet
  <1>3. LaneTyped'
    BY <1>1, LaneKept
  <1>4. LogTyped' /\ FencedQualified'
    BY DEF TInv, LogTyped, FencedQualified
  <1>5. MarkersTyped'
    BY <1>1 DEF TInv, MarkersTyped, NotSaving
  <1> QED
    BY <1>2, <1>3, <1>4, <1>5 DEF TInv

\* What a registry transaction leaves alone.
LEMMA RestTyped ==
    ASSUME IInv, TInv, UNCHANGED <<log, origin, profile, attempts, fenceRev>>,
           Len(policies') = Len(policies), saving' \in {saving, NotSaving}
    PROVE  LogTyped' /\ SlotsTyped' /\ MarkersTyped'
  <1>1. Len(policies) \in Nat
    BY Shape
  <1> QED
    BY <1>1 DEF TInv, LogTyped, SlotsTyped, MarkersTyped, NotSaving

LEMMA SaveTyped ==
    ASSUME IInv, TInv, IInv', NEW e \in DOMAIN policies, NEW p \in Policies, SavePolicy(e, p)
    PROVE  TInv'
  <1>1. UNCHANGED <<gens, active, fenced, fenceRev, origin, log, profile, attempts, lane>>
    BY DEF SavePolicy
  <1>2. /\ Len(policies) \in Nat /\ DOMAIN policies = 1 .. Len(policies)
        /\ Len(gens) \in Nat /\ Len(log) \in Nat
    BY Shape
  <1>3. LogTyped' /\ SlotsTyped' /\ FencedQualified'
    BY <1>1 DEF TInv, LogTyped, SlotsTyped, FencedQualified
  <1>4. CASE UNCHANGED policies
    <2>1. Wider /\ Len(gens) <= Len(gens')
      BY <1>1, <1>2, <1>4 DEF Wider
    <2>2. PoliciesTyped' /\ GensTyped' /\ LaneTyped'
      BY <1>1, <1>4, <2>1, RowsQuiet, LaneKept
    <2>3. saving' \in DOMAIN policies
      <3>1. CASE SaveUnchanged(e, p)
        BY <3>1 DEF SaveUnchanged
      <3>2. CASE SaveKnown(e, p)
        <4> DEFINE known == {r \in DOMAIN policies : policies[r].policy = p
                                                       /\ policies[r].base = ActiveRevision}
        <4>1. known # {} /\ saving' = CHOOSE r \in known : TRUE
          BY <3>2 DEF SaveKnown
        <4>2. saving' \in known
          BY <4>1
        <4> QED
          BY <4>2
      <3>3. CASE SaveNew(e, p)
        <4> DEFINE row == [policy |-> p, base |-> ActiveRevision, status |-> "staged"]
        <4>1. policies' = Append(policies, row) /\ IsSeq(policies)
          BY <3>3 DEF SaveNew, IInv, RowsOK
        <4>2. Len(policies') = Len(policies) + 1
          <5> HIDE DEF row
          <5> QED
            BY <4>1, SeqAppended
        <4> QED
          BY <1>2, <1>4, <4>2
      <3> QED
        BY <3>1, <3>2, <3>3 DEF SavePolicy
    <2>4. MarkersTyped'
      BY <1>1, <1>2, <1>4, <2>3 DEF TInv, MarkersTyped
    <2> QED
      BY <1>3, <2>2, <2>4 DEF TInv
  <1>5. CASE SaveNew(e, p)
    <2> DEFINE row == [policy |-> p, base |-> ActiveRevision, status |-> "staged"]
    <2>1. /\ policies' = Append(policies, row) /\ IsSeq(policies)
          /\ saving' = Len(policies) + 1 /\ Len(policies) < MaxPolicies
      BY <1>5 DEF SaveNew, IInv, RowsOK
    <2>2. row.policy \in Policies /\ row.base = ActiveRevision /\ row.status = "staged"
      OBVIOUS
    <2> HIDE DEF row
    <2>3. /\ Len(policies') = Len(policies) + 1 /\ DOMAIN policies' = 1 .. (Len(policies) + 1)
          /\ \A i \in DOMAIN policies : policies'[i] = policies[i]
          /\ policies'[Len(policies) + 1] = row
      BY <2>1, SeqAppended
    <2>4. ActiveRevision \in 1 .. (Len(policies) + 1)
      BY <1>2, Shape
    <2>5. PoliciesTyped'
      <3>1. \A r \in DOMAIN policies' : r \in DOMAIN policies \/ r = Len(policies) + 1
        BY <1>2, <2>3
      <3>2. ASSUME NEW r \in DOMAIN policies'
            PROVE  /\ policies'[r].policy \in Policies /\ policies'[r].base \in 1 .. r
                   /\ policies'[r].status \in Live \cup {"retired"}
        <4>1. CASE r \in DOMAIN policies
          BY <2>3, <4>1 DEF TInv, PoliciesTyped
        <4>2. CASE r = Len(policies) + 1
          BY <2>2, <2>3, <2>4, <4>2 DEF Live
        <4> QED
          BY <3>1, <4>1, <4>2
      <3>3. Len(policies') <= MaxPolicies
        BY <1>2, <2>1, <2>3, BoundsAssumption
      <3> QED
        BY <3>2, <3>3 DEF PoliciesTyped, Live
    <2>6. Wider /\ Len(gens) <= Len(gens')
      BY <1>1, <1>2, <2>3 DEF Wider
    <2>7. LaneTyped'
      BY <1>1, <2>6, LaneKept
    <2>8. GensTyped'
      <3>1. gens' = [i \in DOMAIN gens |-> gens'[i]]
        <4>1. IsSeq(gens)
          BY DEF IInv, RowsOK
        <4> QED
          BY <1>1, <4>1, SeqDomain
      <3> QED
        BY <1>1, <2>6, <3>1, GensMoved
    <2>9. MarkersTyped'
      BY <1>1, <1>2, <2>1, <2>3 DEF TInv, MarkersTyped
    <2> QED
      BY <1>3, <2>5, <2>7, <2>8, <2>9 DEF TInv
  <1> QED
    BY <1>4, <1>5 DEF SavePolicy, SaveUnchanged, SaveKnown

\* The three registrations: runner, fast lane, and the replacement of a fence.
LEMMA RegisterTyped ==
    ASSUME IInv, TInv, IInv', RunnerRegister \/ FastRegister \/ RunnerReplace
    PROVE  TInv'
  <1> DEFINE in == lane.input
  <1>1. InputTyped(in)
    BY DEF TInv, LaneTyped, RunnerRegister, FastRegister, RunnerReplace
  <1>2. NewGen(in).rev = in.rev
    BY DEF NewGen
  <1>3. PICK q \in Qualifications : gens' = Registered(NewGen(in), q)
    <2>1. active \in Qualifications /\ NotQualified \in Qualifications
      BY Shape DEF Qualifications
    <2>2. FastRegister => lane.source \in Qualifications
      BY DEF TInv, LaneTyped, FastRegister, Qualifications
    <2> QED
      BY <2>1, <2>2 DEF RunnerRegister, FastRegister, RunnerReplace
  <1>4. /\ policies' = PolicyReady(in.rev) /\ Registrable(NewGen(in))
        /\ UNCHANGED <<active, fenced, fenceRev, origin, log, profile, attempts, saving>>
    BY <1>2 DEF RunnerRegister, FastRegister, RunnerReplace, Replaceable
  <1>5. /\ PoliciesTyped' /\ GensTyped' /\ FencedQualified'
        /\ Len(policies') = Len(policies) /\ Len(gens) <= Len(gens')
    <2> HIDE DEF in
    <2> QED
      BY <1>1, <1>3, <1>4, RegisteredTyped
  <1>6. LogTyped' /\ SlotsTyped' /\ MarkersTyped'
    BY <1>4, <1>5, RestTyped
  <1>7. LaneTyped'
    <2>1. CASE FastRegister
      <3>1. FencesLeft /\ lane.source \in 0 .. Len(gens)
        BY <2>1 DEF TInv, LaneTyped, FastRegister
      <3>2. 0 .. Len(gens) \subseteq 0 .. Len(gens')
        BY <1>5, Shape, ShapeNext
      <3>3. lane'.pc = "fast_activate" /\ lane'.source = lane.source
        BY <2>1 DEF FastRegister
      <3> QED
        BY <1>4, <3>1, <3>2, <3>3 DEF LaneTyped, FencesLeft
    <2>2. CASE RunnerRegister \/ RunnerReplace
      BY <2>2 DEF LaneTyped, RunnerRegister, RunnerReplace
    <2> QED
      BY <2>1, <2>2
  <1> QED
    BY <1>5, <1>6, <1>7 DEF TInv

\* Both lanes read their input and mark the rows it replaces stale.
LEMMA StartTyped ==
    ASSUME IInv, TInv, IInv', RunnerStart \/ FastStart
    PROVE  TInv'
  <1> DEFINE r == LatestRevision
  <1>1. InputTyped(Build(r)) /\ active \in 0 .. Len(gens)
    BY Shape, BuildTyped
  <1>2. UNCHANGED <<policies, active, fenced, fenceRev, origin, log, profile, attempts, saving>>
    BY DEF RunnerStart, FastStart
  <1>3. LogTyped' /\ SlotsTyped' /\ MarkersTyped'
    BY <1>2, RestTyped
  <1>4. CASE gens' = MarkStale(r) /\ fenced = None
    <2>1. PoliciesTyped' /\ GensTyped' /\ Len(gens') = Len(gens) /\ DOMAIN gens' = DOMAIN gens
      BY <1>2, <1>4, StaleTyped
    <2>2. FencedQualified'
      BY <1>2, <1>4 DEF FencedQualified
    <2>3. LaneTyped'
      <3>1. CASE RunnerStart
        <4>1. \/ lane'.pc = "register" /\ lane'.input = Build(r)
              \/ lane'.pc = "qualify"
          BY <3>1 DEF RunnerStart
        <4> QED
          BY <1>1, <1>2, <2>1, <4>1 DEF LaneTyped, InputTyped
      <3>2. CASE FastStart
        <4>1. /\ lane'.pc = "fast_register" /\ lane'.input = Build(r)
              /\ lane'.source = active /\ FencesLeft
          BY <3>2 DEF FastStart
        <4> QED
          BY <1>1, <1>2, <2>1, <4>1 DEF LaneTyped, InputTyped, FencesLeft
      <3> QED
        BY <3>1, <3>2
    <2> QED
      BY <1>3, <2>1, <2>2, <2>3 DEF TInv
  <1>5. CASE UNCHANGED gens /\ lane' = [pc |-> "qualify"]
    <2>1. LaneTyped'
      BY <1>5 DEF LaneTyped
    <2>2. profile' \in Profiles
      BY <1>2 DEF TInv, LogTyped
    <2> QED
      BY <1>2, <1>3, <1>5, <2>1, <2>2, QuietTyped
  <1> QED
    BY <1>4, <1>5 DEF RunnerStart, FastStart, HasBuildInput

LEMMA QualifyTyped ==
    ASSUME IInv, TInv, IInv', RunnerQualify
    PROVE  TInv'
  <1> DEFINE t == Candidate
  <1>1. /\ gens' = [gens EXCEPT ![t].qual = IF @ = NotQualified THEN active ELSE @]
        /\ UNCHANGED <<policies, active, fenced, fenceRev, origin, log, profile, attempts, saving>>
        /\ lane' = [pc |-> "begin", target |-> t, source |-> active]
        /\ fenced = None /\ FencesLeft
    BY DEF RunnerQualify, Qualified
  <1> HIDE DEF t
  <1>2. gens' = [i \in DOMAIN gens |-> gens'[i]]
    BY <1>1
  <1>3. active \in Qualifications /\ active \in 0 .. Len(gens)
    BY Shape DEF Qualifications
  <1>4. ASSUME NEW i \in DOMAIN gens
        PROVE  \/ gens'[i] = gens[i]
               \/ \E v \in Qualifications : gens'[i] = [gens[i] EXCEPT !.qual = v]
    <2> DEFINE v == IF gens[i].qual = NotQualified THEN active ELSE gens[i].qual
    <2>1. v \in Qualifications
      BY <1>3 DEF TInv, GensTyped
    <2>2. gens'[i] = gens[i] \/ gens'[i] = [gens[i] EXCEPT !.qual = v]
      BY <1>1
    <2> HIDE DEF v
    <2> QED
      BY <2>1, <2>2
  <1>5. PoliciesTyped' /\ GensTyped' /\ Len(gens') = Len(gens)
    BY <1>1, <1>2, <1>4, StatusTyped
  <1>6. LaneTyped' /\ FencedQualified'
    BY <1>1, <1>3, <1>5 DEF LaneTyped, FencedQualified, FencesLeft
  <1>7. LogTyped' /\ SlotsTyped' /\ MarkersTyped'
    BY <1>1, RestTyped
  <1> QED
    BY <1>5, <1>6, <1>7 DEF TInv

LEMMA BeginTyped ==
    ASSUME IInv, TInv, IInv', RunnerBegin
    PROVE  TInv'
  <1> DEFINE t == lane.target
  <1>1. /\ t \in DOMAIN gens /\ gens[t].qual = active /\ FencesLeft
    BY DEF IInv, LaneOK, TInv, LaneTyped, RunnerBegin, Fenceable
  <1>2. /\ gens' = [gens EXCEPT ![t].status = "cutover_fencing"]
        /\ fenced' = t /\ fenceRev' = fenceRev + 1 /\ origin' = gens[t].quality.w
        /\ UNCHANGED <<policies, active, log, profile, attempts, saving>>
        /\ lane' = [pc |-> "advance"]
    BY DEF RunnerBegin
  <1> HIDE DEF t
  <1>3. gens' = [i \in DOMAIN gens |-> gens'[i]]
    BY <1>2
  <1>4. \A i \in DOMAIN gens :
          \/ gens'[i] = gens[i]
          \/ \E v \in Statuses : gens'[i] = [gens[i] EXCEPT !.status = v]
    BY <1>2 DEF Statuses
  <1>5. PoliciesTyped' /\ GensTyped'
    BY <1>2, <1>3, <1>4, StatusTyped
  <1>6. FencedQualified'
    <2>1. gens'[t] = [gens[t] EXCEPT !.status = "cutover_fencing"] /\ Row(gens[t])
      BY <1>1, <1>2 DEF IInv, RowsOK
    <2> QED
      BY <1>1, <1>2, <2>1 DEF FencedQualified, Row
  <1>7. LogTyped'
    <2>1. gens[t].quality \in Qualities(t)
      BY <1>1 DEF TInv, GensTyped
    <2>2. gens[t].quality.w \in 0 .. Len(log)
      BY <2>1 DEF Qualities
    <2> QED
      BY <1>2, <2>2 DEF TInv, LogTyped
  <1>8. MarkersTyped' /\ SlotsTyped' /\ LaneTyped'
    BY <1>1, <1>2, BoundsAssumption
       DEF TInv, MarkersTyped, SlotsTyped, LaneTyped, FencesLeft
  <1> QED
    BY <1>5, <1>6, <1>7, <1>8 DEF TInv

LEMMA AbortTyped ==
    ASSUME IInv, TInv, IInv', Abort, UNCHANGED <<log, profile, attempts, saving>>
    PROVE  TInv'
  <1>1. /\ gens' = [gens EXCEPT ![fenced].status = "ready"] /\ fenced' = None
        /\ UNCHANGED <<policies, active, fenceRev, origin>> /\ lane' = FreeLane
    BY DEF Abort, Release
  <1>2. gens' = [i \in DOMAIN gens |-> gens'[i]]
    BY <1>1
  <1>3. \A i \in DOMAIN gens :
          \/ gens'[i] = gens[i]
          \/ \E v \in Statuses : gens'[i] = [gens[i] EXCEPT !.status = v]
    BY <1>1 DEF Statuses
  <1>4. PoliciesTyped' /\ GensTyped'
    BY <1>1, <1>2, <1>3, StatusTyped
  <1>5. LogTyped' /\ SlotsTyped' /\ MarkersTyped'
    BY <1>1, RestTyped
  <1>6. LaneTyped' /\ FencedQualified'
    BY <1>1, LaneFreed DEF FencedQualified
  <1> QED
    BY <1>4, <1>5, <1>6 DEF TInv

LEMMA RetargetTyped ==
    ASSUME IInv, TInv, IInv', RunnerRetarget
    PROVE  TInv'
  <1> DEFINE t == lane.target
  <1>1. /\ t \in DOMAIN gens /\ gens[t].qual = active /\ gens[t].status = "ready"
        /\ fenced # None
    BY DEF IInv, LaneOK, RunnerRetarget, Retargetable
  <1>2. /\ gens' = [gens EXCEPT ![fenced].status = "failed", ![t].status = "cutover_fencing"]
        /\ fenced' = t /\ lane' = [pc |-> "activate"]
        /\ UNCHANGED <<policies, active, fenceRev, origin, log, profile, attempts, saving>>
    BY DEF RunnerRetarget
  <1> HIDE DEF t
  <1>3. t # fenced
    BY <1>1 DEF IInv, RegistryConsistent
  <1>4. gens' = [i \in DOMAIN gens |-> gens'[i]]
    BY <1>2
  <1>5. ASSUME NEW i \in DOMAIN gens
        PROVE  \/ i = t /\ gens'[i] = [gens[i] EXCEPT !.status = "cutover_fencing"]
               \/ i # t /\ gens'[i] = [gens[i] EXCEPT !.status = "failed"]
               \/ i # t /\ gens'[i] = gens[i]
    BY <1>2, <1>3
  <1>6. PoliciesTyped' /\ GensTyped'
    <2>1. \A i \in DOMAIN gens :
            \/ gens'[i] = gens[i]
            \/ \E v \in Statuses : gens'[i] = [gens[i] EXCEPT !.status = v]
      BY <1>5 DEF Statuses
    <2> QED
      BY <1>2, <1>4, <2>1, StatusTyped
  <1>7. FencedQualified'
    <2>1. gens'[t] = [gens[t] EXCEPT !.status = "cutover_fencing"] /\ Row(gens[t])
      BY <1>1, <1>5 DEF IInv, RowsOK
    <2> QED
      BY <1>1, <1>2, <2>1 DEF FencedQualified, Row
  <1>8. LogTyped' /\ SlotsTyped' /\ MarkersTyped'
    BY <1>2, RestTyped
  <1>9. LaneTyped'
    BY <1>2 DEF LaneTyped
  <1> QED
    BY <1>6, <1>7, <1>8, <1>9 DEF TInv

\* The pointer swap of either lane.
LEMMA ActivateTyped ==
    ASSUME IInv, TInv, IInv', RunnerActivate \/ FastActivate
    PROVE  TInv'
  <1>1. PICK t \in DOMAIN gens : gens' = Activated(t) /\ policies' = PolicyActivated(t)
    <2>1. CASE RunnerActivate
      <3>1. fenced \in DOMAIN gens
        BY <2>1, Shape DEF IInv, LaneOK, RunnerActivate
      <3> QED
        BY <2>1, <3>1 DEF RunnerActivate
    <2>2. CASE FastActivate
      <3>1. lane.target \in DOMAIN gens
        BY <2>2 DEF IInv, LaneOK, FastActivate
      <3> QED
        BY <2>2, <3>1 DEF FastActivate
    <2> QED
      BY <2>1, <2>2
  <1>2. /\ UNCHANGED <<log, origin, profile, attempts>> /\ saving' \in {saving, NotSaving}
        /\ lane' = FreeLane /\ fenced' = None
    BY DEF RunnerActivate, FastActivate, FastActivatable, Release
  <1>3. /\ PoliciesTyped' /\ GensTyped' /\ Len(policies') = Len(policies)
    BY <1>1, <1>2, SwappedTyped
  <1>4. LogTyped' /\ SlotsTyped'
    BY <1>2 DEF TInv, LogTyped, SlotsTyped
  <1>5. LaneTyped' /\ FencedQualified'
    BY <1>2, LaneFreed DEF FencedQualified
  <1>6. MarkersTyped'
    <2>1. fenceRev' = fenceRev \/ (fenceRev' = fenceRev + 1 /\ FencesLeft)
      BY DEF RunnerActivate, FastActivate, TInv, LaneTyped
    <2>2. Len(policies) \in Nat
      BY Shape
    <2> QED
      BY <1>2, <1>3, <2>1, <2>2, BoundsAssumption
         DEF TInv, MarkersTyped, FencesLeft, NotSaving
  <1> QED
    BY <1>3, <1>4, <1>5, <1>6 DEF TInv

\* load_fenced_build_input: the tail of a drained fence.
LEMMA DrainedTyped ==
    ASSUME IInv, TInv, IInv', RunnerDrained
    PROVE  TInv'
  <1> DEFINE g  == gens[fenced]
             ow == Max({LastOf("active"), g.quality.w})
             cw == Max({LastOf("circuit"), g.circuit.w})
             next == Min({origin, ow})
  <1>1. fenced \in DOMAIN gens /\ Len(log) \in Nat
    BY Shape DEF RunnerDrained, Advancing
  <1>2. /\ g.quality.rev \in DOMAIN policies /\ g.quality.w \in 0 .. Len(log)
        /\ g.circuit.rev \in DOMAIN policies /\ g.circuit.w \in 0 .. Len(log)
    <2>1. g.quality \in Qualities(Len(gens)) /\ g.circuit \in Circuits
      BY <1>1, ComponentsOnRecord
    <2> QED
      BY <2>1 DEF Qualities, Circuits
  <1>3. ow \in 0 .. Len(log) /\ cw \in 0 .. Len(log)
    BY <1>1, <1>2, LastInLog, MaxOfTwo
  <1>4. next \in 0 .. Len(log)
    <2>1. origin \in 0 .. Len(log)
      BY DEF TInv, LogTyped
    <2> HIDE DEF ow
    <2> QED
      BY <1>1, <1>3, <2>1, MinOfTwo
  <1>5. /\ UNCHANGED <<policies, gens, active, fenced, fenceRev, origin, log, profile, attempts, saving>>
        /\ \/ /\ lane'.pc = "replace"
              /\ lane'.input.base = fenced
              /\ lane'.input.qrev = g.quality.rev /\ lane'.input.crev = g.circuit.rev
              /\ lane'.input.ow = ow /\ lane'.input.cw = cw /\ lane'.input.next = next
           \/ lane'.pc = "activate"
    BY DEF RunnerDrained, registry
  <1> HIDE DEF ow, cw, next, g
  <1>6. LaneTyped'
    BY <1>1, <1>2, <1>3, <1>4, <1>5 DEF LaneTyped, InputTyped
  <1>7. profile' \in Profiles /\ SlotsTyped'
    BY <1>5 DEF TInv, LogTyped, SlotsTyped
  <1> QED
    BY <1>5, <1>6, <1>7, QuietTyped

-----------------------------------------------------------------------------
(* Attempts, evidence, time and restarts. *)

\* Observations and circuit events are appended.
LEMMA LogGrown ==
    ASSUME IInv, TInv, IInv', NEW events \in Seq({"active", "next", "circuit"}),
           log' = log \o events, Len(log) + Len(events) <= MaxLog,
           UNCHANGED <<policies, gens, active, fenced, fenceRev, origin, profile, lane, saving>>,
           SlotsTyped'
    PROVE  TInv'
  <1>1. /\ log' \in Seq({"active", "next", "circuit"}) /\ Len(log') = Len(log) + Len(events)
        /\ Len(log) \in Nat /\ Len(events) \in Nat
    BY DEF TInv, LogTyped
  <1>2. Wider /\ Len(gens) <= Len(gens')
    BY <1>1, Shape DEF Wider
  <1>3. PoliciesTyped' /\ GensTyped' /\ LaneTyped'
    BY <1>2, RowsQuiet, LaneKept
  <1>4. LogTyped'
    <2>1. origin \in 0 .. Len(log) /\ profile \in Profiles
      BY DEF TInv, LogTyped
    <2>2. origin' \in 0 .. Len(log')
      BY <1>1, <2>1
    <2> QED
      BY <1>1, <2>1, <2>2 DEF LogTyped
  <1>5. MarkersTyped' /\ FencedQualified'
    BY DEF TInv, MarkersTyped, FencedQualified
  <1> QED
    BY <1>3, <1>4, <1>5 DEF TInv

LEMMA AttemptTyped ==
    ASSUME IInv, TInv, IInv', NEW a \in Attempts, Plan(a) \/ Admit(a) \/ Deny(a) \/ Finish(a)
    PROVE  TInv'
  <1>1. UNCHANGED <<policies, gens, active, fenced, fenceRev, origin, profile, lane, saving>>
    BY DEF Plan, Admit, Deny, Finish, registry
  <1>2. SlotsTyped'
    <2>0. attempts = [b \in Attempts |-> attempts[b]]
      BY DEF IInv, AttemptsOK
    <2>1. \A b \in Attempts \ {a} : attempts'[b] = attempts[b]
      BY <2>0 DEF Plan, Admit, Deny, Finish
    <2>2. /\ attempts'[a].st \in {"idle", "planned", "pending"}
          /\ attempts'[a].st = "pending" => attempts'[a].kind \in {"active", "next"}
      <3>1. CASE Plan(a)
        BY <2>0, <3>1 DEF Plan
      <3>2. CASE Admit(a)
        <4>1. Eligibility \in {"active", "next"}
          BY DEF Eligibility
        <4> QED
          BY <2>0, <3>2, <4>1 DEF Admit
      <3>3. CASE Deny(a) \/ Finish(a)
        <4>1. attempts'[a] = [st |-> "idle"]
          BY <2>0, <3>3 DEF Deny, Finish
        <4> QED
          BY <4>1
      <3> QED
        BY <3>1, <3>2, <3>3
    <2> QED
      BY <2>1, <2>2 DEF TInv, SlotsTyped
  <1>3. CASE UNCHANGED log
    <2>1. profile' \in Profiles
      BY <1>1 DEF TInv, LogTyped
    <2> QED
      BY <1>1, <1>2, <1>3, <2>1, QuietTyped
  <1>4. CASE Finish(a)
    <2> DEFINE k == attempts[a].kind
    <2>1. PICK events \in {<<>>, <<k>>, <<k, "circuit">>} :
            Len(log) + Len(events) <= MaxLog /\ log' = log \o events
      BY <1>4 DEF Finish
    <2>2. k \in {"active", "next"}
      BY <1>4 DEF TInv, SlotsTyped, Finish
    <2>3. events \in Seq({"active", "next", "circuit"})
      <3> HIDE DEF k
      <3>1. <<>> \in Seq({"active", "next", "circuit"})
        OBVIOUS
      <3>2. <<k>> \in Seq({"active", "next", "circuit"})
        BY <2>2
      <3>3. <<k, "circuit">> \in Seq({"active", "next", "circuit"})
        BY <2>2
      <3> QED
        BY <2>1, <3>1, <3>2, <3>3
    <2> QED
      BY <1>1, <1>2, <2>1, <2>3, LogGrown
  <1> QED
    BY <1>3, <1>4 DEF Plan, Admit, Deny

LEMMA IngestTyped ==
    ASSUME IInv, TInv, IInv', Ingest
    PROVE  TInv'
  <1>1. PICK k \in {"active", "next", "circuit"} : log' = Append(log, k)
    BY DEF Ingest, Eligibility
  <1>2. /\ Len(log) < MaxLog
        /\ UNCHANGED <<policies, gens, active, fenced, fenceRev, origin, profile, lane, saving>>
        /\ UNCHANGED attempts
    BY DEF Ingest, registry
  <1>3. log \in Seq({"active", "next", "circuit"})
    BY DEF TInv, LogTyped
  <1>4. <<k>> \in Seq({"active", "next", "circuit"}) /\ Len(<<k>>) = 1
    OBVIOUS
  <1>5. log' = log \o <<k>>
    BY <1>1, <1>3
  <1>6. Len(log) + Len(<<k>>) <= MaxLog
    BY <1>2, <1>3, <1>4, BoundsAssumption
  <1>7. SlotsTyped'
    BY <1>2 DEF TInv, SlotsTyped
  <1> QED
    BY <1>2, <1>4, <1>5, <1>6, <1>7, LogGrown

\* Steps that only end a tick, a save or a fence's patience, or edit a profile.
LEMMA OtherTyped ==
    ASSUME IInv, TInv, IInv',
           \/ RunnerWaits \/ RunnerTickEnds \/ FastGivesUp
           \/ SaveReturns \/ GateRejects \/ FenceExpires \/ Restart
           \/ \E p \in Profiles : EditProfile(p)
    PROVE  TInv'
  <1>1. CASE GateRejects /\ fenced # None
    BY <1>1, AbortTyped DEF GateRejects
  <1>2. CASE ~(GateRejects /\ fenced # None)
    <2>1. /\ UNCHANGED <<policies, gens, active, fenced, fenceRev, origin, log>>
          /\ lane' = FreeLane \/ UNCHANGED lane
          /\ saving' \in {saving, NotSaving}
      BY <1>2 DEF RunnerWaits, RunnerTickEnds, FastGivesUp, SaveReturns, GateRejects,
                  FenceExpires, Restart, EditProfile, Release, registry
    <2>2. profile' \in Profiles
      <3>1. profile \in Profiles
        BY DEF TInv, LogTyped
      <3> QED
        BY <1>2, <3>1 DEF RunnerWaits, RunnerTickEnds, FastGivesUp, SaveReturns, GateRejects,
                          FenceExpires, Restart, EditProfile
    <2>3. SlotsTyped'
      <3>1. CASE UNCHANGED attempts
        BY <3>1 DEF TInv, SlotsTyped
      <3>2. CASE Restart
        BY <3>2 DEF Restart, SlotsTyped
      <3> QED
        BY <1>2, <3>1, <3>2 DEF RunnerWaits, RunnerTickEnds, FastGivesUp, SaveReturns,
                                GateRejects, FenceExpires, EditProfile
    <2> QED
      BY <2>1, <2>2, <2>3, LaneFreed, QuietTyped
  <1> QED
    BY <1>1, <1>2

LEMMA NextTInv == IInv /\ TInv /\ [Next]_vars => TInv'
  <1> SUFFICES ASSUME IInv, TInv, [Next]_vars PROVE TInv'
    OBVIOUS
  <1>0. IInv'
    BY NextIInv
  <1>1. CASE UNCHANGED vars
    <2>1. profile' \in Profiles /\ SlotsTyped'
      BY <1>1 DEF vars, TInv, LogTyped, SlotsTyped
    <2> QED
      BY <1>0, <1>1, <2>1, QuietTyped DEF vars
  <1>2. CASE Runner
    <2>1. CASE RunnerAborts
      BY <1>0, <2>1, AbortTyped DEF RunnerAborts
    <2> QED
      BY <1>0, <1>2, <2>1, StartTyped, RegisterTyped, QualifyTyped, BeginTyped, RetargetTyped,
         ActivateTyped, DrainedTyped, OtherTyped DEF Runner
  <1>3. CASE Fast
    BY <1>0, <1>3, StartTyped, RegisterTyped, ActivateTyped, OtherTyped DEF Fast
  <1>4. CASE \/ SaveReturns \/ GateRejects \/ FenceExpires \/ Ingest \/ Restart
             \/ \E p \in Profiles : EditProfile(p)
    BY <1>0, <1>4, IngestTyped, OtherTyped
  <1>5. CASE \E e \in DOMAIN policies, p \in Policies : SavePolicy(e, p)
    BY <1>0, <1>5, SaveTyped
  <1>6. CASE \E a \in Attempts : Plan(a) \/ Admit(a) \/ Deny(a) \/ Finish(a)
    BY <1>0, <1>6, AttemptTyped
  <1> QED
    BY <1>1, <1>2, <1>3, <1>4, <1>5, <1>6 DEF Next

\* The registry, its rows and the fence in every reachable state: components
\* name revisions and events that exist, and a fenced generation carries
\* qualification evidence against the generation it is about to replace.
THEOREM TypedInvariance == Spec => [](IInv /\ TInv)
  <1>1. Init => IInv /\ TInv
    BY InitIInv, InitTInv
  <1>2. IInv /\ TInv /\ [Next]_vars => (IInv /\ TInv)'
    BY NextIInv, NextTInv
  <1> QED
    BY <1>1, <1>2, PTL DEF Spec

-----------------------------------------------------------------------------
(* What the invariant gives. *)

\* Every row the registry, the log, the marker and the attempt ledger hold
\* stays within its type and its bound.
THEOREM RegistryIsTyped == Spec => []TypeOK
  <1>1. ASSUME IInv, TInv PROVE TypeOK
    <2>1. /\ Len(policies) \in Nat /\ DOMAIN policies = 1 .. Len(policies) /\ 1 \in DOMAIN policies
          /\ Len(gens) \in Nat /\ DOMAIN gens = 1 .. Len(gens) /\ Len(log) \in Nat
          /\ {active, fenced} \subseteq 0 .. Len(gens)
      BY <1>1, Shape DEF IInv, LiveOK
    <2>2. Len(policies) <= MaxPolicies /\ Len(gens) <= MaxGens /\ Len(log) <= MaxLog
      BY <1>1 DEF TInv, PoliciesTyped, GensTyped, LogTyped
    <2>3. Len(policies) \in 1 .. MaxPolicies /\ Len(gens) \in 0 .. MaxGens
      BY <2>1, <2>2, BoundsAssumption
    <2>4. ASSUME NEW i \in DOMAIN gens
          PROVE  /\ gens[i].rev \in DOMAIN policies
                 /\ gens[i].quality \in QualityComponents
                 /\ gens[i].circuit \in CircuitComponents
                 /\ gens[i].status \in Statuses
                 /\ gens[i].qual \in 0 .. MaxGens + 1
      <3> DEFINE R == 1 .. MaxPolicies
                 W == 0 .. MaxLog
                 M == 1 .. MaxGens
      <3>1. DOMAIN policies \subseteq R /\ 0 .. Len(log) \subseteq W /\ 1 .. i \subseteq M
        BY <2>1, <2>2, <2>4, BoundsAssumption
      <3>2. gens[i].quality \in Qualities(i) /\ gens[i].circuit \in Circuits
        BY <1>1, <2>4 DEF TInv, GensTyped
      <3>3. /\ Qualities(i) \subseteq [rev : R, w : W, next : W, profile : Profiles, stamp : M]
            /\ Circuits \subseteq [rev : R, w : W]
        <4> HIDE DEF R, W, M
        <4> QED
          BY <3>1 DEF Qualities, Circuits
      <3>4. gens[i].quality \in QualityComponents /\ gens[i].circuit \in CircuitComponents
        BY <3>2, <3>3 DEF QualityComponents, CircuitComponents
      <3>5. gens[i].qual \in 0 .. MaxGens + 1
        <4>1. gens[i].qual \in 0 .. Len(gens) \cup {MaxGens + 1}
          BY <1>1, <2>4 DEF TInv, GensTyped, Qualifications, NotQualified
        <4> QED
          BY <2>1, <2>2, <4>1, BoundsAssumption
      <3> QED
        BY <1>1, <2>4, <3>4, <3>5 DEF TInv, GensTyped, IInv, RowsOK
    <2>5. origin \in 0 .. MaxLog
      BY <1>1, <2>1, <2>2, BoundsAssumption DEF TInv, LogTyped
    <2> QED
      BY <1>1, <2>1, <2>2, <2>3, <2>4, <2>5
         DEF TypeOK, TInv, PoliciesTyped, LogTyped, MarkersTyped, SlotsTyped
  <1> QED
    BY <1>1, TypedInvariance, PTL

\* What validate_no_tail_events establishes for the row a swap makes active.
LEMMA TailIsBehind ==
    ASSUME IInv, TInv, NEW t \in DOMAIN gens, NoTail(gens[t]),
           gens' = Activated(t), active' = t, UNCHANGED log
    PROVE  ActiveBehind'
  <1>1. gens'[t].quality = gens[t].quality /\ gens'[t].circuit = gens[t].circuit
    <2>1. gens'[t] = [gens[t] EXCEPT !.status = "active"] /\ Row(gens[t])
      BY DEF Activated, IInv, RowsOK
    <2> QED
      BY <2>1 DEF Row
  <1>2. gens[t].quality.w \in 0 .. Len(log) /\ gens[t].circuit.w \in 0 .. Len(log)
    <2>1. gens[t].quality \in Qualities(t) /\ gens[t].circuit \in Circuits
      BY DEF TInv, GensTyped
    <2> QED
      BY <2>1 DEF Qualities, Circuits
  <1>3. Len(log) \in Nat /\ DOMAIN log = 1 .. Len(log)
    BY Shape
  <1>4. ASSUME NEW i \in DOMAIN log
        PROVE  /\ log[i] = "active" => i <= gens[t].quality.w
               /\ log[i] = "circuit" => i <= gens[t].circuit.w
    BY <1>2, <1>3, <1>4 DEF NoTail, Logged
  <1> QED
    BY <1>1, <1>4 DEF ActiveBehind

LEMMA SwapsAreComplete ==
    ASSUME IInv, TInv, [Next]_vars, active' # active
    PROVE  gens[active'].qual = active /\ ActiveBehind'
  <1>1. FastActivate \/ RunnerActivate
    BY DEF Next, vars, Runner, Fast, RunnerStart, RunnerRegister, RunnerQualify, RunnerBegin,
           RunnerAborts, RunnerWaits, RunnerDrained, RunnerReplace, RunnerRetarget,
           RunnerTickEnds, FastStart, FastRegister, FastGivesUp, SaveReturns, GateRejects,
           FenceExpires, Ingest, Restart, SavePolicy, EditProfile, Plan, Admit, Deny, Finish,
           Abort, registry
  <1>2. CASE FastActivate
    <2> DEFINE t == lane.target
    <2>1. t \in DOMAIN gens
      BY <1>2 DEF IInv, LaneOK, FastActivate
    <2>2. /\ gens' = Activated(t) /\ active' = t /\ UNCHANGED log
          /\ NoTail(gens[t]) /\ gens[t].qual = active
      BY <1>2 DEF FastActivate, FastActivatable
    <2> HIDE DEF t
    <2> QED
      BY <2>1, <2>2, TailIsBehind
  <1>3. CASE RunnerActivate
    <2>1. fenced # None /\ fenced \in DOMAIN gens
      BY <1>3, Shape DEF IInv, LaneOK, RunnerActivate
    <2>2. /\ gens' = Activated(fenced) /\ active' = fenced /\ UNCHANGED log
          /\ NoTail(gens[fenced])
      BY <1>3 DEF RunnerActivate, Activatable
    <2>3. gens[fenced].qual = active
      BY <2>1 DEF TInv, FencedQualified
    <2> QED
      BY <2>1, <2>2, <2>3, TailIsBehind
  <1> QED
    BY <1>1, <1>2, <1>3

\* Whichever lane activates, the new generation was qualified against the one
\* it replaces and every active observation and circuit event recorded before
\* the swap lies behind its watermarks, whatever was ingested under the fence.
THEOREM ActivationLosesNothing == Spec => ActivationComplete
  <1>1. IInv /\ TInv /\ [Next]_vars
          => [active' # active => gens[active'].qual = active /\ ActiveBehind']_vars
    BY SwapsAreComplete
  <1> QED
    BY <1>1, TypedInvariance, PTL DEF Spec, ActivationComplete

=============================================================================
