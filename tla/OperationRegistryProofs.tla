---------------------- MODULE OperationRegistryProofs ----------------------
(***************************************************************************)
(* Proofs about the operation registry and its drain, for any operations,  *)
(* concurrency keys, callers and limits.                                   *)
(***************************************************************************)
EXTENDS OperationRegistry, FiniteSetTheorems, TLAPS

SlotType == [state : Alive \cup Terminals \cup {"absent"},
             asked : BOOLEAN, barrier : BOOLEAN]
DrainType == [at : {"none", "closed", "cancelling", "waiting", "done"},
              todo : SUBSET Operations, op : Operations \cup {NoOperation},
              excluded : Operations \cup {NoOperation},
              failed : SUBSET Operations]
BodyResults == {"completed", "failed", "cancelled", "timed_out"}

\* The live slots of the registry are finitely many.
LEMMA LiveFinite ==
    /\ IsFiniteSet(Live)
    /\ \A k \in Keys : IsFiniteSet(LiveWith(k))
    /\ \A k \in Keys : LiveWith(k) \subseteq Live
  <1>1. Live \subseteq Operations
    BY DEF Live
  <1>2. \A k \in Keys : LiveWith(k) \subseteq Operations /\ LiveWith(k) \subseteq Live
    BY <1>1 DEF LiveWith
  <1> QED
    BY <1>1, <1>2, OperationsAssumption, FS_Subset

\* One live slot more, or one less, in both counters.
LEMMA CountOneMore ==
    ASSUME TypeOK, CountersExact, NEW o \in Operations, o \notin Live,
           Live' = Live \cup {o},
           running' = running + 1,
           perKey' = [k \in Keys |-> IF k = KeyOf[o] THEN perKey[k] + 1 ELSE perKey[k]]
    PROVE  CountersExact'
  <1>1. Cardinality(Live') = Cardinality(Live) + 1
    BY LiveFinite, FS_AddElement
  <1>2. ASSUME NEW k \in Keys PROVE perKey'[k] = Cardinality(LiveWith(k)')
    <2>1. CASE k = KeyOf[o]
      <3>1. LiveWith(k)' = LiveWith(k) \cup {o} /\ o \notin LiveWith(k)
        BY <2>1 DEF LiveWith
      <3>2. Cardinality(LiveWith(k)') = Cardinality(LiveWith(k)) + 1
        BY <3>1, LiveFinite, FS_AddElement
      <3> QED
        BY <3>2, <2>1 DEF CountersExact, TypeOK
    <2>2. CASE k # KeyOf[o]
      <3>1. LiveWith(k)' = LiveWith(k)
        BY <2>2 DEF LiveWith
      <3> QED
        BY <3>1, <2>2 DEF CountersExact, TypeOK
    <2> QED
      BY <2>1, <2>2
  <1> QED
    BY <1>1, <1>2 DEF CountersExact

LEMMA CountOneLess ==
    ASSUME TypeOK, CountersExact, NEW o \in Live,
           Live' = Live \ {o},
           running' = running - 1,
           perKey' = [k \in Keys |-> IF k = KeyOf[o] THEN perKey[k] - 1 ELSE perKey[k]]
    PROVE  /\ CountersExact'
           /\ running' \in Nat
           /\ perKey' \in [Keys -> Nat]
  <1>0. Cardinality(Live) \in Nat /\ \A k \in Keys : Cardinality(LiveWith(k)) \in Nat
    BY LiveFinite, FS_CardinalityType
  <1>1. Cardinality(Live') = Cardinality(Live) - 1 /\ Cardinality(Live') \in Nat
    <2>1. IsFiniteSet(Live')
      BY LiveFinite, FS_RemoveElement
    <2> QED
      BY <2>1, LiveFinite, FS_RemoveElement, FS_CardinalityType
  <1>2. ASSUME NEW k \in Keys
        PROVE  perKey'[k] = Cardinality(LiveWith(k)') /\ perKey'[k] \in Nat
    <2>1. CASE k = KeyOf[o]
      <3>1. LiveWith(k)' = LiveWith(k) \ {o} /\ o \in LiveWith(k)
        BY <2>1 DEF LiveWith
      <3>2. IsFiniteSet(LiveWith(k)')
        BY <3>1, LiveFinite, FS_RemoveElement
      <3>3. /\ Cardinality(LiveWith(k)') = Cardinality(LiveWith(k)) - 1
            /\ Cardinality(LiveWith(k)') \in Nat
        BY <3>1, <3>2, LiveFinite, FS_RemoveElement, FS_CardinalityType
      <3> QED
        BY <3>3, <2>1 DEF CountersExact, TypeOK
    <2>2. CASE k # KeyOf[o]
      <3>1. LiveWith(k)' = LiveWith(k)
        BY <2>2 DEF LiveWith
      <3> QED
        BY <3>1, <2>2 DEF CountersExact, TypeOK
    <2> QED
      BY <2>1, <2>2
  <1>3. perKey' \in [Keys -> Nat]
    BY <1>2
  <1> QED
    BY <1>1, <1>2, <1>3 DEF CountersExact

\* Terminals and live states are different.
LEMMA StatesApart ==
    /\ Alive \cap Terminals = {}
    /\ "absent" \notin Alive /\ "absent" \notin Terminals
    /\ \A t \in BodyResults : t \in Terminals
  BY DEF Alive, Terminals, BodyResults

\* finish on a live slot: it becomes terminal, the slot that leaves was
\* terminal, and no other slot changes.
LEMMA FinishEffect ==
    ASSUME TypeOK, OrderTerminal, NEW o \in Operations, NEW t \in BodyResults,
           slot[o].state \in Alive, Finish(o, t)
    PROVE  /\ slot' \in [Operations -> SlotType]
           /\ slot'[o] = [slot[o] EXCEPT !.state = Recorded(o, t)]
           /\ slot'[o].state \in Terminals
           /\ \A p \in Operations \ {o} :
                slot'[p] = slot[p] \/ (slot[p].state \in Terminals /\ slot'[p] = Absent)
           /\ Live' = Live \ {o}
           /\ order' \in Seq(Operations)
           /\ OrderTerminal'
           /\ running' = running - 1
           /\ perKey' = [k \in Keys |->
                           IF k = KeyOf[o] THEN perKey[k] - 1 ELSE perKey[k]]
  <1>0. /\ order \in Seq(Operations) /\ Len(order) \in Nat
        /\ slot \in [Operations -> SlotType]
        /\ TerminalMax \in Nat \ {0}
    BY LimitsAssumption DEF TypeOK, SlotType
  <1>1. /\ slot' = FinishedSlot(o, t)
        /\ running' = running - 1
        /\ perKey' = [k \in Keys |->
                         IF k = KeyOf[o] THEN perKey[k] - 1 ELSE perKey[k]]
        /\ order' = IF Evicted(o) = {} THEN Append(order, o)
                                       ELSE Tail(Append(order, o))
    BY DEF Finish
  <1>2. Recorded(o, t) \in Terminals
    BY StatesApart DEF Recorded, Terminals
  <1>3. \A i \in DOMAIN order : order[i] # o
    BY StatesApart DEF OrderTerminal
  <1>4. CASE Len(order) < TerminalMax
    <2>1. Evicted(o) = {} /\ order' = Append(order, o)
      BY <1>4, <1>1 DEF Evicted
    <2>2. slot' = [p \in Operations |-> IF p = o THEN [slot[o] EXCEPT !.state = Recorded(o, t)]
                                                  ELSE slot[p]]
      BY <2>1, <1>1 DEF FinishedSlot
    <2>3. slot'[o].state = Recorded(o, t) /\ [slot[o] EXCEPT !.state = Recorded(o, t)] \in SlotType
      BY <2>2, <1>0, <1>2 DEF SlotType
    <2>4. slot' \in [Operations -> SlotType]
      BY <2>2, <2>3, <1>0
    <2>5. Live' = Live \ {o}
      BY <2>2, <2>3, <1>2, StatesApart DEF Live
    <2>6. /\ order' \in Seq(Operations) /\ Len(order') = Len(order) + 1
          /\ \A i \in 1 .. Len(order) : order'[i] = order[i]
          /\ order'[Len(order) + 1] = o
      BY <2>1, <1>0
    <2>7. OrderTerminal'
      <3>1. Len(order') <= TerminalMax
        BY <2>6, <1>4, <1>0
      <3>2. DOMAIN order' = 1 .. (Len(order) + 1) /\ DOMAIN order = 1 .. Len(order)
        BY <2>6, <1>0
      <3>3. \A i \in DOMAIN order : order[i] \in Operations
        BY <1>0
      <3>4. \A i \in DOMAIN order' : slot'[order'[i]].state \in Terminals
        <4>1. SUFFICES ASSUME NEW i \in DOMAIN order'
                       PROVE  slot'[order'[i]].state \in Terminals
          OBVIOUS
        <4>2. CASE i = Len(order) + 1
          BY <4>2, <2>6, <2>3, <1>2
        <4>3. CASE i \in DOMAIN order
          BY <4>3, <2>6, <2>2, <1>3, <3>2, <3>3 DEF OrderTerminal
        <4> QED
          BY <4>2, <4>3, <3>2, <1>0
      <3>5. \A i, j \in DOMAIN order' : order'[i] = order'[j] => i = j
        BY <3>2, <2>6, <1>3, <1>0 DEF OrderTerminal
      <3> QED
        BY <3>1, <3>4, <3>5 DEF OrderTerminal
    <2> QED
      BY <1>1, <2>2, <2>3, <2>4, <2>5, <2>6, <2>7, <1>2
  <1>5. CASE ~(Len(order) < TerminalMax)
    <2>0. Len(order) = TerminalMax /\ Len(order) >= 1
      BY <1>5, <1>0 DEF OrderTerminal
    <2>1. /\ Len(Append(order, o)) = Len(order) + 1
          /\ \A i \in 1 .. Len(order) : Append(order, o)[i] = order[i]
          /\ Append(order, o)[Len(order) + 1] = o
          /\ Append(order, o) \in Seq(Operations)
          /\ DOMAIN order = 1 .. Len(order)
      BY <1>0
    <2> DEFINE h == order[1]
    <2>2. 1 \in DOMAIN order /\ h \in Operations /\ h # o /\ slot[h].state \in Terminals
      BY <2>0, <2>1, <1>0, <1>3 DEF OrderTerminal
    <2>3. Evicted(o) = {h}
      BY <1>5, <2>0, <2>1 DEF Evicted
    <2>4. order' = Tail(Append(order, o))
      BY <1>1, <2>3
    <2>5. /\ order' \in Seq(Operations) /\ Len(order') = Len(order)
          /\ \A i \in 1 .. Len(order) : order'[i] = Append(order, o)[i + 1]
      BY <2>4, <2>1, <2>0, <1>0
    <2>6. slot' = [p \in Operations |-> IF p = h THEN Absent
                     ELSE IF p = o THEN [slot[o] EXCEPT !.state = Recorded(o, t)] ELSE slot[p]]
      BY <2>3, <1>1 DEF FinishedSlot
    <2>7. slot'[o].state = Recorded(o, t) /\ [slot[o] EXCEPT !.state = Recorded(o, t)] \in SlotType
      BY <2>6, <2>2, <1>0, <1>2 DEF SlotType
    <2>8. Absent \in SlotType /\ Absent.state = "absent"
      BY DEF Absent, SlotType
    <2>9. slot' \in [Operations -> SlotType]
      BY <2>6, <2>7, <2>8, <1>0
    <2>10. Live' = Live \ {o}
      BY <2>6, <2>7, <2>8, <2>2, <1>2, StatesApart DEF Live
    <2>11. OrderTerminal'
      <3>1. Len(order') <= TerminalMax
        BY <2>5, <2>0, <1>0
      <3>2. DOMAIN order' = 1 .. Len(order)
        BY <2>5, <1>0
      <3>3. \A i \in 1 .. Len(order) :
              order'[i] = IF i = Len(order) THEN o ELSE order[i + 1]
        BY <2>5, <2>1, <1>0
      <3>33. \A i \in DOMAIN order' : i # Len(order) =>
               /\ i \in Nat /\ i + 1 \in DOMAIN order /\ i + 1 # 1
               /\ order'[i] = order[i + 1]
        <4> SUFFICES ASSUME NEW i \in 1 .. Len(order), i # Len(order)
                     PROVE  /\ i \in Nat /\ i + 1 \in 1 .. Len(order) /\ i + 1 # 1
                            /\ order'[i] = order[i + 1]
          BY <3>2, <2>1
        <4>1. i \in Nat /\ i + 1 \in 1 .. Len(order) /\ i + 1 # 1
          BY <1>0
        <4> QED
          BY <4>1, <3>3
      <3>34. Len(order) \in DOMAIN order' /\ order'[Len(order)] = o
        BY <3>2, <3>3, <2>0, <1>0
      <3>4. \A i \in DOMAIN order' : slot'[order'[i]].state \in Terminals
        <4>1. SUFFICES ASSUME NEW i \in DOMAIN order'
                       PROVE  slot'[order'[i]].state \in Terminals
          OBVIOUS
        <4>2. CASE i = Len(order)
          BY <4>2, <3>2, <3>3, <2>7, <1>2
        <4>3. CASE i # Len(order)
          <5>1. i + 1 \in DOMAIN order /\ order'[i] = order[i + 1] /\ i + 1 # 1
            BY <4>3, <3>33
          <5>2. order[i + 1] # h /\ order[i + 1] # o /\ order[i + 1] \in Operations
            BY <5>1, <2>2, <1>3, <1>0 DEF OrderTerminal
          <5> QED
            BY <5>1, <5>2, <2>6 DEF OrderTerminal
        <4> QED
          BY <4>2, <4>3
      <3>5. ASSUME NEW i \in DOMAIN order', NEW j \in DOMAIN order', order'[i] = order'[j]
            PROVE  i = j
        <4>1. CASE i = Len(order) \/ j = Len(order)
          BY <4>1, <3>5, <3>33, <3>34, <1>3
        <4>2. CASE i # Len(order) /\ j # Len(order)
          <5>1. i + 1 \in DOMAIN order /\ j + 1 \in DOMAIN order
                  /\ order[i + 1] = order[j + 1]
            BY <4>2, <3>5, <3>33
          <5>2. i + 1 = j + 1
            BY <5>1 DEF OrderTerminal
          <5> QED
            BY <5>2, <3>2, <1>0
        <4> QED
          BY <4>1, <4>2
      <3> QED
        BY <3>1, <3>4, <3>5 DEF OrderTerminal
    <2> QED
      BY <1>1, <2>2, <2>5, <2>6, <2>7, <2>9, <2>10, <2>11, <1>2
  <1> QED
    BY <1>4, <1>5

-----------------------------------------------------------------------------
(* The inductive invariant: the registry, what the drain still has to cover, *)
(* and the commit barrier.                                                    *)

DrainCovers ==
    /\ drain.at # "none" => closed
    /\ drain.at = "waiting" => drain.op \in Operations
    /\ drain.at = "done" => drain.todo = {}
    /\ drain.at \in {"cancelling", "waiting", "done"} =>
         \A o \in Operations \ {drain.excluded} :
           slot[o].state \in Alive =>
             o \in drain.todo \cup drain.failed \/ (drain.at = "waiting" /\ o = drain.op)

IInv == RegistryInv /\ DrainCovers /\ CommitNeverDenied

\* The initial state satisfies the invariant.
LEMMA InitIInv == Init => IInv
  <1> SUFFICES ASSUME Init PROVE IInv
    OBVIOUS
  <1>1. Absent \in SlotType /\ IdleDrain \in DrainType
    BY DEF Absent, SlotType, IdleDrain, DrainType
  <1>2. TypeOK
    <2>1. order \in Seq(Operations) /\ slot \in [Operations -> SlotType] /\ drain \in DrainType
      BY <1>1 DEF Init
    <2>2. /\ closed \in BOOLEAN /\ running \in Nat /\ perKey \in [Keys -> Nat]
          /\ call \in [Callers -> Operations \cup {NoOperation}]
      BY DEF Init
    <2>3. /\ task \in [Operations ->
               {"new", "starting", "refused", "running", "ended", "panicked"}]
          /\ handle \in [Operations -> {"none", "starter", "slot", "waiter", "dropped"}]
      BY DEF Init
    <2> QED
      BY <2>1, <2>2, <2>3 DEF TypeOK, SlotType, DrainType
  <1>3. \A o \in Operations : slot[o].state = "absent"
    BY DEF Init, Absent
  <1>4. Live = {} /\ \A k \in Keys : LiveWith(k) = {}
    BY <1>3, StatesApart DEF Live, LiveWith
  <1>5. CountersExact /\ WithinLimits
    <2>1. Cardinality({}) = 0
      BY FS_EmptySet
    <2>2. running = 0 /\ \A k \in Keys : perKey[k] = 0
      BY DEF Init
    <2>3. MaxRunning \in Nat /\ MaxPerKey \in Nat
      BY LimitsAssumption
    <2> QED
      BY <2>1, <2>2, <2>3, <1>4 DEF CountersExact, WithinLimits
  <1>6. OrderTerminal
    BY LimitsAssumption DEF Init, OrderTerminal
  <1>7. SlotsMatchTasks
    BY <1>3, StatesApart DEF Init, SlotsMatchTasks
  <1>8. DrainCovers /\ CommitNeverDenied
    BY <1>3 DEF Init, IdleDrain, DrainCovers, CommitNeverDenied
  <1> QED
    BY <1>2, <1>5, <1>6, <1>7, <1>8 DEF IInv, RegistryInv

\* Steps that leave every slot as live or as terminal as it was.
LEMMA RegistryKept ==
    ASSUME RegistryInv, TypeOK', UNCHANGED <<running, perKey, order>>,
           \A p \in Operations :
             \/ slot'[p].state = slot[p].state
             \/ slot[p].state \in Alive /\ slot'[p].state \in Alive,
           SlotsMatchTasks'
    PROVE  RegistryInv'
  <1>1. Live' = Live /\ \A k \in Keys : LiveWith(k)' = LiveWith(k)
    BY DEF Live, LiveWith
  <1>2. CountersExact' /\ WithinLimits'
    BY <1>1 DEF RegistryInv, CountersExact, WithinLimits
  <1>3. \A i \in DOMAIN order : order[i] \in Operations
    BY DEF RegistryInv, TypeOK
  <1>4. OrderTerminal'
    BY <1>3, StatesApart DEF RegistryInv, OrderTerminal
  <1> QED
    BY <1>2, <1>4 DEF RegistryInv

\* Ask leaves a typed slot table in which only the asked slot changed, and it
\* stays live.
LEMMA AskEffect ==
    ASSUME TypeOK, NEW o \in Operations, slot[o].state \in Alive, Ask(o)
    PROVE  /\ slot' \in [Operations -> SlotType]
           /\ handle' \in [Operations -> {"none", "starter", "slot", "waiter", "dropped"}]
           /\ slot'[o].state \in Alive
           /\ \A p \in Operations \ {o} : slot'[p] = slot[p]
  BY DEF Ask, TypeOK, SlotType, Alive

\* Admission.
LEMMA AdmitStep ==
    ASSUME IInv, NEW o \in Operations, Admit(o)
    PROVE  IInv'
  <1>0. TypeOK /\ SlotsMatchTasks /\ CountersExact /\ WithinLimits /\ OrderTerminal
    BY DEF IInv, RegistryInv
  <1>1. slot[o].state = "absent" /\ o \notin Live
    BY <1>0, StatesApart DEF Admit, SlotsMatchTasks, Live
  <1>2. [Absent EXCEPT !.state = "running"] \in SlotType
    BY DEF Absent, SlotType, Alive
  <1>3. /\ slot' \in [Operations -> SlotType]
        /\ slot'[o] = [Absent EXCEPT !.state = "running"]
        /\ slot'[o].state = "running"
        /\ \A p \in Operations \ {o} : slot'[p] = slot[p]
    BY <1>0, <1>2 DEF Admit, TypeOK, SlotType, Absent
  <1>4. TypeOK'
    BY <1>0, <1>3 DEF Admit, TypeOK, SlotType
  <1>5. Live' = Live \cup {o}
    BY <1>3 DEF Live, Alive
  <1>6. CountersExact'
    BY <1>0, <1>1, <1>5, CountOneMore DEF Admit
  <1>7. WithinLimits'
    BY <1>0, LimitsAssumption DEF Admit, Admissible, KeyFree, WithinLimits, TypeOK
  <1>8. OrderTerminal'
    <2>1. \A i \in DOMAIN order : order[i] \in Operations /\ order[i] # o
      BY <1>0, <1>1, StatesApart DEF TypeOK, OrderTerminal
    <2> QED
      BY <2>1, <1>0, <1>3 DEF Admit, OrderTerminal
  <1>9. SlotsMatchTasks'
    BY <1>0, <1>3, StatesApart DEF Admit, SlotsMatchTasks, TypeOK, Alive
  <1>10. DrainCovers'
    BY DEF IInv, DrainCovers, Admit, Admissible
  <1>11. CommitNeverDenied'
    BY <1>3 DEF IInv, CommitNeverDenied
  <1> QED
    BY <1>4, <1>6, <1>7, <1>8, <1>9, <1>10, <1>11 DEF IInv, RegistryInv

\* A finish of a live slot, by the body or by whoever joined a panic.
LEMMA FinishStep ==
    ASSUME IInv, NEW o \in Operations, NEW t \in BodyResults,
           slot[o].state \in Alive, Finish(o, t),
           t = "cancelled" => slot[o].asked,
           task'[o] \in {"ended", "panicked"},
           \A p \in Operations \ {o} : task'[p] = task[p],
           task' \in [Operations ->
             {"new", "starting", "refused", "running", "ended", "panicked"}],
           handle' \in [Operations -> {"none", "starter", "slot", "waiter", "dropped"}],
           call' \in [Callers -> Operations \cup {NoOperation}],
           drain' \in DrainType, UNCHANGED closed
    PROVE  RegistryInv' /\ CommitNeverDenied'
  <1>0. TypeOK /\ SlotsMatchTasks /\ CountersExact /\ WithinLimits /\ OrderTerminal
    BY DEF IInv, RegistryInv
  <1>1. /\ slot' \in [Operations -> SlotType]
        /\ slot'[o] = [slot[o] EXCEPT !.state = Recorded(o, t)]
        /\ slot'[o].state \in Terminals
        /\ \A p \in Operations \ {o} :
             slot'[p] = slot[p] \/ (slot[p].state \in Terminals /\ slot'[p] = Absent)
        /\ Live' = Live \ {o}
        /\ order' \in Seq(Operations)
        /\ OrderTerminal'
        /\ running' = running - 1
        /\ perKey' = [k \in Keys |->
                        IF k = KeyOf[o] THEN perKey[k] - 1 ELSE perKey[k]]
    BY <1>0, FinishEffect
  <1>2. o \in Live
    BY DEF Live
  <1>3. CountersExact' /\ running' \in Nat /\ perKey' \in [Keys -> Nat]
    BY <1>0, <1>1, <1>2, CountOneLess
  <1>4. TypeOK'
    BY <1>0, <1>1, <1>3 DEF TypeOK, SlotType, DrainType
  <1>5. WithinLimits'
    BY <1>0, <1>1, LimitsAssumption DEF WithinLimits, TypeOK
  <1>6. Absent.state = "absent" /\ Absent.barrier = FALSE
    BY DEF Absent
  <1>7. SlotsMatchTasks'
    <2> SUFFICES ASSUME NEW p \in Operations
                 PROVE  /\ task'[p] \in {"new", "starting", "refused"} =>
                             slot'[p].state = "absent"
                        /\ task'[p] = "running" => slot'[p].state \in Alive
                        /\ slot'[p].state \in Alive => task'[p] \in {"running", "panicked"}
      BY DEF SlotsMatchTasks
    <2>1. CASE p = o
      BY <2>1, <1>1, StatesApart
    <2>2. CASE p # o
      <3>1. task'[p] = task[p]
        BY <2>2
      <3>2. CASE slot'[p] = slot[p]
        BY <3>1, <3>2, <1>0 DEF SlotsMatchTasks
      <3>3. CASE slot[p].state \in Terminals /\ slot'[p] = Absent
        BY <3>1, <3>3, <1>0, <1>6, StatesApart DEF SlotsMatchTasks
      <3> QED
        BY <3>2, <3>3, <2>2, <1>1
    <2> QED
      BY <2>1, <2>2
  <1>8. CommitNeverDenied'
    <2>1. slot[o] \in SlotType
      BY <1>0 DEF TypeOK, SlotType
    <2>2. slot'[o].state = Recorded(o, t) /\ slot'[o].barrier = slot[o].barrier
      BY <1>1, <2>1 DEF SlotType
    <2>3. slot'[o].state = "cancelled" => ~slot'[o].barrier
      BY <2>1, <2>2 DEF Recorded, SlotType
    <2> QED
      BY <2>3, <1>1, <1>6 DEF IInv, CommitNeverDenied
  <1> QED
    BY <1>1, <1>3, <1>4, <1>5, <1>7, <1>8 DEF RegistryInv

\* A finish takes nothing from what the drain has to cover.
LEMMA FinishCovered ==
    ASSUME TypeOK, OrderTerminal, DrainCovers, NEW o \in Operations, NEW t \in BodyResults,
           slot[o].state \in Alive, Finish(o, t)
    PROVE  \A p \in Operations : slot'[p].state \in Alive => slot[p].state \in Alive /\ p # o
  <1>1. /\ slot'[o].state \in Terminals
        /\ \A p \in Operations \ {o} :
             slot'[p] = slot[p] \/ (slot[p].state \in Terminals /\ slot'[p] = Absent)
    BY FinishEffect
  <1>2. Absent.state = "absent"
    BY DEF Absent
  <1> QED
    BY <1>1, <1>2, StatesApart

LEMMA BodyEndsStep ==
    ASSUME IInv, NEW o \in Operations, NEW t \in BodyResults, BodyEnds(o, t)
    PROVE  IInv'
  <1>0. TypeOK /\ SlotsMatchTasks /\ OrderTerminal /\ DrainCovers
    BY DEF IInv, RegistryInv
  <1>1. slot[o].state \in Alive
    BY <1>0 DEF BodyEnds, SlotsMatchTasks
  <1>2. Finish(o, t) /\ (t = "cancelled" => slot[o].asked)
    BY DEF BodyEnds
  <1>3. RegistryInv' /\ CommitNeverDenied'
    <2>1. /\ task'[o] = "ended" /\ \A p \in Operations \ {o} : task'[p] = task[p]
          /\ task' \in [Operations ->
               {"new", "starting", "refused", "running", "ended", "panicked"}]
      BY <1>0 DEF BodyEnds, TypeOK
    <2>2. /\ handle' \in [Operations -> {"none", "starter", "slot", "waiter", "dropped"}]
          /\ call' \in [Callers -> Operations \cup {NoOperation}]
          /\ drain' \in DrainType
          /\ UNCHANGED closed
      BY <1>0 DEF BodyEnds, TypeOK, DrainType
    <2> QED
      BY <2>1, <2>2, <1>1, <1>2, FinishStep
  <1>4. \A p \in Operations : slot'[p].state \in Alive => slot[p].state \in Alive /\ p # o
    BY <1>0, <1>1, <1>2, FinishCovered
  <1>5. DrainCovers'
    BY <1>0, <1>4 DEF BodyEnds, DrainCovers
  <1> QED
    BY <1>3, <1>5 DEF IInv

\* Joining a task that ended changes only the handle; joining one that
\* panicked finishes its slot, if nobody did.
LEMMA JoinedStep ==
    ASSUME IInv, NEW o \in Operations, Joined(o),
           call' \in [Callers -> Operations \cup {NoOperation}],
           drain' \in DrainType, UNCHANGED <<closed, task>>
    PROVE  /\ RegistryInv' /\ CommitNeverDenied'
           /\ \A p \in Operations : slot'[p].state \in Alive => slot[p].state \in Alive /\ p # o
  <1>0. TypeOK /\ SlotsMatchTasks /\ OrderTerminal /\ DrainCovers /\ RegistryInv
    BY DEF IInv, RegistryInv
  <1>1. handle' \in [Operations -> {"none", "starter", "slot", "waiter", "dropped"}]
    BY <1>0 DEF Joined, TypeOK
  <1>2. CASE slot[o].state \in Alive
    <2>1. task[o] = "panicked" /\ Finish(o, "failed")
      BY <1>0, <1>2 DEF SlotsMatchTasks, Joined
    <2>2. RegistryInv' /\ CommitNeverDenied'
      <3>1. "failed" \in BodyResults
        BY DEF BodyResults
      <3>2. task'[o] = "panicked" /\ \A p \in Operations \ {o} : task'[p] = task[p]
        BY <2>1
      <3>3. task' \in [Operations ->
               {"new", "starting", "refused", "running", "ended", "panicked"}]
        BY <1>0 DEF TypeOK
      <3> QED
        BY <2>1, <1>1, <1>2, <3>1, <3>2, <3>3, FinishStep
    <2>3. "failed" \in BodyResults
      BY DEF BodyResults
    <2> QED
      BY <2>1, <2>2, <2>3, <1>0, <1>2, FinishCovered
  <1>3. CASE slot[o].state \notin Alive
    <2>1. UNCHANGED <<slot, running, perKey, order>>
      BY <1>3 DEF Joined, Finish
    <2>2. TypeOK'
      BY <1>0, <1>1, <2>1 DEF TypeOK, DrainType
    <2>3. SlotsMatchTasks' /\ CommitNeverDenied'
      BY <1>0, <2>1 DEF SlotsMatchTasks, IInv, CommitNeverDenied
    <2>4. RegistryInv'
      BY <1>0, <2>1, <2>2, <2>3, RegistryKept
    <2> QED
      BY <2>1, <2>3, <2>4, <1>3
  <1> QED
    BY <1>2, <1>3

\* Steps that touch neither slots nor counters, only tasks that have no live
\* slot, handles, calls or the drain.
LEMMA QuietStep ==
    ASSUME IInv, TypeOK', UNCHANGED <<slot, running, perKey, order>>, SlotsMatchTasks'
    PROVE  RegistryInv' /\ CommitNeverDenied'
  <1>1. RegistryInv'
    BY RegistryKept DEF IInv
  <1> QED
    BY <1>1 DEF IInv, CommitNeverDenied

LEMMA StartSteps ==
    ASSUME IInv, NEW o \in Operations,
           StartBegins(o) \/ Refuse(o) \/ StoreJoin(o) \/ BodyPanics(o)
    PROVE  IInv'
  <1>0. TypeOK /\ SlotsMatchTasks /\ DrainCovers
    BY DEF IInv, RegistryInv
  <1>1. TypeOK'
    BY <1>0 DEF TypeOK, StartBegins, Refuse, StoreJoin, BodyPanics
  <1>2. UNCHANGED <<slot, running, perKey, order, closed, drain>>
    BY DEF StartBegins, Refuse, StoreJoin, BodyPanics
  <1>3. SlotsMatchTasks'
    BY <1>0, <1>2, StatesApart
       DEF SlotsMatchTasks, TypeOK, StartBegins, Refuse, StoreJoin, BodyPanics
  <1>4. RegistryInv' /\ CommitNeverDenied'
    BY <1>1, <1>2, <1>3, QuietStep
  <1>5. DrainCovers'
    BY <1>0, <1>2 DEF DrainCovers
  <1> QED
    BY <1>4, <1>5 DEF IInv

LEMMA BarrierStep ==
    ASSUME IInv, NEW o \in Operations, EnterCommitBarrier(o)
    PROVE  IInv'
  <1>0. TypeOK /\ SlotsMatchTasks /\ DrainCovers /\ RegistryInv
    BY DEF IInv, RegistryInv
  <1>1. slot[o].state \in Alive
    BY <1>0 DEF EnterCommitBarrier, SlotsMatchTasks
  <1>2. /\ slot' \in [Operations -> SlotType]
        /\ slot'[o].state = slot[o].state
        /\ \A p \in Operations \ {o} : slot'[p] = slot[p]
    BY <1>0 DEF EnterCommitBarrier, TypeOK, SlotType
  <1>3. TypeOK'
    BY <1>0, <1>2 DEF TypeOK, SlotType, EnterCommitBarrier
  <1>4. \A p \in Operations : slot'[p].state = slot[p].state
    BY <1>2
  <1>5. SlotsMatchTasks'
    BY <1>0, <1>4 DEF SlotsMatchTasks, EnterCommitBarrier
  <1>6. RegistryInv'
    BY <1>0, <1>3, <1>4, <1>5, RegistryKept DEF EnterCommitBarrier
  <1>7. CommitNeverDenied'
    BY <1>1, <1>2, StatesApart DEF IInv, CommitNeverDenied, Alive
  <1>8. DrainCovers'
    BY <1>0, <1>4 DEF DrainCovers, EnterCommitBarrier
  <1> QED
    BY <1>6, <1>7, <1>8 DEF IInv

\* An ask keeps the registry invariant and every live slot live.
LEMMA AskStep ==
    ASSUME IInv, NEW o \in Operations, slot[o].state \in Alive, Ask(o),
           call' \in [Callers -> Operations \cup {NoOperation}],
           drain' \in DrainType, UNCHANGED <<closed, task, running, perKey, order>>
    PROVE  /\ RegistryInv' /\ CommitNeverDenied'
           /\ \A p \in Operations : slot'[p].state \in Alive <=> slot[p].state \in Alive
  <1>0. TypeOK /\ SlotsMatchTasks /\ RegistryInv
    BY DEF IInv, RegistryInv
  <1>1. /\ slot' \in [Operations -> SlotType]
        /\ handle' \in [Operations -> {"none", "starter", "slot", "waiter", "dropped"}]
        /\ slot'[o].state \in Alive
        /\ \A p \in Operations \ {o} : slot'[p] = slot[p]
    BY <1>0, AskEffect
  <1>2. TypeOK'
    BY <1>0, <1>1 DEF TypeOK, SlotType, DrainType
  <1>3. \A p \in Operations :
          \/ slot'[p].state = slot[p].state
          \/ slot[p].state \in Alive /\ slot'[p].state \in Alive
    BY <1>1
  <1>4. SlotsMatchTasks'
    BY <1>0, <1>3, StatesApart DEF SlotsMatchTasks
  <1>5. RegistryInv'
    BY <1>0, <1>2, <1>3, <1>4, RegistryKept
  <1>6. CommitNeverDenied'
    BY <1>1, StatesApart DEF IInv, CommitNeverDenied, Alive
  <1> QED
    BY <1>3, <1>5, <1>6

LEMMA CancelSteps ==
    ASSUME IInv, NEW c \in Callers,
           \/ \E o \in Operations : CancelBegins(c, o)
           \/ CancelReturns(c)
           \/ CancelTimesOut(c)
    PROVE  IInv'
  <1>0. TypeOK /\ SlotsMatchTasks /\ DrainCovers
    BY DEF IInv, RegistryInv
  <1>1. ASSUME NEW o \in Operations, CancelBegins(c, o) PROVE IInv'
    <2>1. /\ call' \in [Callers -> Operations \cup {NoOperation}] /\ drain' \in DrainType
          /\ UNCHANGED <<closed, task, running, perKey, order, drain>>
      BY <1>0, <1>1 DEF CancelBegins, TypeOK, DrainType
    <2>2. /\ RegistryInv' /\ CommitNeverDenied'
          /\ \A p \in Operations : slot'[p].state \in Alive <=> slot[p].state \in Alive
      BY <2>1, <1>1, AskStep DEF CancelBegins
    <2>3. DrainCovers'
      BY <1>0, <2>1, <2>2 DEF DrainCovers
    <2> QED
      BY <2>2, <2>3 DEF IInv
  <1>2. CASE CancelReturns(c)
    <2>1. /\ call' \in [Callers -> Operations \cup {NoOperation}] /\ drain' \in DrainType
          /\ UNCHANGED <<closed, task, drain>> /\ call[c] \in Operations
      BY <1>0, <1>2 DEF CancelReturns, TypeOK, DrainType
    <2>2. /\ RegistryInv' /\ CommitNeverDenied'
          /\ \A p \in Operations : slot'[p].state \in Alive => slot[p].state \in Alive
      BY <2>1, <1>2, JoinedStep DEF CancelReturns
    <2>3. DrainCovers'
      BY <1>0, <2>1, <2>2 DEF DrainCovers
    <2> QED
      BY <2>2, <2>3 DEF IInv
  <1>3. CASE CancelTimesOut(c)
    <2>1. TypeOK' /\ UNCHANGED <<closed, task, slot, running, perKey, order, drain>>
      BY <1>0, <1>3 DEF CancelTimesOut, TypeOK
    <2>2. SlotsMatchTasks' /\ DrainCovers'
      BY <1>0, <2>1 DEF SlotsMatchTasks, DrainCovers
    <2> QED
      BY <2>1, <2>2, QuietStep DEF IInv
  <1> QED
    BY <1>1, <1>2, <1>3

LEMMA DrainQuietSteps ==
    ASSUME IInv,
           \/ \E o \in Operations \cup {NoOperation} : DrainCloses(o)
           \/ DrainLists
           \/ DrainTimesOut
           \/ DrainReports
    PROVE  IInv'
  <1>0. TypeOK /\ SlotsMatchTasks /\ DrainCovers /\ drain \in DrainType
    BY DEF IInv, RegistryInv, TypeOK, DrainType
  <1>1. UNCHANGED <<slot, task, running, perKey, order, call>>
    BY DEF DrainCloses, DrainLists, DrainTimesOut, DrainReports
  <1>2. SlotsMatchTasks'
    BY <1>0, <1>1 DEF SlotsMatchTasks
  <1>3. TypeOK' /\ DrainCovers'
    <2>1. ASSUME NEW o \in Operations \cup {NoOperation}, DrainCloses(o)
          PROVE  TypeOK' /\ DrainCovers'
      <3>1. drain' \in DrainType /\ drain'.at = "closed" /\ closed'
        BY <1>0, <2>1 DEF DrainCloses, DrainType
      <3> QED
        BY <1>0, <2>1, <3>1 DEF TypeOK, DrainType, DrainCovers, DrainCloses
    <2>2. CASE DrainLists
      <3>1. /\ drain' \in DrainType /\ drain'.at = "cancelling"
            /\ drain'.todo = Live \ {drain.excluded} /\ drain'.excluded = drain.excluded
        BY <1>0, <2>2 DEF DrainLists, DrainType, Live
      <3>2. TypeOK'
        BY <1>0, <2>2, <3>1 DEF TypeOK, DrainType, DrainLists
      <3>3. closed'
        BY <1>0, <2>2 DEF DrainCovers, DrainLists
      <3> QED
        BY <1>1, <3>1, <3>2, <3>3 DEF DrainCovers, Live
    <2>3. CASE DrainTimesOut
      <3>1. /\ drain' \in DrainType /\ drain'.at = "cancelling" /\ drain'.todo = drain.todo
            /\ drain'.failed = drain.failed \cup {drain.op}
            /\ drain'.excluded = drain.excluded
            /\ drain.op \in Operations
        BY <1>0, <2>3 DEF DrainTimesOut, DrainType, DrainCovers
      <3>2. TypeOK'
        BY <1>0, <2>3, <3>1 DEF TypeOK, DrainType, DrainTimesOut
      <3>3. closed' /\ drain.at = "waiting"
        BY <1>0, <2>3 DEF DrainCovers, DrainTimesOut
      <3> QED
        BY <1>0, <1>1, <3>1, <3>2, <3>3 DEF DrainCovers
    <2>4. CASE DrainReports
      <3>1. /\ drain' \in DrainType /\ drain'.at = "done" /\ drain'.todo = {}
            /\ drain.todo = {} /\ drain.at = "cancelling"
            /\ drain'.failed = drain.failed /\ drain'.excluded = drain.excluded
        BY <1>0, <2>4 DEF DrainReports, DrainType
      <3>2. TypeOK'
        BY <1>0, <2>4, <3>1 DEF TypeOK, DrainType, DrainReports
      <3>3. closed'
        BY <1>0, <2>4 DEF DrainCovers, DrainReports
      <3> QED
        BY <1>0, <1>1, <3>1, <3>2, <3>3 DEF DrainCovers
    <2> QED
      BY <2>1, <2>2, <2>3, <2>4
  <1> QED
    BY <1>1, <1>2, <1>3, QuietStep DEF IInv

LEMMA DrainJoinsStep ==
    ASSUME IInv, DrainJoins
    PROVE  IInv'
  <1>0. TypeOK /\ DrainCovers /\ drain \in DrainType
    BY DEF IInv, RegistryInv, TypeOK, DrainType
  <1>1. /\ drain' \in DrainType /\ drain'.at = "cancelling" /\ drain'.todo = drain.todo
        /\ drain.failed \subseteq drain'.failed /\ drain'.excluded = drain.excluded
        /\ drain.op \in Operations /\ drain.at = "waiting"
        /\ UNCHANGED <<closed, task, call>> /\ Joined(drain.op)
    BY <1>0 DEF DrainJoins, DrainType, DrainCovers
  <1>2. /\ RegistryInv' /\ CommitNeverDenied'
        /\ \A p \in Operations : slot'[p].state \in Alive => slot[p].state \in Alive /\ p # drain.op
    BY <1>0, <1>1, JoinedStep DEF TypeOK
  <1>3. DrainCovers'
    BY <1>0, <1>1, <1>2 DEF DrainCovers
  <1> QED
    BY <1>2, <1>3 DEF IInv

LEMMA DrainCancelsStep ==
    ASSUME IInv, NEW o \in Operations, DrainCancels(o)
    PROVE  IInv'
  <1>0. /\ TypeOK /\ SlotsMatchTasks /\ DrainCovers /\ drain \in DrainType
        /\ drain.at = "cancelling" /\ closed /\ closed'
        /\ UNCHANGED <<closed, task, running, perKey, order, call>>
    BY DEF IInv, RegistryInv, TypeOK, DrainType, DrainCancels, DrainCovers
  <1>1. CASE slot[o].state \notin Alive
    <2>1. UNCHANGED <<slot, handle>>
      BY <1>1 DEF DrainCancels
    <2>2. /\ drain' \in DrainType /\ drain'.at = "cancelling"
          /\ drain'.todo = drain.todo \ {o} /\ drain.failed \subseteq drain'.failed
          /\ drain'.excluded = drain.excluded
      BY <1>0, <1>1 DEF DrainCancels, DrainType
    <2>3. TypeOK' /\ SlotsMatchTasks'
      BY <1>0, <2>1, <2>2 DEF TypeOK, DrainType, SlotsMatchTasks
    <2>4. DrainCovers'
      BY <1>0, <1>1, <2>1, <2>2 DEF DrainCovers
    <2> QED
      BY <1>0, <2>1, <2>3, <2>4, QuietStep DEF IInv
  <1>2. CASE slot[o].state \in Alive
    <2>1. Ask(o)
      BY <1>2, StatesApart DEF DrainCancels
    <2>2. /\ drain' \in DrainType /\ drain'.todo = drain.todo \ {o}
          /\ drain'.excluded = drain.excluded
          /\ \/ /\ drain'.at = "waiting" /\ drain'.op = o /\ drain'.failed = drain.failed
             \/ /\ drain'.at = "cancelling" /\ drain'.failed = drain.failed \cup {o}
      <3>1. \/ drain' = [drain EXCEPT !.todo = drain.todo \ {o}, !.at = "waiting", !.op = o]
            \/ drain' = [drain EXCEPT !.todo = drain.todo \ {o},
                                      !.failed = drain.failed \cup {o}]
        BY <1>2, StatesApart DEF DrainCancels
      <3>2. [drain EXCEPT !.todo = drain.todo \ {o}, !.at = "waiting", !.op = o] \in DrainType
        BY <1>0 DEF DrainType
      <3>3. [drain EXCEPT !.todo = drain.todo \ {o},
                          !.failed = drain.failed \cup {o}] \in DrainType
        BY <1>0 DEF DrainType
      <3> QED
        BY <1>0, <3>1, <3>2, <3>3 DEF DrainType
    <2>3. /\ RegistryInv' /\ CommitNeverDenied'
          /\ \A p \in Operations : slot'[p].state \in Alive <=> slot[p].state \in Alive
      <3>1. call' \in [Callers -> Operations \cup {NoOperation}]
        BY <1>0 DEF TypeOK
      <3> QED
        BY <1>0, <1>2, <2>1, <2>2, <3>1, AskStep
    <2>4. DrainCovers'
      BY <1>0, <2>2, <2>3 DEF DrainCovers
    <2> QED
      BY <2>3, <2>4 DEF IInv
  <1> QED
    BY <1>1, <1>2

\* Every step, and every stuttering step, keeps the invariant.
LEMMA NextIInv == IInv /\ [Next]_vars => IInv'
  <1> SUFFICES ASSUME IInv, [Next]_vars PROVE IInv'
    OBVIOUS
  <1>1. CASE UNCHANGED vars
    <2>1. TypeOK' /\ SlotsMatchTasks' /\ DrainCovers'
      BY <1>1 DEF IInv, RegistryInv, TypeOK, SlotsMatchTasks, DrainCovers, vars
    <2> QED
      BY <1>1, <2>1, QuietStep DEF IInv, vars
  <1>2. ASSUME NEW o \in Operations,
               \/ StartBegins(o) \/ Admit(o) \/ Refuse(o) \/ StoreJoin(o)
               \/ BodyStep(o) \/ BodyPanics(o) \/ EnterCommitBarrier(o)
               \/ DrainCancels(o)
               \/ \E c \in Callers : CancelBegins(c, o)
        PROVE  IInv'
    <2>1. CASE BodyStep(o)
      BY <2>1, BodyEndsStep DEF BodyStep, BodyResults
    <2> QED
      BY <1>2, <2>1, StartSteps, AdmitStep, BarrierStep, DrainCancelsStep, CancelSteps
  <1>3. ASSUME NEW c \in Callers, CancelReturns(c) \/ CancelTimesOut(c) PROVE IInv'
    BY <1>3, CancelSteps
  <1>4. CASE (\E o \in Operations \cup {NoOperation} : DrainCloses(o))
               \/ DrainLists \/ DrainTimesOut \/ DrainReports
    BY <1>4, DrainQuietSteps
  <1>5. CASE DrainJoins
    BY <1>5, DrainJoinsStep
  <1> QED
    BY <1>1, <1>2, <1>3, <1>4, <1>5 DEF Next

-----------------------------------------------------------------------------
(* The outcomes that status reports *)

\* A slot that finish changes beside the finished one is the oldest of a full
\* terminal_order.
LEMMA FinishEvicts ==
    ASSUME TypeOK, OrderTerminal, NEW o \in Operations, NEW t \in BodyResults,
           slot[o].state \in Alive, Finish(o, t),
           NEW p \in Operations \ {o}, slot'[p] # slot[p]
    PROVE  slot'[p] = Absent /\ Len(order) >= TerminalMax /\ p = Head(order)
  <1>0. order \in Seq(Operations) /\ Len(order) \in Nat /\ TerminalMax \in Nat \ {0}
    BY LimitsAssumption DEF TypeOK
  <1>1. slot' = FinishedSlot(o, t)
    BY DEF Finish
  <1>2. p \in Evicted(o) /\ slot'[p] = Absent
    BY <1>1 DEF FinishedSlot
  <1>3. Len(order) >= TerminalMax /\ p = Head(Append(order, o))
    BY <1>0, <1>2 DEF Evicted
  <1>4. Head(Append(order, o)) = Head(order)
    BY <1>0, <1>3
  <1> QED
    BY <1>2, <1>3, <1>4

\* A step in which live slots stay live and the others do not change.
LEMMA LiveStep ==
    ASSUME \A p \in Operations :
             slot'[p] = slot[p] \/ (slot[p].state \in Alive /\ slot'[p].state \in Alive)
    PROVE  \A p \in Operations : OutcomeKept(p)
  BY StatesApart DEF OutcomeKept

LEMMA FinishKeepsOutcomes ==
    ASSUME TypeOK, OrderTerminal, NEW o \in Operations, NEW t \in BodyResults,
           Finish(o, t)
    PROVE  \A p \in Operations : OutcomeKept(p)
  <1>1. CASE slot[o].state \in Alive
    <2>1. /\ slot'[o].state \in Terminals
          /\ \A p \in Operations \ {o} :
               slot'[p] = slot[p] \/ (slot[p].state \in Terminals /\ slot'[p] = Absent)
      BY <1>1, FinishEffect
    <2>2. OutcomeKept(o)
      BY <1>1, <2>1, StatesApart DEF OutcomeKept
    <2>3. ASSUME NEW p \in Operations \ {o} PROVE OutcomeKept(p)
      <3>1. CASE slot'[p] = slot[p]
        BY <3>1, StatesApart DEF OutcomeKept
      <3>2. CASE slot'[p] # slot[p]
        <4>1. slot'[p] = Absent /\ Len(order) >= TerminalMax /\ p = Head(order)
          BY <1>1, <3>2, FinishEvicts
        <4>2. slot[p].state \in Terminals
          BY <2>1, <3>2
        <4> QED
          BY <4>1, <4>2, StatesApart DEF OutcomeKept
      <3> QED
        BY <3>1, <3>2
    <2> QED
      BY <2>2, <2>3
  <1>2. CASE slot[o].state \notin Alive
    BY <1>2, LiveStep DEF Finish
  <1> QED
    BY <1>1, <1>2

LEMMA JoinKeepsOutcomes ==
    ASSUME TypeOK, OrderTerminal, NEW o \in Operations, Joined(o)
    PROVE  \A p \in Operations : OutcomeKept(p)
  <1>1. CASE UNCHANGED slot
    BY <1>1, LiveStep
  <1>2. CASE Finish(o, "failed")
    BY <1>2, FinishKeepsOutcomes DEF BodyResults
  <1> QED
    BY <1>1, <1>2 DEF Joined

LEMMA AskKeepsOutcomes ==
    ASSUME TypeOK, NEW o \in Operations, slot[o].state \in Alive, Ask(o)
    PROVE  \A p \in Operations : OutcomeKept(p)
  BY AskEffect, LiveStep

LEMMA StepKeepsOutcomes ==
    ASSUME IInv, [Next]_vars
    PROVE  [\A o \in Operations : OutcomeKept(o)]_vars
  <1> SUFFICES ASSUME Next PROVE \A p \in Operations : OutcomeKept(p)
    BY DEF vars
  <1>0. TypeOK /\ SlotsMatchTasks /\ OrderTerminal /\ DrainCovers
    BY DEF IInv, RegistryInv
  <1>1. ASSUME UNCHANGED slot PROVE \A p \in Operations : OutcomeKept(p)
    BY <1>1, LiveStep
  <1>2. ASSUME NEW o \in Operations, Admit(o)
        PROVE  \A p \in Operations : OutcomeKept(p)
    <2>1. task[o] = "starting" /\ slot[o].state = "absent"
      BY <1>0, <1>2 DEF Admit, SlotsMatchTasks
    <2>2. \A p \in Operations \ {o} : slot'[p] = slot[p]
      BY <1>0, <1>2 DEF Admit, TypeOK
    <2> QED
      BY <2>1, <2>2, StatesApart DEF OutcomeKept
  <1>3. ASSUME NEW o \in Operations, BodyStep(o)
        PROVE  \A p \in Operations : OutcomeKept(p)
    BY <1>0, <1>3, FinishKeepsOutcomes DEF BodyStep, BodyEnds, BodyResults
  <1>4. ASSUME NEW o \in Operations, EnterCommitBarrier(o)
        PROVE  \A p \in Operations : OutcomeKept(p)
    <2>1. slot[o].state \in Alive
      BY <1>0, <1>4 DEF EnterCommitBarrier, SlotsMatchTasks
    <2>2. slot'[o].state = slot[o].state /\ \A p \in Operations \ {o} : slot'[p] = slot[p]
      BY <1>0, <1>4 DEF EnterCommitBarrier, TypeOK
    <2> QED
      BY <2>1, <2>2, LiveStep
  <1>5. ASSUME NEW o \in Operations, NEW c \in Callers, CancelBegins(c, o)
        PROVE  \A p \in Operations : OutcomeKept(p)
    BY <1>0, <1>5, AskKeepsOutcomes DEF CancelBegins
  <1>6. ASSUME NEW o \in Operations, DrainCancels(o)
        PROVE  \A p \in Operations : OutcomeKept(p)
    <2>1. UNCHANGED slot \/ (slot[o].state \in Alive /\ Ask(o))
      BY <1>6 DEF DrainCancels
    <2> QED
      BY <1>0, <1>1, <2>1, AskKeepsOutcomes
  <1>7. ASSUME NEW c \in Callers, CancelReturns(c)
        PROVE  \A p \in Operations : OutcomeKept(p)
    <2>1. call[c] \in Operations /\ Joined(call[c])
      BY <1>0, <1>7 DEF CancelReturns, TypeOK
    <2> QED
      BY <1>0, <2>1, JoinKeepsOutcomes
  <1>8. CASE DrainJoins
    <2>1. drain.op \in Operations /\ Joined(drain.op)
      BY <1>0, <1>8 DEF DrainJoins, DrainCovers
    <2> QED
      BY <1>0, <2>1, JoinKeepsOutcomes
  <1>9. ASSUME NEW o \in Operations,
               StartBegins(o) \/ Refuse(o) \/ StoreJoin(o) \/ BodyPanics(o)
        PROVE  UNCHANGED slot
    BY <1>9 DEF StartBegins, Refuse, StoreJoin, BodyPanics
  <1>10. ASSUME \/ \E c \in Callers : CancelTimesOut(c)
                \/ \E o \in Operations \cup {NoOperation} : DrainCloses(o)
                \/ DrainLists \/ DrainTimesOut \/ DrainReports
         PROVE  UNCHANGED slot
    BY <1>10 DEF CancelTimesOut, DrainCloses, DrainLists, DrainTimesOut, DrainReports
  <1> QED
    BY <1>1, <1>2, <1>3, <1>4, <1>5, <1>6, <1>7, <1>8, <1>9, <1>10 DEF Next

-----------------------------------------------------------------------------

\* The inductive invariant holds in every behaviour.
THEOREM Invariance == Spec => []IInv
  BY InitIInv, NextIInv, PTL DEF Spec

\* start, finish and the finish of a joined panic keep running_count and
\* running_by_concurrency_key equal to the slots that are not terminal, and
\* finish evicts terminals only.
THEOREM RegistryConsistent == Spec => []RegistryInv
  <1>1. IInv => RegistryInv
    BY DEF IInv
  <1> QED
    BY <1>1, Invariance, PTL

\* However many cancels time out, no more bodies execute, in all and per
\* concurrency key, than start admits.
THEOREM ConcurrencyIsBounded == Spec => []BodiesBounded
  <1>1. ASSUME IInv PROVE BodiesBounded
    <2>0. TypeOK /\ SlotsMatchTasks /\ CountersExact /\ WithinLimits
      BY <1>1 DEF IInv, RegistryInv
    <2>1. Executing(Operations) \subseteq Live
      BY <2>0 DEF Executing, SlotsMatchTasks, Live
    <2>2. Cardinality(Executing(Operations)) <= Cardinality(Live)
      BY <2>1, LiveFinite, FS_Subset
    <2>22. /\ Cardinality(Executing(Operations)) \in Nat /\ running \in Nat
           /\ MaxRunning \in Nat /\ MaxPerKey \in Nat
      BY <2>0, <2>1, LiveFinite, FS_Subset, FS_CardinalityType, LimitsAssumption DEF TypeOK
    <2>3. Cardinality(Executing(Operations)) <= MaxRunning
      BY <2>0, <2>2, <2>22 DEF CountersExact, WithinLimits
    <2>4. ASSUME NEW k \in Keys
          PROVE  Cardinality(Executing({o \in Operations : KeyOf[o] = k})) <= MaxPerKey
      <3>1. Executing({o \in Operations : KeyOf[o] = k}) \subseteq LiveWith(k)
        BY <2>0 DEF Executing, SlotsMatchTasks, Live, LiveWith
      <3>2. Cardinality(Executing({o \in Operations : KeyOf[o] = k}))
              <= Cardinality(LiveWith(k))
        BY <3>1, LiveFinite, FS_Subset
      <3>3. /\ Cardinality(Executing({o \in Operations : KeyOf[o] = k})) \in Nat
            /\ perKey[k] \in Nat
        BY <2>0, <3>1, LiveFinite, FS_Subset, FS_CardinalityType DEF TypeOK
      <3> QED
        BY <3>2, <3>3, <2>0, <2>22 DEF CountersExact, WithinLimits
    <2> QED
      BY <2>3, <2>4 DEF BodiesBounded
  <1> QED
    BY <1>1, Invariance, PTL

\* No step overwrites a recorded outcome or takes a live operation out of the
\* registry: finish evicts only the oldest of a full terminal_order, and cancel,
\* drain and join touch only slots that are not terminal.
THEOREM OutcomeIsFinal == Spec => OutcomeFinal
  <1>1. IInv /\ [Next]_vars => [\A o \in Operations : OutcomeKept(o)]_vars
    BY StepKeepsOutcomes
  <1> QED
    BY <1>1, Invariance, PTL DEF Spec, OutcomeFinal

\* When stop_admission_and_cancel_except reports no timed-out operation, no
\* operation but the excluded one executes, then or later.
THEOREM DrainIsQuiescent == Spec => []DrainQuiescent
  <1>1. IInv => DrainQuiescent
    BY DEF IInv, RegistryInv, SlotsMatchTasks, DrainCovers, DrainQuiescent
  <1> QED
    BY <1>1, Invariance, PTL

\* finish never records Cancelled for an operation behind its commit barrier.
THEOREM CommitIsNeverDenied == Spec => []CommitNeverDenied
  <1>1. IInv => CommitNeverDenied
    BY DEF IInv
  <1> QED
    BY <1>1, Invariance, PTL

=============================================================================
