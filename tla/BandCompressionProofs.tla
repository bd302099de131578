----------------------- MODULE BandCompressionProofs -----------------------
(***************************************************************************)
(* Theorems about BandCompression, for every set of rank items, every      *)
(* ranked plan and every band.                                             *)
(***************************************************************************)
EXTENDS BandCompression, BandLoopProofs

-----------------------------------------------------------------------------
(***************************************************************************)
(* The inductive invariant: the types, and that of the loop from the call  *)
(* on.                                                                     *)
(***************************************************************************)
Inv ==
  /\ TypeOK
  /\ stage = "idle" => items = <<>> /\ starts = {} /\ idx = 1
  /\ stage # "idle" => items \in Plans /\ LoopInv

LEMMA InitInv == Init => Inv
  BY DEF Init, Inv, TypeOK, n

LEMMA CallInv ==
  ASSUME Inv, Call
  PROVE  Inv'
<1>1. items' \in Plans /\ items' \in Seq(Items) /\ IsRankedPlan(items')
  BY PlansAssumption DEF Call
<1>2. n' \in Nat /\ n' = Len(items') /\ DOMAIN items' = 1 .. n'
  BY <1>1 DEF n
<1>3. /\ stage' = "seed" /\ starts' = {} /\ idx' = 1 /\ prio' = prio
      /\ band' = band /\ stage = "idle" /\ overflow' = overflow
  BY DEF Call, Inv
<1>4. TypeOK'
  BY <1>1, <1>2, <1>3 DEF TypeOK, Inv
<1>5. Given'
  <2>1. \A i \in 1 .. n' : items'[i] \in Items /\ items'[i].fine \in Nat
    BY <1>1, <1>2, ItemsAssumption
  <2>2. band.min \in Int /\ band.max \in Int /\ band.min <= band.max
    BY BandsAssumption DEF Inv, TypeOK
  <2> QED
    BY <1>1, <1>2, <1>3, <2>1, <2>2 DEF Given
<1>6. (Given /\ stage = "seed" /\ idx = 1 /\ starts = {} => LoopInv)'
  BY StartInv, PTL
<1> QED
  BY <1>1, <1>3, <1>4, <1>5, <1>6 DEF Inv

LEMMA ReportIsReport ==
  ASSUME TypeOK, LoopInv
  PROVE  Report \in Reports
<1>1. /\ Width \in Nat /\ Cardinality(starts) \in Nat
      /\ starts \subseteq 1 .. n /\ items \in Seq(Items)
  BY WidthFacts DEF TypeOK, LoopInv
<1>2. \A s \in starts : items[s] \in Items
  BY <1>1 DEF n
<1>3. {items[s].coarse : s \in {t \in starts : RunOf(starts, t) > Width}}
        \subseteq {x.coarse : x \in Items}
  BY <1>2
<1> QED
  BY <1>1, <1>3 DEF Report, Reports

LEMMA StepInv ==
  ASSUME Inv, Step
  PROVE  Inv'
<1>1. stage # "idle" /\ items \in Plans /\ LoopInv /\ TypeOK
  BY DEF Inv, Step, OpenRun, ExtendRun, EndSeed, MergeFine, EndFine, MergeCoarse, Assign
<1>2. LoopInv' /\ items' = items /\ band' = band
  BY <1>1, LoopStep
<1>3. /\ n' = n /\ n \in Nat
      /\ idx' \in 1 .. n' + 1 /\ starts' \subseteq 1 .. n'
      /\ stage' \in {"seed", "fine", "coarse", "done"}
  <2>1. n' = n
    BY <1>2 DEF n
  <2>2. n \in Nat
    BY <1>1 DEF LoopInv, Shape, Given
  <2> QED
    BY <1>2, <2>1, <2>2 DEF LoopInv, Shape
<1>4. /\ prio' \in Seq(Int) /\ Len(prio') = (IF stage' = "done" THEN n' ELSE 0)
      /\ overflow' \in Reports \cup {NoOverflow}
  <2>1. CASE Assign
    <3>1. /\ stage' = "done"
          /\ prio' = [i \in 1 .. n |-> Level(RunOf(starts, i))]
          /\ overflow' \in {Report, NoOverflow}
      BY <2>1 DEF Assign
    <3>2. starts \subseteq 1 .. n /\ band.min \in Int /\ band.max \in Int
      BY <1>1, WidthFacts DEF LoopInv, Shape
    <3>3. \A i \in 1 .. n : RunOf(starts, i) \in Nat
      <4>1. \A i \in 1 .. n : i \in Int
        BY <1>3
      <4> QED
        BY <1>3, <3>2, <4>1, RunOfBounds
    <3>4. \A i \in 1 .. n : Level(RunOf(starts, i)) \in Int
      BY <3>2, <3>3 DEF Level
    <3>5. prio' \in [1 .. n -> Int]
      BY <3>1, <3>4
    <3> QED
      BY <1>1, <1>3, <3>1, <3>5, ReportIsReport
  <2>2. CASE OpenRun \/ ExtendRun \/ EndSeed \/ MergeFine \/ EndFine \/ MergeCoarse
    <3>1. /\ prio' = prio /\ overflow' = overflow
          /\ stage # "done" /\ stage' # "done"
      BY <2>2 DEF OpenRun, ExtendRun, EndSeed, MergeFine, EndFine, MergeCoarse
    <3> QED
      BY <1>1, <3>1 DEF TypeOK
  <2> QED
    BY <2>1, <2>2 DEF Step
<1> QED
  BY <1>1, <1>2, <1>3, <1>4 DEF Inv, TypeOK

LEMMA StutterInv ==
  ASSUME Inv, UNCHANGED vars
  PROVE  Inv'
<1>1. UNCHANGED <<stage, items, band, idx, starts, prio, overflow>>
  BY DEF vars
<1>2. LoopInv => LoopInv'
  BY <1>1, LoopStutter
<1>3. TypeOK'
  BY <1>1 DEF Inv, TypeOK, n
<1> QED
  BY <1>1, <1>2, <1>3 DEF Inv

\* The invariant holds in every reachable state.
THEOREM Invariance == Spec => []Inv
<1>1. Init => Inv
  BY InitInv
<1>2. Inv /\ [Next]_vars => Inv'
  BY CallInv, StepInv, StutterInv DEF Next, Returned
<1> QED
  BY <1>1, <1>2, PTL DEF Spec

\* The variables keep their types.
THEOREM TypeCorrect == Spec => []TypeOK
<1>1. Inv => TypeOK
  BY DEF Inv
<1> QED
  BY <1>1, Invariance, PTL

\* A later rank never gets a higher priority, and every priority lies in the
\* band the platform file declares.
THEOREM NeverInverts == Spec => []NoInversion
<1>1. Inv => NoInversion
  BY DoneNoInversion DEF NoInversion, Inv
<1> QED
  BY <1>1, Invariance, PTL

\* Ties between classes occur only at the foot of a band that is reported.
THEOREM TiesExplained == Spec => []TiesAreExplained
<1>1. Inv => TiesAreExplained
  BY DoneFactTies, DoneCrossTies, DoneLastResort DEF TiesAreExplained, Inv
<1> QED
  BY <1>1, Invariance, PTL

\* Different facts share a priority only when every priority is in use.
THEOREM NoTieWithoutNeed == Spec => []NoNeedlessTie
<1>1. Inv => NoNeedlessTie
  BY DoneScarcity DEF NoNeedlessTie, Inv
<1> QED
  BY <1>1, Invariance, PTL

\* The merging loops implement one atomic, legal assignment per call.
THEOREM Refinement == Spec => ImplementsOrder
<1>1. Init => Order!Init
  BY DEF Init, Order!Init, NoOverflow, Order!NoOverflow
<1>2. Inv /\ Inv' /\ [Next]_vars => [Order!Next]_Order!vars
  <2> SUFFICES ASSUME Inv, Inv', [Next]_vars
               PROVE  Order!Next \/ UNCHANGED Order!vars
    OBVIOUS
  <2>1. CASE Call
    BY <2>1 DEF Call, Order!Next, Order!Request
  <2>2. CASE OpenRun \/ ExtendRun \/ EndSeed \/ MergeFine \/ EndFine \/ MergeCoarse
    BY <2>2 DEF OpenRun, ExtendRun, EndSeed, MergeFine, EndFine, MergeCoarse,
                Order!vars
  <2>3. CASE Assign
    <3>1. stage = "coarse" /\ stage' = "done" /\ items' = items /\ band' = band
      BY <2>3 DEF Assign
    <3>2. LegalAssignment(items', band', prio', overflow')
      <4>1. (LoopInv /\ stage = "done" => LegalAssignment(items, band, prio, overflow))'
        BY DoneLegal, PTL
      <4> QED
        BY <3>1, <4>1 DEF Inv
    <3>3. prio' \in [DOMAIN items -> Int]
      <4>1. prio' \in Seq(Int) /\ Len(prio') = n'
        BY <3>1 DEF Inv, TypeOK
      <4>2. items \in Seq(Items) /\ n' = Len(items)
        BY <3>1 DEF n, Inv, TypeOK
      <4> QED
        BY <4>1, <4>2
    <3>4. LegalAssignment(items, band, prio', overflow')
      BY <3>1, <3>2
    <3>5. Order!LegalAssignment(items, band, prio', overflow')
      BY <3>4 DEF LegalAssignment, Order!LegalAssignment,
        WithinBand, Order!WithinBand, Descending, Order!Descending,
        FactTiesShare, Order!FactTiesShare, TiedByFacts, Order!TiedByFacts,
        CrossTiesReported, Order!CrossTiesReported, SameClass, Order!SameClass,
        ReportIsLastResort, Order!ReportIsLastResort, NoOverflow, Order!NoOverflow,
        TiesOnlyUnderScarcity, Order!TiesOnlyUnderScarcity,
        SegmentsFirst, Order!SegmentsFirst
    <3> QED
      BY <3>1, <3>3, <3>5 DEF Order!Next, Order!Grant
  <2>4. CASE UNCHANGED vars
    BY <2>4 DEF vars, Order!vars
  <2> QED
    BY <2>1, <2>2, <2>3, <2>4 DEF Next, Step, Returned
<1> QED
  BY <1>1, <1>2, Invariance, PTL DEF Spec, ImplementsOrder, Order!Spec
=============================================================================
