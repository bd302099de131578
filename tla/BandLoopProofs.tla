--------------------------- MODULE BandLoopProofs ---------------------------
(***************************************************************************)
(* Proofs about the compression loop, wherever it is called from: for      *)
(* every ranked plan and every band that is not empty.                     *)
(***************************************************************************)
EXTENDS BandLoop, FiniteSetTheorems, WellFoundedInduction, TLAPS

-----------------------------------------------------------------------------
(***************************************************************************)
(* Lemmas on numbers and on counting run starts.                           *)
(***************************************************************************)

\* Every nonempty set of naturals has a least element.
LEMMA LeastNatural ==
  ASSUME NEW T, T \subseteq Nat, T # {}
  PROVE  \E x \in T : \A y \in T : x <= y
<1> DEFINE Less == OpToRel(<, Nat)
<1>1. IsWellFoundedOn(Less, Nat)
  BY NatLessThanWellFounded
<1>2. \A x, y \in Nat : y < x => <<y, x>> \in Less
  BY DEF OpToRel
<1> HIDE DEF Less
<1>3. PICK x \in T : \A y \in T : ~ (<<y, x>> \in Less)
  BY <1>1, WFMin
<1>4. \A y \in T : y \in Nat /\ x \in Nat /\ ~ (y < x)
  BY <1>2, <1>3
<1>5. \A y \in T : x <= y
  BY <1>4
<1> QED
  BY <1>5

\* The starts up to a position are finitely many and only grow with the
\* position; at the end they are all of them.
LEMMA RunOfBounds ==
  ASSUME NEW m \in Nat, NEW S, S \subseteq 1 .. m
  PROVE  /\ IsFiniteSet(S)
         /\ Cardinality(S) \in Nat
         /\ \A i \in Int : RunOf(S, i) \in Nat /\ RunOf(S, i) <= Cardinality(S)
         /\ \A i, j \in Int : i <= j => RunOf(S, i) <= RunOf(S, j)
         /\ RunOf(S, m) = Cardinality(S)
         /\ RunOf(S, 0) = 0
<1> DEFINE UpTo(i) == {s \in S : s <= i}
<1>1. IsFiniteSet(S) /\ Cardinality(S) \in Nat
  BY FS_Interval, FS_Subset, FS_CardinalityType, 1 \in Int, m \in Int
<1>2. \A s \in S : s \in Int /\ 1 <= s /\ s <= m
  OBVIOUS
<1>3. \A i : RunOf(S, i) = Cardinality(UpTo(i))
  BY DEF RunOf
<1>4. \A i : UpTo(i) \subseteq S
  OBVIOUS
<1>5. ASSUME NEW i \in Int, NEW j \in Int, i <= j
      PROVE  UpTo(i) \subseteq UpTo(j)
  <2>1. \A s \in S : s <= i => s <= j
    BY <1>2, <1>5
  <2> QED
    BY <2>1
<1>6. UpTo(m) = S /\ UpTo(0) = {}
  <2>1. \A s \in S : s <= m /\ ~ (s <= 0)
    BY <1>2
  <2> QED
    BY <2>1
<1> HIDE DEF UpTo
<1>7. \A i : /\ IsFiniteSet(UpTo(i))
             /\ Cardinality(UpTo(i)) \in Nat
             /\ Cardinality(UpTo(i)) <= Cardinality(S)
  BY <1>1, <1>4, FS_Subset, FS_CardinalityType
<1>8. \A i, j \in Int : i <= j => RunOf(S, i) <= RunOf(S, j)
  BY <1>3, <1>5, <1>7, FS_Subset
<1> QED
  BY <1>1, <1>3, <1>6, <1>7, <1>8, FS_EmptySet

\* Two positions lie in different runs exactly when a run starts between them.
LEMMA RunOfSeparates ==
  ASSUME NEW m \in Nat, NEW S, S \subseteq 1 .. m,
         NEW i \in Int, NEW j \in Int, i <= j
  PROVE  /\ (\A s \in S : ~ (i < s /\ s <= j)) => RunOf(S, i) = RunOf(S, j)
         /\ \A s \in S : i < s /\ s <= j => RunOf(S, i) < RunOf(S, j)
<1> DEFINE A == {s \in S : s <= i}
           B == {s \in S : s <= j}
<1>1. \A s \in S : s \in Int
  OBVIOUS
<1>2. /\ IsFiniteSet(B)
      /\ Cardinality(A) = RunOf(S, i) /\ Cardinality(A) \in Nat
      /\ Cardinality(B) = RunOf(S, j) /\ Cardinality(B) \in Nat
  <2>1. IsFiniteSet(S) /\ A \subseteq S /\ B \subseteq S
    BY RunOfBounds
  <2>2. IsFiniteSet(A) /\ IsFiniteSet(B)
    BY <2>1, FS_Subset
  <2> QED
    BY <2>2, FS_CardinalityType DEF RunOf
<1>3. A \subseteq B
  <2>1. \A s \in S : s <= i => s <= j
    BY <1>1
  <2> QED
    BY <2>1
<1>4. (\A s \in S : ~ (i < s /\ s <= j)) => A = B
  <2>1. ASSUME \A s \in S : ~ (i < s /\ s <= j)
        PROVE  \A s \in S : s <= i <=> s <= j
    BY <1>1, <2>1
  <2> QED
    BY <2>1
<1>5. \A s \in S : i < s /\ s <= j => s \in B /\ s \notin A
  BY <1>1
<1> HIDE DEF A, B
<1>6. Cardinality(A) <= Cardinality(B) /\ (Cardinality(A) = Cardinality(B) => A = B)
  BY <1>2, <1>3, FS_Subset
<1> QED
  BY <1>2, <1>4, <1>5, <1>6

\* The index of the run grows by at most one from one position to the next.
LEMMA RunOfStep ==
  ASSUME NEW m \in Nat, NEW S, S \subseteq 1 .. m, NEW i \in Int
  PROVE  RunOf(S, i) <= RunOf(S, i - 1) + 1
<1> DEFINE A == {s \in S : s <= i - 1}
           B == {s \in S : s <= i}
<1>1. IsFiniteSet(A) /\ Cardinality(A) = RunOf(S, i - 1) /\ Cardinality(A) \in Nat
  <2>1. IsFiniteSet(A)
    BY RunOfBounds, FS_Subset
  <2> QED
    BY <2>1, FS_CardinalityType DEF RunOf
<1>2. Cardinality(B) = RunOf(S, i) /\ Cardinality(B) \in Nat
  BY RunOfBounds DEF RunOf
<1>3. B \subseteq A \cup {i}
  <2>1. ASSUME NEW s \in B
        PROVE  s \in A \cup {i}
    <3>1. s \in Int /\ s <= i /\ s \in S
      OBVIOUS
    <3>2. s <= i - 1 \/ s = i
      BY <3>1
    <3> QED
      BY <3>1, <3>2
  <2> QED
    BY <2>1
<1> HIDE DEF A, B
<1>4. /\ IsFiniteSet(A \cup {i})
      /\ Cardinality(A \cup {i}) <= Cardinality(A) + 1
      /\ Cardinality(A \cup {i}) \in Nat
  <2>1. /\ IsFiniteSet(A \cup {i})
        /\ Cardinality(A \cup {i}) =
             IF i \in A THEN Cardinality(A) ELSE Cardinality(A) + 1
    BY <1>1, FS_AddElement
  <2> QED
    BY <1>1, <2>1
<1>5. Cardinality(B) <= Cardinality(A \cup {i})
  BY <1>3, <1>4, FS_Subset
<1> QED
  BY <1>1, <1>2, <1>4, <1>5

\* Every run has a position in it.
LEMMA RunOfOnto ==
  ASSUME NEW m \in Nat, NEW S, S \subseteq 1 .. m,
         NEW k \in 1 .. Cardinality(S)
  PROVE  \E i \in 1 .. m : RunOf(S, i) = k
<1> DEFINE T == {i \in 0 .. m : k <= RunOf(S, i)}
<1>1. /\ Cardinality(S) \in Nat
      /\ RunOf(S, m) = Cardinality(S)
      /\ RunOf(S, 0) = 0
      /\ \A i \in Int : RunOf(S, i) \in Nat
  BY RunOfBounds
<1>2. k \in Int /\ 1 <= k /\ k <= RunOf(S, m)
  BY <1>1
<1>3. \A i : i \in T <=> i \in 0 .. m /\ k <= RunOf(S, i)
  OBVIOUS
<1> HIDE DEF T
<1>4. T \subseteq Nat /\ m \in T
  BY <1>2, <1>3
<1>5. PICK i \in T : \A j \in T : i <= j
  BY <1>4, LeastNatural
<1>6. i \in 1 .. m /\ k <= RunOf(S, i)
  <2>1. ~ (k <= RunOf(S, 0))
    BY <1>1, <1>2
  <2> QED
    BY <1>3, <1>5, <2>1
<1>7. i - 1 \in 0 .. m /\ ~ (i <= i - 1)
  BY <1>6
<1>8. ~ (k <= RunOf(S, i - 1))
  BY <1>3, <1>5, <1>7
<1>9. RunOf(S, i) <= RunOf(S, i - 1) + 1
  <2>1. i \in Int
    BY <1>6
  <2> QED
    BY <2>1, RunOfStep
<1>10. RunOf(S, i) = k
  BY <1>1, <1>2, <1>6, <1>7, <1>8, <1>9
<1> QED
  BY <1>6, <1>10
-----------------------------------------------------------------------------
(***************************************************************************)
(* The inductive invariant.  The merging loops only ever remove starts, so *)
(* it says between which sets of starts they stay: every run seeded by the *)
(* facts may go, the first item of a class never does, and while pass 1    *)
(* runs neither does the first item of a group.  It also keeps the reason  *)
(* for every start that is gone: the band had no room for it.              *)
(***************************************************************************)
Seeds == {i \in 1 .. n : ~ Joins(i)}

GroupStarts == {i \in 1 .. n : i = 1 \/ items[i - 1].fine # items[i].fine}

ClassStarts == {i \in 1 .. n : i = 1 \/ ~ SameClass(items, i - 1, i)}

\* What the loop is called with.
Given ==
  /\ band.min \in Int /\ band.max \in Int /\ band.min <= band.max
  /\ n \in Nat /\ DOMAIN items = 1 .. n
  /\ IsRankedPlan(items)
  /\ \A i \in 1 .. n : items[i].fine \in Nat

Shape ==
  /\ Given
  /\ stage \in {"seed", "fine", "coarse", "done"}
  /\ idx \in 1 .. n + 1
  /\ starts \subseteq 1 .. n

LoopInv ==
  /\ Shape
  /\ stage = "seed" => starts = {i \in Seeds : i < idx}
  /\ stage \in {"fine", "coarse", "done"} =>
       /\ ClassStarts \subseteq starts
       /\ starts \subseteq Seeds
       /\ starts = Seeds \/ Width <= Cardinality(starts)
  /\ stage = "fine" => GroupStarts \subseteq starts
  /\ stage \in {"coarse", "done"} =>
       FineJoints = {} \/ (GroupStarts \subseteq starts /\ ~ TooMany)
  /\ stage = "done" =>
       /\ ~ TooMany \/ CoarseJoints = {}
       /\ prio = [i \in 1 .. n |-> Level(RunOf(starts, i))]
       /\ overflow = (IF TooMany THEN Report ELSE NoOverflow)
\* What a ranked plan gives: groups inside one class, and runs inside one group.
LEMMA PlanFacts ==
  ASSUME Given
  PROVE  GroupStarts \subseteq Seeds /\ ClassStarts \subseteq GroupStarts
<1>1. n \in Nat /\ DOMAIN items = 1 .. n /\ IsRankedPlan(items)
  BY DEF Given
<1>2. \A i \in 1 .. n : i # 1 => i - 1 \in 1 .. n /\ i > 1
  BY <1>1
<1>3. \A i, j \in 1 .. n :
        /\ items[i].fine = items[j].fine => items[i].coarse = items[j].coarse
        /\ items[i].tie # NoTie /\ items[i].tie = items[j].tie =>
             items[i].fine = items[j].fine
  BY <1>1 DEF IsRankedPlan
<1>4. ASSUME NEW i \in GroupStarts
      PROVE  i \in Seeds
  BY <1>2, <1>3 DEF GroupStarts, Seeds, Joins
<1>5. ASSUME NEW i \in ClassStarts
      PROVE  i \in GroupStarts
  BY <1>2, <1>3 DEF GroupStarts, ClassStarts, SameClass
<1> QED
  BY <1>4, <1>5

\* The band is never empty, and starts are finitely many.
LEMMA WidthFacts ==
  ASSUME Shape
  PROVE  /\ Width \in Nat /\ Width >= 1
         /\ band.min \in Int /\ band.max \in Int
         /\ Width = band.max - band.min + 1
         /\ n \in Nat
         /\ IsFiniteSet(starts) /\ Cardinality(starts) \in Nat
<1>1. band.min \in Int /\ band.max \in Int /\ band.min <= band.max /\ n \in Nat
  BY DEF Shape, Given
<1>2. IsFiniteSet(starts) /\ Cardinality(starts) \in Nat
  BY <1>1, RunOfBounds DEF Shape
<1> QED
  BY <1>1, <1>2 DEF Width

-----------------------------------------------------------------------------
(***************************************************************************)
(* Every step preserves the invariant, one lemma per action.               *)
(***************************************************************************)
\* The loop's first state.
LEMMA StartInv ==
  ASSUME Given, stage = "seed", idx = 1, starts = {}
  PROVE  LoopInv
<1>1. n \in Nat
  BY DEF Given
<1>2. \A i \in 1 .. n : ~ (i < 1)
  BY <1>1
<1> QED
  BY <1>1, <1>2 DEF LoopInv, Shape, Seeds

\* The argument does not change, and with it what it is worth.
LEMMA GivenStays ==
  ASSUME Given, items' = items, band' = band
  PROVE  Given'
<1>1. n' = n
  BY DEF n
<1> QED
  BY <1>1 DEF Given

LEMMA SeedInv ==
  ASSUME LoopInv, OpenRun \/ ExtendRun
  PROVE  LoopInv'
<1>1. /\ stage = "seed" /\ stage' = "seed" /\ idx <= n /\ idx' = idx + 1
      /\ items' = items /\ band' = band /\ prio' = prio
      /\ overflow' = overflow
  BY DEF OpenRun, ExtendRun
<1>2. n \in Nat /\ idx \in 1 .. n
  BY <1>1, WidthFacts DEF LoopInv, Shape
<1>3. n' = n /\ Seeds' = Seeds
  BY <1>1 DEF n, Seeds, Joins
<1>4. starts = {i \in Seeds : i < idx}
  BY <1>1 DEF LoopInv
<1>5. \A i \in 1 .. n : i < idx + 1 <=> i < idx \/ i = idx
  BY <1>2
<1>6. starts' = {i \in Seeds : i < idx + 1}
  <2>1. CASE OpenRun
    <3>1. starts' = starts \cup {idx} /\ idx \in Seeds
      BY <2>1, <1>2 DEF OpenRun, Seeds
    <3> QED
      BY <3>1, <1>4, <1>5 DEF Seeds
  <2>2. CASE ExtendRun
    <3>1. starts' = starts /\ idx \notin Seeds
      BY <2>2 DEF ExtendRun, Seeds
    <3> QED
      BY <3>1, <1>4, <1>5 DEF Seeds
  <2> QED
    BY <2>1, <2>2
<1>7. starts' \subseteq 1 .. n
  BY <1>6 DEF Seeds
<1>8. Shape'
  BY <1>1, <1>2, <1>3, <1>7, GivenStays DEF LoopInv, Shape
<1> QED
  BY <1>1, <1>3, <1>6, <1>8 DEF LoopInv

LEMMA EndSeedInv ==
  ASSUME LoopInv, EndSeed
  PROVE  LoopInv'
<1>1. /\ stage = "seed" /\ stage' = "fine" /\ idx > n
      /\ UNCHANGED <<items, band, idx, starts, prio, overflow>>
  BY DEF EndSeed
<1>2. Given /\ n \in Nat /\ idx \in Int
  BY <1>1, WidthFacts DEF LoopInv, Shape
<1>3. starts = Seeds
  <2>1. \A i \in 1 .. n : i < idx
    BY <1>1, <1>2
  <2> QED
    BY <2>1, <1>1 DEF LoopInv, Seeds
<1>4. GroupStarts \subseteq starts /\ ClassStarts \subseteq starts
  BY <1>2, <1>3, PlanFacts
<1>5. /\ n' = n /\ Seeds' = Seeds /\ GroupStarts' = GroupStarts
      /\ ClassStarts' = ClassStarts
  BY <1>1 DEF n, Seeds, Joins, GroupStarts, ClassStarts
<1>6. Shape'
  BY <1>1, <1>5, GivenStays DEF LoopInv, Shape
<1> QED
  BY <1>1, <1>2, <1>3, <1>4, <1>5, <1>6 DEF LoopInv

\* What a merge does to the set of starts, whatever the joints are.
LEMMA MergeFacts ==
  ASSUME LoopInv, TooMany, NEW J, J \subseteq starts, MergeLast(J),
         UNCHANGED <<stage, items, band, idx, prio, overflow>>
  PROVE  /\ Shape'
         /\ n' = n /\ Seeds' = Seeds /\ Width' = Width
         /\ GroupStarts' = GroupStarts /\ ClassStarts' = ClassStarts
         /\ starts' \subseteq starts
         /\ Width' <= Cardinality(starts')
         /\ \E s \in J : starts' = starts \ {s}
         /\ FineJoints' \subseteq FineJoints
<1>1. PICK s \in J : starts' = starts \ {s}
  BY DEF MergeLast
<1>2. /\ n' = n /\ Seeds' = Seeds /\ Width' = Width
      /\ GroupStarts' = GroupStarts /\ ClassStarts' = ClassStarts
  BY DEF n, Seeds, Joins, GroupStarts, ClassStarts, Width
<1>3. starts' \subseteq starts
  BY <1>1
<1>4. Shape'
  BY <1>2, <1>3, GivenStays DEF LoopInv, Shape
<1>5. Width' <= Cardinality(starts')
  <2>1. /\ IsFiniteSet(starts) /\ Cardinality(starts) \in Nat /\ Width \in Nat
        /\ Width < Cardinality(starts)
    BY WidthFacts DEF LoopInv, TooMany
  <2>2. Cardinality(starts \ {s}) = Cardinality(starts) - 1
    BY <2>1, FS_RemoveElement
  <2> QED
    BY <1>1, <1>2, <2>1, <2>2
<1>6. FineJoints' \subseteq FineJoints
  BY <1>3 DEF FineJoints
<1> QED
  BY <1>1, <1>2, <1>3, <1>4, <1>5, <1>6

LEMMA MergeFineInv ==
  ASSUME LoopInv, MergeFine
  PROVE  LoopInv'
<1>1. /\ stage = "fine" /\ stage' = "fine" /\ TooMany /\ MergeLast(FineJoints)
      /\ UNCHANGED <<stage, items, band, idx, prio, overflow>>
  BY DEF MergeFine
<1>2. FineJoints \subseteq starts
  BY DEF FineJoints
<1>3. /\ Shape' /\ n' = n /\ Seeds' = Seeds
      /\ GroupStarts' = GroupStarts /\ ClassStarts' = ClassStarts
      /\ starts' \subseteq starts /\ Width' <= Cardinality(starts')
  BY <1>1, <1>2, MergeFacts
<1>4. PICK s \in FineJoints : starts' = starts \ {s}
  BY <1>1, <1>2, MergeFacts
<1>5. ClassStarts \subseteq GroupStarts
  BY PlanFacts DEF LoopInv, Shape
<1>6. s \notin GroupStarts
  BY DEF FineJoints, GroupStarts
<1>7. GroupStarts \subseteq starts' /\ ClassStarts \subseteq starts'
  BY <1>1, <1>4, <1>5, <1>6 DEF LoopInv
<1>8. starts' \subseteq Seeds
  BY <1>1, <1>3 DEF LoopInv
<1> QED
  BY <1>1, <1>3, <1>5, <1>7, <1>8 DEF LoopInv

LEMMA EndFineInv ==
  ASSUME LoopInv, EndFine
  PROVE  LoopInv'
<1>1. /\ stage = "fine" /\ stage' = "coarse" /\ (~ TooMany \/ FineJoints = {})
      /\ UNCHANGED <<items, band, idx, starts, prio, overflow>>
  BY DEF EndFine
<1>2. /\ n' = n /\ Seeds' = Seeds /\ GroupStarts' = GroupStarts
      /\ ClassStarts' = ClassStarts /\ Width' = Width
      /\ FineJoints' = FineJoints /\ TooMany' = TooMany
  BY <1>1 DEF n, Seeds, Joins, GroupStarts, ClassStarts, Width, FineJoints, TooMany
<1>3. Shape'
  BY <1>1, <1>2, GivenStays DEF LoopInv, Shape
<1> QED
  BY <1>1, <1>2, <1>3 DEF LoopInv

LEMMA MergeCoarseInv ==
  ASSUME LoopInv, MergeCoarse
  PROVE  LoopInv'
<1>1. /\ stage = "coarse" /\ stage' = "coarse" /\ TooMany /\ MergeLast(CoarseJoints)
      /\ UNCHANGED <<stage, items, band, idx, prio, overflow>>
  BY DEF MergeCoarse
<1>2. CoarseJoints \subseteq starts
  BY DEF CoarseJoints
<1>3. /\ Shape' /\ n' = n /\ Seeds' = Seeds
      /\ GroupStarts' = GroupStarts /\ ClassStarts' = ClassStarts
      /\ starts' \subseteq starts /\ Width' <= Cardinality(starts')
      /\ FineJoints' \subseteq FineJoints
  BY <1>1, <1>2, MergeFacts
<1>4. PICK s \in CoarseJoints : starts' = starts \ {s}
  BY <1>1, <1>2, MergeFacts
<1>5. s \notin ClassStarts
  BY DEF CoarseJoints, ClassStarts, SameClass
<1>6. ClassStarts \subseteq starts' /\ starts' \subseteq Seeds
  BY <1>1, <1>3, <1>4, <1>5 DEF LoopInv
<1>7. FineJoints' = {}
  BY <1>1, <1>3 DEF LoopInv
<1> QED
  BY <1>1, <1>3, <1>6, <1>7 DEF LoopInv

LEMMA AssignInv ==
  ASSUME LoopInv, Assign
  PROVE  LoopInv'
<1>1. /\ stage = "coarse" /\ stage' = "done" /\ (~ TooMany \/ CoarseJoints = {})
      /\ prio' = [i \in 1 .. n |-> Level(RunOf(starts, i))]
      /\ overflow' = (IF TooMany THEN Report ELSE NoOverflow)
      /\ UNCHANGED <<items, band, idx, starts>>
  BY DEF Assign
<1>2. /\ n' = n /\ Seeds' = Seeds /\ GroupStarts' = GroupStarts
      /\ ClassStarts' = ClassStarts /\ Width' = Width
      /\ FineJoints' = FineJoints /\ CoarseJoints' = CoarseJoints
      /\ TooMany' = TooMany /\ Report' = Report
  BY <1>1 DEF n, Seeds, Joins, GroupStarts, ClassStarts, Width, FineJoints,
              CoarseJoints, TooMany, Report
<1>3. prio' = [i \in 1 .. n' |-> Level(RunOf(starts, i))']
  BY <1>1, <1>2 DEF Level
<1>4. Shape'
  BY <1>1, <1>2, GivenStays DEF LoopInv, Shape
<1> QED
  BY <1>1, <1>2, <1>3, <1>4 DEF LoopInv

\* Whatever the loop does, the invariant holds on, and the argument stays.
LEMMA LoopStep ==
  ASSUME LoopInv, Step
  PROVE  LoopInv' /\ items' = items /\ band' = band
<1>1. CASE OpenRun \/ ExtendRun
  BY <1>1, SeedInv DEF OpenRun, ExtendRun
<1>2. CASE EndSeed
  BY <1>2, EndSeedInv DEF EndSeed
<1>3. CASE MergeFine
  BY <1>3, MergeFineInv DEF MergeFine
<1>4. CASE EndFine
  BY <1>4, EndFineInv DEF EndFine
<1>5. CASE MergeCoarse
  BY <1>5, MergeCoarseInv DEF MergeCoarse
<1>6. CASE Assign
  BY <1>6, AssignInv DEF Assign
<1> QED
  BY <1>1, <1>2, <1>3, <1>4, <1>5, <1>6 DEF Step

LEMMA LoopStutter ==
  ASSUME LoopInv, UNCHANGED <<stage, items, band, idx, starts, prio, overflow>>
  PROVE  LoopInv'
<1>1. /\ n' = n /\ Seeds' = Seeds /\ GroupStarts' = GroupStarts
      /\ ClassStarts' = ClassStarts /\ Width' = Width
      /\ FineJoints' = FineJoints /\ CoarseJoints' = CoarseJoints
      /\ TooMany' = TooMany /\ Report' = Report
  BY DEF n, Seeds, Joins, GroupStarts, ClassStarts, Width, FineJoints,
         CoarseJoints, TooMany, Report
<1>2. \A i : Level(RunOf(starts, i))' = Level(RunOf(starts, i))
  BY DEF Level
<1>3. Shape'
  BY <1>1, GivenStays DEF LoopInv, Shape
<1> QED
  BY <1>1, <1>2, <1>3 DEF LoopInv

-----------------------------------------------------------------------------
(***************************************************************************)
(* What the invariant says of the answer.                                  *)
(***************************************************************************)

\* On the way from a member of a set to a non-member there is a first step out.
LEMMA Boundary ==
  ASSUME NEW i \in Nat, NEW j \in Nat, i < j, NEW C, i \in C, j \notin C
  PROVE  \E s \in i + 1 .. j : s - 1 \in C /\ s \notin C
<1> DEFINE T == {k \in i + 1 .. j : k \notin C}
<1>1. \A k : k \in T <=> k \in i + 1 .. j /\ k \notin C
  OBVIOUS
<1> HIDE DEF T
<1>2. T \subseteq Nat /\ j \in T
  BY <1>1
<1>3. PICK s \in T : \A k \in T : s <= k
  BY <1>2, LeastNatural
<1>4. s \in i + 1 .. j /\ s \notin C
  BY <1>1, <1>3
<1>5. s - 1 = i \/ s - 1 \in i + 1 .. j
  BY <1>4
<1>6. ~ (s <= s - 1)
  BY <1>4
<1>7. s - 1 \in C
  BY <1>1, <1>3, <1>5, <1>6
<1> QED
  BY <1>4, <1>7

\* The facts about a returned call that the theorems below rest on.
LEMMA DoneFacts ==
  ASSUME LoopInv, stage = "done"
  PROVE  /\ IsRankedPlan(items)
         /\ n \in Nat /\ DOMAIN items = 1 .. n
         /\ starts \subseteq 1 .. n /\ Cardinality(starts) \in Nat
         /\ Width \in Nat /\ Width >= 1
         /\ \A i \in 1 .. n : /\ prio[i] = Level(RunOf(starts, i))
                              /\ RunOf(starts, i) \in 1 .. Cardinality(starts)
                              /\ items[i].fine \in Nat
<1>1. Shape
  BY DEF LoopInv
<1>2. /\ IsRankedPlan(items) /\ n \in Nat /\ DOMAIN items = 1 .. n
      /\ \A i \in 1 .. n : items[i].fine \in Nat
  BY <1>1 DEF Shape, Given
<1>3. /\ starts \subseteq 1 .. n /\ Cardinality(starts) \in Nat
      /\ Width \in Nat /\ Width >= 1
  BY <1>1, WidthFacts DEF Shape
<1>4. prio = [i \in 1 .. n |-> Level(RunOf(starts, i))]
  BY DEF LoopInv
<1>5. ASSUME NEW i \in 1 .. n
      PROVE  /\ prio[i] = Level(RunOf(starts, i))
             /\ RunOf(starts, i) \in 1 .. Cardinality(starts)
             /\ items[i].fine \in Nat
  <2>1. i \in Int /\ 0 < 1 /\ 1 <= i /\ n \in Nat
    BY <1>2
  <2>2. 1 \in starts
    BY <2>1 DEF LoopInv, ClassStarts
  <2>3. RunOf(starts, 0) = 0 /\ RunOf(starts, 0) < RunOf(starts, i)
    <3>1. RunOf(starts, 0) = 0
      BY <1>2, <1>3, RunOfBounds
    <3>2. 0 \in Int /\ 0 <= i /\ 0 < 1 /\ 1 <= i
      BY <2>1
    <3>3. \A s \in starts : 0 < s /\ s <= i => RunOf(starts, 0) < RunOf(starts, i)
      BY ONLY <1>2, <1>3, <2>1, <3>2, RunOfSeparates
    <3> QED
      BY <2>2, <3>1, <3>2, <3>3
  <2>4. RunOf(starts, i) \in Nat /\ RunOf(starts, i) <= Cardinality(starts)
    BY <1>2, <1>3, <2>1, RunOfBounds
  <2> QED
    BY <1>2, <1>3, <1>4, <2>3, <2>4
<1> QED
  BY <1>1, <1>2, <1>3, <1>5

\* Levels lie in the band and fall with the run; two runs share one only when
\* both are clamped to the foot of the band.
LEMMA LevelFacts ==
  ASSUME Shape, NEW k \in Nat, NEW l \in Nat, 1 <= k, k <= l
  PROVE  /\ Level(k) \in band.min .. band.max
         /\ Level(l) <= Level(k)
         /\ k < l /\ Level(k) = Level(l) => Level(k) = band.min /\ Width < l
<1>1. /\ band.min \in Int /\ band.max \in Int /\ Width = band.max - band.min + 1
      /\ Width >= 1
  BY WidthFacts
<1> QED
  BY <1>1 DEF Level

\* Runs of two positions, one no later than the other.
LEMMA RunOrder ==
  ASSUME LoopInv, stage = "done", NEW i \in 1 .. n, NEW j \in 1 .. n, i <= j
  PROVE  /\ RunOf(starts, i) \in Nat /\ RunOf(starts, j) \in Nat
         /\ 1 <= RunOf(starts, i)
         /\ RunOf(starts, i) <= RunOf(starts, j)
         /\ RunOf(starts, j) <= Cardinality(starts)
         /\ (\A s \in starts : ~ (s \in i + 1 .. j)) =>
              RunOf(starts, i) = RunOf(starts, j)
         /\ \A s \in starts : s \in i + 1 .. j =>
              RunOf(starts, i) < RunOf(starts, j)
<1>1. /\ n \in Nat /\ starts \subseteq 1 .. n /\ Cardinality(starts) \in Nat
      /\ i \in Int /\ j \in Int
  BY DoneFacts
<1>2. /\ RunOf(starts, i) \in 1 .. Cardinality(starts)
      /\ RunOf(starts, j) \in 1 .. Cardinality(starts)
  BY DoneFacts
<1>3. RunOf(starts, i) <= RunOf(starts, j)
  BY <1>1, RunOfBounds
<1>4. \A s \in starts : s \in i + 1 .. j <=> i < s /\ s <= j
  BY <1>1
<1>5. /\ (\A s \in starts : ~ (i < s /\ s <= j)) => RunOf(starts, i) = RunOf(starts, j)
      /\ \A s \in starts : i < s /\ s <= j => RunOf(starts, i) < RunOf(starts, j)
  BY <1>1, RunOfSeparates
<1> QED
  BY <1>1, <1>2, <1>3, <1>4, <1>5

-----------------------------------------------------------------------------
(***************************************************************************)
(* The answer is a legal assignment, one lemma per promise.                *)
(***************************************************************************)
LEMMA DoneNoInversion ==
  ASSUME LoopInv, stage = "done"
  PROVE  WithinBand(items, band, prio) /\ Descending(items, prio)
<1>1. Shape /\ DOMAIN items = 1 .. n
  BY DoneFacts DEF LoopInv
<1>2. ASSUME NEW i \in 1 .. n
      PROVE  prio[i] \in band.min .. band.max
  <2>1. RunOf(starts, i) \in Nat /\ 1 <= RunOf(starts, i)
    BY DoneFacts
  <2> QED
    BY <1>1, <2>1, LevelFacts, DoneFacts
<1>3. ASSUME NEW i \in 1 .. n, NEW j \in 1 .. n, i < j
      PROVE  prio[j] <= prio[i]
  <2>1. i <= j
    BY <1>3, DoneFacts
  <2>2. Level(RunOf(starts, j)) <= Level(RunOf(starts, i))
    BY <1>1, <2>1, RunOrder, LevelFacts
  <2> QED
    BY <2>2, DoneFacts
<1> QED
  BY <1>1, <1>2, <1>3 DEF WithinBand, Descending

\* A seed between two items means that they are not tied by facts ...
LEMMA UntiedBetween ==
  ASSUME LoopInv, stage = "done", NEW i \in 1 .. n, NEW j \in 1 .. n, i < j,
         \A s \in Seeds : ~ (s \in i + 1 .. j)
  PROVE  TiedByFacts(items, i, j)
<1> DEFINE C == {k \in 1 .. n : TiedByFacts(items, i, k)}
<1>1. SUFFICES ASSUME ~ TiedByFacts(items, i, j)
               PROVE  FALSE
  OBVIOUS
<1>2. i \in C /\ j \notin C /\ i \in Nat /\ j \in Nat /\ n \in Nat
  BY <1>1, DoneFacts DEF TiedByFacts
<1>3. \A k : k \in C <=> k \in 1 .. n /\ TiedByFacts(items, i, k)
  OBVIOUS
<1> HIDE DEF C
<1>4. PICK s \in i + 1 .. j : s - 1 \in C /\ s \notin C
  BY <1>2, Boundary
<1>5. s \in 1 .. n /\ s \notin Seeds
  BY <1>2, <1>4
<1>6. items[s].tie # NoTie /\ items[s - 1].tie = items[s].tie
  BY <1>5 DEF Seeds, Joins
<1>7. TiedByFacts(items, i, s)
  BY <1>3, <1>4, <1>6 DEF TiedByFacts
<1> QED
  BY <1>3, <1>4, <1>5, <1>7

\* ... and items tied by facts have no seed between them.
LEMMA NoSeedBetweenTied ==
  ASSUME LoopInv, stage = "done", NEW i \in 1 .. n, NEW j \in 1 .. n, i < j,
         TiedByFacts(items, i, j), NEW s \in i + 1 .. j
  PROVE  s \notin Seeds
<1>1. n \in Nat /\ i \in Int /\ j \in Int /\ s \in Int
  BY DoneFacts
<1>2. s \in 1 .. n /\ s - 1 \in 1 .. n /\ s > 1 /\ i <= s - 1 /\ s <= j /\ i # j
  BY <1>1
<1>3. items[i].tie # NoTie /\ items[i].tie = items[j].tie
  BY <1>2 DEF TiedByFacts
<1>4. /\ \A k, l \in 1 .. n : k <= l => items[k].fine <= items[l].fine
      /\ \A k, l \in 1 .. n : items[k].fine = items[l].fine =>
           items[k].tie = items[l].tie
      /\ \A k, l \in 1 .. n :
           items[k].tie # NoTie /\ items[k].tie = items[l].tie =>
             items[k].fine = items[l].fine
      /\ \A k \in 1 .. n : items[k].fine \in Nat
  BY DoneFacts DEF IsRankedPlan
<1>5. items[i].fine = items[j].fine
  BY <1>3, <1>4
<1>6. i <= s /\ s - 1 <= j
  BY <1>1, <1>2
<1>7. items[i].fine = items[s].fine /\ items[i].fine = items[s - 1].fine
  BY <1>2, <1>4, <1>5, <1>6
<1>8. items[s].tie = items[i].tie /\ items[s - 1].tie = items[i].tie
  BY <1>2, <1>4, <1>7
<1> QED
  BY <1>2, <1>3, <1>8 DEF Seeds, Joins

LEMMA DoneFactTies == ASSUME LoopInv, stage = "done" PROVE FactTiesShare(items, prio)
<1>1. ASSUME NEW i \in 1 .. n, NEW j \in 1 .. n, i < j, TiedByFacts(items, i, j)
      PROVE  prio[i] = prio[j]
  <2>1. \A s \in starts : ~ (s \in i + 1 .. j)
    BY <1>1, NoSeedBetweenTied DEF LoopInv
  <2>2. i <= j
    BY <1>1, DoneFacts
  <2>3. RunOf(starts, i) = RunOf(starts, j)
    BY <2>1, <2>2, RunOrder
  <2> QED
    BY <2>3, DoneFacts
<1>2. \A i, j \in 1 .. n : i < j \/ i = j \/ j < i
  BY DoneFacts
<1>3. \A i, j \in 1 .. n : TiedByFacts(items, i, j) => TiedByFacts(items, j, i)
  BY DEF TiedByFacts
<1> QED
  BY <1>1, <1>2, <1>3, DoneFacts DEF FactTiesShare

\* Items of two classes lie in different runs.
LEMMA ClassBetween ==
  ASSUME LoopInv, stage = "done", NEW i \in 1 .. n, NEW j \in 1 .. n, i < j,
         ~ SameClass(items, i, j)
  PROVE  \E s \in starts : s \in i + 1 .. j
<1> DEFINE C == {k \in 1 .. n : SameClass(items, i, k)}
<1>1. i \in C /\ j \notin C /\ i \in Nat /\ j \in Nat /\ n \in Nat
  BY DoneFacts DEF SameClass
<1>2. \A k : k \in C <=> k \in 1 .. n /\ SameClass(items, i, k)
  OBVIOUS
<1> HIDE DEF C
<1>3. PICK s \in i + 1 .. j : s - 1 \in C /\ s \notin C
  BY <1>1, Boundary
<1>4. s \in 1 .. n
  BY <1>1, <1>3
<1>5. ~ SameClass(items, s - 1, s)
  BY <1>2, <1>3, <1>4 DEF SameClass
<1>6. s \in ClassStarts /\ ClassStarts \subseteq starts
  BY <1>4, <1>5 DEF ClassStarts, LoopInv
<1> QED
  BY <1>3, <1>6

\* The first item of the run that holds position j, which is of j's class.
LEMMA RunHead ==
  ASSUME LoopInv, stage = "done", NEW j \in 1 .. n
  PROVE  \E s \in starts : /\ RunOf(starts, s) = RunOf(starts, j)
                           /\ items[s].coarse = items[j].coarse
<1> DEFINE T == {k \in 1 .. n : RunOf(starts, k) = RunOf(starts, j)}
<1>1. n \in Nat /\ starts \subseteq 1 .. n /\ j \in Nat
  BY DoneFacts
<1>2. \A k : k \in T <=> k \in 1 .. n /\ RunOf(starts, k) = RunOf(starts, j)
  OBVIOUS
<1> HIDE DEF T
<1>3. T \subseteq Nat /\ j \in T
  BY <1>1, <1>2
<1>4. PICK s \in T : \A k \in T : s <= k
  BY <1>3, LeastNatural
<1>5. s \in 1 .. n /\ s <= j /\ RunOf(starts, s) = RunOf(starts, j)
  BY <1>2, <1>3, <1>4
<1>6. s \in starts
  <2>1. CASE s = 1
    BY <2>1, <1>5 DEF LoopInv, ClassStarts
  <2>2. CASE s # 1 /\ s \notin starts
    <3>1. s - 1 \in 1 .. n /\ s - 1 <= s /\ ~ (s <= s - 1) /\ s - 1 + 1 = s
      BY <1>1, <1>5, <2>2
    <3>2. \A t \in starts : ~ (t \in s - 1 + 1 .. s)
      BY <1>5, <2>2, <3>1
    <3>3. RunOf(starts, s - 1) = RunOf(starts, s)
      BY <1>5, <3>1, <3>2, RunOrder
    <3>4. s - 1 \in T
      BY <1>2, <1>5, <3>1, <3>3
    <3> QED
      BY <1>4, <3>1, <3>4
  <2> QED
    BY <2>1, <2>2
<1>7. items[s].coarse = items[j].coarse
  <2>1. CASE s = j
    BY <2>1
  <2>2. CASE s < j /\ ~ SameClass(items, s, j)
    <3>1. PICK t \in starts : t \in s + 1 .. j
      BY <1>5, <2>2, ClassBetween
    <3>2. RunOf(starts, s) < RunOf(starts, j)
      BY <1>5, <3>1, RunOrder
    <3>3. RunOf(starts, s) \in Nat
      BY <1>5, RunOrder
    <3> QED
      BY <1>5, <3>2, <3>3
  <2>3. CASE SameClass(items, s, j)
    BY <2>3 DEF SameClass
  <2> QED
    BY <1>1, <1>5, <2>1, <2>2, <2>3
<1> QED
  BY <1>5, <1>6, <1>7

LEMMA DoneCrossTies ==
  ASSUME LoopInv, stage = "done"
  PROVE  CrossTiesReported(items, band, prio, overflow)
<1>1. SUFFICES ASSUME NEW i \in 1 .. n, NEW j \in 1 .. n, i < j,
                      prio[i] = prio[j], ~ SameClass(items, i, j)
               PROVE  /\ overflow # NoOverflow
                      /\ prio[i] = band.min
                      /\ items[j].coarse \in overflow.clamped
  BY DoneFacts DEF CrossTiesReported
<1> DEFINE k == RunOf(starts, i)
           l == RunOf(starts, j)
<1>2. i <= j /\ n \in Nat /\ Cardinality(starts) \in Nat /\ Width \in Nat
  BY <1>1, DoneFacts
<1>3. k \in Nat /\ l \in Nat /\ 1 <= k /\ k < l /\ k <= l /\ l <= Cardinality(starts)
  <2>1. \E s \in starts : s \in i + 1 .. j
    BY <1>1, ClassBetween
  <2> QED
    BY <1>2, <2>1, RunOrder
<1>4. prio[i] = Level(k) /\ prio[j] = Level(l) /\ Shape
  BY DoneFacts DEF LoopInv
<1> HIDE DEF k, l
<1>5. prio[i] = band.min /\ Width < l
  BY <1>1, <1>3, <1>4, LevelFacts
<1>6. overflow = Report
  BY <1>2, <1>3, <1>5 DEF LoopInv, TooMany
<1>7. overflow # NoOverflow
  <2>1. Report.width = Width /\ NoOverflow.width = 0
    BY DEF Report, NoOverflow
  <2>2. Width >= 1 /\ Width \in Nat
    BY DoneFacts
  <2> QED
    BY <1>6, <2>1, <2>2
<1>8. PICK s \in starts : RunOf(starts, s) = l /\ items[s].coarse = items[j].coarse
  BY RunHead DEF l
<1>9. s \in {t \in starts : RunOf(starts, t) > Width}
  BY <1>2, <1>3, <1>5, <1>8
<1>10. items[j].coarse \in overflow.clamped
  BY <1>6, <1>8, <1>9 DEF Report
<1> QED
  BY <1>5, <1>7, <1>10

LEMMA DoneLastResort ==
  ASSUME LoopInv, stage = "done"
  PROVE  ReportIsLastResort(items, prio, overflow)
<1>1. SUFFICES ASSUME overflow # NoOverflow, NEW i \in (1 .. n) \ {1},
                      SameClass(items, i - 1, i)
               PROVE  prio[i - 1] = prio[i]
  BY DoneFacts DEF ReportIsLastResort
<1>2. FineJoints = {} /\ CoarseJoints = {}
  BY <1>1 DEF LoopInv
<1>3. i - 1 \in 1 .. n /\ i \in 1 .. n /\ i # 1 /\ i - 1 <= i
  BY DoneFacts
<1>4. i \notin starts
  BY <1>1, <1>2, <1>3 DEF FineJoints, CoarseJoints, SameClass
<1>5. \A s \in starts : ~ (s \in i - 1 + 1 .. i)
  <2>1. \A s \in i - 1 + 1 .. i : s = i
    BY <1>3
  <2> QED
    BY <1>4, <2>1
<1>6. RunOf(starts, i - 1) = RunOf(starts, i)
  BY <1>3, <1>5, RunOrder
<1> QED
  BY <1>3, <1>6, DoneFacts

\* Runs that fit into the band get priorities of their own.
LEMMA LevelsApart ==
  ASSUME LoopInv, stage = "done", ~ TooMany, NEW i \in 1 .. n, NEW j \in 1 .. n, i < j,
         NEW s \in starts, s \in i + 1 .. j
  PROVE  prio[i] # prio[j]
<1>1. i <= j /\ Cardinality(starts) \in Nat /\ Width \in Nat /\ Shape
  BY DoneFacts DEF LoopInv
<1>2. Cardinality(starts) <= Width
  BY <1>1 DEF TooMany
<1>3. /\ RunOf(starts, i) \in Nat /\ RunOf(starts, j) \in Nat
      /\ 1 <= RunOf(starts, i)
      /\ RunOf(starts, i) < RunOf(starts, j)
      /\ RunOf(starts, i) <= RunOf(starts, j)
      /\ RunOf(starts, j) <= Cardinality(starts)
  BY <1>1, RunOrder
<1>4. ~ (Width < RunOf(starts, j))
  BY <1>1, <1>2, <1>3
<1>5. Level(RunOf(starts, i)) # Level(RunOf(starts, j))
  BY <1>1, <1>3, <1>4, LevelFacts
<1> QED
  BY <1>5, DoneFacts

LEMMA DoneScarcity ==
  ASSUME LoopInv, stage = "done"
  PROVE  TiesOnlyUnderScarcity(items, band, prio)
<1>1. CASE Width <= Cardinality(starts)
  <2>1. ASSUME NEW p \in band.min .. band.max
        PROVE  \E k \in 1 .. n : prio[k] = p
    <3>1. /\ band.min \in Int /\ band.max \in Int /\ Width = band.max - band.min + 1
          /\ n \in Nat /\ starts \subseteq 1 .. n /\ Cardinality(starts) \in Nat
      BY WidthFacts DEF LoopInv, Shape
    <3>2. band.max - p + 1 \in 1 .. Cardinality(starts)
      BY <1>1, <3>1
    <3>3. \A r \in 1 .. Cardinality(starts) : \E k \in 1 .. n : RunOf(starts, k) = r
      <4>1. n \in Nat /\ starts \subseteq 1 .. n
        BY <3>1
      <4> QED
        BY ONLY <4>1, RunOfOnto, Zenon
    <3>4. PICK k \in 1 .. n : RunOf(starts, k) = band.max - p + 1
      BY <3>2, <3>3
    <3>5. Level(band.max - p + 1) = p
      BY <3>1 DEF Level
    <3> QED
      BY <3>4, <3>5, DoneFacts
  <2> QED
    BY <2>1, DoneFacts DEF TiesOnlyUnderScarcity
<1>2. CASE starts = Seeds /\ ~ (Width <= Cardinality(starts))
  <2>1. ~ TooMany
    BY <1>2, DoneFacts DEF TooMany
  <2>2. ASSUME NEW i \in 1 .. n, NEW j \in 1 .. n, i < j, prio[i] = prio[j]
        PROVE  TiedByFacts(items, i, j)
    BY <1>2, <2>1, <2>2, LevelsApart, UntiedBetween
  <2>3. \A i, j \in 1 .. n : i < j \/ i = j \/ j < i
    BY DoneFacts
  <2>4. \A i, j \in 1 .. n : TiedByFacts(items, i, j) => TiedByFacts(items, j, i)
    BY DEF TiedByFacts
  <2>5. \A i \in 1 .. n : TiedByFacts(items, i, i)
    BY DEF TiedByFacts
  <2> QED
    BY <2>2, <2>3, <2>4, <2>5, DoneFacts DEF TiesOnlyUnderScarcity
<1> QED
  BY <1>1, <1>2 DEF LoopInv

LEMMA DoneSegmentsFirst ==
  ASSUME LoopInv, stage = "done"
  PROVE  SegmentsFirst(items, prio)
<1>1. \A i, j \in 1 .. n : i < j \/ i = j \/ j < i
  BY DoneFacts
<1>2. CASE FineJoints = {}
  <2>1. ASSUME NEW i \in 1 .. n, NEW j \in 1 .. n, i < j,
               items[i].fine = items[j].fine
        PROVE  prio[i] = prio[j]
    <3>1. ASSUME NEW s \in starts, s \in i + 1 .. j
          PROVE  FALSE
      <4>1. n \in Nat /\ i \in Int /\ j \in Int /\ s \in Int
        BY <3>1, DoneFacts
      <4>2. /\ s \in 1 .. n /\ s - 1 \in 1 .. n /\ s # 1
            /\ i <= s - 1 /\ s <= j /\ i <= s /\ s - 1 <= j
        BY <3>1, <4>1
      <4>3. /\ \A k, l \in 1 .. n : k <= l => items[k].fine <= items[l].fine
            /\ \A k \in 1 .. n : items[k].fine \in Nat
        BY DoneFacts DEF IsRankedPlan
      <4>4. items[s - 1].fine = items[i].fine /\ items[s].fine = items[i].fine
        BY <2>1, <4>2, <4>3
      <4> QED
        BY <1>2, <4>2, <4>4 DEF FineJoints
    <3>2. i <= j
      BY <2>1, DoneFacts
    <3> QED
      BY <3>1, <3>2, RunOrder, DoneFacts
  <2> QED
    BY <1>1, <2>1, DoneFacts DEF SegmentsFirst
<1>3. CASE GroupStarts \subseteq starts /\ ~ TooMany
  <2>1. ASSUME NEW i \in 1 .. n, NEW j \in 1 .. n, i < j,
               items[i].fine # items[j].fine
        PROVE  prio[i] # prio[j]
    <3> DEFINE C == {k \in 1 .. n : items[k].fine = items[i].fine}
    <3>1. i \in C /\ j \notin C /\ i \in Nat /\ j \in Nat /\ n \in Nat
      BY <2>1, DoneFacts
    <3>2. \A k : k \in C <=> k \in 1 .. n /\ items[k].fine = items[i].fine
      OBVIOUS
    <3> HIDE DEF C
    <3>3. PICK s \in i + 1 .. j : s - 1 \in C /\ s \notin C
      BY <2>1, <3>1, Boundary
    <3>4. s \in 1 .. n /\ items[s - 1].fine # items[s].fine
      BY <3>1, <3>2, <3>3
    <3>5. s \in starts
      BY <1>3, <3>4 DEF GroupStarts
    <3> QED
      BY <1>3, <2>1, <3>3, <3>5, LevelsApart
  <2> QED
    BY <1>1, <2>1, DoneFacts DEF SegmentsFirst
<1> QED
  BY <1>2, <1>3 DEF LoopInv

\* A returned call has made a legal assignment.
LEMMA DoneLegal ==
  ASSUME LoopInv, stage = "done"
  PROVE  LegalAssignment(items, band, prio, overflow)
BY DoneNoInversion, DoneFactTies, DoneCrossTies, DoneLastResort, DoneScarcity,
   DoneSegmentsFirst DEF LegalAssignment
=============================================================================
