------------------------------ MODULE BandLoop ------------------------------
(***************************************************************************)
(* assign_priorities_compressed (sched/src/chain_aware_mapper.rs): the     *)
(* loop that fits a ranked plan into the platform's real-time band.        *)
(*                                                                         *)
(* The code keeps a vector of runs (start, end) which covers the plan from *)
(* left to right without gaps.  A run ends where the next one starts, so   *)
(* the set `starts` of the first positions says the same: merging two      *)
(* adjacent runs removes the start of the second, and the index of a run   *)
(* is the number of starts up to it.  Positions count from 1.              *)
(*                                                                         *)
(* BandCompression calls the loop on its own, ChainAware from the mapper.  *)
(***************************************************************************)
EXTENDS RankedItems

VARIABLES
  stage,     \* where the function is
  items,     \* its argument, the ranked plan
  band,      \* its argument, the band: a record [min, max]
  idx,       \* the item the seeding loop looks at
  starts,    \* the first position of every run
  prio,      \* the priority of every item
  overflow   \* what is reported when the band is too narrow

-----------------------------------------------------------------------------
n == Len(items)

Width == IF band.max - band.min + 1 < 1 THEN 1 ELSE band.max - band.min + 1

\* The number of runs that start at or before position i: the 1-based index of
\* the run that holds i.
RunOf(S, i) == Cardinality({s \in S : s <= i})

\* Mutant of TooMany: merging goes on when the runs already fit.
TooManyOffByOne == Cardinality(starts) >= Width

TooMany == Cardinality(starts) > Width

\* Item i continues the run of the item before it: they carry the same tie.
Joins(i) == i > 1 /\ items[i].tie # NoTie /\ items[i - 1].tie = items[i].tie

\* Runs that pass 1 may merge into the run before them, by their start.
FineJoints == {s \in starts \ {1} : items[s - 1].fine = items[s].fine}

\* Mutant of CoarseJoints: without the is_some() test buckets merge as well.
CoarseJointsOfAnyOwner ==
  {s \in starts \ {1} : items[s - 1].coarse = items[s].coarse}

\* Runs that pass 2 may merge: both sides belong to the same chain.
CoarseJoints ==
  {s \in starts \ {1} : /\ items[s - 1].coarse # NoChain
                        /\ items[s - 1].coarse = items[s].coarse}

\* The seeding loop opens a run at idx ...
OpenRun ==
  /\ stage = "seed"
  /\ idx <= n
  /\ ~ Joins(idx)
  /\ starts' = starts \cup {idx}
  /\ idx' = idx + 1
  /\ UNCHANGED <<stage, items, band, prio, overflow>>

\* ... or its inner loop extends the open run over idx.
ExtendRun ==
  /\ stage = "seed"
  /\ idx <= n
  /\ Joins(idx)
  /\ idx' = idx + 1
  /\ UNCHANGED <<stage, items, band, starts, prio, overflow>>

EndSeed ==
  /\ stage = "seed"
  /\ idx > n
  /\ stage' = "fine"
  /\ UNCHANGED <<items, band, idx, starts, prio, overflow>>

\* Mutant of MergeLast: the second run is not removed.
MergeLastKeepsRun(joints) ==
  \E s \in joints :
    /\ \A t \in joints : t <= s
    /\ starts' = starts

\* try_merge_tail_first: the last joint is merged, the loop starts again.
MergeLast(joints) ==
  \E s \in joints :
    /\ \A t \in joints : t <= s
    /\ starts' = starts \ {s}

\* Mutant of MergeFine: pass 1 merges over the borders of segments.
MergeFineAsCoarse ==
  /\ stage = "fine"
  /\ TooMany
  /\ MergeLast(CoarseJoints)
  /\ UNCHANGED <<stage, items, band, idx, prio, overflow>>

\* Pass 1: within a segment, a boundary run or a bucket.
MergeFine ==
  /\ stage = "fine"
  /\ TooMany
  /\ MergeLast(FineJoints)
  /\ UNCHANGED <<stage, items, band, idx, prio, overflow>>

EndFine ==
  /\ stage = "fine"
  /\ ~ TooMany \/ FineJoints = {}
  /\ stage' = "coarse"
  /\ UNCHANGED <<items, band, idx, starts, prio, overflow>>

\* Pass 2: within a chain, never across chains or buckets.
MergeCoarse ==
  /\ stage = "coarse"
  /\ TooMany
  /\ MergeLast(CoarseJoints)
  /\ UNCHANGED <<stage, items, band, idx, prio, overflow>>

\* Mutant of Level: dense ranks run past the foot of the band.
LevelUnclamped(k) == band.max - (k - 1)

\* The priority of a run: dense from the top of the band, clamped to its foot.
Level(k) == IF band.max - (k - 1) < band.min THEN band.min ELSE band.max - (k - 1)

\* The report of a band that stayed too narrow.
Report ==
  [classes |-> Cardinality(starts),
   width   |-> Width,
   clamped |-> {items[s].coarse : s \in {t \in starts : RunOf(starts, t) > Width}}]

\* Mutant of Assign: one priority per run is returned, not one per item.
AssignPerRun ==
  /\ stage = "coarse"
  /\ ~ TooMany \/ CoarseJoints = {}
  /\ stage' = "done"
  /\ prio' = [k \in 1 .. Cardinality(starts) |-> Level(k)]
  /\ overflow' = IF TooMany THEN Report ELSE NoOverflow
  /\ UNCHANGED <<items, band, idx, starts>>

Assign ==
  /\ stage = "coarse"
  /\ ~ TooMany \/ CoarseJoints = {}
  /\ stage' = "done"
  /\ prio' = [i \in 1 .. n |-> Level(RunOf(starts, i))]
  /\ overflow' = IF TooMany THEN Report ELSE NoOverflow
  /\ UNCHANGED <<items, band, idx, starts>>

Step ==
  OpenRun \/ ExtendRun \/ EndSeed \/ MergeFine \/ EndFine \/ MergeCoarse \/ Assign
=============================================================================
