-------------------------- MODULE BandCompression --------------------------
(***************************************************************************)
(* Band compression on its own: assign_priorities_compressed as a function *)
(* that is called with some ranked plan and some band, and what it         *)
(* promises its caller.                                                    *)
(***************************************************************************)
EXTENDS BandLoop

CONSTANTS
  Items,  \* the rank items
  Plans,  \* the ranked plans a caller may hand over
  Bands   \* the bands a platform file may declare: records [min, max]

vars == <<stage, items, band, idx, starts, prio, overflow>>

\* Bands reach this function only after validate_posix has accepted them.
ASSUME BandsAssumption ==
  \A b \in Bands : b.min \in Int /\ b.max \in Int /\ b.min <= b.max

ASSUME PlansAssumption == \A p \in Plans : p \in Seq(Items) /\ IsRankedPlan(p)

\* Groups are numbered (u32).
ASSUME ItemsAssumption == \A x \in Items : x.fine \in Nat

Reports == [classes : Nat, width : Nat, clamped : SUBSET {x.coarse : x \in Items}]

Init ==
  /\ stage = "idle"
  /\ items = <<>>
  /\ band \in Bands
  /\ idx = 1
  /\ starts = {}
  /\ prio = <<>>
  /\ overflow = NoOverflow

\* The call.  An empty plan is answered by the early return, in Assign.
Call ==
  /\ stage = "idle"
  /\ items' \in Plans
  /\ stage' = "seed"
  /\ UNCHANGED <<band, idx, starts, prio, overflow>>

\* The function has returned.
Returned == stage = "done" /\ UNCHANGED vars

Next == Call \/ Step \/ Returned

\* A function that has been called keeps running.
Spec == Init /\ [][Next]_vars /\ WF_vars(Step)

-----------------------------------------------------------------------------
(***************************************************************************)
(* Properties.                                                             *)
(***************************************************************************)

\* The types of the variables.
TypeOK ==
  /\ stage \in {"idle", "seed", "fine", "coarse", "done"}
  /\ items \in Seq(Items)
  /\ band \in Bands
  /\ idx \in 1 .. n + 1
  /\ starts \subseteq 1 .. n
  /\ prio \in Seq(Int)
  /\ Len(prio) = (IF stage = "done" THEN n ELSE 0)
  /\ overflow \in Reports \cup {NoOverflow}

\* "Clamping introduces ties, never inversions", and never leaves the band:
\* the comment at the fallback of assign_priorities_compressed.
NoInversion ==
  stage = "done" => WithinBand(items, band, prio) /\ Descending(items, prio)

\* Equal facts always share a priority, and items of two chains, of a chain and
\* a bucket or of two buckets share one only at the foot of a band that is
\* reported as too narrow, with the owner of the item that was pushed down.
TiesAreExplained ==
  stage = "done" => /\ FactTiesShare(items, prio)
                 /\ CrossTiesReported(items, band, prio, overflow)
                 /\ ReportIsLastResort(items, prio, overflow)

\* Ranks are merged only while the band is too narrow for them, one at a time:
\* when two different facts share a priority, every priority is in use.
NoNeedlessTie == stage = "done" => TiesOnlyUnderScarcity(items, band, prio)

\* The loop implements the promise: one atomic, legal assignment per call.
Order == INSTANCE PriorityOrder
           WITH phase <- IF stage \in {"idle", "done"} THEN stage ELSE "ready"

ImplementsOrder == Order!Spec

\* Every call returns: the merging loops end although nothing counts them.
Terminates == (stage = "seed") ~> (stage = "done")
=============================================================================
