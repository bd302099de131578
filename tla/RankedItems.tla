---------------------------- MODULE RankedItems ----------------------------
(***************************************************************************)
(* The data that the platform-agnostic half of the `chain_aware` mapper    *)
(* (sched/src/chain_aware_mapper.rs) hands to its `posix` half: a ranked   *)
(* plan, which is a sequence of rank items, highest priority first, and    *)
(* what the crate's documentation promises of the priorities given to it.  *)
(*                                                                         *)
(* An item is any record with these fields:                                *)
(*   fine    the finest mergeable scope: a segment or a boundary run of a  *)
(*           chain, or a bucket of equal facts outside every chain;        *)
(*   coarse  the chain, or NoChain outside every chain;                    *)
(*   tie     the bucket whose members always share one rank, or NoTie.     *)
(***************************************************************************)
EXTENDS Integers, Sequences, FiniteSets

CONSTANTS NoChain, NoTie

\* No report of a band that was too narrow; no band has the width 0.
NoOverflow == [classes |-> 0, width |-> 0, clamped |-> {}]

(***************************************************************************)
(* The shape chain_aware_rank gives every plan: groups are numbered in the *)
(* order in which they are emitted, each belongs to one chain or to one    *)
(* bucket, and all chains lie ahead of all buckets.  The items of a chain  *)
(* need not lie together: `coarse` holds the chain's NAME, and two scopes  *)
(* may give the same name to two chains.                                   *)
(***************************************************************************)
IsRankedPlan(its) ==
  /\ \A i, j \in DOMAIN its :
       /\ i <= j => its[i].fine <= its[j].fine
       /\ its[i].fine = its[j].fine =>
            its[i].coarse = its[j].coarse /\ its[i].tie = its[j].tie
       /\ i < j /\ its[i].coarse = NoChain => its[j].coarse = NoChain
       /\ its[i].tie # NoTie /\ its[i].tie = its[j].tie =>
            its[i].fine = its[j].fine
  /\ \A i \in DOMAIN its : its[i].coarse = NoChain <=> its[i].tie # NoTie

\* Items that scarcity may push together: those of one chain, by its name, and
\* those of one bucket of equal facts.
SameClass(its, i, j) ==
  /\ its[i].coarse = its[j].coarse
  /\ its[i].coarse = NoChain => its[i].fine = its[j].fine

\* Items that always share a rank: equal facts, not scarcity.
TiedByFacts(its, i, j) ==
  i = j \/ (its[i].tie # NoTie /\ its[i].tie = its[j].tie)

\* Every priority is one the platform file allows.
WithinBand(its, band, prio) ==
  \A i \in DOMAIN its : prio[i] \in band.min .. band.max

\* A later rank never gets a higher priority than an earlier one.
Descending(its, prio) ==
  \A i, j \in DOMAIN its : i < j => prio[j] <= prio[i]

\* Equal facts earn equal priority.
FactTiesShare(its, prio) ==
  \A i, j \in DOMAIN its : TiedByFacts(its, i, j) => prio[i] = prio[j]

\* Two items of different classes meet only where the band has run out, and
\* then the report names the owner of the one that was pushed down.
CrossTiesReported(its, band, prio, overflow) ==
  \A i, j \in DOMAIN its :
    i < j /\ prio[i] = prio[j] /\ ~ SameClass(its, i, j) =>
      /\ overflow # NoOverflow
      /\ prio[i] = band.min
      /\ its[j].coarse \in overflow.clamped

\* The report is made only when every permitted merge has been made.
ReportIsLastResort(its, prio, overflow) ==
  overflow # NoOverflow =>
    \A i \in DOMAIN its \ {1} : SameClass(its, i - 1, i) => prio[i - 1] = prio[i]

\* A tie that the facts do not ask for means that no priority is left over.
TiesOnlyUnderScarcity(its, band, prio) ==
  (\E i, j \in DOMAIN its : prio[i] = prio[j] /\ ~ TiedByFacts(its, i, j)) =>
    \A p \in band.min .. band.max : \E k \in DOMAIN its : prio[k] = p

\* Whole segments of a chain are merged only after every segment has been
\* merged into one rank.
SegmentsFirst(its, prio) ==
  (\E i, j \in DOMAIN its : /\ its[i].fine # its[j].fine
                            /\ SameClass(its, i, j)
                            /\ prio[i] = prio[j]) =>
    \A k, l \in DOMAIN its : its[k].fine = its[l].fine => prio[k] = prio[l]

LegalAssignment(its, band, prio, overflow) ==
  /\ WithinBand(its, band, prio)
  /\ Descending(its, prio)
  /\ FactTiesShare(its, prio)
  /\ CrossTiesReported(its, band, prio, overflow)
  /\ ReportIsLastResort(its, prio, overflow)
  /\ TiesOnlyUnderScarcity(its, band, prio)
  /\ SegmentsFirst(its, prio)
=============================================================================
