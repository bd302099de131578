----------------------------- MODULE PosixFacts -----------------------------
(***************************************************************************)
(* What every mapper shares on a Linux target: the band it may spend (from *)
(* the platform file) and the answer to "what does a tie mean".            *)
(*                                                                         *)
(* A platform is a record [target, band, slice]: target is "posix" or      *)
(* "raw", band a record [min, max] or NoBand, slice the host's global      *)
(* SCHED_RR slice or NoSlice.                                              *)
(***************************************************************************)
EXTENDS Integers, FiniteSets

CONSTANTS NoBand, NoSlice, NoPeriod

\* sched_get_priority_min(2) and max for SCHED_FIFO and SCHED_RR.
PosixPriorities == 1 .. 99

\* PriorityBand::validate_posix.
ValidPosix(band) ==
  band.min <= band.max /\ {band.min, band.max} \subseteq PosixPriorities

\* require_posix_band: why a platform has no band to offer, or "ok".
BandVerdict(platform) ==
  IF platform.target # "posix" \/ platform.band = NoBand THEN "missing"
  ELSE IF ValidPosix(platform.band) THEN "ok" ELSE "invalid"

\* The slice a mapper may reckon with.
SliceOf(platform) == IF platform.target = "posix" THEN platform.slice ELSE NoSlice

-----------------------------------------------------------------------------
(***************************************************************************)
(* rr_policy_for_ties.  `prio` gives every ranked node its priority,       *)
(* `period` the shortest period it runs at, or NoPeriod.                   *)
(***************************************************************************)
\* Nodes that hold one priority together.
Ties(prio) ==
  {t \in {{m \in DOMAIN prio : prio[m] = prio[k]} : k \in DOMAIN prio} :
     Cardinality(t) >= 2}

PeriodsOf(tie, period) == {period[m] : m \in tie} \ {NoPeriod}

\* Mutant of SliceIsUseful: a slice as long as the period counts as useful.
SliceUsefulAtEquality(tie, period, slice) ==
  /\ slice # NoSlice
  /\ PeriodsOf(tie, period) # {}
  /\ \A p \in PeriodsOf(tie, period) : slice <= p

\* Rotation helps only when the slice is shorter than the shortest period.
SliceIsUseful(tie, period, slice) ==
  /\ slice # NoSlice
  /\ PeriodsOf(tie, period) # {}
  /\ \A p \in PeriodsOf(tie, period) : slice < p

\* The nodes that get SCHED_RR.
RRNodes(prio, period, slice) ==
  UNION {t \in Ties(prio) : SliceIsUseful(t, period, slice)}

\* The ties that stay and are reported (UnmitigatedPriorityTie).
UnmitigatedTies(prio, period, slice) ==
  {t \in Ties(prio) : ~ SliceIsUseful(t, period, slice)}
=============================================================================
