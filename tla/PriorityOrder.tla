--------------------------- MODULE PriorityOrder ---------------------------
(***************************************************************************)
(* What band compression promises its caller, without how it is done: a    *)
(* ranked plan and a band go in, and one step later there is some legal    *)
(* assignment of priorities (RankedItems) and, when the band was too       *)
(* narrow, a report.  BandCompression implements this specification.       *)
(***************************************************************************)
EXTENDS RankedItems

CONSTANTS Items, Plans, Bands

VARIABLES phase, items, band, prio, overflow

vars == <<phase, items, band, prio, overflow>>

Init ==
  /\ phase = "idle"
  /\ items = <<>>
  /\ band \in Bands
  /\ prio = <<>>
  /\ overflow = NoOverflow

\* The realizer hands a ranked plan over.
Request ==
  /\ phase = "idle"
  /\ phase' = "ready"
  /\ items' \in Plans
  /\ UNCHANGED <<band, prio, overflow>>

\* Priorities appear all at once, in some legal way.
Grant ==
  /\ phase = "ready"
  /\ phase' = "done"
  /\ prio' \in [DOMAIN items -> Int]
  /\ LegalAssignment(items, band, prio', overflow')
  /\ UNCHANGED <<items, band>>

Next == Request \/ Grant

Spec == Init /\ [][Next]_vars
=============================================================================
