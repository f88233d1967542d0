------------------------- MODULE MCIncidentLifecycle -------------------------
(* Instances of IncidentLifecycle for TLC. *)
EXTENDS IncidentLifecycle

\* An ordinary end and one out of range on each side.
MCEnds == {-9, 2, 9}
MCIntMin == -5
=============================================================================
