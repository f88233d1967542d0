----------------------------- MODULE MCDashboard -----------------------------
(* Instances of Dashboard for TLC. *)
EXTENDS Dashboard, TLC

CONSTANT r1   \* a page

\* One page on the tab that shows every active incident.
MCAll == (r1 :> "ALL")

\* Nobody looks.
MCNobody == [r \in {} |-> "ALL"]
=============================================================================
