----------------------------- MODULE MCIngestion -----------------------------
(* Instance of Ingestion for TLC. *)
EXTENDS Ingestion, TLC

CONSTANTS q1, q2   \* requests

\* Two single signals.
MCSingles == (q1 :> 1) @@ (q2 :> 1)
=============================================================================
