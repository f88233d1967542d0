----------------------------- MODULE MCAdmission -----------------------------
(* Instance of Admission for TLC. *)
EXTENDS Admission, TLC

CONSTANTS q1, q2   \* requests

\* A batch of three signals, two chunks, and a single signal.
MCSizes == (q1 :> 3) @@ (q2 :> 1)
=============================================================================
