-------------------------- MODULE IncidentContract --------------------------
(***************************************************************************)
(* What the API promises of one incident: the lifecycle is walked one state *)
(* at a time, a root cause analysis is given at most once and never changes, *)
(* an incident is closed only with one, and a closed incident's MTTR is the  *)
(* one of its analysis.  Module IncidentLifecycle implements this.           *)
(***************************************************************************)
EXTENDS Integers

CONSTANTS
  Ends,   \* incident_end values, in seconds after first_signal_at
  Null    \* not given yet

VARIABLES status, rca, mttr

cvars == <<status, rca, mttr>>

Init == status = "OPEN" /\ rca = Null /\ mttr = Null

Advance ==
  /\ \/ status = "OPEN" /\ status' = "INVESTIGATING"
     \/ status = "INVESTIGATING" /\ status' = "RESOLVED"
  /\ UNCHANGED <<rca, mttr>>

Analyse ==
  /\ rca = Null /\ rca' \in Ends
  /\ UNCHANGED <<status, mttr>>

Measure ==
  /\ rca # Null /\ mttr' = rca
  /\ UNCHANGED <<status, rca>>

Close ==
  /\ status = "RESOLVED" /\ rca # Null
  /\ status' = "CLOSED" /\ mttr' = rca
  /\ UNCHANGED rca

Next == Advance \/ Analyse \/ Measure \/ Close

Spec == Init /\ [][Next]_cvars
=============================================================================
