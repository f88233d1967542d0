------------------------- MODULE ComponentIncidents -------------------------
(***************************************************************************)
(* What deduplication promises of the incidents of one component, without    *)
(* debounce keys, locks, retries or TTLs: an incident is opened by a signal   *)
(* while no more are active than locks have expired under their owners,       *)
(* signals are linked to incidents that exist, no link is taken back, a        *)
(* closed incident stays closed, and a signal is settled only when it is       *)
(* linked.  A signal that is given up is never settled.                       *)
(* Module Debounce implements this specification (DebounceProofs).           *)
(***************************************************************************)
EXTENDS Integers, FiniteSets

CONSTANTS Signals, Items

VARIABLES
  status,    \* of each item: "absent", "active" or "closed"
  linked,    \* of each signal: the items that counted it
  settled,   \* signals whose processing is complete
  overruns   \* locks that expired under their owners

civars == <<status, linked, settled, overruns>>

Init ==
  /\ status = [i \in Items |-> "absent"]
  /\ linked = [s \in Signals |-> {}]
  /\ settled = {} /\ overruns = 0

Link(s, i) == linked' = [linked EXCEPT ![s] = @ \cup {i}]

\* The lock owner has found no active incident, but its lock may have expired since.
Open(s, i) ==
  /\ Cardinality({j \in Items : status[j] = "active"}) <= overruns
  /\ status[i] = "absent"
  /\ status' = [status EXCEPT ![i] = "active"]
  /\ Link(s, i)
  /\ UNCHANGED <<settled, overruns>>

Add(s, i) ==
  /\ status[i] # "absent"
  /\ Link(s, i)
  /\ UNCHANGED <<status, settled, overruns>>

Settle(s) ==
  /\ linked[s] # {}
  /\ settled' = settled \cup {s}
  /\ UNCHANGED <<status, linked, overruns>>

Close(i) ==
  /\ status[i] = "active"
  /\ status' = [status EXCEPT ![i] = "closed"]
  /\ UNCHANGED <<linked, settled, overruns>>

Overrun ==
  /\ overruns' = overruns + 1
  /\ UNCHANGED <<status, linked, settled>>

Next ==
  \/ \E s \in Signals \ settled :
       Settle(s) \/ \E i \in Items : Open(s, i) \/ Add(s, i)
  \/ \E i \in Items : Close(i)
  \/ Overrun

Spec == Init /\ [][Next]_civars
=============================================================================
