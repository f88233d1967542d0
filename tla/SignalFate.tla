----------------------------- MODULE SignalFate -----------------------------
(***************************************************************************)
(* What the workers promise about every entry of a stream,                 *)
(* without consumer groups, leases or retries: the entry leaves the stream  *)
(* for good only after its signal has been processed to the end or stored   *)
(* in the dead-letter queue, and it does leave it.                          *)
(* SignalPipeline implements this specification, AuditPipeline its safety   *)
(* part.                                                                   *)
(***************************************************************************)
EXTENDS FiniteSets

CONSTANTS Messages, Signals, SignalOf

VARIABLES
  acked,    \* entries that will not be delivered again
  outcome   \* per signal: subset of {"processed", "dead"}

Init == acked = {} /\ outcome = [s \in Signals |-> {}]

\* An attempt completes, or an exhausted signal is stored in the DLQ.  A slow
\* attempt can still complete after the hand-off, so a signal may get both.
Settle(s) ==
  /\ \E o \in {"processed", "dead"} \ outcome[s] :
       outcome' = [outcome EXCEPT ![s] = @ \cup {o}]
  /\ UNCHANGED acked

Ack(m) ==
  /\ m \notin acked
  /\ outcome[SignalOf[m]] # {}
  /\ acked' = acked \cup {m}
  /\ UNCHANGED outcome

Next == (\E s \in Signals : Settle(s)) \/ (\E m \in Messages : Ack(m))

Spec == Init /\ [][Next]_<<acked, outcome>>

FirstSettle(m) == outcome[SignalOf[m]] = {} /\ Settle(SignalOf[m])

FairSpec ==
  /\ Spec
  /\ \A m \in Messages :
       /\ WF_<<acked, outcome>>(FirstSettle(m))
       /\ WF_<<acked, outcome>>(Ack(m))
=============================================================================
