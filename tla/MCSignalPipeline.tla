-------------------------- MODULE MCSignalPipeline --------------------------
(* Instances of SignalPipeline for TLC. *)
EXTENDS SignalPipeline, TLC

\* One entry.
MCOne == (1 :> "s1")

\* Entries 1 and 2 carry the same signal_id (a client sent it twice).
MCTwice == (1 :> "s1") @@ (2 :> "s1") @@ (3 :> "s2")
=============================================================================
