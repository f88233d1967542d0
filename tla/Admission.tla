------------------------------ MODULE Admission ------------------------------
(***************************************************************************)
(* A signal batch on its way through the API (app-api.module.ts): the rate   *)
(* limiter in front of the controller, then ValidationPipe, then Ingestion.  *)
(* All requests are of one client.                                           *)
(***************************************************************************)
EXTENDS Ingestion, RateLimiter

CONSTANTS
  MaxInvalid    \* bound: batches that pass the limiter and fail validation

ASSUME MaxInvalidAssumption == MaxInvalid \in Nat

VARIABLES
  verdict,   \* of the middleware on a request: none, next or limited
  invalid    \* batches with a 400

controllerVars == <<stream, acked, next, inFlight, accepted, rejected, answer>>
ingestionVars == <<controllerVars, faults>>
admissionVars == <<ingestionVars, bucketVars, verdict, invalid>>

AdmissionInit ==
  /\ Init /\ BucketInit
  /\ verdict = [r \in Requests |-> "none"]
  /\ invalid = 0

-----------------------------------------------------------------------------
\* use(): one token for each signal of the batch; 429 unless there are enough.
Limit(r) ==
  /\ verdict[r] = "none"
  /\ \E now \in Stamps :
       /\ Script(now, SizeOf[r])
       /\ verdict' = [verdict EXCEPT ![r] = IF Credit(now) >= SizeOf[r] THEN "next" ELSE "limited"]
  /\ UNCHANGED <<ingestionVars, invalid>>

\* The answer of the script is lost: ioredis sends it once more, it charges twice.
LimitResent(r) ==
  /\ verdict[r] = "none" /\ faults < MaxFaults /\ faults' = faults + 1
  /\ \E now \in Stamps : Script(now, SizeOf[r])
  /\ UNCHANGED <<controllerVars, verdict, invalid>>

\* eval throws, whether or not the script ran: the request passes.
LimitFailsOpen(r) ==
  /\ verdict[r] = "none" /\ faults < MaxFaults /\ faults' = faults + 1
  /\ UNCHANGED bucketVars \/ \E now \in Stamps : Script(now, SizeOf[r])
  /\ verdict' = [verdict EXCEPT ![r] = "next"]
  /\ UNCHANGED <<controllerVars, invalid>>

\* A batch that ValidationPipe refuses has passed the middleware and has paid.
LimitInvalid(n) ==
  /\ invalid < MaxInvalid /\ invalid' = invalid + 1
  /\ \E now \in Stamps : Script(now, n)
  /\ UNCHANGED <<ingestionVars, verdict>>

\* The controller sees a request after next().
Handle(r) ==
  /\ verdict[r] = "next"
  /\ Serve(r)
  /\ UNCHANGED <<bucketVars, verdict, invalid>>

AdmissionNext ==
  \/ \E r \in Requests : Limit(r) \/ LimitResent(r) \/ LimitFailsOpen(r) \/ Handle(r)
  \/ \E n \in 1 .. BucketCapacity : LimitInvalid(n)
  \/ /\ \/ \E r \in Requests : /\ verdict[r] = "next"
                               /\ \E k \in inFlight[r] : EvalResent(r, k) \/ EvalFails(r, k)
        \/ \E entry \in Signals : Ack(entry)
     /\ UNCHANGED <<bucketVars, verdict, invalid>>
  \/ /\ Tick \/ OpenWindow
     /\ UNCHANGED <<ingestionVars, verdict, invalid>>
  \/ /\ faults < MaxFaults /\ faults' = faults + 1 /\ Evict
     /\ UNCHANGED <<controllerVars, verdict, invalid>>

\* Requests are served, by the middleware and by the controller.
AdmissionSpec ==
  /\ AdmissionInit /\ [][AdmissionNext]_admissionVars
  /\ \A r \in Requests : WF_admissionVars(Limit(r)) /\ WF_admissionVars(Handle(r))

-----------------------------------------------------------------------------
(* Properties.                                                             *)

\* Types.
AdmissionTypeOK ==
  /\ TypeOK /\ BucketTypeOK
  /\ verdict \in [Requests -> {"none", "next", "limited"}]
  /\ invalid \in 0 .. MaxInvalid

\* Every request gets an answer: 429 from the middleware, or 202 with counts that add
\* up to the batch although calls fail on the way.
EveryBatchAnswered ==
  \A r \in Requests :
    <>(\/ verdict[r] = "limited" /\ answer[r] = 0 /\ next[r] = 1
       \/ /\ answer[r] = 202
          /\ Cardinality(accepted[r]) + Cardinality(rejected[r]) = SizeOf[r])
=============================================================================
