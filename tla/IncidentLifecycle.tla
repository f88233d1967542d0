-------------------------- MODULE IncidentLifecycle --------------------------
(***************************************************************************)
(* Requests of operators on one incident: status transitions and RCA.      *)
(*   incidents/workflow/workflow.service.ts   transition                    *)
(*   incidents/workflow/states/*.ts           allowedTransitions, execute   *)
(*   incidents/rca/rca.service.ts             submitRca                     *)
(*   repositories/work-item.repository.ts     the statements they issue     *)
(*   workers/dashboard-cache.service.ts       onStatusChanged                *)
(*   common/database/postgres.service.ts      the connection pool           *)
(*                                                                         *)
(* A transition keeps one pool connection from getClient to release and the *)
(* row lock of SELECT .. FOR UPDATE from there to COMMIT; what it writes is  *)
(* seen by nobody before COMMIT, so its UPDATE, history INSERT and COMMIT    *)
(* are one step.  It takes a second connection twice while it keeps its own:  *)
(* findRcaByWorkItemId under the row lock, and the dashboard refresh after     *)
(* COMMIT.  findByExternalId runs when the first one is released.              *)
(* INSERT INTO rca_records (its foreign key) and UPDATE work_items wait for  *)
(* the row lock, on a connection of their own.  Times are seconds after      *)
(* first_signal_at, which never changes.                                     *)
(***************************************************************************)
EXTENDS Integers, Sequences, FiniteSets

CONSTANTS
  Operators,   \* concurrent requests
  Ends,        \* incident_end values that operators submit
  Null,        \* SQL NULL, or no row
  IntMin,      \* smallest and
  IntMax,      \* largest value of the column mttr_seconds (INTEGER)
  PoolSize,    \* connections of the pool
  MaxFaults    \* bound: statements that fail and answers that get lost

ASSUME OperatorsAssumption == "none" \notin Operators
ASSUME EndsAssumption == Ends \subseteq Int /\ Null \notin Int
ASSUME IntAssumption == IntMin \in Int /\ IntMax \in Int
ASSUME PoolSizeAssumption == PoolSize \in Nat
ASSUME MaxFaultsAssumption == MaxFaults \in Nat

\* mttr_seconds can hold the value.
InRange(seconds) == seconds \in IntMin .. IntMax

Status == {"OPEN", "INVESTIGATING", "RESOLVED", "CLOSED"}

\* Rows of status_history: from_status (NULL on creation) and to_status.
HistoryType == Seq((Status \cup {"none"}) \X Status)

\* allowedTransitions of the state objects.
Allowed(from) ==
  CASE from = "OPEN"          -> {"INVESTIGATING"}
    [] from = "INVESTIGATING" -> {"RESOLVED"}
    [] from = "RESOLVED"      -> {"CLOSED"}
    [] from = "CLOSED"        -> {}

VARIABLES
  status,     \* work_items.status
  mttr,       \* work_items.mttr_seconds
  closedAt,   \* work_items.closed_at IS NOT NULL
  history,    \* status_history: sequence of <<from_status, to_status>>
  rca,        \* rca_records: incident_end of the row, or Null
  lock,       \* request that holds FOR UPDATE on the row
  pc,         \* await of each request
  target,     \* dto.status of a transition
  seen,       \* currentStatus read under the lock
  end,        \* incident_end: of the dto, or of the RCA a closing transition read
  faults

incident == <<status, mttr, closedAt, history, rca>>
vars == <<incident, lock, pc, target, seen, end, faults>>

Init ==
  /\ status = "OPEN" /\ mttr = Null /\ closedAt = FALSE
  /\ history = <<<<"none", "OPEN">>>>
  /\ rca = Null /\ lock = "none"
  /\ pc = [p \in Operators |-> "idle"]
  /\ target = [p \in Operators |-> "none"]
  /\ seen = [p \in Operators |-> "none"]
  /\ end = [p \in Operators |-> Null]
  /\ faults = 0

GoTo(p, l) == pc' = [pc EXCEPT ![p] = l]
Fault == faults < MaxFaults /\ faults' = faults + 1

\* Requests that occupy a pool connection across awaits.
Connected == {"lock", "check", "readRca", "commit", "refresh", "inserting", "measuring"}

FreeConnection ==
  Cardinality({p \in Operators : pc[p] \in Connected}) < PoolSize

-----------------------------------------------------------------------------
(* WorkflowService.transition.                                             *)

\* PATCH /incidents/:id/status.
RequestTransition(p) ==
  /\ pc[p] = "idle"
  /\ \E t \in Status : target' = [target EXCEPT ![p] = t]
  /\ GoTo(p, "connect")
  /\ UNCHANGED <<incident, lock, seen, end, faults>>

\* getClient, BEGIN.
Connect(p) ==
  /\ pc[p] = "connect" /\ FreeConnection
  /\ GoTo(p, "lock")
  /\ UNCHANGED <<incident, lock, target, seen, end, faults>>

\* Mutant: SELECT without FOR UPDATE.
ReadUnlocked(p) ==
  /\ pc[p] = "lock"
  /\ seen' = [seen EXCEPT ![p] = status]
  /\ GoTo(p, "check")
  /\ UNCHANGED <<incident, lock, target, end, faults>>

\* lockForUpdate: waits for the row lock and reads the status under it.
LockForUpdate(p) ==
  /\ pc[p] = "lock" /\ lock = "none"
  /\ lock' = p
  /\ seen' = [seen EXCEPT ![p] = status]
  /\ GoTo(p, "check")
  /\ UNCHANGED <<incident, target, end, faults>>

\* ROLLBACK and release, with the error for the operator.
Abort(p, answer) ==
  /\ lock' = IF lock = p THEN "none" ELSE lock
  /\ GoTo(p, answer)
  /\ UNCHANGED <<incident, target, seen, end>>

\* Not in allowedTransitions.
RejectTransition(p) ==
  /\ pc[p] = "check" /\ target[p] \notin Allowed(seen[p])
  /\ Abort(p, "rejected")
  /\ UNCHANGED faults

\* state.execute: only the close needs the RCA.
Execute(p) ==
  /\ pc[p] = "check" /\ target[p] \in Allowed(seen[p])
  /\ GoTo(p, IF target[p] = "CLOSED" THEN "readRca" ELSE "commit")
  /\ UNCHANGED <<incident, lock, target, seen, end, faults>>

\* findRcaByWorkItemId on a second connection; the schema lets no incomplete
\* RCA be stored, so the missing fields of executeClose cannot occur.
ReadRca(p) ==
  /\ pc[p] = "readRca" /\ FreeConnection
  /\ rca # Null
  /\ end' = [end EXCEPT ![p] = rca]
  /\ GoTo(p, "commit")
  /\ UNCHANGED <<incident, lock, target, seen, faults>>

\* Mutant: the guard of ResolvedState is dropped, the MTTR stays as it is.
RcaMissingIgnored(p) ==
  /\ pc[p] = "readRca" /\ FreeConnection
  /\ rca = Null
  /\ status' = "CLOSED" /\ closedAt' = TRUE
  /\ history' = Append(history, <<seen[p], "CLOSED">>)
  /\ lock' = "none"
  /\ GoTo(p, "refresh")
  /\ UNCHANGED <<mttr, rca, target, seen, end, faults>>

RcaMissing(p) ==
  /\ pc[p] = "readRca" /\ FreeConnection
  /\ rca = Null
  /\ Abort(p, "rejected")
  /\ UNCHANGED faults

\* updateStatus or closeWithMttr, insertStatusHistory, COMMIT: the row lock is
\* gone, the connection is not released yet.
Commit(p) ==
  /\ pc[p] = "commit"
  /\ target[p] = "CLOSED" => InRange(end[p])
  /\ status' = target[p]
  /\ history' = Append(history, <<seen[p], target[p]>>)
  /\ IF target[p] = "CLOSED" THEN mttr' = end[p] /\ closedAt' = TRUE
                             ELSE UNCHANGED <<mttr, closedAt>>
  /\ lock' = "none"
  /\ GoTo(p, "refresh")
  /\ UNCHANGED <<rca, target, seen, end, faults>>

\* onStatusChanged: every move but the close reads the summary on a second
\* connection; a failure is logged and forgotten.  Then the connection of the
\* transaction is released.
Refresh(p) ==
  /\ pc[p] = "refresh" /\ (target[p] = "CLOSED" \/ FreeConnection)
  /\ GoTo(p, "respond")
  /\ UNCHANGED <<incident, lock, target, seen, end, faults>>

\* Mutant: the pool is created without connectionTimeoutMillis, the refresh waits
\* for its second connection without a limit.
RefreshAlwaysWaits(p) ==
  pc[p] = "refresh" /\ target[p] # "CLOSED" /\ ~FreeConnection /\ UNCHANGED vars

\* No connection for the summary within connectionTimeoutMillis: swallowed.
RefreshTimeout(p) ==
  /\ pc[p] = "refresh" /\ target[p] # "CLOSED" /\ ~FreeConnection
  /\ GoTo(p, "respond")
  /\ UNCHANGED <<incident, lock, target, seen, end, faults>>

\* findByExternalId for the answer.
Respond(p) ==
  /\ pc[p] = "respond" /\ FreeConnection
  /\ GoTo(p, "done")
  /\ UNCHANGED <<incident, lock, target, seen, end, faults>>

\* mttr_seconds is out of range for INTEGER: the UPDATE throws.
CloseOutOfRange(p) ==
  /\ pc[p] = "commit" /\ target[p] = "CLOSED" /\ ~InRange(end[p])
  /\ Abort(p, "failed")
  /\ UNCHANGED faults

\* A statement of the transaction throws.
TransactionFails(p) ==
  /\ pc[p] \in {"lock", "check", "readRca", "commit"} /\ Fault
  /\ Abort(p, "failed")

\* After COMMIT findByExternalId throws, the API process dies or the answer is
\* lost: the operator is told that a transition failed that is in the database.
AnswerLost(p) ==
  /\ pc[p] \in {"refresh", "respond", "done"} /\ Fault
  /\ GoTo(p, "failed")
  /\ UNCHANGED <<incident, lock, target, seen, end>>

-----------------------------------------------------------------------------
(* RcaService.submitRca.                                                   *)

\* POST /incidents/:id/rca; requests with incident_end < incident_start are
\* turned down before anything is written and are left out.
RequestRca(p) ==
  /\ pc[p] = "idle"
  /\ \E e \in Ends : end' = [end EXCEPT ![p] = e]
  /\ GoTo(p, "findRca")
  /\ UNCHANGED <<incident, lock, target, seen, faults>>

\* findByExternalId and findRcaByWorkItemId: the check before the insert.
FindRca(p) ==
  /\ pc[p] = "findRca" /\ FreeConnection
  /\ GoTo(p, IF rca = Null THEN "insert" ELSE "rejected")
  /\ UNCHANGED <<incident, lock, target, seen, end, faults>>

\* insertRca gets its connection and waits for the row lock.
StartInsert(p) ==
  /\ pc[p] = "insert" /\ FreeConnection
  /\ GoTo(p, "inserting")
  /\ UNCHANGED <<incident, lock, target, seen, end, faults>>

\* Mutant: work_item_id is not UNIQUE, a second RCA replaces the first.
InsertReplaces(p) ==
  /\ pc[p] = "inserting" /\ lock = "none"
  /\ rca' = end[p]
  /\ GoTo(p, "measure")
  /\ UNCHANGED <<status, mttr, closedAt, history, lock, target, seen, end, faults>>

\* The INSERT; work_item_id is UNIQUE, so the second one of two submissions that
\* both passed FindRca throws.
InsertRca(p) ==
  /\ pc[p] = "inserting" /\ lock = "none"
  /\ rca' = IF rca = Null THEN end[p] ELSE rca
  /\ GoTo(p, IF rca = Null THEN "measure" ELSE "failed")
  /\ UNCHANGED <<status, mttr, closedAt, history, lock, target, seen, end, faults>>

\* updateMttr gets its connection and waits for the row lock.
StartMeasure(p) ==
  /\ pc[p] = "measure" /\ FreeConnection
  /\ GoTo(p, "measuring")
  /\ UNCHANGED <<incident, lock, target, seen, end, faults>>

\* Mutant: the width of the column is ignored.
UpdateMttrUnchecked(p) ==
  /\ pc[p] = "measuring" /\ lock = "none"
  /\ mttr' = end[p]
  /\ GoTo(p, "done")
  /\ UNCHANGED <<status, closedAt, history, rca, lock, target, seen, end, faults>>

\* updateMttr; a value out of range for INTEGER is an error.
UpdateMttr(p) ==
  /\ pc[p] = "measuring" /\ lock = "none"
  /\ mttr' = IF InRange(end[p]) THEN end[p] ELSE mttr
  /\ GoTo(p, IF InRange(end[p]) THEN "done" ELSE "failed")
  /\ UNCHANGED <<status, closedAt, history, rca, lock, target, seen, end, faults>>

\* A statement of submitRca throws, or the API process dies: what was written
\* stays written.
SubmitFails(p) ==
  /\ pc[p] \in {"findRca", "insert", "inserting", "measure", "measuring"} /\ Fault
  /\ GoTo(p, "failed")
  /\ UNCHANGED <<incident, lock, target, seen, end>>

-----------------------------------------------------------------------------
\* connectionTimeoutMillis: no connection became free, the await throws.
ConnectionTimeout(p) ==
  /\ pc[p] \in {"connect", "readRca", "respond", "findRca", "insert", "measure"}
  /\ ~FreeConnection
  /\ Abort(p, "failed")
  /\ UNCHANGED faults

\* The HTTP response; the operator may issue another request.
Return(p) ==
  /\ pc[p] \in {"done", "rejected", "failed"}
  /\ GoTo(p, "idle")
  /\ target' = [target EXCEPT ![p] = "none"]
  /\ seen' = [seen EXCEPT ![p] = "none"]
  /\ end' = [end EXCEPT ![p] = Null]
  /\ UNCHANGED <<incident, lock, faults>>

-----------------------------------------------------------------------------
Request(p) == RequestTransition(p) \/ RequestRca(p)

Step(p) ==
  \/ Connect(p) \/ LockForUpdate(p) \/ RejectTransition(p) \/ Execute(p)
  \/ ReadRca(p) \/ RcaMissing(p) \/ Commit(p) \/ CloseOutOfRange(p)
  \/ Refresh(p) \/ RefreshTimeout(p) \/ Respond(p)
  \/ FindRca(p) \/ StartInsert(p) \/ InsertRca(p) \/ StartMeasure(p) \/ UpdateMttr(p)
  \/ ConnectionTimeout(p) \/ Return(p)

Fails(p) == TransactionFails(p) \/ AnswerLost(p) \/ SubmitFails(p)

Next == \E p \in Operators : Request(p) \/ Step(p) \/ Fails(p)

Spec == Init /\ [][Next]_vars

\* The API process runs its requests, PostgreSQL grants row locks and free
\* connections to everybody who keeps waiting for them.
FairSpec ==
  Spec /\ \A p \in Operators : WF_vars(Step(p)) /\ SF_vars(LockForUpdate(p))
       /\ SF_vars(InsertRca(p)) /\ SF_vars(UpdateMttr(p))

-----------------------------------------------------------------------------
(* Properties.                                                             *)

\* Types; mttr_seconds stays within its column, and a request carries what its
\* await needs.
TypeOK ==
  /\ status \in Status
  /\ mttr = Null \/ InRange(mttr)
  /\ closedAt \in BOOLEAN
  /\ history \in HistoryType
  /\ rca \in Ends \cup {Null}
  /\ lock \in Operators \cup {"none"}
  /\ pc \in [Operators -> Connected \cup
       {"idle", "connect", "respond", "findRca", "insert", "measure", "done", "rejected", "failed"}]
  /\ target \in [Operators -> Status \cup {"none"}]
  /\ seen \in [Operators -> Status \cup {"none"}]
  /\ end \in [Operators -> Ends \cup {Null}]
  /\ \A p \in Operators :
       /\ pc[p] \in {"connect", "lock", "check", "readRca", "commit", "refresh", "respond"}
            => target[p] \in Status
       /\ pc[p] \in {"check", "readRca", "commit"} => seen[p] \in Status
       /\ pc[p] \in {"findRca", "insert", "inserting", "measure", "measuring"} => end[p] \in Ends
       /\ pc[p] = "commit" /\ target[p] = "CLOSED" => end[p] \in Ends
  /\ faults \in 0 .. MaxFaults

\* The history is a gap-free walk through the lifecycle that ends in the status,
\* however many operators press buttons at the same time (row lock).
HistoryIsLifecycle ==
  /\ history[1] = <<"none", "OPEN">>
  /\ history[Len(history)][2] = status
  /\ \A k \in 1 .. Len(history) - 1 :
       /\ history[k + 1][1] = history[k][2]
       /\ history[k + 1][2] \in Allowed(history[k + 1][1])

\* A closed incident has an analysis, and its MTTR is the one of that analysis,
\* although the RCA is read outside the closing transaction and submissions race.
ClosedIsExplained ==
  status = "CLOSED" => closedAt /\ rca # Null /\ mttr = rca

\* The abstract promise.
Contract == INSTANCE IncidentContract
ImplementsContract == Contract!Spec

\* Every request is answered: the pool and the row lock cannot make all of them
\* wait for each other for ever.
EveryRequestAnswered == \A p \in Operators : pc[p] # "idle" ~> pc[p] = "idle"
=============================================================================
