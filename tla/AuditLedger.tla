----------------------------- MODULE AuditLedger -----------------------------
(***************************************************************************)
(* One row of the PostgreSQL table audit_signal_persistence and the         *)
(* statements that read and write it                                        *)
(* (repositories/audit-persistence.repository.ts).  Each is one transaction *)
(* on one locked row.  The clock is abstracted as in module IngestLedger.   *)
(***************************************************************************)
EXTENDS Naturals

CONSTANT Items    \* work items that a signal may be linked to

AuditStatus == {"ABSENT", "PENDING", "PROCESSING", "FAILED", "PERSISTED", "DLQ"}

AuditRow ==
  {row \in [status   : AuditStatus,
            lease    : {"none", "fresh", "expired"},
            attempts : Nat,
            item     : Items \cup {"none"}] :
     row.status = "PROCESSING" <=> row.lease # "none"}

NoRow == [status |-> "ABSENT", lease |-> "none", attempts |-> 0, item |-> "none"]

-----------------------------------------------------------------------------
(* schedule(signalId, workItemExternalId).                                 *)

\* Mutant: scheduled rows are enqueued once more.
MustEnqueueAgain(row) == row.status \in {"ABSENT", "FAILED", "PENDING", "PROCESSING"}

\* Disposition ENQUEUE: a new row, or one whose last attempt failed.
MustEnqueue(row) == row.status \in {"ABSENT", "FAILED"}

Scheduled(row, i) ==
  IF MustEnqueue(row) THEN [row EXCEPT !.status = "PENDING", !.lease = "none", !.item = i]
  ELSE IF row.status = "DLQ" THEN row
  ELSE [row EXCEPT !.item = i]

-----------------------------------------------------------------------------
(* beginProcessing(signalId).                                              *)

Finished(row) == row.status \in {"PERSISTED", "DLQ"}

\* Mutant: a PROCESSING row is never taken over.
LeaseHeldForEver(row) == row.status = "PROCESSING"

LeaseHeld(row) == row.status = "PROCESSING" /\ row.lease = "fresh"

MayProcess(row) == row.status # "ABSENT" /\ ~Finished(row) /\ ~LeaseHeld(row)

Begun(row) == [row EXCEPT !.status = "PROCESSING", !.lease = "fresh", !.attempts = @ + 1]

-----------------------------------------------------------------------------
(* The unconditional UPDATEs.                                              *)

MarkedPersisted(row) == [row EXCEPT !.status = "PERSISTED", !.lease = "none"]

MarkedDeadLettered(row) == [row EXCEPT !.status = "DLQ", !.lease = "none"]

\* Mutant: processing_started_at is not reset.
MarkedFailedOnly(row) == [row EXCEPT !.status = "FAILED"]

MarkedFailed(row) == [row EXCEPT !.status = "FAILED", !.lease = "none"]

\* Time: the lease grows older than AUDIT_PROCESSING_LEASE_MS.
LeaseAged(row) == [row EXCEPT !.lease = "expired"]
=============================================================================
