---------------------------- MODULE IngestLedger ----------------------------
(***************************************************************************)
(* One row of the PostgreSQL table ingest_dedup and the statements that    *)
(* read and write it (repositories/ingest-ledger.repository.ts).           *)
(*                                                                         *)
(* The clock is abstracted: processing_started_at is NULL ("none"), younger *)
(* than INGEST_PROCESSING_LEASE_MS ("fresh") or older than it ("expired").  *)
(* Every statement is one PostgreSQL transaction on one row (INSERT .. ON   *)
(* CONFLICT and SELECT .. FOR UPDATE serialise beginProcessing), so each is  *)
(* one function from row to row.                                            *)
(***************************************************************************)
EXTENDS Naturals

LedgerStatus == {"ABSENT", "PROCESSING", "FAILED", "PROCESSED", "DLQ"}

\* A row: processing_started_at is set exactly while the status is PROCESSING.
LedgerRow ==
  {row \in [status      : LedgerStatus,
            lease       : {"none", "fresh", "expired"},
            processedAt : BOOLEAN,
            attempts    : Nat] :
     row.status = "PROCESSING" <=> row.lease # "none"}

NoRow == [status |-> "ABSENT", lease |-> "none", processedAt |-> FALSE, attempts |-> 0]

-----------------------------------------------------------------------------
(* The three dispositions of beginProcessing.                              *)

\* Mutant: only the status is consulted, not processed_at.
StatusSaysProcessed(row) == row.status \in {"PROCESSED", "DLQ"}

\* Mutant: dead-lettered is not finished.
ProcessedOnly(row) == row.processedAt \/ row.status = "PROCESSED"

AlreadyProcessed(row) == row.processedAt \/ row.status \in {"PROCESSED", "DLQ"}

\* Mutant: a PROCESSING row is never taken over.
LeaseHeldForEver(row) == ~AlreadyProcessed(row) /\ row.status = "PROCESSING"

LeaseHeld(row) ==
  ~AlreadyProcessed(row) /\ row.status = "PROCESSING" /\ row.lease = "fresh"

MayProcess(row) == ~AlreadyProcessed(row) /\ ~LeaseHeld(row)

\* Mutant: taking over an expired lease is not counted as an attempt.
BegunUncounted(row) ==
  [row EXCEPT !.status = "PROCESSING", !.lease = "fresh",
              !.attempts = IF row.status = "PROCESSING" THEN @ ELSE @ + 1]

\* The row after disposition PROCESS: the INSERT writes attempt 1, the UPDATE
\* attempt_count + 1.
Begun(row) == [row EXCEPT !.status = "PROCESSING", !.lease = "fresh", !.attempts = @ + 1]

-----------------------------------------------------------------------------
(* The unconditional UPDATEs: none of them looks at the status it replaces  *)
(* or at the attempt that writes it, and only markProcessed touches         *)
(* processed_at.                                                            *)

MarkedProcessed(row) ==
  [row EXCEPT !.status = "PROCESSED", !.lease = "none", !.processedAt = TRUE]

MarkedDeadLettered(row) == [row EXCEPT !.status = "DLQ", !.lease = "none"]

\* Mutant: processing_started_at is not reset.
MarkedFailedOnly(row) == [row EXCEPT !.status = "FAILED"]

MarkedFailed(row) == [row EXCEPT !.status = "FAILED", !.lease = "none"]

\* Time: the lease grows older than INGEST_PROCESSING_LEASE_MS.
LeaseAged(row) == [row EXCEPT !.lease = "expired"]
=============================================================================
