--------------------------- MODULE SignalPipeline ---------------------------
(***************************************************************************)
(* The signal worker: Redis stream consumer group, batch processing,       *)
(* SignalProcessor, ingest ledger and dead-letter queue.                    *)
(*   workers/signal-stream.consumer.ts   consumeLoop, processBatch,         *)
(*                                       processOne, pendingRecoveryLoop    *)
(*   workers/signal.processor.ts         process, handoffToDlq              *)
(*   repositories/ingest-ledger.repository.ts  (module IngestLedger)        *)
(*                                                                         *)
(* Every consumer process runs two loops at once: "consume" reads new       *)
(* entries, "recover" claims pending ones.  A loop holds the rest of its    *)
(* batch and the one entry that it is processing; every await of            *)
(* SignalProcessor.process is a step of its own.  Two loops may process the *)
(* same entry: XAUTOCLAIM takes any entry that has been idle for            *)
(* WORKER_CLAIM_IDLE_MS, also one whose worker is only slow.                *)
(*                                                                         *)
(* Which work item a signal goes to is the concern of module Debounce; here *)
(* the update of work_items is the attempt number it was made under.        *)
(***************************************************************************)
EXTENDS IngestLedger, FiniteSets

CONSTANTS
  Messages,     \* stream entries; their ids are numbers, older ids are smaller
  Signals,      \* signal_id values chosen by the clients
  SignalOf,     \* the signal_id of each entry (a client may send one twice)
  Consumers,    \* worker processes
  BatchSize,    \* WORKER_BATCH_SIZE
  MaxAttempts,  \* INGEST_MAX_ATTEMPTS
  MaxFaults     \* bound: crashes, failed calls and overrun leases in a run

ASSUME MessagesAssumption == Messages \subseteq Nat \ {0}
ASSUME SignalOfAssumption == SignalOf \in [Messages -> Signals]
ASSUME BatchSizeAssumption == BatchSize \in Nat \ {0}
ASSUME MaxAttemptsAssumption == MaxAttempts \in Nat
ASSUME MaxFaultsAssumption == MaxFaults \in Nat

NoMessage == 0

Loops == Consumers \X {"consume", "recover"}

VARIABLES
  delivery,     \* state of each entry in the consumer group
  batch,        \* entries a loop has read or claimed and not started
  pc,           \* the await a loop's processOne is at
  msg,          \* the entry it is processing
  attempt,      \* processing.attemptCount of that run
  ledger,       \* ingest_dedup
  applied,      \* attempts whose create / addSignal reached work_items
  audit,        \* audit row of a signal: none, row only, row and stream entry
  deadLetters,  \* attempt_count of the dead_letter_queue entries of a signal
  faults        \* faults so far

vars == <<delivery, batch, pc, msg, attempt, ledger, applied, audit, deadLetters, faults>>

\* The awaits of process() that run under a lease taken by beginProcessing.
Business == {"resolve", "update", "schedule", "enqueue", "markProcessed"}
Handoff == {"dlqSend", "dlqMark"}
Running == Business \cup Handoff \cup {"markFailed"}

Sig(w) == SignalOf[msg[w]]

Init ==
  /\ delivery = [m \in Messages |-> "unread"]
  /\ batch = [w \in Loops |-> {}]
  /\ pc = [w \in Loops |-> "idle"]
  /\ msg = [w \in Loops |-> NoMessage]
  /\ attempt = [w \in Loops |-> 0]
  /\ ledger = [s \in Signals |-> NoRow]
  /\ applied = [s \in Signals |-> {}]
  /\ audit = [s \in Signals |-> "none"]
  /\ deadLetters = [s \in Signals |-> {}]
  /\ faults = 0

-----------------------------------------------------------------------------
(* Helpers.                                                                *)

GoTo(w, p) == pc' = [pc EXCEPT ![w] = p]

\* processOne returns: the slot is free again.
Finish(w) ==
  /\ pc' = [pc EXCEPT ![w] = "idle"]
  /\ msg' = [msg EXCEPT ![w] = NoMessage]
  /\ attempt' = [attempt EXCEPT ![w] = 0]

Fault == faults < MaxFaults /\ faults' = faults + 1

SetRow(w, row) == ledger' = [ledger EXCEPT ![Sig(w)] = row]

stores == <<ledger, applied, audit, deadLetters>>
run == <<msg, attempt>>

-----------------------------------------------------------------------------
(* Redis consumer group.                                                   *)

\* XREADGROUP '>' in consumeLoop: the oldest entries that were never delivered,
\* as many as have arrived, up to COUNT.
ReadNew(w) ==
  /\ w[2] = "consume" /\ pc[w] = "idle" /\ batch[w] = {}
  /\ \E b \in SUBSET {m \in Messages : delivery[m] = "unread"} :
       /\ b # {} /\ Cardinality(b) <= BatchSize
       /\ \A m \in b, n \in Messages : n < m /\ delivery[n] = "unread" => n \in b
       /\ batch' = [batch EXCEPT ![w] = b]
       /\ delivery' = [m \in Messages |-> IF m \in b THEN "pending" ELSE delivery[m]]
  /\ UNCHANGED <<pc, run, stores, faults>>

\* XAUTOCLAIM in pendingRecoveryLoop: entries idle for claimIdleMs, whoever
\* holds them, this process included.
ClaimIdle(w) ==
  /\ w[2] = "recover" /\ pc[w] = "idle" /\ batch[w] = {}
  /\ \E b \in SUBSET {m \in Messages : delivery[m] = "pending"} :
       /\ b # {} /\ Cardinality(b) <= BatchSize
       /\ batch' = [batch EXCEPT ![w] = b]
  /\ UNCHANGED <<delivery, pc, run, stores, faults>>

\* processBatch starts processOne for the next entry of the batch.
StartNext(w) ==
  /\ pc[w] = "idle"
  /\ \E m \in batch[w] :
       /\ \A n \in batch[w] : m <= n
       /\ msg' = [msg EXCEPT ![w] = m]
       /\ batch' = [batch EXCEPT ![w] = @ \ {m}]
  /\ GoTo(w, "begin")
  /\ UNCHANGED <<delivery, attempt, stores, faults>>

\* XACK, after process() returned or after DlqHandledError.
Ack(w) ==
  /\ pc[w] \in {"ack", "ackDlq"}
  /\ delivery' = [delivery EXCEPT ![msg[w]] = "acked"]
  /\ Finish(w)
  /\ UNCHANGED <<batch, stores, faults>>

\* XACK throws.  After process() the error is logged; after the DLQ handoff it
\* rejects processOne and Promise.race drops the rest of the batch.
AckFails(w) ==
  /\ pc[w] \in {"ack", "ackDlq"}
  /\ Fault
  /\ batch' = IF pc[w] = "ackDlq" THEN [batch EXCEPT ![w] = {}] ELSE batch
  /\ Finish(w)
  /\ UNCHANGED <<delivery, stores>>

-----------------------------------------------------------------------------
(* SignalProcessor.process.                                                *)

\* beginProcessing = ALREADY_PROCESSED: process() returns and the entry is ACKed.
SkipProcessed(w) ==
  /\ pc[w] = "begin" /\ AlreadyProcessed(ledger[Sig(w)])
  /\ GoTo(w, "ack")
  /\ UNCHANGED <<delivery, batch, run, stores, faults>>

\* Mutant: a held lease is taken for a finished signal and the entry is ACKed.
SkipLeasedAcks(w) ==
  /\ pc[w] = "begin" /\ LeaseHeld(ledger[Sig(w)])
  /\ GoTo(w, "ack")
  /\ UNCHANGED <<delivery, batch, run, stores, faults>>

\* beginProcessing = LEASE_HELD: ActiveProcessingLeaseError, no ACK.
SkipLeased(w) ==
  /\ pc[w] = "begin" /\ LeaseHeld(ledger[Sig(w)])
  /\ Finish(w)
  /\ UNCHANGED <<delivery, batch, stores, faults>>

\* Mutant: the attempt limit is off by one.
OneAttemptTooMany(row) == row.attempts > MaxAttempts + 1

\* attemptCount > maxAttempts.
Exhausted(row) == row.attempts > MaxAttempts

\* beginProcessing = PROCESS, then the check of attemptCount against maxAttempts.
Begin(w) ==
  /\ pc[w] = "begin" /\ MayProcess(ledger[Sig(w)])
  /\ LET row == Begun(ledger[Sig(w)])
     IN  /\ SetRow(w, row)
         /\ attempt' = [attempt EXCEPT ![w] = row.attempts]
         /\ GoTo(w, IF Exhausted(row) THEN "dlqSend" ELSE "resolve")
  /\ UNCHANGED <<delivery, batch, msg, applied, audit, deadLetters, faults>>

\* beginProcessing throws before it commits: an ordinary error, no ACK.
BeginFails(w) ==
  /\ pc[w] = "begin" /\ Fault
  /\ Finish(w)
  /\ UNCHANGED <<delivery, batch, stores>>

\* Mutant: a signal of a known incident is scheduled without addSignal.
ResolveSkippingUpdate(w) ==
  /\ pc[w] = "resolve"
  /\ GoTo(w, "schedule")
  /\ UNCHANGED <<delivery, batch, run, stores, faults>>

\* Severity and debounce resolution found (or may create) a work item.
Resolve(w) ==
  /\ pc[w] = "resolve"
  /\ GoTo(w, "update")
  /\ UNCHANGED <<delivery, batch, run, stores, faults>>

\* DebounceResolutionInProgressError: rethrown without markFailed, so the row
\* stays PROCESSING under this attempt's lease.
ResolveBusy(w) ==
  /\ pc[w] = "resolve" /\ Fault
  /\ Finish(w)
  /\ UNCHANGED <<delivery, batch, stores>>

\* workItem.create or workItem.addSignal commits; neither asks whether an
\* earlier attempt did.
UpdateWorkItem(w) ==
  /\ pc[w] = "update"
  /\ applied' = [applied EXCEPT ![Sig(w)] = @ \cup {attempt[w]}]
  /\ GoTo(w, "schedule")
  /\ UNCHANGED <<delivery, batch, run, ledger, audit, deadLetters, faults>>

\* auditLedger.schedule: only a row it inserts is to be published.
ScheduleAudit(w) ==
  /\ pc[w] = "schedule"
  /\ IF audit[Sig(w)] = "none"
     THEN audit' = [audit EXCEPT ![Sig(w)] = "row"] /\ GoTo(w, "enqueue")
     ELSE audit' = audit /\ GoTo(w, "markProcessed")
  /\ UNCHANGED <<delivery, batch, run, ledger, applied, deadLetters, faults>>

\* XADD to the audit stream.
EnqueueAudit(w) ==
  /\ pc[w] = "enqueue"
  /\ audit' = [audit EXCEPT ![Sig(w)] = "queued"]
  /\ GoTo(w, "markProcessed")
  /\ UNCHANGED <<delivery, batch, run, ledger, applied, deadLetters, faults>>

MarkProcessed(w) ==
  /\ pc[w] = "markProcessed"
  /\ SetRow(w, MarkedProcessed(ledger[Sig(w)]))
  /\ GoTo(w, "ack")
  /\ UNCHANGED <<delivery, batch, run, applied, audit, deadLetters, faults>>

\* Any await inside the try block throws.  A call that took effect and whose
\* answer was lost is a failure of the next await; for the last one, markProcessed,
\* the UPDATE may have been committed.
BusinessFails(w) ==
  /\ pc[w] \in Business /\ Fault
  /\ \/ ledger' = ledger
     \/ pc[w] = "markProcessed" /\ SetRow(w, MarkedProcessed(ledger[Sig(w)]))
  /\ GoTo(w, "markFailed")
  /\ UNCHANGED <<delivery, batch, run, applied, audit, deadLetters>>

\* The catch block: markFailed and rethrow; no ACK.
MarkFailed(w) ==
  /\ pc[w] = "markFailed"
  /\ SetRow(w, MarkedFailed(ledger[Sig(w)]))
  /\ Finish(w)
  /\ UNCHANGED <<delivery, batch, applied, audit, deadLetters, faults>>

\* markFailed itself throws: the row keeps the lease until it expires.
MarkFailedFails(w) ==
  /\ pc[w] = "markFailed" /\ Fault
  /\ Finish(w)
  /\ UNCHANGED <<delivery, batch, stores>>

-----------------------------------------------------------------------------
(* handoffToDlq.                                                           *)

\* dlq.send inserts an entry that records the attempt count.
DlqSend(w) ==
  /\ pc[w] = "dlqSend"
  /\ deadLetters' = [deadLetters EXCEPT ![Sig(w)] = @ \cup {attempt[w]}]
  /\ GoTo(w, "dlqMark")
  /\ UNCHANGED <<delivery, batch, run, ledger, applied, audit, faults>>

\* markDeadLettered, then DlqHandledError: processOne ACKs.
DlqMark(w) ==
  /\ pc[w] = "dlqMark"
  /\ SetRow(w, MarkedDeadLettered(ledger[Sig(w)]))
  /\ GoTo(w, "ackDlq")
  /\ UNCHANGED <<delivery, batch, run, applied, audit, deadLetters, faults>>

\* Mutant: the result of dlq.send is ignored.
HandoffIgnoresFailure(w) ==
  /\ pc[w] = "dlqSend" /\ Fault
  /\ GoTo(w, "dlqMark")
  /\ UNCHANGED <<delivery, batch, run, stores>>

\* dlq.send returned false, or markDeadLettered threw: outside the try block,
\* so the row stays PROCESSING and the entry is not ACKed.
HandoffFails(w) ==
  /\ pc[w] \in Handoff /\ Fault
  /\ Finish(w)
  /\ UNCHANGED <<delivery, batch, stores>>

-----------------------------------------------------------------------------
(* Time and crashes.                                                       *)

InFlight(s) == \E w \in Loops : pc[w] \in Running /\ Sig(w) = s

Age(s) ==
  /\ ledger[s].lease = "fresh"
  /\ ledger' = [ledger EXCEPT ![s] = LeaseAged(@)]
  /\ UNCHANGED <<delivery, batch, pc, run, applied, audit, deadLetters>>

\* The lease of an attempt that nobody runs any more runs out.
LeaseLapses(s) == ~InFlight(s) /\ Age(s) /\ UNCHANGED faults

\* The lease runs out under a worker that is slow but alive.
LeaseOverrun(s) == InFlight(s) /\ Age(s) /\ Fault

\* A process dies with both of its loops and is started again.
Crash(c) ==
  LET mine == {c} \X {"consume", "recover"}
  IN  /\ \E w \in mine : pc[w] # "idle" \/ batch[w] # {}
      /\ Fault
      /\ batch' = [w \in Loops |-> IF w \in mine THEN {} ELSE batch[w]]
      /\ pc' = [w \in Loops |-> IF w \in mine THEN "idle" ELSE pc[w]]
      /\ msg' = [w \in Loops |-> IF w \in mine THEN NoMessage ELSE msg[w]]
      /\ attempt' = [w \in Loops |-> IF w \in mine THEN 0 ELSE attempt[w]]
      /\ UNCHANGED <<delivery, stores>>

-----------------------------------------------------------------------------
\* What a loop does when nothing goes wrong.
Step(w) ==
  \/ ReadNew(w) \/ ClaimIdle(w) \/ StartNext(w) \/ Ack(w)
  \/ SkipProcessed(w) \/ SkipLeased(w) \/ Begin(w)
  \/ Resolve(w) \/ UpdateWorkItem(w) \/ ScheduleAudit(w) \/ EnqueueAudit(w)
  \/ MarkProcessed(w) \/ MarkFailed(w) \/ DlqSend(w) \/ DlqMark(w)

Fails(w) ==
  \/ AckFails(w) \/ BeginFails(w) \/ ResolveBusy(w) \/ BusinessFails(w)
  \/ MarkFailedFails(w) \/ HandoffFails(w)

Next ==
  \/ \E w \in Loops : Step(w) \/ Fails(w)
  \/ \E s \in Signals : LeaseLapses(s) \/ LeaseOverrun(s)
  \/ \E c \in Consumers : Crash(c)

Spec == Init /\ [][Next]_vars

\* The loops run while the process is up (and it is restarted), and time passes.
Fairness ==
  /\ \A w \in Loops : WF_vars(Step(w))
  /\ \A s \in Signals : WF_vars(LeaseLapses(s))

FairSpec == Spec /\ Fairness

-----------------------------------------------------------------------------
(* Properties.                                                             *)

\* Types; a loop holds an entry exactly while it processes one, and ledger rows
\* keep processing_started_at and the status consistent.
TypeOK ==
  /\ delivery \in [Messages -> {"unread", "pending", "acked"}]
  /\ batch \in [Loops -> SUBSET Messages]
  /\ pc \in [Loops -> Running \cup {"idle", "begin", "ack", "ackDlq"}]
  /\ msg \in [Loops -> Messages \cup {NoMessage}]
  /\ \A w \in Loops : pc[w] = "idle" <=> msg[w] = NoMessage
  /\ attempt \in [Loops -> Nat]
  /\ ledger \in [Signals -> LedgerRow]
  /\ applied \in [Signals -> SUBSET Nat]
  /\ audit \in [Signals -> {"none", "row", "queued"}]
  /\ deadLetters \in [Signals -> SUBSET Nat]
  /\ faults \in 0 .. MaxFaults

\* A signal has an outcome: it was processed to the end, or it is in the DLQ.
Settled(s) == ledger[s].processedAt \/ deadLetters[s] # {}

\* An ACKed entry is never redelivered, so its signal must have an outcome that
\* no slow worker can take away (signal-stream.consumer.ts processOne).
NoSignalLost == \A m \in Messages : delivery[m] = "acked" => Settled(SignalOf[m])

\* A processed signal reached work_items and has an audit row, whichever of its
\* attempts got how far (signal.processor.ts process).
ProcessedWasApplied ==
  \A s \in Signals : ledger[s].processedAt => applied[s] # {} /\ audit[s] # "none"

\* Only admitted attempts touch the work item: never an attempt that
\* beginProcessing did not count, never one beyond INGEST_MAX_ATTEMPTS; this
\* bounds how often retries can count one signal.
EffectsWithinAttempts ==
  \A s \in Signals : applied[s] \subseteq 1 .. ledger[s].attempts \cap 1 .. MaxAttempts

\* No two live runs of one signal share an attempt number: an overrun lease
\* always gives the newcomer a number of its own (beginProcessing).
OneRunPerAttempt ==
  \A v, w \in Loops :
    v # w /\ {pc[v], pc[w]} \subseteq Running /\ Sig(v) = Sig(w)
      => attempt[v] # attempt[w]

\* A signal is dead-lettered only by an attempt beyond INGEST_MAX_ATTEMPTS.
DeadLetteredOnlyWhenExhausted ==
  \A s \in Signals : deadLetters[s] \subseteq (MaxAttempts + 1) .. ledger[s].attempts

\* A signal is given up only after a fault for each of its attempts, and every further
\* entry in dead_letter_queue (after a crash between dlq.send and markDeadLettered, or an
\* overrun lease) takes another fault, however often its stream entry is redelivered.
DeadLettersBounded ==
  \A s \in Signals :
    deadLetters[s] # {} => MaxAttempts + Cardinality(deadLetters[s]) <= 1 + faults

\* Once processed_at is set no attempt is ever begun again, although a slow
\* worker may still overwrite the status with FAILED.
ProcessedNeverRestarts ==
  [][\A s \in Signals : ledger[s].processedAt =>
       ledger'[s].processedAt /\ ledger'[s].attempts = ledger[s].attempts]_vars

\* The abstract promise, under the mapping from delivery states, ledger rows and
\* DLQ entries to ACKed entries and outcomes.
AckedEntries == {m \in Messages : delivery[m] = "acked"}

OutcomeOf(s) ==
  (IF ledger[s].processedAt THEN {"processed"} ELSE {}) \cup
  (IF deadLetters[s] # {} THEN {"dead"} ELSE {})

Fate == INSTANCE SignalFate WITH
  acked <- AckedEntries, outcome <- [s \in Signals |-> OutcomeOf(s)]

\* Signal workers implement SignalFate, its fairness included: every entry is
\* ACKed in the end, and only behind an outcome of its signal.
ImplementsFate == Fate!FairSpec

-----------------------------------------------------------------------------
(* What the documentation says and the code does not do.                   *)

\* signal.processor.ts: completion is marked only after the audit task has been
\* durably scheduled: it is in the audit stream, or a live run is about to add it.
ProcessedAuditIsQueued ==
  \A s \in Signals : ledger[s].processedAt =>
    audit[s] = "queued" \/ \E w \in Loops : pc[w] = "enqueue" /\ Sig(w) = s
=============================================================================
