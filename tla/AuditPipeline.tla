---------------------------- MODULE AuditPipeline ----------------------------
(***************************************************************************)
(* The audit path: from SignalProcessor's auditDispatch.schedule through the *)
(* Redis stream signals:audit to the raw signal document in MongoDB.         *)
(*   workers/audit-dispatch.service.ts        schedule                       *)
(*   workers/audit-stream.consumer.ts         loops, processOne              *)
(*   workers/audit-persistence.processor.ts   process, handoffToDlq          *)
(*   repositories/audit-persistence.repository.ts   (module AuditLedger)     *)
(*                                                                         *)
(* Every run of SignalProcessor.process that reaches its step 4 schedules the *)
(* audit of its signal, with the work item that this run resolved; runs of   *)
(* one signal may differ in it and may overlap (module SignalPipeline).  A    *)
(* run adds at most one stream entry, so the run names the entry.  The audit  *)
(* workers' batches are chunks that Promise.allSettled keeps apart: a worker  *)
(* here is one processOne, an entry that waits in a chunk is just pending.    *)
(***************************************************************************)
EXTENDS AuditLedger, Sequences, FiniteSets

CONSTANTS
  Signals,
  MaxRuns,      \* bound: runs of process() per signal that reach step 4
  Workers,      \* concurrent processOne calls, in all audit workers
  MaxAttempts,  \* AUDIT_MAX_ATTEMPTS
  MaxLength,    \* AUDIT_STREAM_MAX_LENGTH
  MaxFaults     \* bound: failed calls, crashes and overrun leases

ASSUME ItemsAssumption == "none" \notin Items
ASSUME MaxRunsAssumption == MaxRuns \in Nat
ASSUME MaxAttemptsAssumption == MaxAttempts \in Nat
ASSUME MaxLengthAssumption == MaxLength \in Nat \ {0}
ASSUME MaxFaultsAssumption == MaxFaults \in Nat

Runs == Signals \X (1 .. MaxRuns)
NoRun == <<>>

VARIABLES
  producer,   \* where AuditDispatchService.schedule of a run is
  item,       \* workItemExternalId of the run
  stream,     \* the stream signals:audit, oldest entry first; XACK leaves it there
  entry,      \* stream entry of the run in the consumer group
  pc,         \* the await a worker is at
  msg,        \* the entry it processes
  attempt,    \* processing.attemptCount
  ledger,     \* audit_signal_persistence
  raw,        \* signals_raw: linked_work_item_id of the document, or "none"
  dead,       \* attempt_count of the dead_letter_queue entries of the signal
  faults

vars == <<producer, item, stream, entry, pc, msg, attempt, ledger, raw, dead, faults>>

Leased == {"persist", "markPersisted", "markFailed", "dlqSend", "dlqMark"}

Sig(w) == msg[w][1]

Init ==
  /\ producer = [r \in Runs |-> "new"]
  /\ item = [r \in Runs |-> "none"]
  /\ stream = <<>>
  /\ entry = [r \in Runs |-> "absent"]
  /\ pc = [w \in Workers |-> "idle"]
  /\ msg = [w \in Workers |-> NoRun]
  /\ attempt = [w \in Workers |-> 0]
  /\ ledger = [s \in Signals |-> NoRow]
  /\ raw = [s \in Signals |-> "none"]
  /\ dead = [s \in Signals |-> {}]
  /\ faults = 0

Fault == faults < MaxFaults /\ faults' = faults + 1
GoTo(w, p) == pc' = [pc EXCEPT ![w] = p]
SetRow(s, row) == ledger' = [ledger EXCEPT ![s] = row]
SetEntry(r, state) == entry' = [entry EXCEPT ![r] = state]
SetProducer(r, state) == producer' = [producer EXCEPT ![r] = state]

\* processOne returns.
Finish(w) ==
  /\ GoTo(w, "idle")
  /\ msg' = [msg EXCEPT ![w] = NoRun]
  /\ attempt' = [attempt EXCEPT ![w] = 0]

scheduling == <<producer, item, stream>>
run == <<msg, attempt>>
stores == <<raw, dead>>

-----------------------------------------------------------------------------
(* AuditDispatchService.schedule.                                          *)

\* The ledger transaction; only disposition ENQUEUE goes on to XADD.
Schedule(r, i) ==
  /\ producer[r] = "new"
  /\ item' = [item EXCEPT ![r] = i]
  /\ SetRow(r[1], Scheduled(ledger[r[1]], i))
  /\ SetProducer(r, IF MustEnqueue(ledger[r[1]]) THEN "enqueue" ELSE "done")
  /\ UNCHANGED <<stream, entry, pc, run, stores, faults>>

\* XADD MAXLEN ~: Redis may evict the oldest entries beyond the maximal length,
\* whether or not somebody has read or ACKed them.
Enqueue(r) ==
  /\ producer[r] = "enqueue"
  /\ \E evicted \in 0 .. Len(stream) :
       /\ evicted > 0 => Len(stream) + 1 - evicted >= MaxLength
       /\ stream' = Append(SubSeq(stream, evicted + 1, Len(stream)), r)
       /\ entry' = [x \in Runs |->
            IF x = r THEN "unread"
            ELSE IF entry[x] # "acked" /\ \E k \in 1 .. evicted : stream[k] = x
            THEN "trimmed" ELSE entry[x]]
  /\ SetProducer(r, "done")
  /\ UNCHANGED <<item, pc, run, ledger, stores, faults>>

\* XADD throws, or the signal worker dies after the ledger commit.
EnqueueFails(r) ==
  /\ producer[r] = "enqueue" /\ Fault
  /\ SetProducer(r, "done")
  /\ UNCHANGED <<item, stream, entry, pc, run, ledger, stores>>

-----------------------------------------------------------------------------
(* AuditStreamConsumer.                                                    *)

\* XREADGROUP (an entry never delivered) or XAUTOCLAIM (a pending entry, also
\* one that some worker is still busy with); then processOne starts.
Deliver(w) ==
  /\ pc[w] = "idle"
  /\ \E r \in Runs :
       /\ entry[r] \in {"unread", "pending"}
       /\ SetEntry(r, "pending")
       /\ msg' = [msg EXCEPT ![w] = r]
  /\ GoTo(w, "begin")
  /\ UNCHANGED <<scheduling, attempt, ledger, stores, faults>>

\* XACK, after process() returned or threw AuditDlqHandledError.
Ack(w) ==
  /\ pc[w] = "ack"
  /\ SetEntry(msg[w], "acked")
  /\ Finish(w)
  /\ UNCHANGED <<scheduling, ledger, stores, faults>>

\* XACK throws: allSettled swallows it, the entry stays pending.
AckFails(w) ==
  /\ pc[w] = "ack" /\ Fault
  /\ Finish(w)
  /\ UNCHANGED <<scheduling, entry, ledger, stores>>

-----------------------------------------------------------------------------
(* AuditPersistenceProcessor.process.                                      *)

\* ALREADY_PERSISTED or ALREADY_DEAD_LETTERED.
SkipFinished(w) ==
  /\ pc[w] = "begin" /\ Finished(ledger[Sig(w)])
  /\ GoTo(w, "ack")
  /\ UNCHANGED <<scheduling, entry, run, ledger, stores, faults>>

\* Mutant: the entry is ACKed while another worker holds the lease.
SkipLeasedAcks(w) ==
  /\ pc[w] = "begin" /\ LeaseHeld(ledger[Sig(w)])
  /\ GoTo(w, "ack")
  /\ UNCHANGED <<scheduling, entry, run, ledger, stores, faults>>

\* LEASE_HELD: ActiveAuditProcessingLeaseError, no ACK.
SkipLeased(w) ==
  /\ pc[w] = "begin" /\ LeaseHeld(ledger[Sig(w)])
  /\ Finish(w)
  /\ UNCHANGED <<scheduling, entry, ledger, stores, faults>>

\* attemptCount > maxAttempts.
Exhausted(row) == row.attempts > MaxAttempts

\* PROCESS, then the check of attemptCount.
Begin(w) ==
  /\ pc[w] = "begin" /\ MayProcess(ledger[Sig(w)])
  /\ LET row == Begun(ledger[Sig(w)])
     IN  /\ SetRow(Sig(w), row)
         /\ attempt' = [attempt EXCEPT ![w] = row.attempts]
         /\ GoTo(w, IF Exhausted(row) THEN "dlqSend" ELSE "persist")
  /\ UNCHANGED <<scheduling, entry, msg, stores, faults>>

\* beginProcessing throws: outside the try block, no ACK.
BeginFails(w) ==
  /\ pc[w] = "begin" /\ Fault
  /\ Finish(w)
  /\ UNCHANGED <<scheduling, entry, ledger, stores>>

\* upsertRawSignal, linked to the work item that the stream entry names.
Persist(w) ==
  /\ pc[w] = "persist"
  /\ raw' = [raw EXCEPT ![Sig(w)] = item[msg[w]]]
  /\ GoTo(w, "markPersisted")
  /\ UNCHANGED <<scheduling, entry, run, ledger, dead, faults>>

MarkPersisted(w) ==
  /\ pc[w] = "markPersisted"
  /\ SetRow(Sig(w), MarkedPersisted(ledger[Sig(w)]))
  /\ GoTo(w, "ack")
  /\ UNCHANGED <<scheduling, entry, run, stores, faults>>

\* An await of the try block throws; the UPDATE of markPersisted may have been
\* committed.
PersistFails(w) ==
  /\ pc[w] \in {"persist", "markPersisted"} /\ Fault
  /\ \/ ledger' = ledger
     \/ pc[w] = "markPersisted" /\ SetRow(Sig(w), MarkedPersisted(ledger[Sig(w)]))
  /\ GoTo(w, "markFailed")
  /\ UNCHANGED <<scheduling, entry, run, stores>>

MarkFailed(w) ==
  /\ pc[w] = "markFailed"
  /\ SetRow(Sig(w), MarkedFailed(ledger[Sig(w)]))
  /\ Finish(w)
  /\ UNCHANGED <<scheduling, entry, stores, faults>>

MarkFailedFails(w) ==
  /\ pc[w] = "markFailed" /\ Fault
  /\ Finish(w)
  /\ UNCHANGED <<scheduling, entry, ledger, stores>>

DlqSend(w) ==
  /\ pc[w] = "dlqSend"
  /\ dead' = [dead EXCEPT ![Sig(w)] = @ \cup {attempt[w]}]
  /\ GoTo(w, "dlqMark")
  /\ UNCHANGED <<scheduling, entry, run, ledger, raw, faults>>

\* markDeadLettered, then AuditDlqHandledError: processOne ACKs.
DlqMark(w) ==
  /\ pc[w] = "dlqMark"
  /\ SetRow(Sig(w), MarkedDeadLettered(ledger[Sig(w)]))
  /\ GoTo(w, "ack")
  /\ UNCHANGED <<scheduling, entry, run, stores, faults>>

\* dlq.send returned false or markDeadLettered threw: no ACK.
HandoffFails(w) ==
  /\ pc[w] \in {"dlqSend", "dlqMark"} /\ Fault
  /\ Finish(w)
  /\ UNCHANGED <<scheduling, entry, ledger, stores>>

-----------------------------------------------------------------------------
(* Time and crashes.                                                       *)

InFlight(s) == \E w \in Workers : pc[w] \in Leased /\ Sig(w) = s

Age(s) ==
  /\ ledger[s].lease = "fresh"
  /\ SetRow(s, LeaseAged(ledger[s]))
  /\ UNCHANGED <<scheduling, entry, pc, run, stores>>

\* The lease of an attempt that nobody runs any more runs out.
LeaseLapses(s) == ~InFlight(s) /\ Age(s) /\ UNCHANGED faults

\* It runs out under a worker that is slow but alive.
LeaseOverrun(s) == InFlight(s) /\ Age(s) /\ Fault

\* The process of a worker dies.
Crash(w) ==
  /\ pc[w] # "idle" /\ Fault
  /\ Finish(w)
  /\ UNCHANGED <<scheduling, entry, ledger, stores>>

-----------------------------------------------------------------------------
Produce(r) == (\E i \in Items : Schedule(r, i)) \/ Enqueue(r)

Step(w) ==
  \/ Deliver(w) \/ Ack(w) \/ SkipFinished(w) \/ SkipLeased(w) \/ Begin(w)
  \/ Persist(w) \/ MarkPersisted(w) \/ MarkFailed(w) \/ DlqSend(w) \/ DlqMark(w)

Fails(w) ==
  \/ AckFails(w) \/ BeginFails(w) \/ PersistFails(w) \/ MarkFailedFails(w)
  \/ HandoffFails(w) \/ Crash(w)

Next ==
  \/ \E r \in Runs : Produce(r) \/ EnqueueFails(r)
  \/ \E w \in Workers : Step(w) \/ Fails(w)
  \/ \E s \in Signals : LeaseLapses(s) \/ LeaseOverrun(s)

Spec == Init /\ [][Next]_vars

\* Audit workers are running or restarted, and time passes.
FairSpec ==
  /\ Spec
  /\ \A w \in Workers : WF_vars(Step(w))
  /\ \A s \in Signals : WF_vars(LeaseLapses(s))

-----------------------------------------------------------------------------
(* Properties.                                                             *)

\* Types; a worker has an entry exactly while it is busy, a delivered entry
\* names its work item, and its signal has a ledger row.
TypeOK ==
  /\ producer \in [Runs -> {"new", "enqueue", "done"}]
  /\ item \in [Runs -> Items \cup {"none"}]
  /\ stream \in Seq(Runs)
  /\ entry \in [Runs -> {"absent", "unread", "pending", "acked", "trimmed"}]
  /\ \A r \in Runs : entry[r] # "absent" =>
       item[r] \in Items /\ ledger[r[1]].status # "ABSENT"
  /\ pc \in [Workers -> Leased \cup {"idle", "begin", "ack"}]
  /\ msg \in [Workers -> Runs \cup {NoRun}]
  /\ \A w \in Workers : IF pc[w] = "idle" THEN msg[w] = NoRun
                                          ELSE msg[w] \in Runs /\ entry[msg[w]] # "absent"
  /\ attempt \in [Workers -> Nat]
  /\ ledger \in [Signals -> AuditRow]
  /\ raw \in [Signals -> Items \cup {"none"}]
  /\ dead \in [Signals -> SUBSET Nat]
  /\ faults \in 0 .. MaxFaults

\* An ACKed audit entry is never redelivered: by then the signal is in
\* signals_raw or in the DLQ, whatever two workers of one signal do.
AckedIsStored ==
  \A r \in Runs : entry[r] = "acked" => raw[r[1]] # "none" \/ dead[r[1]] # {}

\* The ledger says PERSISTED only of signals that MongoDB has.
PersistedIsStored ==
  \A s \in Signals : ledger[s].status = "PERSISTED" => raw[s] # "none"

\* A signal gets a second audit entry only for a failed attempt: concurrent and
\* repeated schedule() calls do not duplicate an entry that is on its way.
EntriesBounded ==
  \A s \in Signals :
    Cardinality({r \in Runs : r[1] = s /\ (producer[r] = "enqueue" \/ entry[r] # "absent")})
      <= 1 + faults

\* Every entry that reached the stream is ACKed in the end unless the stream
\* length limit evicts it, although workers crash and calls fail.
EveryEntryLeaves ==
  \A r \in Runs : entry[r] = "unread" ~> entry[r] \in {"acked", "trimmed"}
=============================================================================
