------------------------- MODULE AuditPipelineProofs -------------------------
(* Proofs about the audit path (AuditPipeline).                              *)
EXTENDS AuditPipeline, FiniteSetTheorems, TLAPS

-----------------------------------------------------------------------------
(* The rows of the ledger.                                                 *)

\* Every statement keeps the rows well formed: PROCESSING has a lease, no other has.
LEMMA RowSteps ==
  ASSUME NEW row \in AuditRow, NEW i \in Items
  PROVE  /\ Scheduled(row, i) \in AuditRow /\ Begun(row) \in AuditRow
         /\ MarkedPersisted(row) \in AuditRow /\ MarkedDeadLettered(row) \in AuditRow
         /\ MarkedFailed(row) \in AuditRow
         /\ row.lease = "fresh" => LeaseAged(row) \in AuditRow
<1>1. Scheduled(row, i) \in AuditRow
  BY DEF AuditRow, AuditStatus, Scheduled, MustEnqueue
<1>2. Begun(row) \in AuditRow
  <2>1. row.attempts + 1 \in Nat
    BY DEF AuditRow
  <2> QED BY <2>1 DEF AuditRow, AuditStatus, Begun
<1>3. /\ MarkedPersisted(row) \in AuditRow /\ MarkedDeadLettered(row) \in AuditRow
      /\ MarkedFailed(row) \in AuditRow
  BY DEF AuditRow, AuditStatus, MarkedPersisted, MarkedDeadLettered, MarkedFailed
<1>4. row.lease = "fresh" => LeaseAged(row) \in AuditRow
  BY DEF AuditRow, AuditStatus, LeaseAged
<1> QED BY <1>1, <1>2, <1>3, <1>4

LEMMA RowStatus ==
  ASSUME NEW row \in AuditRow, NEW i \in Items
  PROVE  /\ Scheduled(row, i).status = IF MustEnqueue(row) THEN "PENDING" ELSE row.status
         /\ Begun(row).status = "PROCESSING"
         /\ MarkedPersisted(row).status = "PERSISTED"
         /\ MarkedDeadLettered(row).status = "DLQ"
         /\ MarkedFailed(row).status = "FAILED"
         /\ LeaseAged(row).status = row.status
BY DEF AuditRow, AuditStatus, Scheduled, MustEnqueue, Begun, MarkedPersisted,
       MarkedDeadLettered, MarkedFailed, LeaseAged

LEMMA StartingRow == NoRow \in AuditRow /\ NoRow.status = "ABSENT"
BY DEF NoRow, AuditRow, AuditStatus

-----------------------------------------------------------------------------
(* Types.                                                                  *)

\* A run that is about to add its entry has committed the ledger row.
ScheduledFirst ==
  \A r \in Runs : producer[r] = "enqueue" => item[r] \in Items /\ ledger[r[1]].status # "ABSENT"

\* The stream holds entries that were added.
StreamKnown == \A k \in 1 .. Len(stream) : entry[stream[k]] # "absent"

TypeInv == TypeOK /\ ScheduledFirst /\ StreamKnown

LEMMA RunParts ==
  ASSUME NEW r \in Runs
  PROVE  r[1] \in Signals /\ r # NoRun
<1>1. PICK s \in Signals, k \in 1 .. MaxRuns : r = <<s, k>>
  BY DEF Runs
<1>2. Len(<<s, k>>) = 2 /\ Len(<<>>) = 0
  OBVIOUS
<1> QED BY <1>1, <1>2 DEF NoRun

LEMMA FaultTyped ==
  ASSUME TypeInv, Fault \/ UNCHANGED faults
  PROVE  faults' \in 0 .. MaxFaults
BY MaxFaultsAssumption DEF TypeInv, TypeOK, Fault

\* The worker that has an entry: its signal, the row of that signal, its work item.
LEMMA Busy ==
  ASSUME TypeInv, NEW w \in Workers, pc[w] # "idle"
  PROVE  /\ msg[w] \in Runs /\ Sig(w) \in Signals /\ entry[msg[w]] # "absent"
         /\ item[msg[w]] \in Items /\ item[msg[w]] # "none"
         /\ ledger[Sig(w)] \in AuditRow /\ ledger[Sig(w)].status # "ABSENT"
<1>1. msg[w] \in Runs /\ entry[msg[w]] # "absent"
  BY DEF TypeInv, TypeOK
<1>2. Sig(w) \in Signals
  BY <1>1, RunParts DEF Sig
<1> QED BY <1>1, <1>2, ItemsAssumption DEF TypeInv, TypeOK, Sig

\* A row may be replaced by any other one that is not absent.
LEMMA NewRow ==
  ASSUME TypeInv, NEW s \in Signals, NEW row \in AuditRow, row.status # "ABSENT", SetRow(s, row),
         UNCHANGED <<scheduling, entry>>
  PROVE  /\ ledger' \in [Signals -> AuditRow] /\ ScheduledFirst'
         /\ \A r \in Runs : entry'[r] # "absent" => item'[r] \in Items /\ ledger'[r[1]].status # "ABSENT"
<1>1. ledger' = [ledger EXCEPT ![s] = row] /\ ledger \in [Signals -> AuditRow]
  BY DEF SetRow, TypeInv, TypeOK
<1>2. ASSUME NEW r \in Runs, ledger[r[1]].status # "ABSENT" PROVE ledger'[r[1]].status # "ABSENT"
  BY <1>1, <1>2, RunParts
<1> QED BY <1>1, <1>2 DEF TypeInv, TypeOK, ScheduledFirst, scheduling

LEMMA WorkerAdvances ==
  ASSUME TypeInv, NEW w \in Workers, pc[w] # "idle", NEW p \in Leased \cup {"begin", "ack"},
         GoTo(w, p), UNCHANGED <<scheduling, msg>>, NEW row \in AuditRow, row.status # "ABSENT",
         UNCHANGED ledger \/ SetRow(Sig(w), row),
         attempt' \in [Workers -> Nat], raw' \in [Signals -> Items \cup {"none"}],
         dead' \in [Signals -> SUBSET Nat], UNCHANGED entry, Fault \/ UNCHANGED faults
  PROVE  TypeInv'
<1>1. faults' \in 0 .. MaxFaults
  BY FaultTyped
<1>2. /\ ledger' \in [Signals -> AuditRow] /\ ScheduledFirst'
      /\ \A r \in Runs : entry'[r] # "absent" => item'[r] \in Items /\ ledger'[r[1]].status # "ABSENT"
  <2>1. CASE UNCHANGED ledger
    BY <2>1 DEF TypeInv, TypeOK, ScheduledFirst, scheduling
  <2>2. CASE SetRow(Sig(w), row)
    BY <2>2, Busy, NewRow
  <2> QED BY <2>1, <2>2
<1>3. /\ pc' \in [Workers -> Leased \cup {"idle", "begin", "ack"}] /\ msg' = msg
      /\ pc'[w] = p /\ p # "idle" /\ \A v \in Workers \ {w} : pc'[v] = pc[v]
  BY DEF GoTo, TypeInv, TypeOK, Leased
<1>4. \A v \in Workers : IF pc'[v] = "idle" THEN msg'[v] = NoRun
                                            ELSE msg'[v] \in Runs /\ entry'[msg'[v]] # "absent"
  BY <1>3, Busy DEF TypeInv, TypeOK
<1> QED BY <1>1, <1>2, <1>3, <1>4 DEF TypeInv, TypeOK, StreamKnown, scheduling

LEMMA WorkerFinishes ==
  ASSUME TypeInv, NEW w \in Workers, pc[w] # "idle", Finish(w), UNCHANGED <<scheduling, stores>>,
         NEW row \in AuditRow, row.status # "ABSENT",
         UNCHANGED ledger \/ (SetRow(Sig(w), row) /\ UNCHANGED entry),
         UNCHANGED entry \/ SetEntry(msg[w], "acked"), Fault \/ UNCHANGED faults
  PROVE  TypeInv'
<1>1. faults' \in 0 .. MaxFaults
  BY FaultTyped
<1>2. /\ entry' \in [Runs -> {"absent", "unread", "pending", "acked", "trimmed"}]
      /\ \A r \in Runs : entry'[r] = "absent" <=> entry[r] = "absent"
  <2>1. entry \in [Runs -> {"absent", "unread", "pending", "acked", "trimmed"}]
        /\ msg[w] \in Runs /\ entry[msg[w]] # "absent"
    BY Busy DEF TypeInv, TypeOK
  <2>2. CASE UNCHANGED entry
    BY <2>1, <2>2
  <2>3. CASE entry' = [entry EXCEPT ![msg[w]] = "acked"]
    BY <2>1, <2>3
  <2> QED BY <2>2, <2>3 DEF SetEntry
<1>3. /\ ledger' \in [Signals -> AuditRow] /\ ScheduledFirst'
      /\ \A r \in Runs : entry'[r] # "absent" => item'[r] \in Items /\ ledger'[r[1]].status # "ABSENT"
  <2>1. CASE UNCHANGED ledger
    BY <1>2, <2>1 DEF TypeInv, TypeOK, ScheduledFirst, scheduling
  <2>2. CASE SetRow(Sig(w), row) /\ UNCHANGED entry
    BY <2>2, Busy, NewRow
  <2> QED BY <2>1, <2>2
<1>4. /\ pc' = [pc EXCEPT ![w] = "idle"] /\ msg' = [msg EXCEPT ![w] = NoRun]
      /\ attempt' = [attempt EXCEPT ![w] = 0]
  BY DEF Finish, GoTo
<1>5. /\ pc' \in [Workers -> Leased \cup {"idle", "begin", "ack"}]
      /\ msg' \in [Workers -> Runs \cup {NoRun}] /\ attempt' \in [Workers -> Nat]
      /\ \A v \in Workers : IF pc'[v] = "idle" THEN msg'[v] = NoRun
                            ELSE msg'[v] \in Runs /\ entry'[msg'[v]] # "absent"
  BY <1>2, <1>4 DEF TypeInv, TypeOK
<1>6. StreamKnown'
  BY <1>2 DEF TypeInv, TypeOK, StreamKnown, scheduling
<1> QED BY <1>1, <1>2, <1>3, <1>5, <1>6 DEF TypeInv, TypeOK, scheduling, stores

LEMMA ScheduleTyped ==
  ASSUME TypeInv, NEW r \in Runs, NEW i \in Items, Schedule(r, i)
  PROVE  TypeInv'
<1>1. r[1] \in Signals /\ ledger[r[1]] \in AuditRow
  BY RunParts DEF TypeInv, TypeOK
<1> DEFINE row == Scheduled(ledger[r[1]], i)
<1>2. row \in AuditRow /\ row.status # "ABSENT"
  BY <1>1, RowSteps, RowStatus DEF MustEnqueue
<1> HIDE DEF row
<1>3. /\ ledger' = [ledger EXCEPT ![r[1]] = row] /\ item' = [item EXCEPT ![r] = i]
      /\ producer' = [producer EXCEPT ![r] = IF MustEnqueue(ledger[r[1]]) THEN "enqueue" ELSE "done"]
      /\ UNCHANGED <<stream, entry, pc, msg, attempt, raw, dead, faults>>
  BY DEF Schedule, SetRow, SetProducer, run, stores, row
<1>4. /\ ledger' \in [Signals -> AuditRow] /\ item' \in [Runs -> Items \cup {"none"}]
      /\ producer' \in [Runs -> {"new", "enqueue", "done"}]
  BY <1>1, <1>2, <1>3 DEF TypeInv, TypeOK
<1>5. ASSUME NEW x \in Runs
      PROVE  /\ ledger[x[1]].status # "ABSENT" => ledger'[x[1]].status # "ABSENT"
             /\ x = r => ledger'[x[1]].status # "ABSENT"
             /\ item[x] \in Items => item'[x] \in Items
             /\ x = r => item'[x] \in Items
             /\ x # r => producer'[x] = producer[x]
  BY <1>1, <1>2, <1>3, RunParts DEF TypeInv, TypeOK
<1>6. ScheduledFirst'
  BY <1>5 DEF TypeInv, ScheduledFirst
<1>7. \A x \in Runs : entry'[x] # "absent" => item'[x] \in Items /\ ledger'[x[1]].status # "ABSENT"
  BY <1>3, <1>5 DEF TypeInv, TypeOK
<1> QED BY <1>3, <1>4, <1>6, <1>7 DEF TypeInv, TypeOK, StreamKnown

LEMMA EnqueueTyped ==
  ASSUME TypeInv, NEW r \in Runs, Enqueue(r)
  PROVE  TypeInv'
<1>1. /\ producer[r] = "enqueue" /\ producer' = [producer EXCEPT ![r] = "done"]
      /\ UNCHANGED <<item, pc, msg, attempt, ledger, raw, dead, faults>>
  BY DEF Enqueue, SetProducer, run, stores
<1>2. PICK evicted \in 0 .. Len(stream) :
        /\ stream' = Append(SubSeq(stream, evicted + 1, Len(stream)), r)
        /\ entry' = [x \in Runs |->
             IF x = r THEN "unread"
             ELSE IF entry[x] # "acked" /\ \E k \in 1 .. evicted : stream[k] = x
             THEN "trimmed" ELSE entry[x]]
  BY DEF Enqueue
<1>3. stream' \in Seq(Runs) /\ \A k \in 1 .. Len(stream') : stream'[k] = r \/ entry[stream'[k]] # "absent"
  <2> DEFINE kept == SubSeq(stream, evicted + 1, Len(stream))
  <2>1. /\ kept \in Seq(Runs) /\ Len(kept) = Len(stream) - evicted
        /\ \A k \in 1 .. Len(kept) : kept[k] = stream[k + evicted] /\ k + evicted \in 1 .. Len(stream)
    BY DEF TypeInv, TypeOK
  <2>2. \A k \in 1 .. Len(kept) : entry[kept[k]] # "absent"
    BY <2>1 DEF TypeInv, StreamKnown
  <2> HIDE DEF kept
  <2>3. stream' = Append(kept, r)
    BY <1>2 DEF kept
  <2> QED BY <2>1, <2>2, <2>3
<1>4. /\ entry' \in [Runs -> {"absent", "unread", "pending", "acked", "trimmed"}]
      /\ \A x \in Runs \ {r} : entry'[x] # "absent" <=> entry[x] # "absent"
      /\ entry'[r] # "absent"
  <2>1. \A k \in 1 .. evicted : stream[k] \in Runs /\ entry[stream[k]] # "absent"
    BY DEF TypeInv, TypeOK, StreamKnown
  <2> QED BY <1>2, <2>1 DEF TypeInv, TypeOK
<1>5. StreamKnown'
  BY <1>3, <1>4 DEF StreamKnown, TypeInv, TypeOK
<1>6. \A w \in Workers : msg[w] \in Runs /\ entry[msg[w]] # "absent" => entry'[msg[w]] # "absent"
  BY <1>4
<1> QED BY <1>1, <1>3, <1>4, <1>5, <1>6 DEF TypeInv, TypeOK, ScheduledFirst

\* XREADGROUP or XAUTOCLAIM.
LEMMA DeliverTyped ==
  ASSUME TypeInv, NEW w \in Workers, Deliver(w)
  PROVE  TypeInv'
<1>1. PICK r \in Runs :
        /\ entry[r] \in {"unread", "pending"}
        /\ entry' = [entry EXCEPT ![r] = "pending"] /\ msg' = [msg EXCEPT ![w] = r]
  BY DEF Deliver, SetEntry
<1>2. /\ pc' = [pc EXCEPT ![w] = "begin"]
      /\ UNCHANGED <<producer, item, stream, attempt, ledger, raw, dead, faults>>
  BY DEF Deliver, GoTo, scheduling, stores
<1>3. /\ entry' \in [Runs -> {"absent", "unread", "pending", "acked", "trimmed"}]
      /\ \A x \in Runs : entry'[x] # "absent" <=> entry[x] # "absent"
  BY <1>1 DEF TypeInv, TypeOK
<1>4. /\ pc' \in [Workers -> Leased \cup {"idle", "begin", "ack"}]
      /\ msg' \in [Workers -> Runs \cup {NoRun}]
      /\ \A v \in Workers : IF pc'[v] = "idle" THEN msg'[v] = NoRun
                            ELSE msg'[v] \in Runs /\ entry'[msg'[v]] # "absent"
  BY <1>1, <1>2, <1>3 DEF TypeInv, TypeOK
<1> QED BY <1>2, <1>3, <1>4 DEF TypeInv, TypeOK, ScheduledFirst, StreamKnown

LEMMA AgeTyped ==
  ASSUME TypeInv, NEW s \in Signals, Age(s), Fault \/ UNCHANGED faults
  PROVE  TypeInv'
<1>1. /\ LeaseAged(ledger[s]) \in AuditRow /\ LeaseAged(ledger[s]).status # "ABSENT"
      /\ SetRow(s, LeaseAged(ledger[s]))
  <2>1. ledger[s] \in AuditRow /\ ledger[s].lease = "fresh"
    BY DEF Age, TypeInv, TypeOK
  <2>2. ledger[s].status = "PROCESSING" /\ LeaseAged(ledger[s]).status = ledger[s].status
    BY <2>1 DEF AuditRow, LeaseAged
  <2>3. LeaseAged(ledger[s]) \in AuditRow
    BY <2>1 DEF AuditRow, LeaseAged
  <2> QED BY <2>2, <2>3 DEF Age
<1>2. UNCHANGED <<scheduling, entry, pc, run, stores>>
  BY DEF Age
<1>3. faults' \in 0 .. MaxFaults
  BY FaultTyped
<1>4. /\ ledger' \in [Signals -> AuditRow] /\ ScheduledFirst'
      /\ \A r \in Runs : entry'[r] # "absent" => item'[r] \in Items /\ ledger'[r[1]].status # "ABSENT"
  BY <1>1, <1>2, NewRow
<1> QED BY <1>2, <1>3, <1>4 DEF TypeInv, TypeOK, StreamKnown, scheduling, run, stores

\* The steps of a worker, by what they do to the row of its signal.
LEMMA StepTyped ==
  ASSUME TypeInv, NEW w \in Workers, Step(w)
  PROVE  TypeInv'
<1> DEFINE row == ledger[Sig(w)]
<1>1. ASSUME pc[w] # "idle"
      PROVE  /\ row \in AuditRow /\ row.status # "ABSENT"
             /\ Begun(row) \in AuditRow /\ Begun(row).status # "ABSENT"
             /\ MarkedPersisted(row) \in AuditRow /\ MarkedPersisted(row).status # "ABSENT"
             /\ MarkedDeadLettered(row) \in AuditRow /\ MarkedDeadLettered(row).status # "ABSENT"
             /\ MarkedFailed(row) \in AuditRow /\ MarkedFailed(row).status # "ABSENT"
  BY <1>1, Busy, RowSteps, RowStatus
<1>2. /\ attempt \in [Workers -> Nat] /\ raw \in [Signals -> Items \cup {"none"}]
      /\ dead \in [Signals -> SUBSET Nat]
  BY DEF TypeInv, TypeOK
<1>3. CASE Deliver(w)
  BY <1>3, DeliverTyped
<1>4. CASE Ack(w)
  BY <1>1, <1>4, WorkerFinishes DEF Ack
<1>5. CASE SkipFinished(w)
  BY <1>1, <1>2, <1>5, WorkerAdvances DEF SkipFinished, run, stores
<1>6. CASE SkipLeased(w)
  BY <1>1, <1>6, WorkerFinishes DEF SkipLeased
<1>7. CASE Begin(w)
  <2>1. /\ pc[w] = "begin" /\ SetRow(Sig(w), Begun(row))
        /\ attempt' = [attempt EXCEPT ![w] = Begun(row).attempts]
        /\ \/ GoTo(w, "dlqSend")
           \/ GoTo(w, "persist")
        /\ UNCHANGED <<scheduling, entry, msg, raw, dead, faults>>
    BY <1>7 DEF Begin, stores
  <2>2. Begun(row).attempts \in Nat
    BY <1>1, <2>1 DEF AuditRow
  <2>3. attempt' \in [Workers -> Nat]
    BY <1>2, <2>1, <2>2
  <2>4. "dlqSend" \in Leased /\ "persist" \in Leased
    BY DEF Leased
  <2> QED BY <1>1, <1>2, <2>1, <2>3, <2>4, WorkerAdvances
<1>8. CASE Persist(w)
  <2>1. raw' \in [Signals -> Items \cup {"none"}]
    BY <1>2, <1>8, Busy DEF Persist
  <2>2. "markPersisted" \in Leased
    BY DEF Leased
  <2> QED BY <1>1, <1>2, <1>8, <2>1, <2>2, WorkerAdvances DEF Persist, run
<1>9. CASE MarkPersisted(w)
  BY <1>1, <1>2, <1>9, WorkerAdvances DEF MarkPersisted, run, stores
<1>10. CASE MarkFailed(w)
  BY <1>1, <1>10, WorkerFinishes DEF MarkFailed
<1>11. CASE DlqSend(w)
  <2>1. attempt[w] \in Nat /\ Sig(w) \in Signals /\ dead' = [dead EXCEPT ![Sig(w)] = @ \cup {attempt[w]}]
    BY <1>2, <1>11, Busy DEF DlqSend
  <2>2. dead' \in [Signals -> SUBSET Nat]
    BY <1>2, <2>1
  <2>3. "dlqMark" \in Leased
    BY DEF Leased
  <2> QED BY <1>1, <1>2, <1>11, <2>2, <2>3, WorkerAdvances DEF DlqSend, run
<1>12. CASE DlqMark(w)
  BY <1>1, <1>2, <1>12, WorkerAdvances DEF DlqMark, run, stores
<1> QED BY <1>3, <1>4, <1>5, <1>6, <1>7, <1>8, <1>9, <1>10, <1>11, <1>12 DEF Step

LEMMA FailsTyped ==
  ASSUME TypeInv, NEW w \in Workers, Fails(w)
  PROVE  TypeInv'
<1> DEFINE row == ledger[Sig(w)]
<1>1. pc[w] # "idle"
  BY DEF Fails, AckFails, BeginFails, PersistFails, MarkFailedFails, HandoffFails, Crash
<1>2. /\ row \in AuditRow /\ row.status # "ABSENT"
      /\ MarkedPersisted(row) \in AuditRow /\ MarkedPersisted(row).status # "ABSENT"
  BY <1>1, Busy, RowSteps, RowStatus
<1>3. CASE PersistFails(w)
  <2>1. /\ attempt \in [Workers -> Nat] /\ raw \in [Signals -> Items \cup {"none"}]
        /\ dead \in [Signals -> SUBSET Nat] /\ "markFailed" \in Leased
    BY DEF TypeInv, TypeOK, Leased
  <2> QED BY <1>1, <1>2, <1>3, <2>1, WorkerAdvances DEF PersistFails, run, stores
<1>4. CASE AckFails(w) \/ BeginFails(w) \/ MarkFailedFails(w) \/ HandoffFails(w) \/ Crash(w)
  BY <1>1, <1>2, <1>4, WorkerFinishes DEF AckFails, BeginFails, MarkFailedFails, HandoffFails, Crash
<1> QED BY <1>3, <1>4 DEF Fails

LEMMA EnqueueFailsTyped ==
  ASSUME TypeInv, NEW r \in Runs, EnqueueFails(r)
  PROVE  TypeInv'
<1>1. /\ producer' = [producer EXCEPT ![r] = "done"]
      /\ UNCHANGED <<item, stream, entry, pc, msg, attempt, ledger, raw, dead>>
  BY DEF EnqueueFails, SetProducer, run, stores
<1>2. faults' \in 0 .. MaxFaults
  BY FaultTyped DEF EnqueueFails
<1> QED BY <1>1, <1>2 DEF TypeInv, TypeOK, ScheduledFirst, StreamKnown

LEMMA TypeStep ==
  ASSUME TypeInv, [Next]_vars
  PROVE  TypeInv'
<1>1. CASE \E s \in Signals : LeaseLapses(s) \/ LeaseOverrun(s)
  BY <1>1, AgeTyped DEF LeaseLapses, LeaseOverrun
<1>2. CASE UNCHANGED vars
  BY <1>2 DEF vars, TypeInv, TypeOK, ScheduledFirst, StreamKnown
<1> QED BY <1>1, <1>2, ScheduleTyped, EnqueueTyped, EnqueueFailsTyped, StepTyped, FailsTyped
     DEF Next, Produce

LEMMA TypeStart ==
  ASSUME Init
  PROVE  TypeInv
<1>1. ledger \in [Signals -> AuditRow]
  BY StartingRow DEF Init
<1>2. stream \in Seq(Runs) /\ Len(stream) = 0
  BY DEF Init
<1> QED BY <1>1, <1>2, MaxFaultsAssumption
     DEF Init, TypeInv, TypeOK, ScheduledFirst, StreamKnown

\* Types: a busy worker has an entry, and every entry a ledger row and a work item.
THEOREM TypeCorrect == Spec => []TypeOK
<1>1. Init => TypeInv
  BY TypeStart
<1>2. TypeInv /\ [Next]_vars => TypeInv'
  BY TypeStep
<1>3. TypeInv => TypeOK
  BY DEF TypeInv
<1> QED BY <1>1, <1>2, <1>3, PTL DEF Spec

-----------------------------------------------------------------------------
(* What is ACKed is stored.                                                *)

Stored(s) == raw[s] # "none" \/ dead[s] # {}

\* What a worker has stored when it comes to mark it or to ACK it.
WorkerStored(w) ==
  /\ pc[w] = "markPersisted" => raw[Sig(w)] # "none"
  /\ pc[w] = "dlqMark" => dead[Sig(w)] # {}
  /\ pc[w] = "ack" => Stored(Sig(w))

\* The workers of one signal know of each other by the row only: what the row says is
\* stored, too.
StoredInv ==
  /\ AckedIsStored /\ PersistedIsStored
  /\ \A s \in Signals : ledger[s].status = "DLQ" => dead[s] # {}
  /\ \A w \in Workers : WorkerStored(w)

\* Nothing is deleted from MongoDB.
StoresGrow ==
  \A s \in Signals : (raw[s] # "none" => raw'[s] # "none") /\ dead[s] \subseteq dead'[s]

LEMMA StoresOnlyGrow ==
  ASSUME TypeInv, [Next]_vars
  PROVE  StoresGrow
<1>1. ASSUME NEW w \in Workers, Persist(w) PROVE StoresGrow
  <2>1. Sig(w) \in Signals /\ item[msg[w]] # "none"
    BY <1>1, Busy DEF Persist
  <2> QED BY <1>1, <2>1 DEF Persist, StoresGrow, TypeInv, TypeOK
<1>2. ASSUME NEW w \in Workers, DlqSend(w) PROVE StoresGrow
  BY <1>2 DEF DlqSend, StoresGrow, TypeInv, TypeOK
<1>3. CASE UNCHANGED <<raw, dead>>
  BY <1>3 DEF StoresGrow
<1> QED BY <1>1, <1>2, <1>3
     DEF Next, vars, Produce, Schedule, Enqueue, EnqueueFails, Step, Deliver, Ack, SkipFinished,
         SkipLeased, Begin, MarkPersisted, MarkFailed, DlqMark, Fails, AckFails, BeginFails,
         PersistFails, MarkFailedFails, HandoffFails, Crash, LeaseLapses, LeaseOverrun, Age, stores

LEMMA StoredStays ==
  ASSUME TypeInv, TypeInv', StoredInv, StoresGrow,
         \A r \in Runs : entry'[r] = "acked" => entry[r] = "acked" \/ Stored(r[1]),
         \A s \in Signals :
           /\ ledger'[s].status = "PERSISTED" => ledger[s].status = "PERSISTED" \/ raw[s] # "none"
           /\ ledger'[s].status = "DLQ" => ledger[s].status = "DLQ" \/ dead[s] # {},
         \A w \in Workers : (pc'[w] = pc[w] /\ msg'[w] = msg[w]) \/ WorkerStored(w)'
  PROVE  StoredInv'
<1>1. ASSUME NEW s \in Signals, Stored(s) PROVE Stored(s)'
  BY <1>1 DEF StoresGrow, Stored
<1>2. AckedIsStored'
  BY <1>1, RunParts DEF StoredInv, AckedIsStored, Stored
<1>3. PersistedIsStored' /\ \A s \in Signals : ledger'[s].status = "DLQ" => dead'[s] # {}
  BY DEF StoredInv, PersistedIsStored, StoresGrow
<1>4. ASSUME NEW w \in Workers PROVE WorkerStored(w)'
  <2>1. CASE pc'[w] = pc[w] /\ msg'[w] = msg[w] /\ pc[w] # "idle"
    <3>1. Sig(w) \in Signals /\ Sig(w)' = Sig(w) /\ WorkerStored(w)
      BY <2>1, Busy DEF Sig, StoredInv
    <3> QED BY <1>1, <2>1, <3>1 DEF WorkerStored, StoresGrow
  <2>2. CASE pc'[w] = "idle"
    BY <2>2 DEF WorkerStored
  <2> QED BY <2>1, <2>2
<1> QED BY <1>2, <1>3, <1>4 DEF StoredInv

\* Steps that only schedule, or let leases age.
LEMMA OthersStored ==
  ASSUME TypeInv, TypeInv', StoredInv, StoresGrow, UNCHANGED <<pc, msg>>,
         \A r \in Runs : entry'[r] = "acked" => entry[r] = "acked",
         \A s \in Signals : ledger'[s].status \in {ledger[s].status, "PENDING"}
  PROVE  StoredInv'
BY StoredStays

LEMMA StepStored ==
  ASSUME TypeInv, TypeInv', StoredInv, StoresGrow, NEW w \in Workers, Step(w) \/ Fails(w)
  PROVE  StoredInv'
<1>1. /\ pc \in [Workers -> Leased \cup {"idle", "begin", "ack"}]
      /\ msg \in [Workers -> Runs \cup {NoRun}] /\ ledger \in [Signals -> AuditRow]
      /\ entry \in [Runs -> {"absent", "unread", "pending", "acked", "trimmed"}]
      /\ raw \in [Signals -> Items \cup {"none"}] /\ dead \in [Signals -> SUBSET Nat]
  BY DEF TypeInv, TypeOK
<1>2. pc[w] # "idle" => /\ Sig(w) \in Signals /\ msg[w] \in Runs /\ Sig(w) = msg[w][1]
                        /\ ledger[Sig(w)] \in AuditRow /\ item[msg[w]] # "none"
  BY Busy DEF Sig
<1>3. WorkerStored(w) /\ \A s \in Signals : ledger[s].status = "PERSISTED" => raw[s] # "none"
  BY DEF StoredInv, PersistedIsStored
<1>4. \A s \in Signals : ledger[s].status = "DLQ" => dead[s] # {}
  BY DEF StoredInv
<1>5. CASE Deliver(w)
  <2>1. PICK r \in Runs : entry' = [entry EXCEPT ![r] = "pending"] /\ msg' = [msg EXCEPT ![w] = r]
    BY <1>5 DEF Deliver, SetEntry
  <2>2. pc' = [pc EXCEPT ![w] = "begin"] /\ ledger' = ledger
    BY <1>5 DEF Deliver, GoTo
  <2>3. \A v \in Workers : (pc'[v] = pc[v] /\ msg'[v] = msg[v]) \/ WorkerStored(v)'
    BY <1>1, <2>1, <2>2 DEF WorkerStored
  <2> QED BY <1>1, <2>1, <2>2, <2>3, StoredStays
<1>6. CASE Ack(w)
  <2>1. /\ entry' = [entry EXCEPT ![msg[w]] = "acked"] /\ ledger' = ledger /\ pc[w] = "ack"
        /\ pc' = [pc EXCEPT ![w] = "idle"] /\ msg' = [msg EXCEPT ![w] = NoRun]
    BY <1>6 DEF Ack, SetEntry, Finish, GoTo
  <2>2. \A v \in Workers : (pc'[v] = pc[v] /\ msg'[v] = msg[v]) \/ WorkerStored(v)'
    BY <1>1, <2>1 DEF WorkerStored
  <2>3. \A r \in Runs : entry'[r] = "acked" => entry[r] = "acked" \/ Stored(r[1])
    BY <1>1, <1>2, <1>3, <2>1 DEF WorkerStored
  <2> QED BY <2>1, <2>2, <2>3, StoredStays
<1>7. CASE SkipFinished(w)
  <2>1. /\ pc' = [pc EXCEPT ![w] = "ack"] /\ msg' = msg /\ entry' = entry /\ ledger' = ledger
        /\ raw' = raw /\ dead' = dead /\ pc[w] = "begin" /\ Finished(ledger[Sig(w)])
    BY <1>7 DEF SkipFinished, GoTo, run, stores
  <2>2. Stored(Sig(w))
    BY <1>2, <1>3, <1>4, <2>1 DEF Finished, Stored
  <2>3. \A v \in Workers : (pc'[v] = pc[v] /\ msg'[v] = msg[v]) \/ WorkerStored(v)'
    BY <1>1, <2>1, <2>2 DEF WorkerStored, Stored, Sig
  <2> QED BY <2>1, <2>3, StoredStays
<1>8. CASE Begin(w)
  <2>1. /\ pc[w] = "begin" /\ SetRow(Sig(w), Begun(ledger[Sig(w)])) /\ msg' = msg /\ entry' = entry
        /\ pc' = [pc EXCEPT ![w] = "dlqSend"] \/ pc' = [pc EXCEPT ![w] = "persist"]
    BY <1>8 DEF Begin, GoTo
  <2>2. \A s \in Signals : ledger'[s].status \in {ledger[s].status, "PROCESSING"}
    BY <1>1, <1>2, <2>1 DEF SetRow, Begun, AuditRow
  <2>3. \A v \in Workers : (pc'[v] = pc[v] /\ msg'[v] = msg[v]) \/ WorkerStored(v)'
    BY <1>1, <2>1 DEF WorkerStored
  <2> QED BY <2>1, <2>2, <2>3, StoredStays
<1>9. CASE Persist(w)
  <2>1. /\ pc' = [pc EXCEPT ![w] = "markPersisted"] /\ msg' = msg /\ entry' = entry
        /\ ledger' = ledger /\ raw' = [raw EXCEPT ![Sig(w)] = item[msg[w]]] /\ pc[w] = "persist"
    BY <1>9 DEF Persist, GoTo, run
  <2>2. raw'[Sig(w)] # "none"
    BY <1>1, <1>2, <2>1
  <2>3. \A v \in Workers : (pc'[v] = pc[v] /\ msg'[v] = msg[v]) \/ WorkerStored(v)'
    BY <1>1, <2>1, <2>2 DEF WorkerStored, Sig
  <2> QED BY <2>1, <2>3, StoredStays
<1>10. CASE MarkPersisted(w)
  <2>1. /\ pc' = [pc EXCEPT ![w] = "ack"] /\ msg' = msg /\ entry' = entry /\ pc[w] = "markPersisted"
        /\ SetRow(Sig(w), MarkedPersisted(ledger[Sig(w)])) /\ raw' = raw
    BY <1>10 DEF MarkPersisted, GoTo, run, stores
  <2>2. raw[Sig(w)] # "none"
    BY <1>3, <2>1 DEF WorkerStored
  <2>3. /\ MarkedPersisted(ledger[Sig(w)]).status = "PERSISTED"
        /\ ledger' = [ledger EXCEPT ![Sig(w)] = MarkedPersisted(ledger[Sig(w)])]
    BY <1>2, <2>1, RowStatus, Busy DEF SetRow
  <2>4. \A s \in Signals : ledger'[s] = IF s = Sig(w) THEN MarkedPersisted(ledger[s]) ELSE ledger[s]
    BY <1>1, <2>3
  <2>5. \A v \in Workers : (pc'[v] = pc[v] /\ msg'[v] = msg[v]) \/ WorkerStored(v)'
    BY <1>1, <2>1, <2>2 DEF WorkerStored, Stored, Sig
  <2> QED BY <2>1, <2>2, <2>3, <2>4, <2>5, StoredStays
<1>11. CASE DlqSend(w)
  <2>1. /\ pc' = [pc EXCEPT ![w] = "dlqMark"] /\ msg' = msg /\ entry' = entry /\ ledger' = ledger
        /\ dead' = [dead EXCEPT ![Sig(w)] = @ \cup {attempt[w]}] /\ pc[w] = "dlqSend"
    BY <1>11 DEF DlqSend, GoTo, run
  <2>2. dead'[Sig(w)] # {}
    BY <1>1, <1>2, <2>1
  <2>3. \A v \in Workers : (pc'[v] = pc[v] /\ msg'[v] = msg[v]) \/ WorkerStored(v)'
    BY <1>1, <2>1, <2>2 DEF WorkerStored, Sig
  <2> QED BY <2>1, <2>3, StoredStays
<1>12. CASE DlqMark(w)
  <2>1. /\ pc' = [pc EXCEPT ![w] = "ack"] /\ msg' = msg /\ entry' = entry /\ pc[w] = "dlqMark"
        /\ SetRow(Sig(w), MarkedDeadLettered(ledger[Sig(w)])) /\ dead' = dead /\ raw' = raw
    BY <1>12 DEF DlqMark, GoTo, run, stores
  <2>2. dead[Sig(w)] # {}
    BY <1>3, <2>1 DEF WorkerStored
  <2>3. /\ MarkedDeadLettered(ledger[Sig(w)]).status = "DLQ"
        /\ ledger' = [ledger EXCEPT ![Sig(w)] = MarkedDeadLettered(ledger[Sig(w)])]
    BY <1>2, <2>1, RowStatus, Busy DEF SetRow
  <2>4. \A s \in Signals : ledger'[s] = IF s = Sig(w) THEN MarkedDeadLettered(ledger[s]) ELSE ledger[s]
    BY <1>1, <2>3
  <2>5. \A v \in Workers : (pc'[v] = pc[v] /\ msg'[v] = msg[v]) \/ WorkerStored(v)'
    BY <1>1, <2>1, <2>2 DEF WorkerStored, Stored, Sig
  <2> QED BY <2>1, <2>2, <2>3, <2>4, <2>5, StoredStays
<1>13. CASE PersistFails(w)
  <2>1. /\ pc' = [pc EXCEPT ![w] = "markFailed"] /\ msg' = msg /\ entry' = entry
        /\ \/ ledger' = ledger
           \/ pc[w] = "markPersisted" /\ ledger' = [ledger EXCEPT ![Sig(w)] = MarkedPersisted(ledger[Sig(w)])]
        /\ pc[w] # "idle"
    BY <1>13 DEF PersistFails, GoTo, run, SetRow
  <2>2. MarkedPersisted(ledger[Sig(w)]).status = "PERSISTED"
    BY <1>2, <2>1, RowStatus, Busy
  <2>3. \A s \in Signals :
          \/ ledger'[s] = ledger[s]
          \/ ledger'[s].status = "PERSISTED" /\ raw[s] # "none"
    BY <1>1, <1>2, <1>3, <2>1, <2>2 DEF WorkerStored
  <2>4. \A v \in Workers : (pc'[v] = pc[v] /\ msg'[v] = msg[v]) \/ WorkerStored(v)'
    BY <1>1, <2>1 DEF WorkerStored
  <2> QED BY <2>1, <2>3, <2>4, StoredStays
<1>14. CASE MarkFailed(w) \/ SkipLeased(w) \/ AckFails(w) \/ BeginFails(w) \/ MarkFailedFails(w)
            \/ HandoffFails(w) \/ Crash(w)
  <2>1. /\ pc' = [pc EXCEPT ![w] = "idle"] /\ msg' = [msg EXCEPT ![w] = NoRun] /\ entry' = entry
        /\ ledger' = ledger \/ ledger' = [ledger EXCEPT ![Sig(w)] = MarkedFailed(ledger[Sig(w)])]
        /\ pc[w] # "idle"
    BY <1>14 DEF MarkFailed, SkipLeased, AckFails, BeginFails, MarkFailedFails, HandoffFails,
                 Crash, Finish, GoTo, SetRow
  <2>2. MarkedFailed(ledger[Sig(w)]).status = "FAILED"
    BY <1>2, <2>1, RowStatus, Busy
  <2>3. \A s \in Signals : ledger'[s] = ledger[s] \/ ledger'[s].status = "FAILED"
    BY <1>1, <1>2, <2>1, <2>2
  <2>4. \A v \in Workers : (pc'[v] = pc[v] /\ msg'[v] = msg[v]) \/ WorkerStored(v)'
    BY <1>1, <2>1 DEF WorkerStored
  <2> QED BY <2>1, <2>3, <2>4, StoredStays
<1> QED BY <1>5, <1>6, <1>7, <1>8, <1>9, <1>10, <1>11, <1>12, <1>13, <1>14 DEF Step, Fails

LEMMA StoredStep ==
  ASSUME TypeInv, TypeInv', StoredInv, [Next]_vars
  PROVE  StoredInv'
<1>0. StoresGrow
  BY StoresOnlyGrow
<1>1. ASSUME NEW r \in Runs, NEW i \in Items, Schedule(r, i) PROVE StoredInv'
  <2>1. r[1] \in Signals /\ ledger \in [Signals -> AuditRow]
    BY RunParts DEF TypeInv, TypeOK
  <2>2. /\ ledger' = [ledger EXCEPT ![r[1]] = Scheduled(ledger[r[1]], i)]
        /\ UNCHANGED <<pc, msg, entry>>
    BY <1>1 DEF Schedule, SetRow, run
  <2>3. \A s \in Signals : ledger'[s].status \in {ledger[s].status, "PENDING"}
    BY <2>1, <2>2, RowStatus
  <2> QED BY <1>0, <2>2, <2>3, OthersStored
<1>2. ASSUME NEW r \in Runs, Enqueue(r) \/ EnqueueFails(r) PROVE StoredInv'
  <2>1. UNCHANGED <<pc, msg, ledger>> /\ \A x \in Runs : entry'[x] = "acked" => entry[x] = "acked"
    BY <1>2 DEF Enqueue, EnqueueFails, run
  <2> QED BY <1>0, <2>1, OthersStored
<1>3. ASSUME NEW s \in Signals, Age(s) PROVE StoredInv'
  <2>1. /\ ledger' = [ledger EXCEPT ![s] = LeaseAged(ledger[s])] /\ ledger \in [Signals -> AuditRow]
        /\ UNCHANGED <<pc, msg, entry>>
    BY <1>3 DEF Age, SetRow, run, TypeInv, TypeOK
  <2>2. \A t \in Signals : ledger'[t].status = ledger[t].status
    BY <2>1 DEF LeaseAged, AuditRow
  <2> QED BY <1>0, <2>1, <2>2, OthersStored
<1>4. CASE UNCHANGED vars
  BY <1>0, <1>4, OthersStored DEF vars
<1> QED BY <1>0, <1>1, <1>2, <1>3, <1>4, StepStored DEF Next, Produce, LeaseLapses, LeaseOverrun

LEMMA StoredStart ==
  ASSUME Init
  PROVE  StoredInv
BY StartingRow DEF Init, StoredInv, AckedIsStored, PersistedIsStored, WorkerStored

LEMMA StoredInvariant == Spec => [](TypeInv /\ StoredInv)
<1>1. Init => TypeInv /\ StoredInv
  BY TypeStart, StoredStart
<1>2. TypeInv /\ StoredInv /\ [Next]_vars => (TypeInv /\ StoredInv)'
  BY TypeStep, StoredStep
<1> QED BY <1>1, <1>2, PTL DEF Spec

\* An ACKed entry is never redelivered, and the signal is stored or dead-lettered by then:
\* also when ALREADY_PERSISTED or ALREADY_DEAD_LETTERED of another worker made it ACK.
THEOREM AckedEntriesAreStored == Spec => []AckedIsStored
<1>1. StoredInv => AckedIsStored
  BY DEF StoredInv
<1> QED BY <1>1, StoredInvariant, PTL

\* The ledger never says PERSISTED of a signal that MongoDB does not have.
THEOREM PersistedRowsAreStored == Spec => []PersistedIsStored
<1>1. StoredInv => PersistedIsStored
  BY DEF StoredInv
<1> QED BY <1>1, StoredInvariant, PTL

-----------------------------------------------------------------------------
(* How many entries a signal gets.                                         *)

Entries(s) == {r \in Runs : r[1] = s /\ (producer[r] = "enqueue" \/ entry[r] # "absent")}

\* Workers that are about to mark an attempt of the signal as failed.
Failing(s) == {w \in Workers : pc[w] = "markFailed" /\ msg[w][1] = s}

Due(row) == IF row.status = "FAILED" THEN 1 ELSE 0
First(row) == IF row.status = "ABSENT" THEN 0 ELSE 1

\* schedule() adds an entry for a row that is new or FAILED, and each FAILED row is the
\* work of a failed attempt that was counted on its way there.
CountOf(s) ==
  /\ IsFiniteSet(Entries(s)) /\ IsFiniteSet(Failing(s))
  /\ Cardinality(Entries(s)) + Cardinality(Failing(s)) + Due(ledger[s]) <= faults + First(ledger[s])

CountInv == \A s \in Signals : CountOf(s)

LEMMA OneMore ==
  ASSUME NEW S, IsFiniteSet(S), NEW e, NEW T, T \subseteq S \cup {e}
  PROVE  /\ IsFiniteSet(T) /\ Cardinality(T) \in Nat /\ Cardinality(S) \in Nat
         /\ Cardinality(T) <= Cardinality(S) + 1
<1>1. IsFiniteSet(S \cup {e})
      /\ Cardinality(S \cup {e}) = IF e \in S THEN Cardinality(S) ELSE Cardinality(S) + 1
  BY FS_AddElement
<1>2. IsFiniteSet(T) /\ Cardinality(T) <= Cardinality(S \cup {e})
  BY <1>1, FS_Subset
<1>3. Cardinality(T) \in Nat /\ Cardinality(S) \in Nat
  BY <1>2, FS_CardinalityType
<1> QED BY <1>1, <1>2, <1>3

LEMMA NoMore ==
  ASSUME NEW S, IsFiniteSet(S), NEW T, T \subseteq S
  PROVE  /\ IsFiniteSet(T) /\ Cardinality(T) \in Nat /\ Cardinality(S) \in Nat
         /\ Cardinality(T) <= Cardinality(S)
<1>1. IsFiniteSet(T) /\ Cardinality(T) <= Cardinality(S)
  BY FS_Subset
<1>2. Cardinality(T) \in Nat /\ Cardinality(S) \in Nat
  BY <1>1, FS_CardinalityType
<1> QED BY <1>1, <1>2

LEMMA OneLess ==
  ASSUME NEW S, IsFiniteSet(S), NEW e \in S, NEW T, T \subseteq S \ {e}
  PROVE  /\ IsFiniteSet(T) /\ Cardinality(T) \in Nat /\ Cardinality(S) \in Nat
         /\ Cardinality(T) + 1 <= Cardinality(S)
<1>1. IsFiniteSet(S \ {e})
      /\ Cardinality(S \ {e}) = IF e \in S THEN Cardinality(S) - 1 ELSE Cardinality(S)
  BY FS_RemoveElement
<1>2. IsFiniteSet(T) /\ Cardinality(T) <= Cardinality(S \ {e})
  BY <1>1, FS_Subset
<1>3. Cardinality(T) \in Nat /\ Cardinality(S) \in Nat
  BY <1>2, FS_CardinalityType
<1> QED BY <1>1, <1>2, <1>3

\* A step that adds no entry, no failing worker and no FAILED row.
LEMMA CountStays ==
  ASSUME NEW s \in Signals, CountOf(s), Entries(s)' \subseteq Entries(s),
         Failing(s)' \subseteq Failing(s), Due(ledger[s])' <= Due(ledger[s]),
         First(ledger[s]) <= First(ledger[s])', faults \in Nat, faults' \in Nat, faults <= faults'
  PROVE  CountOf(s)'
<1>1. /\ IsFiniteSet(Entries(s)') /\ Cardinality(Entries(s)') \in Nat /\ Cardinality(Entries(s)) \in Nat
      /\ Cardinality(Entries(s)') <= Cardinality(Entries(s))
  BY NoMore DEF CountOf
<1>2. /\ IsFiniteSet(Failing(s)') /\ Cardinality(Failing(s)') \in Nat /\ Cardinality(Failing(s)) \in Nat
      /\ Cardinality(Failing(s)') <= Cardinality(Failing(s))
  BY NoMore DEF CountOf
<1>3. /\ Due(ledger[s]) \in {0, 1} /\ Due(ledger[s])' \in {0, 1}
      /\ First(ledger[s]) \in {0, 1} /\ First(ledger[s])' \in {0, 1}
  BY DEF Due, First
<1>4. Cardinality(Entries(s)) + Cardinality(Failing(s)) + Due(ledger[s]) <= faults + First(ledger[s])
  BY DEF CountOf
<1>5. Cardinality(Entries(s)') + Cardinality(Failing(s)') + Due(ledger[s])' <= faults' + First(ledger[s])'
  <2> HIDE DEF Entries, Failing, Due, First
  <2> QED BY <1>1, <1>2, <1>3, <1>4
<1> QED BY <1>1, <1>2, <1>5 DEF CountOf

LEMMA FaultsGrow ==
  ASSUME TypeInv, Fault \/ UNCHANGED faults
  PROVE  /\ faults \in Nat /\ faults' \in Nat /\ faults <= faults'
         /\ Fault => faults' = faults + 1
BY MaxFaultsAssumption DEF TypeInv, TypeOK, Fault

\* schedule(): the new entry takes the place of a FAILED row, or is the first one.
LEMMA ScheduleCounted ==
  ASSUME TypeInv, CountInv, NEW r \in Runs, NEW i \in Items, Schedule(r, i), NEW s \in Signals
  PROVE  CountOf(s)'
<1>1. /\ r[1] \in Signals /\ ledger[r[1]] \in AuditRow /\ faults \in Nat
      /\ producer \in [Runs -> {"new", "enqueue", "done"}] /\ CountOf(s)
  BY RunParts, MaxFaultsAssumption DEF TypeInv, TypeOK, CountInv
<1>2. /\ producer[r] = "new"
      /\ producer' = [producer EXCEPT ![r] = IF MustEnqueue(ledger[r[1]]) THEN "enqueue" ELSE "done"]
      /\ ledger' = [ledger EXCEPT ![r[1]] = Scheduled(ledger[r[1]], i)]
      /\ UNCHANGED <<entry, pc, msg, faults>>
  BY DEF Schedule, SetRow, SetProducer, run
<1>3. Scheduled(ledger[r[1]], i).status
        = IF MustEnqueue(ledger[r[1]]) THEN "PENDING" ELSE ledger[r[1]].status
  BY <1>1, RowStatus
<1>4. Failing(s)' = Failing(s)
  BY <1>2 DEF Failing
<1>5. CASE s = r[1] /\ MustEnqueue(ledger[s])
  <2>1. ledger'[s].status = "PENDING"
    BY <1>1, <1>2, <1>3, <1>5 DEF TypeInv, TypeOK
  <2>2. /\ Due(ledger[s])' = 0 /\ First(ledger[s])' = 1
        /\ First(ledger[s]) - Due(ledger[s]) = 0 /\ First(ledger[s]) \in {0, 1} /\ Due(ledger[s]) \in {0, 1}
    BY <1>5, <2>1 DEF Due, First, MustEnqueue
  <2>3. Entries(s)' \subseteq Entries(s) \cup {r}
    BY <1>1, <1>2 DEF Entries
  <2>4. /\ IsFiniteSet(Entries(s)') /\ Cardinality(Entries(s)') \in Nat
        /\ Cardinality(Entries(s)) \in Nat /\ Cardinality(Entries(s)') <= Cardinality(Entries(s)) + 1
    BY <1>1, <2>3, OneMore DEF CountOf
  <2>5. IsFiniteSet(Failing(s)) /\ Cardinality(Failing(s)) \in Nat
    BY <1>1, FS_CardinalityType DEF CountOf
  <2>6. Cardinality(Entries(s)) + Cardinality(Failing(s)) + Due(ledger[s]) <= faults + First(ledger[s])
    BY <1>1 DEF CountOf
  <2>7. Cardinality(Entries(s)') + Cardinality(Failing(s)') + Due(ledger[s])' <= faults' + First(ledger[s])'
    <3> HIDE DEF Entries, Failing, Due, First
    <3> QED BY <1>1, <1>2, <1>4, <2>2, <2>4, <2>5, <2>6
  <2> QED BY <1>4, <2>4, <2>5, <2>7 DEF CountOf
<1>6. CASE s # r[1] \/ ~MustEnqueue(ledger[s])
  <2>1. ledger'[s].status = ledger[s].status
    BY <1>1, <1>2, <1>3, <1>6 DEF TypeInv, TypeOK
  <2>2. Due(ledger[s])' = Due(ledger[s]) /\ First(ledger[s])' = First(ledger[s])
    BY <2>1 DEF Due, First
  <2>3. Entries(s)' \subseteq Entries(s)
    BY <1>1, <1>2, <1>6 DEF Entries
  <2>4. Due(ledger[s]) \in Nat /\ First(ledger[s]) \in Nat
    BY DEF Due, First
  <2> QED BY <1>1, <1>2, <1>4, <2>2, <2>3, <2>4, CountStays
<1> QED BY <1>5, <1>6

\* Entries are known by their producer or by the group, from the XADD on.
LEMMA EntriesStay ==
  ASSUME UNCHANGED producer, \A r \in Runs : entry'[r] # "absent" => entry[r] # "absent",
         NEW s \in Signals
  PROVE  Entries(s)' \subseteq Entries(s)
BY DEF Entries

LEMMA EnqueueCounted ==
  ASSUME TypeInv, CountInv, NEW r \in Runs, Enqueue(r) \/ EnqueueFails(r), NEW s \in Signals
  PROVE  CountOf(s)'
<1>1. /\ producer[r] = "enqueue" /\ producer' = [producer EXCEPT ![r] = "done"]
      /\ pc' = pc /\ msg' = msg /\ ledger' = ledger /\ (Fault \/ UNCHANGED faults)
  BY DEF Enqueue, EnqueueFails, SetProducer, run
<1>2. \A x \in Runs \ {r} : entry'[x] # "absent" => entry[x] # "absent"
  <2>1. CASE EnqueueFails(r)
    BY <2>1 DEF EnqueueFails
  <2>2. CASE Enqueue(r)
    <3>1. PICK evicted \in 0 .. Len(stream) :
            entry' = [x \in Runs |->
              IF x = r THEN "unread"
              ELSE IF entry[x] # "acked" /\ \E k \in 1 .. evicted : stream[k] = x
              THEN "trimmed" ELSE entry[x]]
      BY <2>2 DEF Enqueue
    <3>2. \A k \in 1 .. evicted : entry[stream[k]] # "absent"
      <4>1. Len(stream) \in Nat
        BY DEF TypeInv, TypeOK
      <4> QED BY <4>1 DEF TypeInv, StreamKnown
    <3> QED BY <3>1, <3>2
  <2> QED BY <2>1, <2>2
<1>3. Entries(s)' \subseteq Entries(s)
  BY <1>1, <1>2 DEF Entries, TypeInv, TypeOK
<1>4. Failing(s)' = Failing(s)
  BY <1>1 DEF Failing
<1>5. /\ Due(ledger[s])' = Due(ledger[s]) /\ First(ledger[s])' = First(ledger[s])
      /\ Due(ledger[s]) \in Nat /\ First(ledger[s]) \in Nat
  BY <1>1 DEF Due, First
<1> QED BY <1>1, <1>3, <1>4, <1>5, FaultsGrow, CountStays DEF CountInv

\* The steps of a worker that neither come to the catch block nor end it.
LEMMA WorkerCounted ==
  ASSUME TypeInv, CountInv, NEW w \in Workers, UNCHANGED producer, Fault \/ UNCHANGED faults,
         \A r \in Runs : entry'[r] # "absent" => entry[r] # "absent",
         \A v \in Workers \ {w} : pc'[v] = pc[v] /\ msg'[v] = msg[v], pc'[w] # "markFailed",
         \A t \in Signals : ledger'[t].status = ledger[t].status
                            \/ (ledger'[t].status # "FAILED" /\ ledger'[t].status # "ABSENT"),
         NEW s \in Signals
  PROVE  CountOf(s)'
<1>1. Entries(s)' \subseteq Entries(s)
  BY EntriesStay
<1>2. Failing(s)' \subseteq Failing(s)
  BY DEF Failing
<1>3. Due(ledger[s])' <= Due(ledger[s]) /\ First(ledger[s]) <= First(ledger[s])'
  BY DEF Due, First
<1> QED BY <1>1, <1>2, <1>3, FaultsGrow, CountStays DEF CountInv

\* An attempt fails, at the price of one fault.
LEMMA PersistFailsCounted ==
  ASSUME TypeInv, CountInv, NEW w \in Workers, PersistFails(w), NEW s \in Signals
  PROVE  CountOf(s)'
<1>1. /\ Fault /\ pc[w] # "idle" /\ pc' = [pc EXCEPT ![w] = "markFailed"]
      /\ UNCHANGED <<producer, entry, msg>>
      /\ ledger' = ledger \/ ledger' = [ledger EXCEPT ![Sig(w)] = MarkedPersisted(ledger[Sig(w)])]
      /\ ledger \in [Signals -> AuditRow] /\ pc \in [Workers -> Leased \cup {"idle", "begin", "ack"}]
  BY DEF PersistFails, GoTo, SetRow, scheduling, run, TypeInv, TypeOK
<1>2. MarkedPersisted(ledger[Sig(w)]).status = "PERSISTED" /\ Sig(w) \in Signals
  BY <1>1, Busy, RowStatus
<1>3. /\ Entries(s)' = Entries(s) /\ Failing(s)' \subseteq Failing(s) \cup {w}
  BY <1>1 DEF Entries, Failing
<1>4. ledger'[s].status \in {ledger[s].status, "PERSISTED"}
  BY <1>1, <1>2
<1>5. /\ Due(ledger[s])' <= Due(ledger[s]) /\ First(ledger[s]) <= First(ledger[s])'
      /\ Due(ledger[s]) \in Nat /\ First(ledger[s]) \in Nat
      /\ Due(ledger[s])' \in Nat /\ First(ledger[s])' \in Nat
  BY <1>4 DEF Due, First
<1>6. /\ IsFiniteSet(Failing(s)') /\ Cardinality(Failing(s)') \in Nat /\ Cardinality(Failing(s)) \in Nat
      /\ Cardinality(Failing(s)') <= Cardinality(Failing(s)) + 1
  BY <1>3, OneMore DEF CountInv, CountOf
<1>7. IsFiniteSet(Entries(s)) /\ Cardinality(Entries(s)) \in Nat
  BY FS_CardinalityType DEF CountInv, CountOf
<1>8. /\ faults' = faults + 1 /\ faults \in Nat
      /\ Cardinality(Entries(s)) + Cardinality(Failing(s)) + Due(ledger[s]) <= faults + First(ledger[s])
  BY <1>1, FaultsGrow DEF CountInv, CountOf
<1>9. Cardinality(Entries(s)') + Cardinality(Failing(s)') + Due(ledger[s])' <= faults' + First(ledger[s])'
  <2> HIDE DEF Entries, Failing, Due, First
  <2> QED BY <1>3, <1>5, <1>6, <1>7, <1>8
<1> QED BY <1>3, <1>6, <1>7, <1>9 DEF CountOf

\* markFailed: the attempt is over, its row is FAILED.
LEMMA MarkFailedCounted ==
  ASSUME TypeInv, CountInv, NEW w \in Workers, MarkFailed(w), NEW s \in Signals
  PROVE  CountOf(s)'
<1>1. /\ pc[w] = "markFailed" /\ pc' = [pc EXCEPT ![w] = "idle"] /\ msg' = [msg EXCEPT ![w] = NoRun]
      /\ UNCHANGED <<producer, entry, faults>>
      /\ ledger' = [ledger EXCEPT ![Sig(w)] = MarkedFailed(ledger[Sig(w)])]
      /\ ledger \in [Signals -> AuditRow] /\ pc \in [Workers -> Leased \cup {"idle", "begin", "ack"}]
      /\ msg \in [Workers -> Runs \cup {NoRun}]
  BY DEF MarkFailed, Finish, GoTo, SetRow, scheduling, TypeInv, TypeOK
<1>2. /\ MarkedFailed(ledger[Sig(w)]).status = "FAILED" /\ Sig(w) \in Signals /\ Sig(w) = msg[w][1]
      /\ ledger[Sig(w)].status # "ABSENT"
  BY <1>1, Busy, RowStatus DEF Sig
<1>3. Entries(s)' = Entries(s) /\ Failing(s)' \subseteq Failing(s) \ {w}
  BY <1>1 DEF Entries, Failing
<1>4. CASE s = Sig(w)
  <2>1. ledger'[s].status = "FAILED" /\ ledger[s].status # "ABSENT"
    BY <1>1, <1>2, <1>4
  <2>2. w \in Failing(s)
    BY <1>1, <1>2, <1>4 DEF Failing
  <2>3. /\ Due(ledger[s])' = 1 /\ First(ledger[s])' = 1 /\ First(ledger[s]) = 1 /\ Due(ledger[s]) \in Nat
    BY <2>1 DEF Due, First
  <2>4. /\ IsFiniteSet(Failing(s)') /\ Cardinality(Failing(s)') \in Nat /\ Cardinality(Failing(s)) \in Nat
        /\ Cardinality(Failing(s)') + 1 <= Cardinality(Failing(s))
    BY <1>3, <2>2, OneLess DEF CountInv, CountOf
  <2>5. IsFiniteSet(Entries(s)) /\ Cardinality(Entries(s)) \in Nat
    BY FS_CardinalityType DEF CountInv, CountOf
  <2>6. /\ faults \in Nat
        /\ Cardinality(Entries(s)) + Cardinality(Failing(s)) + Due(ledger[s]) <= faults + First(ledger[s])
    BY MaxFaultsAssumption DEF CountInv, CountOf, TypeInv, TypeOK
  <2>7. Cardinality(Entries(s)') + Cardinality(Failing(s)') + Due(ledger[s])' <= faults' + First(ledger[s])'
    <3> HIDE DEF Entries, Failing, Due, First
    <3> QED BY <1>1, <1>3, <2>3, <2>4, <2>5, <2>6
  <2> QED BY <1>3, <2>4, <2>5, <2>7 DEF CountOf
<1>5. CASE s # Sig(w)
  <2>1. /\ Due(ledger[s])' = Due(ledger[s]) /\ First(ledger[s])' = First(ledger[s])
        /\ Due(ledger[s]) \in Nat /\ First(ledger[s]) \in Nat
    BY <1>1, <1>2, <1>5 DEF Due, First
  <2> QED BY <1>1, <1>3, <2>1, FaultsGrow, CountStays DEF CountInv
<1> QED BY <1>4, <1>5

LEMMA StepCounted ==
  ASSUME TypeInv, CountInv, NEW w \in Workers, Step(w) \/ Fails(w), NEW s \in Signals
  PROVE  CountOf(s)'
<1>1. /\ pc \in [Workers -> Leased \cup {"idle", "begin", "ack"}]
      /\ msg \in [Workers -> Runs \cup {NoRun}] /\ ledger \in [Signals -> AuditRow]
      /\ entry \in [Runs -> {"absent", "unread", "pending", "acked", "trimmed"}]
  BY DEF TypeInv, TypeOK
<1>2. pc[w] # "idle" => /\ Sig(w) \in Signals /\ msg[w] \in Runs /\ entry[msg[w]] # "absent"
                        /\ Begun(ledger[Sig(w)]).status = "PROCESSING"
                        /\ MarkedPersisted(ledger[Sig(w)]).status = "PERSISTED"
                        /\ MarkedDeadLettered(ledger[Sig(w)]).status = "DLQ"
  BY Busy, RowStatus
<1>3. CASE Deliver(w)
  <2>1. PICK r \in Runs : /\ entry[r] \in {"unread", "pending"}
                          /\ entry' = [entry EXCEPT ![r] = "pending"]
                          /\ msg' = [msg EXCEPT ![w] = r]
    BY <1>3 DEF Deliver, SetEntry
  <2>2. pc' = [pc EXCEPT ![w] = "begin"] /\ UNCHANGED <<producer, ledger, faults>>
    BY <1>3 DEF Deliver, GoTo, scheduling
  <2> QED BY <1>1, <2>1, <2>2, WorkerCounted
<1>4. CASE Ack(w)
  <2>1. /\ pc[w] = "ack" /\ entry' = [entry EXCEPT ![msg[w]] = "acked"]
        /\ pc' = [pc EXCEPT ![w] = "idle"] /\ msg' = [msg EXCEPT ![w] = NoRun]
        /\ UNCHANGED <<producer, ledger, faults>>
    BY <1>4 DEF Ack, SetEntry, Finish, GoTo, scheduling
  <2> QED BY <1>1, <1>2, <2>1, WorkerCounted
<1>5. CASE SkipFinished(w) \/ Persist(w) \/ DlqSend(w)
  <2>1. /\ \E p \in {"ack", "markPersisted", "dlqMark"} : pc' = [pc EXCEPT ![w] = p]
        /\ UNCHANGED <<producer, entry, msg, ledger, faults>>
    BY <1>5 DEF SkipFinished, Persist, DlqSend, GoTo, scheduling, run
  <2> QED BY <1>1, <2>1, WorkerCounted
<1>6. CASE Begin(w) \/ MarkPersisted(w) \/ DlqMark(w)
  <2>1. /\ pc[w] # "idle"
        /\ \E p \in {"ack", "persist", "dlqSend"} : pc' = [pc EXCEPT ![w] = p]
        /\ \E row \in {Begun(ledger[Sig(w)]), MarkedPersisted(ledger[Sig(w)]),
                       MarkedDeadLettered(ledger[Sig(w)])} : ledger' = [ledger EXCEPT ![Sig(w)] = row]
        /\ UNCHANGED <<producer, entry, msg, faults>>
    BY <1>6 DEF Begin, MarkPersisted, DlqMark, GoTo, SetRow, scheduling, run
  <2>2. PICK row \in {Begun(ledger[Sig(w)]), MarkedPersisted(ledger[Sig(w)]),
                     MarkedDeadLettered(ledger[Sig(w)])} : ledger' = [ledger EXCEPT ![Sig(w)] = row]
    BY <2>1
  <2>3. row.status \in {"PROCESSING", "PERSISTED", "DLQ"}
    BY <1>2, <2>1, <2>2
  <2>4. \A t \in Signals : ledger'[t].status = ledger[t].status
                           \/ (ledger'[t].status # "FAILED" /\ ledger'[t].status # "ABSENT")
    BY <1>1, <2>2, <2>3
  <2>5. pc'[w] # "markFailed" /\ \A v \in Workers \ {w} : pc'[v] = pc[v] /\ msg'[v] = msg[v]
    BY <1>1, <2>1
  <2> QED BY <2>1, <2>4, <2>5, WorkerCounted
<1>7. CASE SkipLeased(w) \/ AckFails(w) \/ BeginFails(w) \/ MarkFailedFails(w) \/ HandoffFails(w)
           \/ Crash(w)
  <2>1. /\ pc' = [pc EXCEPT ![w] = "idle"] /\ msg' = [msg EXCEPT ![w] = NoRun]
        /\ UNCHANGED <<producer, entry, ledger>> /\ (Fault \/ UNCHANGED faults)
    BY <1>7 DEF SkipLeased, AckFails, BeginFails, MarkFailedFails, HandoffFails, Crash, Finish,
                GoTo, scheduling
  <2>2. pc'[w] # "markFailed" /\ \A v \in Workers \ {w} : pc'[v] = pc[v] /\ msg'[v] = msg[v]
    BY <1>1, <2>1
  <2> QED BY <2>1, <2>2, WorkerCounted
<1> QED BY <1>3, <1>4, <1>5, <1>6, <1>7, PersistFailsCounted, MarkFailedCounted DEF Step, Fails

LEMMA AgeCounted ==
  ASSUME TypeInv, CountInv, NEW t \in Signals, Age(t), Fault \/ UNCHANGED faults, NEW s \in Signals
  PROVE  CountOf(s)'
<1>1. /\ ledger' = [ledger EXCEPT ![t] = LeaseAged(ledger[t])] /\ ledger \in [Signals -> AuditRow]
      /\ UNCHANGED <<producer, entry, pc, msg>>
  BY DEF Age, SetRow, scheduling, run, TypeInv, TypeOK
<1>2. ledger'[s].status = ledger[s].status
  BY <1>1 DEF LeaseAged, AuditRow
<1>3. Entries(s)' = Entries(s) /\ Failing(s)' = Failing(s)
  BY <1>1 DEF Entries, Failing
<1>4. /\ Due(ledger[s])' = Due(ledger[s]) /\ First(ledger[s])' = First(ledger[s])
      /\ Due(ledger[s]) \in Nat /\ First(ledger[s]) \in Nat
  BY <1>2 DEF Due, First
<1> QED BY <1>3, <1>4, FaultsGrow, CountStays DEF CountInv

LEMMA CountStep ==
  ASSUME TypeInv, CountInv, [Next]_vars
  PROVE  CountInv'
<1> SUFFICES ASSUME NEW s \in Signals PROVE CountOf(s)'
  BY DEF CountInv
<1>1. CASE \E t \in Signals : LeaseLapses(t) \/ LeaseOverrun(t)
  BY <1>1, AgeCounted DEF LeaseLapses, LeaseOverrun
<1>2. CASE UNCHANGED vars
  <2>1. /\ Entries(s)' = Entries(s) /\ Failing(s)' = Failing(s) /\ faults' = faults
        /\ Due(ledger[s])' = Due(ledger[s]) /\ First(ledger[s])' = First(ledger[s])
        /\ Due(ledger[s]) \in Nat /\ First(ledger[s]) \in Nat
    BY <1>2 DEF vars, Entries, Failing, Due, First
  <2> QED BY <2>1, FaultsGrow, CountStays DEF CountInv
<1> QED BY <1>1, <1>2, ScheduleCounted, EnqueueCounted, StepCounted DEF Next, Produce

LEMMA CountStart ==
  ASSUME Init
  PROVE  CountInv
<1> SUFFICES ASSUME NEW s \in Signals PROVE CountOf(s)
  BY DEF CountInv
<1>1. Entries(s) = {} /\ Failing(s) = {}
  BY DEF Init, Entries, Failing
<1>2. Due(ledger[s]) = 0 /\ First(ledger[s]) = 0
  BY StartingRow DEF Init, Due, First
<1>3. IsFiniteSet(Entries(s)) /\ Cardinality(Entries(s)) = 0
  BY <1>1, FS_EmptySet
<1>4. IsFiniteSet(Failing(s)) /\ Cardinality(Failing(s)) = 0
  BY <1>1, FS_EmptySet
<1> QED BY <1>2, <1>3, <1>4 DEF Init, CountOf

LEMMA CountBounds ==
  ASSUME TypeInv, CountInv
  PROVE  EntriesBounded
<1> SUFFICES ASSUME NEW s \in Signals PROVE Cardinality(Entries(s)) <= 1 + faults
  BY DEF EntriesBounded, Entries
<1>1. Cardinality(Entries(s)) \in Nat /\ Cardinality(Failing(s)) \in Nat
  BY FS_CardinalityType DEF CountInv, CountOf
<1>2. /\ Due(ledger[s]) \in Nat /\ First(ledger[s]) \in {0, 1} /\ faults \in Nat
      /\ Cardinality(Entries(s)) + Cardinality(Failing(s)) + Due(ledger[s]) <= faults + First(ledger[s])
  BY MaxFaultsAssumption DEF Due, First, CountInv, CountOf, TypeInv, TypeOK
<1> QED
  <2> HIDE DEF Entries, Failing, Due, First
  <2> QED BY <1>1, <1>2

\* schedule() of concurrent and repeated runs adds one audit entry for each signal, and
\* another one only for an attempt that failed.
THEOREM EntriesAreBounded == Spec => []EntriesBounded
<1>1. Init => TypeInv /\ CountInv
  BY TypeStart, CountStart
<1>2. TypeInv /\ CountInv /\ [Next]_vars => (TypeInv /\ CountInv)'
  BY TypeStep, CountStep
<1>3. TypeInv /\ CountInv => EntriesBounded
  BY CountBounds
<1> QED BY <1>1, <1>2, <1>3, PTL DEF Spec

-----------------------------------------------------------------------------
(* Every attempt but the first is paid for by a fault.                     *)

\* Another attempt may begin, now or when an abandoned lease runs out, without a fault.
Open(s) == ~Finished(ledger[s]) /\ ~(LeaseHeld(ledger[s]) /\ InFlight(s))

Opening(s) == IF Open(s) THEN 1 ELSE 0

\* The attempts so far, those that a recorded failure will allow, and the one that may
\* begin at once: the first attempt and the faults pay for all of them.
PaidOf(s) ==
  /\ IsFiniteSet(Failing(s))
  /\ ledger[s].attempts + Cardinality(Failing(s)) + Opening(s) <= 1 + faults

\* A dead letter is of an attempt beyond the maximum, and attempts are numbered.
NumberedOf(s) == dead[s] \subseteq MaxAttempts + 1 .. ledger[s].attempts

Handing(w) == pc[w] = "dlqSend" => attempt[w] \in MaxAttempts + 1 .. ledger[Sig(w)].attempts

PaidInv ==
  /\ \A s \in Signals : PaidOf(s) /\ NumberedOf(s)
  /\ \A w \in Workers : Handing(w)

LEMMA RowAttempts ==
  ASSUME NEW row \in AuditRow, NEW i \in Items
  PROVE  /\ Begun(row).attempts = row.attempts + 1 /\ row.attempts \in Nat
         /\ Scheduled(row, i).attempts = row.attempts
         /\ MarkedPersisted(row).attempts = row.attempts
         /\ MarkedDeadLettered(row).attempts = row.attempts
         /\ MarkedFailed(row).attempts = row.attempts
         /\ LeaseAged(row).attempts = row.attempts
BY DEF AuditRow, AuditStatus, Scheduled, MustEnqueue, Begun, MarkedPersisted,
       MarkedDeadLettered, MarkedFailed, LeaseAged

\* Which statements let another attempt begin.
LEMMA RowOpen ==
  ASSUME NEW row \in AuditRow, NEW i \in Items
  PROVE  /\ MayProcess(row) => /\ ~Finished(row) /\ ~LeaseHeld(row)
                               /\ ~Finished(Begun(row)) /\ LeaseHeld(Begun(row))
         /\ Finished(Scheduled(row, i)) <=> Finished(row)
         /\ LeaseHeld(row) => LeaseHeld(Scheduled(row, i))
         /\ Finished(MarkedPersisted(row)) /\ Finished(MarkedDeadLettered(row))
         /\ Finished(LeaseAged(row)) <=> Finished(row)
BY DEF AuditRow, AuditStatus, Scheduled, MustEnqueue, Begun, MarkedPersisted,
       MarkedDeadLettered, LeaseAged, Finished, LeaseHeld, MayProcess

\* The ways in which a step may move the account of a signal.
Idles(s) ==
  /\ ledger'[s].attempts = ledger[s].attempts
  /\ Failing(s)' \subseteq Failing(s) /\ (Open(s)' => Open(s))
Begins(s) ==
  /\ ledger'[s].attempts = ledger[s].attempts + 1
  /\ Failing(s)' \subseteq Failing(s) /\ Open(s) /\ ~Open(s)'
Records(s) ==
  /\ ledger'[s].attempts = ledger[s].attempts
  /\ \E w \in Failing(s) : Failing(s)' \subseteq Failing(s) \ {w}
Breaks(s) ==
  /\ Fault /\ ledger'[s].attempts = ledger[s].attempts
  /\ Open(s)' => Open(s)
  /\ \E w : Failing(s)' \subseteq Failing(s) \cup {w}
Reopens(s) ==
  /\ Fault /\ ledger'[s].attempts = ledger[s].attempts
  /\ Failing(s)' \subseteq Failing(s)

AccountMoves(s) == Idles(s) \/ Begins(s) \/ Records(s) \/ Breaks(s) \/ Reopens(s)

\* Each of them keeps the account in balance.
LEMMA AccountKept ==
  ASSUME TypeInv, NEW s \in Signals, PaidOf(s), AccountMoves(s), Fault \/ UNCHANGED faults
  PROVE  PaidOf(s)'
<1> DEFINE a == ledger[s].attempts
           b == ledger'[s].attempts
           c == Cardinality(Failing(s))
           d == Cardinality(Failing(s)')
<1>1. /\ a \in Nat /\ IsFiniteSet(Failing(s)) /\ c \in Nat
      /\ a + c + Opening(s) <= 1 + faults
  BY FS_CardinalityType DEF PaidOf, TypeInv, TypeOK, AuditRow
<1>2. /\ faults \in Nat /\ faults' \in Nat /\ faults <= faults'
      /\ Fault => faults' = faults + 1
  BY FaultsGrow
<1>3. /\ Opening(s) \in {0, 1} /\ Opening(s)' \in {0, 1}
      /\ (Open(s)' => Open(s)) => Opening(s)' <= Opening(s)
      /\ Open(s) /\ ~Open(s)' => Opening(s) = 1 /\ Opening(s)' = 0
  BY DEF Opening
<1>4. /\ IsFiniteSet(Failing(s)') /\ d \in Nat
      /\ \/ b = a /\ d <= c /\ Opening(s)' <= Opening(s)
         \/ b = a + 1 /\ d <= c /\ Opening(s) = 1 /\ Opening(s)' = 0
         \/ b = a /\ d + 1 <= c
         \/ b = a /\ d <= c + 1 /\ Opening(s)' <= Opening(s) /\ faults' = faults + 1
         \/ b = a /\ d <= c /\ faults' = faults + 1
  <2>1. CASE Idles(s)
    BY <1>1, <1>3, <2>1, NoMore DEF Idles
  <2>2. CASE Begins(s)
    BY <1>1, <1>3, <2>2, NoMore DEF Begins
  <2>3. CASE Records(s)
    BY <1>1, <2>3, OneLess DEF Records
  <2>4. CASE Breaks(s)
    BY <1>1, <1>2, <1>3, <2>4, OneMore DEF Breaks
  <2>5. CASE Reopens(s)
    BY <1>1, <1>2, <2>5, NoMore DEF Reopens
  <2> QED BY <2>1, <2>2, <2>3, <2>4, <2>5 DEF AccountMoves
<1>5. b + d + Opening(s)' <= 1 + faults'
  <2> HIDE DEF a, b, c, d
  <2> QED BY <1>1, <1>2, <1>3, <1>4
<1> QED BY <1>4, <1>5 DEF PaidOf

\* The attempt of a signal that is in flight still is, unless its worker leaves it.
LEMMA FlightKept ==
  ASSUME NEW w \in Workers, \A v \in Workers \ {w} : pc'[v] = pc[v] /\ msg'[v] = msg[v],
         NEW s, InFlight(s),
         pc[w] \in Leased /\ Sig(w) = s => pc'[w] \in Leased /\ msg'[w] = msg[w]
  PROVE  InFlight(s)'
<1>1. PICK v \in Workers : pc[v] \in Leased /\ Sig(v) = s
  BY DEF InFlight
<1>2. pc'[v] \in Leased /\ msg'[v] = msg[v]
  BY <1>1
<1> QED BY <1>1, <1>2 DEF InFlight, Sig

\* A worker that goes on, or leaves, and fails nothing and begins nothing.
LEMMA WorkerIdles ==
  ASSUME NEW w \in Workers, \A v \in Workers \ {w} : pc'[v] = pc[v] /\ msg'[v] = msg[v],
         pc'[w] # "markFailed", NEW s \in Signals,
         \/ ledger'[s] = ledger[s]
         \/ ledger'[s].attempts = ledger[s].attempts /\ Finished(ledger'[s]),
         \/ Fault
         \/ Finished(ledger'[s])
         \/ pc[w] \in Leased /\ Sig(w) = s => pc'[w] \in Leased /\ msg'[w] = msg[w]
  PROVE  AccountMoves(s)
<1>1. ledger'[s].attempts = ledger[s].attempts /\ Failing(s)' \subseteq Failing(s)
  BY DEF Failing
<1>2. CASE Fault
  BY <1>1, <1>2 DEF AccountMoves, Reopens
<1>3. CASE Finished(ledger'[s])
  BY <1>1, <1>3 DEF AccountMoves, Idles, Open
<1>4. CASE /\ ledger'[s] = ledger[s]
           /\ pc[w] \in Leased /\ Sig(w) = s => pc'[w] \in Leased /\ msg'[w] = msg[w]
  <2>1. InFlight(s) => InFlight(s)'
    BY <1>4, FlightKept
  <2> QED BY <1>1, <1>4, <2>1 DEF AccountMoves, Idles, Open
<1> QED BY <1>2, <1>3, <1>4

\* No worker moves: the ledger gets a row that is open only if it was.
LEMMA LedgerIdles ==
  ASSUME NEW s \in Signals, UNCHANGED <<pc, msg>>, ledger'[s].attempts = ledger[s].attempts,
         Finished(ledger[s]) => Finished(ledger'[s]),
         LeaseHeld(ledger[s]) /\ InFlight(s) => LeaseHeld(ledger'[s])
  PROVE  AccountMoves(s)
<1>1. Failing(s)' = Failing(s) /\ (InFlight(s) => InFlight(s)')
  BY DEF Failing, InFlight, Sig
<1>2. Open(s)' => Open(s)
  BY <1>1 DEF Open
<1> QED BY <1>1, <1>2 DEF AccountMoves, Idles

LEMMA StepPays ==
  ASSUME TypeInv, NEW w \in Workers, Step(w) \/ Fails(w), NEW s \in Signals
  PROVE  AccountMoves(s)
<1>1. /\ pc \in [Workers -> Leased \cup {"idle", "begin", "ack"}]
      /\ msg \in [Workers -> Runs \cup {NoRun}] /\ ledger \in [Signals -> AuditRow]
  BY DEF TypeInv, TypeOK
<1>2. pc[w] # "idle" => ledger[Sig(w)] \in AuditRow /\ Sig(w) \in Signals
  BY Busy
<1>3. ASSUME ledger' = ledger, pc[w] \notin Leased \/ Fault,
             NEW p \in {"idle", "begin", "ack"}, pc' = [pc EXCEPT ![w] = p],
             \A v \in Workers \ {w} : msg'[v] = msg[v]
      PROVE  AccountMoves(s)
  BY <1>1, <1>3, WorkerIdles DEF Leased
<1>4. ASSUME ledger' = ledger, msg' = msg, NEW p \in Leased \ {"markFailed"}, pc' = [pc EXCEPT ![w] = p]
      PROVE  AccountMoves(s)
  BY <1>1, <1>4, WorkerIdles
<1>5. ASSUME pc[w] # "idle", NEW row \in {MarkedPersisted(ledger[Sig(w)]), MarkedDeadLettered(ledger[Sig(w)])},
             SetRow(Sig(w), row), pc' = [pc EXCEPT ![w] = "ack"], msg' = msg
      PROVE  AccountMoves(s)
  <2>1. CASE s = Sig(w)
    <3>1. ledger'[s] = row /\ row.attempts = ledger[s].attempts /\ Finished(row)
      BY <1>1, <1>2, <1>5, <2>1, RowAttempts, RowOpen, Busy DEF SetRow
    <3> QED BY <1>1, <1>5, <3>1, WorkerIdles
  <2>2. CASE s # Sig(w)
    <3>1. ledger'[s] = ledger[s]
      BY <1>1, <1>2, <1>5, <2>2 DEF SetRow
    <3> QED BY <1>1, <1>5, <2>2, <3>1, WorkerIdles
  <2> QED BY <2>1, <2>2
<1>6. CASE Deliver(w) \/ Ack(w) \/ SkipFinished(w) \/ SkipLeased(w)
  <2>1. /\ ledger' = ledger /\ pc[w] \in {"idle", "begin", "ack"}
        /\ \E p \in {"idle", "begin", "ack"} : pc' = [pc EXCEPT ![w] = p]
        /\ \A v \in Workers \ {w} : msg'[v] = msg[v]
    BY <1>1, <1>6 DEF Deliver, Ack, SkipFinished, SkipLeased, Finish, GoTo, run
  <2> QED BY <1>3, <2>1 DEF Leased
<1>7. CASE AckFails(w) \/ BeginFails(w) \/ MarkFailedFails(w) \/ HandoffFails(w) \/ Crash(w)
  <2>1. /\ ledger' = ledger /\ Fault /\ pc' = [pc EXCEPT ![w] = "idle"]
        /\ \A v \in Workers \ {w} : msg'[v] = msg[v]
    BY <1>1, <1>7 DEF AckFails, BeginFails, MarkFailedFails, HandoffFails, Crash, Finish, GoTo
  <2> QED BY <1>3, <2>1
<1>8. CASE Persist(w) \/ DlqSend(w)
  BY <1>4, <1>8 DEF Persist, DlqSend, GoTo, run, Leased
<1>9. CASE MarkPersisted(w) \/ DlqMark(w)
  BY <1>5, <1>9 DEF MarkPersisted, DlqMark, GoTo, run
<1>10. CASE Begin(w)
  <2>1. /\ pc[w] = "begin" /\ MayProcess(ledger[Sig(w)]) /\ msg' = msg
        /\ ledger' = [ledger EXCEPT ![Sig(w)] = Begun(ledger[Sig(w)])]
        /\ \E p \in {"dlqSend", "persist"} : pc' = [pc EXCEPT ![w] = p]
    BY <1>10 DEF Begin, SetRow, GoTo
  <2>2. pc'[w] \in Leased \ {"markFailed"} /\ \A v \in Workers \ {w} : pc'[v] = pc[v] /\ msg'[v] = msg[v]
    BY <1>1, <2>1 DEF Leased
  <2>3. CASE s = Sig(w)
    <3>1. /\ ledger'[s] = Begun(ledger[s]) /\ ledger'[s].attempts = ledger[s].attempts + 1
          /\ Open(s) /\ ~Finished(ledger'[s]) /\ LeaseHeld(ledger'[s])
      BY <1>1, <2>1, <2>3, RowAttempts, RowOpen, Busy DEF Open
    <3>2. InFlight(s)'
      BY <2>1, <2>2, <2>3 DEF InFlight, Sig
    <3>3. ~Open(s)' /\ Failing(s)' \subseteq Failing(s)
      BY <2>2, <3>1, <3>2 DEF Open, Failing
    <3> QED BY <3>1, <3>3 DEF AccountMoves, Begins
  <2>4. CASE s # Sig(w)
    <3>1. ledger'[s] = ledger[s]
      BY <1>1, <2>1, <2>4
    <3> QED BY <2>1, <2>2, <3>1, WorkerIdles DEF Leased
  <2> QED BY <2>3, <2>4
<1>11. CASE PersistFails(w)
  <2>1. /\ pc[w] \in {"persist", "markPersisted"} /\ Fault /\ msg' = msg
        /\ pc' = [pc EXCEPT ![w] = "markFailed"]
        /\ ledger' = ledger \/ ledger' = [ledger EXCEPT ![Sig(w)] = MarkedPersisted(ledger[Sig(w)])]
    BY <1>11 DEF PersistFails, GoTo, SetRow, run
  <2>2. \/ ledger'[s] = ledger[s]
        \/ ledger'[s].attempts = ledger[s].attempts /\ Finished(ledger'[s])
    BY <1>1, <1>2, <2>1, RowAttempts, RowOpen, Busy
  <2>3. InFlight(s) => InFlight(s)'
    BY <1>1, <2>1, FlightKept DEF Leased
  <2>4. Failing(s)' \subseteq Failing(s) \cup {w}
    BY <2>1 DEF Failing
  <2>5. Open(s)' => Open(s)
    BY <2>2, <2>3 DEF Open
  <2> QED BY <2>1, <2>2, <2>4, <2>5 DEF AccountMoves, Breaks
<1>12. CASE MarkFailed(w)
  <2>1. /\ pc[w] = "markFailed" /\ ledger' = [ledger EXCEPT ![Sig(w)] = MarkedFailed(ledger[Sig(w)])]
        /\ pc' = [pc EXCEPT ![w] = "idle"] /\ msg' = [msg EXCEPT ![w] = NoRun]
    BY <1>12 DEF MarkFailed, SetRow, Finish, GoTo
  <2>2. CASE s = Sig(w)
    <3>1. w \in Failing(s) /\ Failing(s)' \subseteq Failing(s) \ {w}
      BY <1>1, <2>1, <2>2 DEF Failing, Sig
    <3>2. ledger'[s].attempts = ledger[s].attempts
      BY <1>1, <1>2, <2>1, <2>2, RowAttempts, Busy
    <3> QED BY <3>1, <3>2 DEF AccountMoves, Records
  <2>3. CASE s # Sig(w)
    <3>1. ledger'[s] = ledger[s]
      BY <1>1, <2>1, <2>3
    <3> QED BY <1>1, <2>1, <2>3, <3>1, WorkerIdles
  <2> QED BY <2>2, <2>3
<1> QED BY <1>6, <1>7, <1>8, <1>9, <1>10, <1>11, <1>12 DEF Step, Fails

LEMMA NextPays ==
  ASSUME TypeInv, [Next]_vars, NEW s \in Signals
  PROVE  AccountMoves(s)
<1>1. ledger \in [Signals -> AuditRow] /\ ledger[s] \in AuditRow
  BY DEF TypeInv, TypeOK
<1>2. ASSUME NEW r \in Runs, NEW i \in Items, Schedule(r, i) PROVE AccountMoves(s)
  <2>1. UNCHANGED <<pc, msg>> /\ ledger' = [ledger EXCEPT ![r[1]] = Scheduled(ledger[r[1]], i)]
    BY <1>2 DEF Schedule, SetRow, run
  <2>2. ledger'[s] = ledger[s] \/ ledger'[s] = Scheduled(ledger[s], i)
    BY <1>1, <2>1
  <2>3. /\ Scheduled(ledger[s], i).attempts = ledger[s].attempts
        /\ Finished(Scheduled(ledger[s], i)) <=> Finished(ledger[s])
        /\ LeaseHeld(ledger[s]) => LeaseHeld(Scheduled(ledger[s], i))
    BY <1>1, RowAttempts, RowOpen
  <2> QED BY <2>1, <2>2, <2>3, LedgerIdles
<1>3. CASE UNCHANGED <<ledger, pc, msg>>
  BY <1>3, LedgerIdles
<1>4. ASSUME NEW r \in Runs, Enqueue(r) \/ EnqueueFails(r) PROVE AccountMoves(s)
  BY <1>3, <1>4 DEF Enqueue, EnqueueFails, run
<1>5. ASSUME NEW t \in Signals, Age(t), ~InFlight(t) \/ Fault PROVE AccountMoves(s)
  <2>1. /\ UNCHANGED <<pc, msg>> /\ ledger' = [ledger EXCEPT ![t] = LeaseAged(ledger[t])]
    BY <1>5 DEF Age, SetRow, run
  <2>2. CASE s # t
    BY <1>1, <2>1, <2>2, LedgerIdles
  <2>3. CASE s = t
    <3>1. ledger'[s] = LeaseAged(ledger[s])
      BY <1>1, <2>1, <2>3
    <3>2. ledger'[s].attempts = ledger[s].attempts /\ (Finished(ledger'[s]) <=> Finished(ledger[s]))
      BY <1>1, <3>1, RowAttempts, RowOpen, ItemsAssumption DEF LeaseAged, Finished, AuditRow
    <3>3. CASE ~InFlight(t)
      BY <2>1, <2>3, <3>2, <3>3, LedgerIdles
    <3>4. CASE Fault
      <4>1. Failing(s)' = Failing(s)
        BY <2>1 DEF Failing
      <4> QED BY <3>2, <3>4, <4>1 DEF AccountMoves, Reopens
    <3> QED BY <1>5, <3>3, <3>4
  <2> QED BY <2>2, <2>3
<1>6. CASE UNCHANGED vars
  BY <1>3, <1>6 DEF vars
<1> QED BY <1>2, <1>4, <1>5, <1>6, StepPays DEF Next, Produce, LeaseLapses, LeaseOverrun

\* Attempts are numbered upwards, and a worker hands off the one that it has begun.
LEMMA NumberedStep ==
  ASSUME TypeInv, PaidInv, [Next]_vars
  PROVE  /\ \A s \in Signals : NumberedOf(s)'
         /\ \A w \in Workers : Handing(w)'
<1>1. /\ pc \in [Workers -> Leased \cup {"idle", "begin", "ack"}] /\ attempt \in [Workers -> Nat]
      /\ msg \in [Workers -> Runs \cup {NoRun}] /\ ledger \in [Signals -> AuditRow]
      /\ dead \in [Signals -> SUBSET Nat] /\ MaxAttempts \in Nat
  BY MaxAttemptsAssumption DEF TypeInv, TypeOK
<1>2. ASSUME NEW s \in Signals
      PROVE  /\ ledger[s].attempts \in Nat /\ ledger'[s].attempts \in Nat
             /\ ledger[s].attempts <= ledger'[s].attempts
  <2>1. ledger[s].attempts \in Nat
    BY <1>1 DEF AuditRow
  <2>2. ledger'[s].attempts \in {ledger[s].attempts, ledger[s].attempts + 1}
    BY NextPays DEF AccountMoves, Idles, Begins, Records, Breaks, Reopens
  <2> QED BY <2>1, <2>2
<1>3. ASSUME NEW s \in Signals, NEW n \in MaxAttempts + 1 .. ledger[s].attempts
      PROVE  n \in MaxAttempts + 1 .. ledger'[s].attempts
  BY <1>1, <1>2, <1>3
<1>4. ASSUME dead' = dead PROVE \A s \in Signals : NumberedOf(s)'
  BY <1>3, <1>4 DEF PaidInv, NumberedOf
<1>5. ASSUME NEW w \in Workers, pc'[w] = pc[w], msg'[w] = msg[w], attempt'[w] = attempt[w]
      PROVE  Handing(w)'
  <2>1. SUFFICES ASSUME pc[w] = "dlqSend" PROVE attempt[w] \in MaxAttempts + 1 .. ledger'[Sig(w)].attempts
    BY <1>5 DEF Handing, Sig
  <2>2. Sig(w) \in Signals
    BY <2>1, Busy
  <2> QED BY <1>3, <2>1, <2>2 DEF PaidInv, Handing
<1>6. ASSUME NEW w \in Workers, pc'[w] # "dlqSend" PROVE Handing(w)'
  BY <1>6 DEF Handing
<1>7. ASSUME UNCHANGED <<pc, msg, attempt, dead>>
      PROVE  (\A s \in Signals : NumberedOf(s)') /\ \A v \in Workers : Handing(v)'
  BY <1>4, <1>5, <1>7
<1>8. ASSUME NEW w \in Workers, DlqSend(w)
      PROVE  (\A s \in Signals : NumberedOf(s)') /\ \A v \in Workers : Handing(v)'
  <2>1. /\ pc[w] = "dlqSend" /\ dead' = [dead EXCEPT ![Sig(w)] = @ \cup {attempt[w]}]
        /\ pc' = [pc EXCEPT ![w] = "dlqMark"] /\ UNCHANGED <<msg, attempt>>
    BY <1>8 DEF DlqSend, GoTo, run
  <2>2. Sig(w) \in Signals /\ attempt[w] \in MaxAttempts + 1 .. ledger[Sig(w)].attempts
    BY <2>1, Busy DEF PaidInv, Handing
  <2>3. ASSUME NEW s \in Signals, NEW n \in dead'[s] PROVE n \in MaxAttempts + 1 .. ledger[s].attempts
    BY <1>1, <2>1, <2>2 DEF PaidInv, NumberedOf
  <2>4. \A s \in Signals : NumberedOf(s)'
    BY <1>3, <2>3 DEF NumberedOf
  <2> QED BY <1>1, <1>5, <1>6, <2>1, <2>4
<1>9. ASSUME NEW w \in Workers, Begin(w)
      PROVE  (\A s \in Signals : NumberedOf(s)') /\ \A v \in Workers : Handing(v)'
  <2> DEFINE row == Begun(ledger[Sig(w)])
  <2>1. /\ pc[w] = "begin" /\ msg' = msg /\ dead' = dead
        /\ ledger' = [ledger EXCEPT ![Sig(w)] = row]
        /\ attempt' = [attempt EXCEPT ![w] = row.attempts]
        /\ pc' = [pc EXCEPT ![w] = IF Exhausted(row) THEN "dlqSend" ELSE "persist"]
    BY <1>9 DEF Begin, GoTo, SetRow, stores
  <2>2. Sig(w) \in Signals /\ row.attempts \in Nat
    <3>1. Sig(w) \in Signals /\ ledger[Sig(w)] \in AuditRow /\ item[msg[w]] \in Items
      BY <2>1, Busy
    <3> QED BY <3>1, RowAttempts
  <2>3. Handing(w)'
    <3>1. SUFFICES ASSUME pc'[w] = "dlqSend"
                   PROVE  attempt'[w] \in MaxAttempts + 1 .. ledger'[Sig(w)].attempts
      BY <2>1 DEF Handing, Sig
    <3>2. Exhausted(row)
      BY <1>1, <2>1, <3>1
    <3>3. attempt'[w] = row.attempts /\ ledger'[Sig(w)] = row /\ row.attempts > MaxAttempts
      BY <1>1, <2>1, <2>2, <3>2 DEF Exhausted
    <3> HIDE DEF row
    <3> QED BY <1>1, <2>2, <3>3
  <2>4. ASSUME NEW v \in Workers \ {w} PROVE Handing(v)'
    BY <1>1, <1>5, <2>1
  <2> QED BY <1>4, <2>1, <2>3, <2>4
<1>10. ASSUME NEW w \in Workers, Step(w) \/ Fails(w), ~Begin(w), ~DlqSend(w)
      PROVE  (\A s \in Signals : NumberedOf(s)') /\ \A v \in Workers : Handing(v)'
  <2>1. /\ dead' = dead
        /\ \E p \in {"begin", "idle", "ack", "markPersisted", "markFailed"} : pc' = [pc EXCEPT ![w] = p]
        /\ \/ attempt' = attempt /\ \E r \in Runs \cup {NoRun} : msg' = [msg EXCEPT ![w] = r]
           \/ attempt' = attempt /\ msg' = msg
           \/ attempt' = [attempt EXCEPT ![w] = 0] /\ msg' = [msg EXCEPT ![w] = NoRun]
    BY <1>10 DEF Step, Fails, Deliver, Ack, SkipFinished, SkipLeased, Persist, MarkPersisted, MarkFailed,
       DlqMark, AckFails, BeginFails, PersistFails, MarkFailedFails, HandoffFails, Crash,
       Finish, GoTo, run, stores
  <2>2. pc'[w] # "dlqSend" /\ \A v \in Workers \ {w} : pc'[v] = pc[v] /\ msg'[v] = msg[v] /\ attempt'[v] = attempt[v]
    BY <1>1, <2>1
  <2> QED BY <1>4, <1>5, <1>6, <2>1, <2>2
<1>11. CASE \/ \E r \in Runs : Produce(r) \/ EnqueueFails(r)
            \/ \E s \in Signals : LeaseLapses(s) \/ LeaseOverrun(s)
            \/ UNCHANGED vars
  BY <1>7, <1>11 DEF Produce, Schedule, Enqueue, EnqueueFails, LeaseLapses, LeaseOverrun, Age, vars, run, stores
<1> QED BY <1>8, <1>9, <1>10, <1>11 DEF Next

LEMMA PaidStep ==
  ASSUME TypeInv, PaidInv, [Next]_vars
  PROVE  PaidInv'
<1>1. Fault \/ UNCHANGED faults
  BY DEF Next, vars, Produce, Schedule, Enqueue, EnqueueFails, Step, Fails, Deliver, Ack, SkipFinished,
     SkipLeased, Begin, Persist, MarkPersisted, MarkFailed, DlqSend, DlqMark, AckFails, BeginFails,
     PersistFails, MarkFailedFails, HandoffFails, Crash, LeaseLapses, LeaseOverrun
<1>2. ASSUME NEW s \in Signals PROVE PaidOf(s)'
  BY <1>1, AccountKept, NextPays DEF PaidInv
<1> QED BY <1>2, NumberedStep DEF PaidInv

LEMMA PaidStart ==
  ASSUME Init
  PROVE  PaidInv
<1>1. ASSUME NEW s \in Signals PROVE PaidOf(s) /\ NumberedOf(s)
  <2>1. Failing(s) = {} /\ ledger[s].attempts = 0 /\ faults = 0 /\ dead[s] = {}
    BY DEF Init, Failing, NoRow
  <2> QED BY <2>1, FS_EmptySet DEF PaidOf, NumberedOf, Opening
<1> QED BY <1>1 DEF Init, PaidInv, Handing

\* A document is given up, and every further time it is, only after as many faults as the
\* maximum of attempts and the dead letters of its signal: any number of audit workers,
\* runs and redeliveries.
DeadLettersArePaid ==
  \A s \in Signals : dead[s] # {} => MaxAttempts + Cardinality(dead[s]) <= 1 + faults

LEMMA PaidBounds ==
  ASSUME TypeInv, PaidInv
  PROVE  DeadLettersArePaid
<1>1. SUFFICES ASSUME NEW s \in Signals, dead[s] # {}
               PROVE  MaxAttempts + Cardinality(dead[s]) <= 1 + faults
  BY DEF DeadLettersArePaid
<1> DEFINE lo == MaxAttempts + 1
           hi == ledger[s].attempts
<1>2. /\ lo \in Nat \ {0} /\ hi \in Nat /\ lo = MaxAttempts + 1 /\ faults \in Nat /\ MaxAttempts \in Nat
      /\ dead[s] \subseteq lo .. hi
  BY MaxAttemptsAssumption, MaxFaultsAssumption DEF TypeInv, TypeOK, AuditRow, PaidInv, NumberedOf
<1>3. /\ hi + Cardinality(Failing(s)) + Opening(s) <= 1 + faults
      /\ Cardinality(Failing(s)) \in Nat /\ Opening(s) \in {0, 1}
  BY FS_CardinalityType DEF PaidInv, PaidOf, Opening
<1> HIDE DEF lo, hi
<1>4. lo <= hi
  <2>1. PICK n \in dead[s] : TRUE
    BY <1>1
  <2>2. n \in lo .. hi
    BY <1>2, <2>1
  <2> QED BY <1>2, <2>2
<1>5. IsFiniteSet(lo .. hi) /\ Cardinality(lo .. hi) = hi - lo + 1
  BY <1>2, <1>4, FS_Interval
<1>6. /\ IsFiniteSet(dead[s]) /\ Cardinality(dead[s]) \in Nat
      /\ Cardinality(dead[s]) <= Cardinality(lo .. hi)
  BY <1>2, <1>5, NoMore
<1> QED BY <1>2, <1>3, <1>5, <1>6

\* The retries of the audit path end in the DLQ no sooner and no more often than the
\* failures of its calls and workers account for.
THEOREM AuditDeadLettersArePaid == Spec => []DeadLettersArePaid
<1>1. Init => TypeInv /\ PaidInv
  BY TypeStart, PaidStart
<1>2. TypeInv /\ PaidInv /\ [Next]_vars => (TypeInv /\ PaidInv)'
  BY TypeStep, PaidStep
<1>3. TypeInv /\ PaidInv => DeadLettersArePaid
  BY PaidBounds
<1> QED BY <1>1, <1>2, <1>3, PTL DEF Spec

-----------------------------------------------------------------------------
(* The audit path keeps the promise of the signal path.                    *)

AckedEntries == {r \in Runs : entry[r] = "acked"}

\* Processed is: stored in signals_raw.
OutcomeOf(s) ==
  (IF raw[s] # "none" THEN {"processed"} ELSE {}) \cup (IF dead[s] # {} THEN {"dead"} ELSE {})

Outcome == [s \in Signals |-> OutcomeOf(s)]

Fate == INSTANCE SignalFate WITH
          Messages <- Runs, SignalOf <- [r \in Runs |-> r[1]],
          acked <- AckedEntries, outcome <- Outcome

\* An entry is added once: a run that has not added its entry has none.
AddedOnce == \A r \in Runs : producer[r] # "done" => entry[r] = "absent"

LEMMA AddedOnceStep ==
  ASSUME TypeInv, AddedOnce, [Next]_vars
  PROVE  AddedOnce'
<1>1. /\ producer \in [Runs -> {"new", "enqueue", "done"}] /\ msg \in [Workers -> Runs \cup {NoRun}]
      /\ entry \in [Runs -> {"absent", "unread", "pending", "acked", "trimmed"}]
  BY DEF TypeInv, TypeOK
<1>2. ASSUME NEW r \in Runs, NEW i \in Items, Schedule(r, i) PROVE AddedOnce'
  BY <1>1, <1>2 DEF Schedule, SetProducer, AddedOnce
<1>3. ASSUME NEW r \in Runs, Enqueue(r) PROVE AddedOnce'
  <2>1. /\ producer' = [producer EXCEPT ![r] = "done"] /\ producer[r] = "enqueue"
        /\ \A x \in Runs : x # r => entry'[x] \in {entry[x], "trimmed"}
    BY <1>3 DEF Enqueue, SetProducer
  <2>2. ASSUME NEW x \in Runs, producer'[x] # "done" PROVE entry'[x] = "absent"
    <3>1. x # r /\ producer[x] # "done"
      BY <1>1, <2>1, <2>2
    <3>2. entry[x] = "absent"
      BY <3>1 DEF AddedOnce
    <3>3. ASSUME NEW k \in 1 .. Len(stream), stream[k] = x PROVE FALSE
      BY <3>2, <3>3 DEF TypeInv, StreamKnown
    <3>4. PICK evicted \in 0 .. Len(stream) :
            entry' = [y \in Runs |->
              IF y = r THEN "unread"
              ELSE IF entry[y] # "acked" /\ \E k \in 1 .. evicted : stream[k] = y
              THEN "trimmed" ELSE entry[y]]
      BY <1>3 DEF Enqueue
    <3>5. 1 .. evicted \subseteq 1 .. Len(stream)
      <4>1. Len(stream) \in Nat
        BY DEF TypeInv, TypeOK
      <4> QED BY <4>1
    <3> QED BY <3>1, <3>2, <3>3, <3>4, <3>5
  <2> QED BY <2>2 DEF AddedOnce
<1>4. ASSUME NEW r \in Runs, EnqueueFails(r) PROVE AddedOnce'
  BY <1>1, <1>4 DEF EnqueueFails, SetProducer, AddedOnce
<1>5. ASSUME UNCHANGED producer, \A r \in Runs : entry[r] = "absent" => entry'[r] = "absent"
      PROVE  AddedOnce'
  BY <1>5 DEF AddedOnce
<1>6. ASSUME NEW w \in Workers, Deliver(w) PROVE AddedOnce'
  BY <1>1, <1>5, <1>6 DEF Deliver, SetEntry, scheduling
<1>7. ASSUME NEW w \in Workers, Ack(w) PROVE AddedOnce'
  <2>1. msg[w] \in Runs /\ entry[msg[w]] # "absent"
    BY <1>7, Busy DEF Ack
  <2> QED BY <1>1, <1>5, <1>7, <2>1 DEF Ack, SetEntry, scheduling
<1>8. CASE UNCHANGED <<producer, entry>>
  BY <1>5, <1>8
<1> QED BY <1>2, <1>3, <1>4, <1>6, <1>7, <1>8
     DEF Next, vars, Produce, Step, SkipFinished, SkipLeased, Begin, Persist, MarkPersisted, MarkFailed,
         DlqSend, DlqMark, Fails, AckFails, BeginFails, PersistFails, MarkFailedFails, HandoffFails,
         Crash, LeaseLapses, LeaseOverrun, Age, scheduling

LEMMA OutcomeKept ==
  ASSUME AckedEntries' = AckedEntries, \A s \in Signals : OutcomeOf(s)' = OutcomeOf(s)
  PROVE  UNCHANGED <<AckedEntries, Outcome>>
BY DEF Outcome

\* A signal is stored, or given up: the first time that is Settle, from then on a stutter.
LEMMA OutcomeGained ==
  ASSUME AckedEntries' = AckedEntries, NEW s \in Signals, NEW o \in {"processed", "dead"},
         OutcomeOf(s)' = OutcomeOf(s) \cup {o},
         \A t \in Signals \ {s} : OutcomeOf(t)' = OutcomeOf(t)
  PROVE  [Fate!Next]_<<AckedEntries, Outcome>>
<1>1. CASE o \in OutcomeOf(s)
  BY <1>1, OutcomeKept
<1>2. CASE o \notin OutcomeOf(s)
  <2>1. o \in {"processed", "dead"} \ Outcome[s]
    BY <1>2 DEF Outcome
  <2>2. Outcome' = [Outcome EXCEPT ![s] = @ \cup {o}]
    BY DEF Outcome
  <2> QED BY <2>1, <2>2 DEF Fate!Next, Fate!Settle
<1> QED BY <1>1, <1>2

LEMMA FateStep ==
  ASSUME TypeInv, StoredInv, AddedOnce, [Next]_vars
  PROVE  [Fate!Next]_<<AckedEntries, Outcome>>
<1>1. /\ entry \in [Runs -> {"absent", "unread", "pending", "acked", "trimmed"}]
      /\ raw \in [Signals -> Items \cup {"none"}] /\ dead \in [Signals -> SUBSET Nat]
  BY DEF TypeInv, TypeOK
<1>2. ASSUME UNCHANGED <<raw, dead>>, \A r \in Runs : entry'[r] = "acked" <=> entry[r] = "acked"
      PROVE  [Fate!Next]_<<AckedEntries, Outcome>>
  BY <1>2, OutcomeKept DEF AckedEntries, OutcomeOf
<1>3. ASSUME NEW w \in Workers, Persist(w) PROVE [Fate!Next]_<<AckedEntries, Outcome>>
  <2>1. PICK s \in Signals : s = Sig(w)
    BY <1>3, Busy DEF Persist
  <2>2. /\ raw' = [raw EXCEPT ![s] = item[msg[w]]] /\ item[msg[w]] # "none"
        /\ UNCHANGED <<entry, dead>>
    BY <1>3, <2>1, Busy DEF Persist
  <2>3. OutcomeOf(s)' = OutcomeOf(s) \cup {"processed"}
    BY <1>1, <2>2 DEF OutcomeOf
  <2>4. \A t \in Signals \ {s} : OutcomeOf(t)' = OutcomeOf(t)
    BY <1>1, <2>2 DEF OutcomeOf
  <2> QED BY <2>2, <2>3, <2>4, OutcomeGained DEF AckedEntries
<1>4. ASSUME NEW w \in Workers, DlqSend(w) PROVE [Fate!Next]_<<AckedEntries, Outcome>>
  <2>1. PICK s \in Signals : s = Sig(w)
    BY <1>4, Busy DEF DlqSend
  <2>2. dead' = [dead EXCEPT ![s] = @ \cup {attempt[w]}] /\ UNCHANGED <<entry, raw>>
    BY <1>4, <2>1 DEF DlqSend
  <2>3. OutcomeOf(s)' = OutcomeOf(s) \cup {"dead"}
    BY <1>1, <2>2 DEF OutcomeOf
  <2>4. \A t \in Signals \ {s} : OutcomeOf(t)' = OutcomeOf(t)
    BY <1>1, <2>2 DEF OutcomeOf
  <2> QED BY <2>2, <2>3, <2>4, OutcomeGained DEF AckedEntries
<1>5. ASSUME NEW w \in Workers, Ack(w) PROVE [Fate!Next]_<<AckedEntries, Outcome>>
  <2>1. PICK r \in Runs : r = msg[w]
    BY <1>5, Busy DEF Ack
  <2>2. r[1] \in Signals /\ OutcomeOf(r[1]) # {}
    BY <1>5, <2>1, RunParts DEF Ack, StoredInv, WorkerStored, Stored, Sig, OutcomeOf
  <2>3. entry' = [entry EXCEPT ![r] = "acked"] /\ UNCHANGED <<raw, dead>>
    BY <1>5, <2>1 DEF Ack, SetEntry, stores
  <2>4. AckedEntries' = AckedEntries \cup {r} /\ Outcome' = Outcome
    BY <1>1, <2>3 DEF AckedEntries, Outcome, OutcomeOf
  <2>5. CASE r \in AckedEntries
    BY <2>4, <2>5
  <2>6. CASE r \notin AckedEntries
    <3>1. Outcome[[q \in Runs |-> q[1]][r]] # {}
      BY <2>2 DEF Outcome
    <3> QED BY <2>4, <2>6, <3>1 DEF Fate!Next, Fate!Ack
  <2> QED BY <2>5, <2>6
<1>6. ASSUME NEW w \in Workers, Deliver(w) PROVE [Fate!Next]_<<AckedEntries, Outcome>>
  BY <1>1, <1>2, <1>6 DEF Deliver, SetEntry, stores
<1>7. ASSUME NEW r \in Runs, Enqueue(r) PROVE [Fate!Next]_<<AckedEntries, Outcome>>
  <2>1. producer[r] # "done"
    BY <1>7 DEF Enqueue
  <2>2. entry[r] = "absent"
    BY <2>1 DEF AddedOnce
  <2>3. UNCHANGED <<raw, dead>>
    BY <1>7 DEF Enqueue, stores
  <2>4. \A x \in Runs : entry'[x] = "acked" <=> entry[x] = "acked"
    BY <1>7, <2>2 DEF Enqueue
  <2> QED BY <1>2, <2>3, <2>4
<1>8. CASE UNCHANGED <<raw, dead, entry>>
  BY <1>2, <1>8
<1> QED BY <1>3, <1>4, <1>5, <1>6, <1>7, <1>8
     DEF Next, vars, Produce, Schedule, EnqueueFails, Step, SkipFinished, SkipLeased, Begin,
         MarkPersisted, MarkFailed, DlqMark, Fails, AckFails, BeginFails, PersistFails,
         MarkFailedFails, HandoffFails, Crash, LeaseLapses, LeaseOverrun, Age, stores

LEMMA FateStart ==
  ASSUME Init
  PROVE  Fate!Init /\ AddedOnce
BY DEF Init, Fate!Init, AckedEntries, Outcome, OutcomeOf, AddedOnce

\* Consumer group, leases and retries of the audit path implement the safety part of
\* SignalFate, as the signal path's do: an entry is ACKed only after its signal has been
\* stored or given up, and neither is ever taken back.
THEOREM AuditImplementsFateSafety == Spec => Fate!Spec
<1>1. Init => Fate!Init /\ AddedOnce
  BY FateStart
<1>2. TypeInv /\ AddedOnce /\ [Next]_vars => AddedOnce'
  BY AddedOnceStep
<1>3. TypeInv /\ StoredInv /\ AddedOnce /\ [Next]_vars => [Fate!Next]_<<AckedEntries, Outcome>>
  BY FateStep
<1> QED BY <1>1, <1>2, <1>3, StoredInvariant, PTL DEF Spec, Fate!Spec
=============================================================================
