------------------------ MODULE SignalPipelineProofs ------------------------
(***************************************************************************)
(* Theorems about SignalPipeline, for any set of entries, clients that send *)
(* a signal_id any number of times, any number of worker processes, any     *)
(* batch size, attempt limit and number of faults.                          *)
(***************************************************************************)
EXTENDS SignalPipeline, FiniteSetTheorems, TLAPS

-----------------------------------------------------------------------------
(* Rows of the ledger.                                                     *)

\* Every statement of the repository leaves a well-formed row behind.
LEMMA RowUpdates ==
  ASSUME NEW row \in LedgerRow
  PROVE  /\ Begun(row) \in LedgerRow
         /\ MarkedProcessed(row) \in LedgerRow
         /\ MarkedDeadLettered(row) \in LedgerRow
         /\ MarkedFailed(row) \in LedgerRow
         /\ row.lease = "fresh" => LeaseAged(row) \in LedgerRow
  <1>1. row.attempts \in Nat /\ row.attempts + 1 \in Nat
    BY DEF LedgerRow
  <1>2. Begun(row) \in LedgerRow
    BY <1>1 DEF LedgerRow, LedgerStatus, Begun
  <1>3. MarkedProcessed(row) \in LedgerRow
    BY DEF LedgerRow, LedgerStatus, MarkedProcessed
  <1>4. MarkedDeadLettered(row) \in LedgerRow
    BY DEF LedgerRow, LedgerStatus, MarkedDeadLettered
  <1>5. MarkedFailed(row) \in LedgerRow
    BY DEF LedgerRow, LedgerStatus, MarkedFailed
  <1>6. row.lease = "fresh" => LeaseAged(row) \in LedgerRow
    BY DEF LedgerRow, LedgerStatus, LeaseAged
  <1>7. QED
    BY <1>2, <1>3, <1>4, <1>5, <1>6

\* Only beginProcessing counts attempts.
LEMMA RowAttempts ==
  ASSUME NEW row \in LedgerRow
  PROVE  /\ row.attempts \in Nat
         /\ Begun(row).attempts = row.attempts + 1
         /\ MarkedProcessed(row).attempts = row.attempts
         /\ MarkedDeadLettered(row).attempts = row.attempts
         /\ MarkedFailed(row).attempts = row.attempts
         /\ LeaseAged(row).attempts = row.attempts
  BY DEF LedgerRow, Begun, MarkedProcessed, MarkedDeadLettered, MarkedFailed, LeaseAged

\* Only markProcessed writes processed_at.
LEMMA RowProcessedAt ==
  ASSUME NEW row \in LedgerRow
  PROVE  /\ Begun(row).processedAt = row.processedAt
         /\ MarkedProcessed(row).processedAt
         /\ MarkedDeadLettered(row).processedAt = row.processedAt
         /\ MarkedFailed(row).processedAt = row.processedAt
         /\ LeaseAged(row).processedAt = row.processedAt
  BY DEF LedgerRow, Begun, MarkedProcessed, MarkedDeadLettered, MarkedFailed, LeaseAged

\* The status each statement leaves.
LEMMA RowStatus ==
  ASSUME NEW row \in LedgerRow
  PROVE  /\ Begun(row).status = "PROCESSING"
         /\ MarkedProcessed(row).status = "PROCESSED"
         /\ MarkedDeadLettered(row).status = "DLQ"
         /\ MarkedFailed(row).status = "FAILED"
         /\ LeaseAged(row).status = row.status
  BY DEF LedgerRow, Begun, MarkedProcessed, MarkedDeadLettered, MarkedFailed, LeaseAged

\* A fresh installation satisfies the row type.
LEMMA NoRowTyped == NoRow \in LedgerRow
  BY DEF NoRow, LedgerRow, LedgerStatus

\* The signal of a loop that is not idle.
LEMMA SigTyped ==
  ASSUME TypeOK, NEW w \in Loops, pc[w] # "idle"
  PROVE  msg[w] \in Messages /\ Sig(w) \in Signals
  BY SignalOfAssumption DEF TypeOK, Sig

-----------------------------------------------------------------------------
(* Type correctness.                                                       *)

\* The initial state is well typed.
LEMMA InitTypeOK == Init => TypeOK
  BY NoRowTyped, MaxFaultsAssumption, MessagesAssumption
  DEF Init, TypeOK, NoMessage, Running, Business, Handoff

\* Every step preserves the types.
LEMMA StepTypeOK == TypeOK /\ [Next]_vars => TypeOK'
  <1> SUFFICES ASSUME TypeOK, [Next]_vars
               PROVE  TypeOK'
    OBVIOUS
  <1> USE MessagesAssumption, SignalOfAssumption, MaxFaultsAssumption DEF NoMessage
  <1>1. ASSUME NEW w \in Loops, ReadNew(w) PROVE TypeOK'
    BY <1>1, SigTyped, RowUpdates DEF ReadNew, TypeOK, Running, Business, Handoff, GoTo, run, stores
  <1>2. ASSUME NEW w \in Loops, ClaimIdle(w) PROVE TypeOK'
    BY <1>2, SigTyped, RowUpdates DEF ClaimIdle, TypeOK, Running, Business, Handoff, GoTo, run, stores
  <1>3. ASSUME NEW w \in Loops, StartNext(w) PROVE TypeOK'
    BY <1>3, SigTyped, RowUpdates DEF StartNext, TypeOK, Running, Business, Handoff, GoTo, run, stores
  <1>4. ASSUME NEW w \in Loops, Ack(w) PROVE TypeOK'
    BY <1>4, SigTyped, RowUpdates DEF Ack, TypeOK, Running, Business, Handoff, GoTo, run, stores, Finish
  <1>5. ASSUME NEW w \in Loops, SkipProcessed(w) PROVE TypeOK'
    BY <1>5, SigTyped, RowUpdates DEF SkipProcessed, TypeOK, Running, Business, Handoff, GoTo, run, stores
  <1>6. ASSUME NEW w \in Loops, SkipLeased(w) PROVE TypeOK'
    BY <1>6, SigTyped, RowUpdates DEF SkipLeased, TypeOK, Running, Business, Handoff, GoTo, run, stores, Finish
  <1>7. ASSUME NEW w \in Loops, Begin(w) PROVE TypeOK'
    <2> DEFINE row == Begun(ledger[Sig(w)])
    <2>1. Sig(w) \in Signals /\ ledger[Sig(w)] \in LedgerRow
      BY <1>7, SigTyped DEF Begin, TypeOK
    <2>2. row \in LedgerRow /\ row.attempts \in Nat
      BY <2>1, RowUpdates DEF LedgerRow
    <2>3. /\ ledger' = [ledger EXCEPT ![Sig(w)] = row]
          /\ attempt' = [attempt EXCEPT ![w] = row.attempts]
          /\ pc' = [pc EXCEPT ![w] = IF Exhausted(row) THEN "dlqSend" ELSE "resolve"]
          /\ pc[w] = "begin"
          /\ UNCHANGED <<delivery, batch, msg, applied, audit, deadLetters, faults>>
      BY <1>7 DEF Begin, SetRow, GoTo
    <2> HIDE DEF row
    <2>4. QED
      BY <2>1, <2>2, <2>3 DEF TypeOK, Running, Business, Handoff
  <1>8. ASSUME NEW w \in Loops, Resolve(w) PROVE TypeOK'
    BY <1>8, SigTyped, RowUpdates DEF Resolve, TypeOK, Running, Business, Handoff, GoTo, run, stores
  <1>9. ASSUME NEW w \in Loops, UpdateWorkItem(w) PROVE TypeOK'
    BY <1>9, SigTyped, RowUpdates DEF UpdateWorkItem, TypeOK, Running, Business, Handoff, GoTo, run, stores
  <1>10. ASSUME NEW w \in Loops, ScheduleAudit(w) PROVE TypeOK'
    BY <1>10, SigTyped, RowUpdates DEF ScheduleAudit, TypeOK, Running, Business, Handoff, GoTo, run, stores
  <1>11. ASSUME NEW w \in Loops, EnqueueAudit(w) PROVE TypeOK'
    BY <1>11, SigTyped, RowUpdates DEF EnqueueAudit, TypeOK, Running, Business, Handoff, GoTo, run, stores
  <1>12. ASSUME NEW w \in Loops, MarkProcessed(w) PROVE TypeOK'
    BY <1>12, SigTyped, RowUpdates DEF MarkProcessed, TypeOK, Running, Business, Handoff, GoTo, run, stores, SetRow
  <1>13. ASSUME NEW w \in Loops, MarkFailed(w) PROVE TypeOK'
    BY <1>13, SigTyped, RowUpdates DEF MarkFailed, TypeOK, Running, Business, Handoff, GoTo, run, stores, SetRow, Finish
  <1>14. ASSUME NEW w \in Loops, DlqSend(w) PROVE TypeOK'
    BY <1>14, SigTyped, RowUpdates DEF DlqSend, TypeOK, Running, Business, Handoff, GoTo, run, stores
  <1>15. ASSUME NEW w \in Loops, DlqMark(w) PROVE TypeOK'
    BY <1>15, SigTyped, RowUpdates DEF DlqMark, TypeOK, Running, Business, Handoff, GoTo, run, stores, SetRow
  <1>16. ASSUME NEW w \in Loops, AckFails(w) PROVE TypeOK'
    BY <1>16, SigTyped, RowUpdates DEF AckFails, TypeOK, Running, Business, Handoff, GoTo, run, stores, Finish, Fault
  <1>17. ASSUME NEW w \in Loops, BeginFails(w) PROVE TypeOK'
    BY <1>17, SigTyped, RowUpdates DEF BeginFails, TypeOK, Running, Business, Handoff, GoTo, run, stores, Finish, Fault
  <1>18. ASSUME NEW w \in Loops, ResolveBusy(w) PROVE TypeOK'
    BY <1>18, SigTyped, RowUpdates DEF ResolveBusy, TypeOK, Running, Business, Handoff, GoTo, run, stores, Finish, Fault
  <1>19. ASSUME NEW w \in Loops, BusinessFails(w) PROVE TypeOK'
    BY <1>19, SigTyped, RowUpdates DEF BusinessFails, TypeOK, Running, Business, Handoff, GoTo, run, stores, SetRow, Fault
  <1>20. ASSUME NEW w \in Loops, MarkFailedFails(w) PROVE TypeOK'
    BY <1>20, SigTyped, RowUpdates DEF MarkFailedFails, TypeOK, Running, Business, Handoff, GoTo, run, stores, Finish, Fault
  <1>21. ASSUME NEW w \in Loops, HandoffFails(w) PROVE TypeOK'
    BY <1>21, SigTyped, RowUpdates DEF HandoffFails, TypeOK, Running, Business, Handoff, GoTo, run, stores, Finish, Fault
  <1>22. ASSUME NEW s \in Signals, LeaseLapses(s) PROVE TypeOK'
    BY <1>22, RowUpdates DEF LeaseLapses, Age, TypeOK, run
  <1>23. ASSUME NEW s \in Signals, LeaseOverrun(s) PROVE TypeOK'
    BY <1>23, RowUpdates DEF LeaseOverrun, Age, Fault, TypeOK, run
  <1>24. ASSUME NEW c \in Consumers, Crash(c) PROVE TypeOK'
    BY <1>24 DEF Crash, Fault, TypeOK, stores, Running, Business, Handoff
  <1>25. ASSUME UNCHANGED vars PROVE TypeOK'
    BY <1>25 DEF vars, TypeOK
  <1>26. QED
    BY <1>1, <1>2, <1>3, <1>4, <1>5, <1>6, <1>7, <1>8, <1>9, <1>10, <1>11, <1>12, <1>13, <1>14, <1>15, <1>16, <1>17, <1>18, <1>19, <1>20, <1>21, <1>22, <1>23, <1>24, <1>25 DEF Next, Step, Fails

\* Ledger rows, batches, loops and counters keep their types in every run.
THEOREM TypeCorrect == Spec => []TypeOK
  BY InitTypeOK, StepTypeOK, PTL DEF Spec

-----------------------------------------------------------------------------
(* How one step changes the stores.                                        *)

\* The row of a signal changes only by a statement of the repository, and is
\* marked PROCESSED or DLQ only by a loop that has come that far.
RowMoves(s) ==
  \/ ledger'[s] = ledger[s]
  \/ MayProcess(ledger[s]) /\ ledger'[s] = Begun(ledger[s])
  \/ /\ \E w \in Loops : pc[w] = "markProcessed" /\ Sig(w) = s
     /\ ledger'[s] = MarkedProcessed(ledger[s])
  \/ /\ \E w \in Loops : pc[w] = "dlqMark" /\ Sig(w) = s
     /\ ledger'[s] = MarkedDeadLettered(ledger[s])
  \/ ledger'[s] = MarkedFailed(ledger[s])
  \/ ledger'[s] = LeaseAged(ledger[s])

\* Every step moves every ledger row in one of those ways.
LEMMA StepRows == TypeOK /\ [Next]_vars => \A s \in Signals : RowMoves(s)
  <1> SUFFICES ASSUME TypeOK, [Next]_vars
               PROVE  \A s \in Signals : RowMoves(s)
    OBVIOUS
  <1>1. ASSUME NEW w \in Loops, ReadNew(w) PROVE \A t \in Signals : RowMoves(t)
    BY <1>1, SigTyped DEF ReadNew, RowMoves, TypeOK, stores, Business, Handoff
  <1>2. ASSUME NEW w \in Loops, ClaimIdle(w) PROVE \A t \in Signals : RowMoves(t)
    BY <1>2, SigTyped DEF ClaimIdle, RowMoves, TypeOK, stores, Business, Handoff
  <1>3. ASSUME NEW w \in Loops, StartNext(w) PROVE \A t \in Signals : RowMoves(t)
    BY <1>3, SigTyped DEF StartNext, GoTo, RowMoves, TypeOK, stores, Business, Handoff
  <1>4. ASSUME NEW w \in Loops, Ack(w) PROVE \A t \in Signals : RowMoves(t)
    BY <1>4, SigTyped DEF Ack, Finish, RowMoves, TypeOK, stores, Business, Handoff
  <1>5. ASSUME NEW w \in Loops, SkipProcessed(w) PROVE \A t \in Signals : RowMoves(t)
    BY <1>5, SigTyped DEF SkipProcessed, GoTo, RowMoves, TypeOK, stores, Business, Handoff
  <1>6. ASSUME NEW w \in Loops, SkipLeased(w) PROVE \A t \in Signals : RowMoves(t)
    BY <1>6, SigTyped DEF SkipLeased, Finish, RowMoves, TypeOK, stores, Business, Handoff
  <1>7. ASSUME NEW w \in Loops, Begin(w) PROVE \A t \in Signals : RowMoves(t)
    BY <1>7, SigTyped DEF Begin, SetRow, GoTo, RowMoves, TypeOK, stores, Business, Handoff
  <1>8. ASSUME NEW w \in Loops, Resolve(w) PROVE \A t \in Signals : RowMoves(t)
    BY <1>8, SigTyped DEF Resolve, GoTo, RowMoves, TypeOK, stores, Business, Handoff
  <1>9. ASSUME NEW w \in Loops, UpdateWorkItem(w) PROVE \A t \in Signals : RowMoves(t)
    BY <1>9, SigTyped DEF UpdateWorkItem, GoTo, RowMoves, TypeOK, stores, Business, Handoff
  <1>10. ASSUME NEW w \in Loops, ScheduleAudit(w) PROVE \A t \in Signals : RowMoves(t)
    BY <1>10, SigTyped DEF ScheduleAudit, GoTo, RowMoves, TypeOK, stores, Business, Handoff
  <1>11. ASSUME NEW w \in Loops, EnqueueAudit(w) PROVE \A t \in Signals : RowMoves(t)
    BY <1>11, SigTyped DEF EnqueueAudit, GoTo, RowMoves, TypeOK, stores, Business, Handoff
  <1>12. ASSUME NEW w \in Loops, MarkProcessed(w) PROVE \A t \in Signals : RowMoves(t)
    BY <1>12, SigTyped DEF MarkProcessed, SetRow, GoTo, RowMoves, TypeOK, stores, Business, Handoff
  <1>13. ASSUME NEW w \in Loops, MarkFailed(w) PROVE \A t \in Signals : RowMoves(t)
    BY <1>13, SigTyped DEF MarkFailed, SetRow, Finish, RowMoves, TypeOK, stores, Business, Handoff
  <1>14. ASSUME NEW w \in Loops, DlqSend(w) PROVE \A t \in Signals : RowMoves(t)
    BY <1>14, SigTyped DEF DlqSend, GoTo, RowMoves, TypeOK, stores, Business, Handoff
  <1>15. ASSUME NEW w \in Loops, DlqMark(w) PROVE \A t \in Signals : RowMoves(t)
    BY <1>15, SigTyped DEF DlqMark, SetRow, GoTo, RowMoves, TypeOK, stores, Business, Handoff
  <1>16. ASSUME NEW w \in Loops, AckFails(w) PROVE \A t \in Signals : RowMoves(t)
    BY <1>16, SigTyped DEF AckFails, Finish, Fault, RowMoves, TypeOK, stores, Business, Handoff
  <1>17. ASSUME NEW w \in Loops, BeginFails(w) PROVE \A t \in Signals : RowMoves(t)
    BY <1>17, SigTyped DEF BeginFails, Finish, Fault, RowMoves, TypeOK, stores, Business, Handoff
  <1>18. ASSUME NEW w \in Loops, ResolveBusy(w) PROVE \A t \in Signals : RowMoves(t)
    BY <1>18, SigTyped DEF ResolveBusy, Finish, Fault, RowMoves, TypeOK, stores, Business, Handoff
  <1>19. ASSUME NEW w \in Loops, BusinessFails(w) PROVE \A t \in Signals : RowMoves(t)
    BY <1>19, SigTyped DEF BusinessFails, SetRow, Fault, GoTo, RowMoves, TypeOK, stores, Business, Handoff
  <1>20. ASSUME NEW w \in Loops, MarkFailedFails(w) PROVE \A t \in Signals : RowMoves(t)
    BY <1>20, SigTyped DEF MarkFailedFails, Finish, Fault, RowMoves, TypeOK, stores, Business, Handoff
  <1>21. ASSUME NEW w \in Loops, HandoffFails(w) PROVE \A t \in Signals : RowMoves(t)
    BY <1>21, SigTyped DEF HandoffFails, Finish, Fault, RowMoves, TypeOK, stores, Business, Handoff
  <1>22. ASSUME NEW s \in Signals, LeaseLapses(s) PROVE \A t \in Signals : RowMoves(t)
    BY <1>22, SigTyped DEF LeaseLapses, Age, RowMoves, TypeOK, stores, Business, Handoff
  <1>23. ASSUME NEW s \in Signals, LeaseOverrun(s) PROVE \A t \in Signals : RowMoves(t)
    BY <1>23, SigTyped DEF LeaseOverrun, Age, Fault, RowMoves, TypeOK, stores, Business, Handoff
  <1>24. ASSUME NEW c \in Consumers, Crash(c) PROVE \A t \in Signals : RowMoves(t)
    BY <1>24, SigTyped DEF Crash, Fault, RowMoves, TypeOK, stores, Business, Handoff
  <1>25. ASSUME UNCHANGED vars PROVE \A t \in Signals : RowMoves(t)
    BY <1>25, SigTyped DEF vars, RowMoves, TypeOK, stores, Business, Handoff
  <1>26. QED
    BY <1>1, <1>2, <1>3, <1>4, <1>5, <1>6, <1>7, <1>8, <1>9, <1>10, <1>11, <1>12, <1>13, <1>14, <1>15, <1>16, <1>17, <1>18, <1>19, <1>20, <1>21, <1>22, <1>23, <1>24, <1>25 DEF Next, Step, Fails

\* Nothing takes back a completion, an attempt, an update or a DLQ entry.
Grows(s) ==
  /\ ledger[s].processedAt => ledger'[s].processedAt
  /\ ledger[s].attempts <= ledger'[s].attempts
  /\ applied[s] \subseteq applied'[s]
  /\ deadLetters[s] \subseteq deadLetters'[s]

\* Updates of the work item and DLQ entries are added one at a time, under the
\* attempt number of a loop that is at that await.
LEMMA StepSets ==
  TypeOK /\ [Next]_vars =>
    \A s \in Signals :
      /\ \/ applied'[s] = applied[s]
         \/ \E w \in Loops : /\ pc[w] = "update" /\ Sig(w) = s
                             /\ applied'[s] = applied[s] \cup {attempt[w]}
      /\ \/ deadLetters'[s] = deadLetters[s]
         \/ \E w \in Loops : /\ pc[w] = "dlqSend" /\ Sig(w) = s
                             /\ deadLetters'[s] = deadLetters[s] \cup {attempt[w]}
  <1> DEFINE P(s) ==
               \/ applied'[s] = applied[s]
               \/ \E w \in Loops : /\ pc[w] = "update" /\ Sig(w) = s
                                   /\ applied'[s] = applied[s] \cup {attempt[w]}
             Q(s) ==
               \/ deadLetters'[s] = deadLetters[s]
               \/ \E w \in Loops : /\ pc[w] = "dlqSend" /\ Sig(w) = s
                                   /\ deadLetters'[s] = deadLetters[s] \cup {attempt[w]}
  <1> SUFFICES ASSUME TypeOK, [Next]_vars
               PROVE  \A s \in Signals : P(s) /\ Q(s)
    OBVIOUS
  <1>1. ASSUME NEW w \in Loops, ReadNew(w) PROVE \A t \in Signals : P(t) /\ Q(t)
    BY <1>1, SigTyped DEF ReadNew, TypeOK, stores
  <1>2. ASSUME NEW w \in Loops, ClaimIdle(w) PROVE \A t \in Signals : P(t) /\ Q(t)
    BY <1>2, SigTyped DEF ClaimIdle, TypeOK, stores
  <1>3. ASSUME NEW w \in Loops, StartNext(w) PROVE \A t \in Signals : P(t) /\ Q(t)
    BY <1>3, SigTyped DEF StartNext, GoTo, TypeOK, stores
  <1>4. ASSUME NEW w \in Loops, Ack(w) PROVE \A t \in Signals : P(t) /\ Q(t)
    BY <1>4, SigTyped DEF Ack, Finish, TypeOK, stores
  <1>5. ASSUME NEW w \in Loops, SkipProcessed(w) PROVE \A t \in Signals : P(t) /\ Q(t)
    BY <1>5, SigTyped DEF SkipProcessed, GoTo, TypeOK, stores
  <1>6. ASSUME NEW w \in Loops, SkipLeased(w) PROVE \A t \in Signals : P(t) /\ Q(t)
    BY <1>6, SigTyped DEF SkipLeased, Finish, TypeOK, stores
  <1>7. ASSUME NEW w \in Loops, Begin(w) PROVE \A t \in Signals : P(t) /\ Q(t)
    BY <1>7, SigTyped DEF Begin, SetRow, GoTo, TypeOK, stores
  <1>8. ASSUME NEW w \in Loops, Resolve(w) PROVE \A t \in Signals : P(t) /\ Q(t)
    BY <1>8, SigTyped DEF Resolve, GoTo, TypeOK, stores
  <1>9. ASSUME NEW w \in Loops, UpdateWorkItem(w) PROVE \A t \in Signals : P(t) /\ Q(t)
    BY <1>9, SigTyped DEF UpdateWorkItem, GoTo, TypeOK, stores
  <1>10. ASSUME NEW w \in Loops, ScheduleAudit(w) PROVE \A t \in Signals : P(t) /\ Q(t)
    BY <1>10, SigTyped DEF ScheduleAudit, GoTo, TypeOK, stores
  <1>11. ASSUME NEW w \in Loops, EnqueueAudit(w) PROVE \A t \in Signals : P(t) /\ Q(t)
    BY <1>11, SigTyped DEF EnqueueAudit, GoTo, TypeOK, stores
  <1>12. ASSUME NEW w \in Loops, MarkProcessed(w) PROVE \A t \in Signals : P(t) /\ Q(t)
    BY <1>12, SigTyped DEF MarkProcessed, SetRow, GoTo, TypeOK, stores
  <1>13. ASSUME NEW w \in Loops, MarkFailed(w) PROVE \A t \in Signals : P(t) /\ Q(t)
    BY <1>13, SigTyped DEF MarkFailed, SetRow, Finish, TypeOK, stores
  <1>14. ASSUME NEW w \in Loops, DlqSend(w) PROVE \A t \in Signals : P(t) /\ Q(t)
    BY <1>14, SigTyped DEF DlqSend, GoTo, TypeOK, stores
  <1>15. ASSUME NEW w \in Loops, DlqMark(w) PROVE \A t \in Signals : P(t) /\ Q(t)
    BY <1>15, SigTyped DEF DlqMark, SetRow, GoTo, TypeOK, stores
  <1>16. ASSUME NEW w \in Loops, AckFails(w) PROVE \A t \in Signals : P(t) /\ Q(t)
    BY <1>16, SigTyped DEF AckFails, Finish, Fault, TypeOK, stores
  <1>17. ASSUME NEW w \in Loops, BeginFails(w) PROVE \A t \in Signals : P(t) /\ Q(t)
    BY <1>17, SigTyped DEF BeginFails, Finish, Fault, TypeOK, stores
  <1>18. ASSUME NEW w \in Loops, ResolveBusy(w) PROVE \A t \in Signals : P(t) /\ Q(t)
    BY <1>18, SigTyped DEF ResolveBusy, Finish, Fault, TypeOK, stores
  <1>19. ASSUME NEW w \in Loops, BusinessFails(w) PROVE \A t \in Signals : P(t) /\ Q(t)
    BY <1>19, SigTyped DEF BusinessFails, SetRow, Fault, GoTo, TypeOK, stores
  <1>20. ASSUME NEW w \in Loops, MarkFailedFails(w) PROVE \A t \in Signals : P(t) /\ Q(t)
    BY <1>20, SigTyped DEF MarkFailedFails, Finish, Fault, TypeOK, stores
  <1>21. ASSUME NEW w \in Loops, HandoffFails(w) PROVE \A t \in Signals : P(t) /\ Q(t)
    BY <1>21, SigTyped DEF HandoffFails, Finish, Fault, TypeOK, stores
  <1>22. ASSUME NEW s \in Signals, LeaseLapses(s) PROVE \A t \in Signals : P(t) /\ Q(t)
    BY <1>22, SigTyped DEF LeaseLapses, Age, TypeOK, stores
  <1>23. ASSUME NEW s \in Signals, LeaseOverrun(s) PROVE \A t \in Signals : P(t) /\ Q(t)
    BY <1>23, SigTyped DEF LeaseOverrun, Age, Fault, TypeOK, stores
  <1>24. ASSUME NEW c \in Consumers, Crash(c) PROVE \A t \in Signals : P(t) /\ Q(t)
    BY <1>24, SigTyped DEF Crash, Fault, TypeOK, stores
  <1>25. ASSUME UNCHANGED vars PROVE \A t \in Signals : P(t) /\ Q(t)
    BY <1>25, SigTyped DEF vars, TypeOK, stores
  <1>26. QED
    BY <1>1, <1>2, <1>3, <1>4, <1>5, <1>6, <1>7, <1>8, <1>9, <1>10, <1>11, <1>12, <1>13, <1>14, <1>15, <1>16, <1>17, <1>18, <1>19, <1>20, <1>21, <1>22, <1>23, <1>24, <1>25 DEF Next, Step, Fails

\* What a signal has gained, no step takes away.
LEMMA StepGrows == TypeOK /\ [Next]_vars => \A s \in Signals : Grows(s)
  <1> SUFFICES ASSUME TypeOK, [Next]_vars, NEW s \in Signals
               PROVE  Grows(s)
    OBVIOUS
  <1>1. ledger[s] \in LedgerRow /\ RowMoves(s)
    BY StepRows DEF TypeOK
  <1>2. ledger[s].processedAt => ledger'[s].processedAt
    BY <1>1, RowProcessedAt DEF RowMoves
  <1>3. ledger[s].attempts <= ledger'[s].attempts
    BY <1>1, RowAttempts DEF RowMoves
  <1>4. applied[s] \subseteq applied'[s] /\ deadLetters[s] \subseteq deadLetters'[s]
    BY StepSets
  <1>5. QED
    BY <1>2, <1>3, <1>4 DEF Grows

-----------------------------------------------------------------------------
(* No signal is lost.                                                      *)

\* The strengthening of NoSignalLost: the ledger's terminal statuses, and the
\* loops that are about to ACK, already have their evidence.
StatusBacked ==
  \A s \in Signals :
    /\ ledger[s].status = "DLQ" => deadLetters[s] # {}
    /\ ledger[s].status = "PROCESSED" => ledger[s].processedAt

AckBacked ==
  \A w \in Loops :
    /\ pc[w] = "ack" => Settled(Sig(w))
    /\ pc[w] \in {"dlqMark", "ackDlq"} => deadLetters[Sig(w)] # {}

SettledInv == StatusBacked /\ AckBacked /\ NoSignalLost

\* Nothing is ACKed or written yet.
LEMMA InitSettled == Init => SettledInv
  BY DEF Init, SettledInv, StatusBacked, AckBacked, NoSignalLost, NoRow

\* The status PROCESSED goes with processed_at, DLQ with a dead letter, after every step.
LEMMA StepStatusBacked == TypeOK /\ SettledInv /\ [Next]_vars => StatusBacked'
  <1> SUFFICES ASSUME TypeOK, SettledInv, [Next]_vars, NEW s \in Signals
               PROVE  /\ ledger'[s].status = "DLQ" => deadLetters'[s] # {}
                      /\ ledger'[s].status = "PROCESSED" => ledger'[s].processedAt
    BY DEF StatusBacked
  <1>1. ledger[s] \in LedgerRow /\ RowMoves(s) /\ Grows(s)
    BY StepRows, StepGrows DEF TypeOK
  <1>2. ledger'[s].status = "DLQ" => deadLetters[s] # {}
    BY <1>1, RowStatus DEF RowMoves, SettledInv, StatusBacked, AckBacked
  <1>3. ledger'[s].status = "PROCESSED" => ledger'[s].processedAt
    BY <1>1, RowStatus, RowProcessedAt DEF RowMoves, SettledInv, StatusBacked
  <1>4. QED
    BY <1>1, <1>2, <1>3 DEF Grows

\* A run that is about to ACK has settled its signal, after every step.
LEMMA StepAckBacked == TypeOK /\ SettledInv /\ [Next]_vars => AckBacked'
  <1> SUFFICES ASSUME TypeOK, SettledInv, [Next]_vars
               PROVE  AckBacked'
    OBVIOUS
  <1>0. \A s \in Signals : Settled(s) => Settled(s)'
    BY StepGrows DEF Grows, Settled
  <1>a. \A s \in Signals : deadLetters[s] # {} => deadLetters'[s] # {}
    BY StepGrows DEF Grows
  <1>1. ASSUME NEW w \in Loops, ReadNew(w) PROVE AckBacked'
    BY <1>1, <1>0, <1>a, SigTyped DEF ReadNew, SettledInv, AckBacked, Sig, TypeOK, run, Business, Handoff
  <1>2. ASSUME NEW w \in Loops, ClaimIdle(w) PROVE AckBacked'
    BY <1>2, <1>0, <1>a, SigTyped DEF ClaimIdle, SettledInv, AckBacked, Sig, TypeOK, run, Business, Handoff
  <1>3. ASSUME NEW w \in Loops, StartNext(w) PROVE AckBacked'
    BY <1>3, <1>0, <1>a, SigTyped DEF StartNext, GoTo, SettledInv, AckBacked, Sig, TypeOK, run, Business, Handoff
  <1>4. ASSUME NEW w \in Loops, Ack(w) PROVE AckBacked'
    BY <1>4, <1>0, <1>a, SigTyped DEF Ack, Finish, SettledInv, AckBacked, Sig, TypeOK, run, Business, Handoff
  <1>5. ASSUME NEW w \in Loops, SkipProcessed(w) PROVE AckBacked'
    <2>1. Sig(w) \in Signals /\ Settled(Sig(w))
      BY <1>5, SigTyped DEF SkipProcessed, AlreadyProcessed, SettledInv, StatusBacked, Settled
    <2>2. QED
      BY <1>5, <1>0, <1>a, <2>1, SigTyped DEF SkipProcessed, GoTo, SettledInv, AckBacked, Sig, TypeOK, run
  <1>6. ASSUME NEW w \in Loops, SkipLeased(w) PROVE AckBacked'
    BY <1>6, <1>0, <1>a, SigTyped DEF SkipLeased, Finish, SettledInv, AckBacked, Sig, TypeOK, run, Business, Handoff
  <1>7. ASSUME NEW w \in Loops, Begin(w) PROVE AckBacked'
    BY <1>7, <1>0, <1>a, SigTyped DEF Begin, SetRow, GoTo, SettledInv, AckBacked, Sig, TypeOK, run, Business, Handoff
  <1>8. ASSUME NEW w \in Loops, Resolve(w) PROVE AckBacked'
    BY <1>8, <1>0, <1>a, SigTyped DEF Resolve, GoTo, SettledInv, AckBacked, Sig, TypeOK, run, Business, Handoff
  <1>9. ASSUME NEW w \in Loops, UpdateWorkItem(w) PROVE AckBacked'
    BY <1>9, <1>0, <1>a, SigTyped DEF UpdateWorkItem, GoTo, SettledInv, AckBacked, Sig, TypeOK, run, Business, Handoff
  <1>10. ASSUME NEW w \in Loops, ScheduleAudit(w) PROVE AckBacked'
    BY <1>10, <1>0, <1>a, SigTyped DEF ScheduleAudit, GoTo, SettledInv, AckBacked, Sig, TypeOK, run, Business, Handoff
  <1>11. ASSUME NEW w \in Loops, EnqueueAudit(w) PROVE AckBacked'
    BY <1>11, <1>0, <1>a, SigTyped DEF EnqueueAudit, GoTo, SettledInv, AckBacked, Sig, TypeOK, run, Business, Handoff
  <1>12. ASSUME NEW w \in Loops, MarkProcessed(w) PROVE AckBacked'
    <2>1. Sig(w) \in Signals /\ ledger[Sig(w)] \in LedgerRow
      BY <1>12, SigTyped DEF MarkProcessed, TypeOK
    <2>2. Settled(Sig(w))'
      BY <1>12, <2>1, RowProcessedAt DEF MarkProcessed, SetRow, Settled, Sig, run, TypeOK
    <2>3. \A v \in Loops : Sig(v)' = Sig(v)
      BY <1>12 DEF MarkProcessed, Sig, run
    <2>4. QED
      BY <1>12, <1>0, <1>a, <2>2, <2>3, SigTyped DEF MarkProcessed, GoTo, SettledInv, AckBacked, TypeOK
  <1>13. ASSUME NEW w \in Loops, MarkFailed(w) PROVE AckBacked'
    BY <1>13, <1>0, <1>a, SigTyped DEF MarkFailed, SetRow, Finish, SettledInv, AckBacked, Sig, TypeOK, run, Business, Handoff
  <1>14. ASSUME NEW w \in Loops, DlqSend(w) PROVE AckBacked'
    BY <1>14, <1>0, <1>a, SigTyped DEF DlqSend, GoTo, SettledInv, AckBacked, Sig, TypeOK, run, Business, Handoff
  <1>15. ASSUME NEW w \in Loops, DlqMark(w) PROVE AckBacked'
    BY <1>15, <1>0, <1>a, SigTyped DEF DlqMark, SetRow, GoTo, SettledInv, AckBacked, Sig, TypeOK, run, Business, Handoff
  <1>16. ASSUME NEW w \in Loops, AckFails(w) PROVE AckBacked'
    BY <1>16, <1>0, <1>a, SigTyped DEF AckFails, Finish, Fault, SettledInv, AckBacked, Sig, TypeOK, run, Business, Handoff
  <1>17. ASSUME NEW w \in Loops, BeginFails(w) PROVE AckBacked'
    BY <1>17, <1>0, <1>a, SigTyped DEF BeginFails, Finish, Fault, SettledInv, AckBacked, Sig, TypeOK, run, Business, Handoff
  <1>18. ASSUME NEW w \in Loops, ResolveBusy(w) PROVE AckBacked'
    BY <1>18, <1>0, <1>a, SigTyped DEF ResolveBusy, Finish, Fault, SettledInv, AckBacked, Sig, TypeOK, run, Business, Handoff
  <1>19. ASSUME NEW w \in Loops, BusinessFails(w) PROVE AckBacked'
    BY <1>19, <1>0, <1>a, SigTyped DEF BusinessFails, SetRow, Fault, GoTo, SettledInv, AckBacked, Sig, TypeOK, run, Business, Handoff
  <1>20. ASSUME NEW w \in Loops, MarkFailedFails(w) PROVE AckBacked'
    BY <1>20, <1>0, <1>a, SigTyped DEF MarkFailedFails, Finish, Fault, SettledInv, AckBacked, Sig, TypeOK, run, Business, Handoff
  <1>21. ASSUME NEW w \in Loops, HandoffFails(w) PROVE AckBacked'
    BY <1>21, <1>0, <1>a, SigTyped DEF HandoffFails, Finish, Fault, SettledInv, AckBacked, Sig, TypeOK, run, Business, Handoff
  <1>22. ASSUME NEW s \in Signals, LeaseLapses(s) PROVE AckBacked'
    BY <1>22, <1>0, <1>a, SigTyped DEF LeaseLapses, Age, SettledInv, AckBacked, Sig, TypeOK, run, Business, Handoff
  <1>23. ASSUME NEW s \in Signals, LeaseOverrun(s) PROVE AckBacked'
    BY <1>23, <1>0, <1>a, SigTyped DEF LeaseOverrun, Age, Fault, SettledInv, AckBacked, Sig, TypeOK, run, Business, Handoff
  <1>24. ASSUME NEW c \in Consumers, Crash(c) PROVE AckBacked'
    BY <1>24, <1>0, <1>a, SigTyped DEF Crash, Fault, SettledInv, AckBacked, Sig, TypeOK, run, Business, Handoff
  <1>25. ASSUME UNCHANGED vars PROVE AckBacked'
    BY <1>25, <1>0, <1>a, SigTyped DEF vars, SettledInv, AckBacked, Sig, TypeOK, run, Business, Handoff
  <1>26. QED
    BY <1>1, <1>2, <1>3, <1>4, <1>5, <1>6, <1>7, <1>8, <1>9, <1>10, <1>11, <1>12, <1>13, <1>14, <1>15, <1>16, <1>17, <1>18, <1>19, <1>20, <1>21, <1>22, <1>23, <1>24, <1>25 DEF Next, Step, Fails

\* Only Ack moves an entry to "acked", and only where AckBacked has evidence.
LEMMA StepNoSignalLost == TypeOK /\ SettledInv /\ [Next]_vars => NoSignalLost'
  <1> SUFFICES ASSUME TypeOK, SettledInv, [Next]_vars
               PROVE  NoSignalLost'
    OBVIOUS
  <1>1. \A s \in Signals : Settled(s) => Settled(s)'
    BY StepGrows DEF Grows, Settled
  <1>2. \A m \in Messages : delivery'[m] = "acked" =>
          delivery[m] = "acked" \/ \E w \in Loops : pc[w] \in {"ack", "ackDlq"} /\ m = msg[w]
    BY DEF Next, Step, Fails, vars, TypeOK, stores, ReadNew, ClaimIdle, StartNext, Ack,
           SkipProcessed, SkipLeased, Begin, Resolve, UpdateWorkItem, ScheduleAudit,
           EnqueueAudit, MarkProcessed, MarkFailed, DlqSend, DlqMark, AckFails, BeginFails,
           ResolveBusy, BusinessFails, MarkFailedFails, HandoffFails, LeaseLapses,
           LeaseOverrun, Age, Crash
  <1>3. \A m \in Messages : delivery'[m] = "acked" => Settled(SignalOf[m])
    BY <1>2 DEF SettledInv, AckBacked, NoSignalLost, Settled, Sig
  <1>4. QED
    BY <1>1, <1>3, SignalOfAssumption DEF NoSignalLost, Settled

\* The inductive invariant behind NoSignalLost is preserved.
LEMMA StepSettled == TypeOK /\ SettledInv /\ [Next]_vars => SettledInv'
  BY StepStatusBacked, StepAckBacked, StepNoSignalLost DEF SettledInv

\* An ACKed entry's signal was processed to the end or is in the DLQ.
THEOREM NoSignalIsLost == Spec => []NoSignalLost
  <1>1. SettledInv => NoSignalLost
    BY DEF SettledInv
  <1>2. QED
    BY <1>1, TypeCorrect, InitSettled, StepSettled, PTL DEF Spec

\* A completed signal stays completed and is never begun again.
THEOREM NeverRestarts == Spec => ProcessedNeverRestarts
  <1>1. TypeOK /\ [Next]_vars =>
          [\A s \in Signals : ledger[s].processedAt =>
             ledger'[s].processedAt /\ ledger'[s].attempts = ledger[s].attempts]_vars
    <2> SUFFICES ASSUME TypeOK, [Next]_vars, NEW s \in Signals, ledger[s].processedAt
                 PROVE  ledger'[s].processedAt /\ ledger'[s].attempts = ledger[s].attempts
      OBVIOUS
    <2>1. ledger[s] \in LedgerRow /\ RowMoves(s) /\ Grows(s)
      BY StepRows, StepGrows DEF TypeOK
    <2>2. ~MayProcess(ledger[s])
      BY DEF MayProcess, AlreadyProcessed
    <2>3. QED
      BY <2>1, <2>2, RowAttempts DEF RowMoves, Grows
  <1>2. QED
    BY <1>1, TypeCorrect, PTL DEF Spec, ProcessedNeverRestarts

-----------------------------------------------------------------------------
(* Attempt numbers and effects.                                            *)

\* A loop that runs under a lease has a number that beginProcessing counted; the
\* limit decides between the business path and the hand-off.
AttemptAdmitted ==
  \A w \in Loops :
    /\ pc[w] \in Running => attempt[w] \in 1 .. ledger[Sig(w)].attempts
    /\ pc[w] \in Business => attempt[w] <= MaxAttempts
    /\ pc[w] \in Handoff => attempt[w] > MaxAttempts

AttemptInv ==
  /\ AttemptAdmitted
  /\ OneRunPerAttempt
  /\ EffectsWithinAttempts
  /\ DeadLetteredOnlyWhenExhausted

\* No run has a number yet.
LEMMA InitAttempt == Init => AttemptInv
  BY DEF Init, AttemptInv, AttemptAdmitted, OneRunPerAttempt, EffectsWithinAttempts,
         DeadLetteredOnlyWhenExhausted, Running, Business, Handoff

\* A run goes on under the number it has; only Begin starts one, under the
\* number that it has just counted.
RunMoves(w) ==
  \/ /\ pc'[w] \in Running => pc[w] \in Running
     /\ pc'[w] \in Business => pc[w] \in Business
     /\ pc'[w] \in Handoff => pc[w] \in Handoff
     /\ pc'[w] \in Running => msg'[w] = msg[w] /\ attempt'[w] = attempt[w]
  \/ /\ pc[w] = "begin" /\ msg' = msg
     /\ \A v \in Loops \ {w} : pc'[v] = pc[v] /\ attempt'[v] = attempt[v]
     /\ ledger'[Sig(w)].attempts = ledger[Sig(w)].attempts + 1
     /\ attempt'[w] = ledger[Sig(w)].attempts + 1
     /\ pc'[w] = IF attempt'[w] > MaxAttempts THEN "dlqSend" ELSE "resolve"

\* Every step moves every run in one of those ways.
LEMMA StepRuns == TypeOK /\ [Next]_vars => \A w \in Loops : RunMoves(w)
  <1> SUFFICES ASSUME TypeOK, [Next]_vars
               PROVE  \A v \in Loops : RunMoves(v)
    OBVIOUS
  <1>1. ASSUME NEW w \in Loops, ReadNew(w) PROVE \A v \in Loops : RunMoves(v)
    BY <1>1 DEF ReadNew, RunMoves, TypeOK, run, Running, Business, Handoff
  <1>2. ASSUME NEW w \in Loops, ClaimIdle(w) PROVE \A v \in Loops : RunMoves(v)
    BY <1>2 DEF ClaimIdle, RunMoves, TypeOK, run, Running, Business, Handoff
  <1>3. ASSUME NEW w \in Loops, StartNext(w) PROVE \A v \in Loops : RunMoves(v)
    BY <1>3 DEF StartNext, GoTo, RunMoves, TypeOK, run, Running, Business, Handoff
  <1>4. ASSUME NEW w \in Loops, Ack(w) PROVE \A v \in Loops : RunMoves(v)
    BY <1>4 DEF Ack, Finish, RunMoves, TypeOK, run, Running, Business, Handoff
  <1>5. ASSUME NEW w \in Loops, SkipProcessed(w) PROVE \A v \in Loops : RunMoves(v)
    BY <1>5 DEF SkipProcessed, GoTo, RunMoves, TypeOK, run, Running, Business, Handoff
  <1>6. ASSUME NEW w \in Loops, SkipLeased(w) PROVE \A v \in Loops : RunMoves(v)
    BY <1>6 DEF SkipLeased, Finish, RunMoves, TypeOK, run, Running, Business, Handoff
  <1>7. ASSUME NEW w \in Loops, Begin(w) PROVE \A v \in Loops : RunMoves(v)
    <2>1. ledger[Sig(w)] \in LedgerRow /\ Sig(w) \in Signals
      BY <1>7, SigTyped DEF Begin, TypeOK
    <2>2. Begun(ledger[Sig(w)]).attempts = ledger[Sig(w)].attempts + 1
      BY <2>1, RowAttempts
    <2>3. /\ pc[w] = "begin" /\ msg' = msg
          /\ attempt' = [attempt EXCEPT ![w] = Begun(ledger[Sig(w)]).attempts]
          /\ ledger' = [ledger EXCEPT ![Sig(w)] = Begun(ledger[Sig(w)])]
          /\ pc' = [pc EXCEPT ![w] = IF Begun(ledger[Sig(w)]).attempts > MaxAttempts
                                     THEN "dlqSend" ELSE "resolve"]
      BY <1>7 DEF Begin, SetRow, GoTo, Exhausted
    <2>4. RunMoves(w)
      BY <2>1, <2>2, <2>3 DEF RunMoves, TypeOK
    <2>5. \A v \in Loops \ {w} : RunMoves(v)
      BY <2>3 DEF RunMoves, TypeOK
    <2>6. QED
      BY <2>4, <2>5
  <1>8. ASSUME NEW w \in Loops, Resolve(w) PROVE \A v \in Loops : RunMoves(v)
    BY <1>8 DEF Resolve, GoTo, RunMoves, TypeOK, run, Running, Business, Handoff
  <1>9. ASSUME NEW w \in Loops, UpdateWorkItem(w) PROVE \A v \in Loops : RunMoves(v)
    BY <1>9 DEF UpdateWorkItem, GoTo, RunMoves, TypeOK, run, Running, Business, Handoff
  <1>10. ASSUME NEW w \in Loops, ScheduleAudit(w) PROVE \A v \in Loops : RunMoves(v)
    BY <1>10 DEF ScheduleAudit, GoTo, RunMoves, TypeOK, run, Running, Business, Handoff
  <1>11. ASSUME NEW w \in Loops, EnqueueAudit(w) PROVE \A v \in Loops : RunMoves(v)
    BY <1>11 DEF EnqueueAudit, GoTo, RunMoves, TypeOK, run, Running, Business, Handoff
  <1>12. ASSUME NEW w \in Loops, MarkProcessed(w) PROVE \A v \in Loops : RunMoves(v)
    BY <1>12 DEF MarkProcessed, SetRow, GoTo, RunMoves, TypeOK, run, Running, Business, Handoff
  <1>13. ASSUME NEW w \in Loops, MarkFailed(w) PROVE \A v \in Loops : RunMoves(v)
    BY <1>13 DEF MarkFailed, SetRow, Finish, RunMoves, TypeOK, run, Running, Business, Handoff
  <1>14. ASSUME NEW w \in Loops, DlqSend(w) PROVE \A v \in Loops : RunMoves(v)
    BY <1>14 DEF DlqSend, GoTo, RunMoves, TypeOK, run, Running, Business, Handoff
  <1>15. ASSUME NEW w \in Loops, DlqMark(w) PROVE \A v \in Loops : RunMoves(v)
    BY <1>15 DEF DlqMark, SetRow, GoTo, RunMoves, TypeOK, run, Running, Business, Handoff
  <1>16. ASSUME NEW w \in Loops, AckFails(w) PROVE \A v \in Loops : RunMoves(v)
    BY <1>16 DEF AckFails, Finish, Fault, RunMoves, TypeOK, run, Running, Business, Handoff
  <1>17. ASSUME NEW w \in Loops, BeginFails(w) PROVE \A v \in Loops : RunMoves(v)
    BY <1>17 DEF BeginFails, Finish, Fault, RunMoves, TypeOK, run, Running, Business, Handoff
  <1>18. ASSUME NEW w \in Loops, ResolveBusy(w) PROVE \A v \in Loops : RunMoves(v)
    BY <1>18 DEF ResolveBusy, Finish, Fault, RunMoves, TypeOK, run, Running, Business, Handoff
  <1>19. ASSUME NEW w \in Loops, BusinessFails(w) PROVE \A v \in Loops : RunMoves(v)
    BY <1>19 DEF BusinessFails, SetRow, Fault, GoTo, RunMoves, TypeOK, run, Running, Business, Handoff
  <1>20. ASSUME NEW w \in Loops, MarkFailedFails(w) PROVE \A v \in Loops : RunMoves(v)
    BY <1>20 DEF MarkFailedFails, Finish, Fault, RunMoves, TypeOK, run, Running, Business, Handoff
  <1>21. ASSUME NEW w \in Loops, HandoffFails(w) PROVE \A v \in Loops : RunMoves(v)
    BY <1>21 DEF HandoffFails, Finish, Fault, RunMoves, TypeOK, run, Running, Business, Handoff
  <1>22. ASSUME NEW s \in Signals, LeaseLapses(s) PROVE \A v \in Loops : RunMoves(v)
    BY <1>22 DEF LeaseLapses, Age, RunMoves, TypeOK, run, Running, Business, Handoff
  <1>23. ASSUME NEW s \in Signals, LeaseOverrun(s) PROVE \A v \in Loops : RunMoves(v)
    BY <1>23 DEF LeaseOverrun, Age, Fault, RunMoves, TypeOK, run, Running, Business, Handoff
  <1>24. ASSUME NEW c \in Consumers, Crash(c) PROVE \A v \in Loops : RunMoves(v)
    BY <1>24 DEF Crash, Fault, RunMoves, TypeOK, run, Running, Business, Handoff
  <1>25. ASSUME UNCHANGED vars PROVE \A v \in Loops : RunMoves(v)
    BY <1>25 DEF vars, RunMoves, TypeOK, run, Running, Business, Handoff
  <1>26. QED
    BY <1>1, <1>2, <1>3, <1>4, <1>5, <1>6, <1>7, <1>8, <1>9, <1>10, <1>11, <1>12, <1>13, <1>14, <1>15, <1>16, <1>17, <1>18, <1>19, <1>20, <1>21, <1>22, <1>23, <1>24, <1>25 DEF Next, Step, Fails

\* The numbers of live runs stay admitted: a row's counter never goes back.
LEMMA StepAdmitted == TypeOK /\ AttemptInv /\ [Next]_vars => AttemptAdmitted'
  <1> SUFFICES ASSUME TypeOK, AttemptInv, [Next]_vars, NEW w \in Loops
               PROVE  /\ pc'[w] \in Running => attempt'[w] \in 1 .. ledger'[Sig(w)'].attempts
                      /\ pc'[w] \in Business => attempt'[w] <= MaxAttempts
                      /\ pc'[w] \in Handoff => attempt'[w] > MaxAttempts
    BY DEF AttemptAdmitted
  <1>1. TypeOK' /\ RunMoves(w)
    BY StepTypeOK, StepRuns
  <1>2. CASE pc'[w] \notin Running
    BY <1>2 DEF Running
  <1>3. CASE pc'[w] \in Running /\ pc[w] \in Running /\ msg'[w] = msg[w] /\ attempt'[w] = attempt[w]
             /\ (pc'[w] \in Business => pc[w] \in Business) /\ (pc'[w] \in Handoff => pc[w] \in Handoff)
    <2>1. Sig(w)' = Sig(w) /\ Sig(w) \in Signals
      BY <1>3, SigTyped DEF Sig, Running, Business, Handoff
    <2>2. /\ ledger[Sig(w)].attempts \in Nat /\ ledger'[Sig(w)].attempts \in Nat
          /\ ledger[Sig(w)].attempts <= ledger'[Sig(w)].attempts
      BY <1>1, <2>1, StepGrows, RowAttempts DEF TypeOK, Grows
    <2>3. attempt[w] \in 1 .. ledger[Sig(w)].attempts
      BY <1>3 DEF AttemptInv, AttemptAdmitted
    <2>4. attempt'[w] \in 1 .. ledger'[Sig(w)'].attempts
      BY <1>3, <2>1, <2>2, <2>3
    <2>5. QED
      BY <1>3, <2>4 DEF AttemptInv, AttemptAdmitted
  <1>4. CASE /\ pc[w] = "begin" /\ msg' = msg
             /\ ledger'[Sig(w)].attempts = ledger[Sig(w)].attempts + 1
             /\ attempt'[w] = ledger[Sig(w)].attempts + 1
             /\ pc'[w] = IF attempt'[w] > MaxAttempts THEN "dlqSend" ELSE "resolve"
    <2>1. Sig(w)' = Sig(w) /\ Sig(w) \in Signals
      BY <1>4, SigTyped DEF Sig
    <2>2. ledger[Sig(w)].attempts \in Nat
      BY <2>1, RowAttempts DEF TypeOK
    <2>3. QED
      BY <1>4, <2>1, <2>2, MaxAttemptsAssumption DEF Business, Handoff
  <1>5. QED
    BY <1>1, <1>2, <1>3, <1>4 DEF RunMoves

\* A new run gets a number above all numbers in use for its signal.
LEMMA StepOneRun == TypeOK /\ AttemptInv /\ [Next]_vars => OneRunPerAttempt'
  <1> SUFFICES ASSUME TypeOK, AttemptInv, [Next]_vars,
                      NEW v \in Loops, NEW w \in Loops, v # w,
                      pc'[v] \in Running, pc'[w] \in Running, Sig(v)' = Sig(w)'
               PROVE  attempt'[v] # attempt'[w]
    BY DEF OneRunPerAttempt
  <1>1. RunMoves(v) /\ RunMoves(w)
    BY StepRuns
  <1>2. \A u \in Loops : pc[u] \in Running =>
          /\ Sig(u) \in Signals /\ attempt[u] \in 1 .. ledger[Sig(u)].attempts
          /\ ledger[Sig(u)].attempts \in Nat
    BY SigTyped, RowAttempts DEF AttemptInv, AttemptAdmitted, TypeOK, Running, Business, Handoff
  <1>3. CASE pc[v] \in Running /\ pc[w] \in Running
    <2>1. attempt'[v] = attempt[v] /\ attempt'[w] = attempt[w] /\ Sig(v) = Sig(w)
      BY <1>1, <1>3 DEF RunMoves, Running, Business, Handoff, Sig
    <2>2. QED
      BY <1>3, <2>1 DEF AttemptInv, OneRunPerAttempt
  <1>4. CASE pc[v] \notin Running
    <2>1. /\ msg' = msg /\ pc'[w] = pc[w] /\ attempt'[w] = attempt[w]
          /\ attempt'[v] = ledger[Sig(v)].attempts + 1
      BY <1>1, <1>4 DEF RunMoves
    <2>2. QED
      BY <1>2, <2>1 DEF Sig
  <1>5. CASE pc[w] \notin Running
    <2>1. /\ msg' = msg /\ pc'[v] = pc[v] /\ attempt'[v] = attempt[v]
          /\ attempt'[w] = ledger[Sig(w)].attempts + 1
      BY <1>1, <1>5 DEF RunMoves
    <2>2. QED
      BY <1>2, <2>1 DEF Sig
  <1>6. QED
    BY <1>3, <1>4, <1>5

\* What is added to applied and deadLetters is an admitted number.
LEMMA StepEffects ==
  TypeOK /\ AttemptInv /\ [Next]_vars =>
    EffectsWithinAttempts' /\ DeadLetteredOnlyWhenExhausted'
  <1> SUFFICES ASSUME TypeOK, AttemptInv, [Next]_vars, NEW s \in Signals
               PROVE  /\ applied'[s] \subseteq 1 .. ledger'[s].attempts \cap 1 .. MaxAttempts
                      /\ deadLetters'[s] \subseteq (MaxAttempts + 1) .. ledger'[s].attempts
    BY DEF EffectsWithinAttempts, DeadLetteredOnlyWhenExhausted
  <1>1. /\ ledger[s].attempts \in Nat /\ ledger'[s].attempts \in Nat
        /\ ledger[s].attempts <= ledger'[s].attempts
    BY StepTypeOK, StepGrows, RowAttempts DEF TypeOK, Grows
  <1>2. applied'[s] \subseteq 1 .. ledger[s].attempts \cap 1 .. MaxAttempts
    BY StepSets, MaxAttemptsAssumption
    DEF AttemptInv, AttemptAdmitted, EffectsWithinAttempts, Running, Business
  <1>3. deadLetters'[s] \subseteq (MaxAttempts + 1) .. ledger[s].attempts
    BY StepSets, MaxAttemptsAssumption
    DEF AttemptInv, AttemptAdmitted, DeadLetteredOnlyWhenExhausted, Running, Handoff
  <1>4. QED
    BY <1>1, <1>2, <1>3, MaxAttemptsAssumption

\* The inductive invariant about attempt numbers is preserved.
LEMMA StepAttempt == TypeOK /\ AttemptInv /\ [Next]_vars => AttemptInv'
  BY StepAdmitted, StepOneRun, StepEffects DEF AttemptInv

\* Retries cannot count one signal more often than attempts were admitted, and
\* never beyond INGEST_MAX_ATTEMPTS.
THEOREM EffectsBounded == Spec => []EffectsWithinAttempts
  <1>1. AttemptInv => EffectsWithinAttempts
    BY DEF AttemptInv
  <1>2. QED
    BY <1>1, TypeCorrect, InitAttempt, StepAttempt, PTL DEF Spec

\* Two live runs of one signal never share an attempt number.
THEOREM RunsAreNumbered == Spec => []OneRunPerAttempt
  <1>1. AttemptInv => OneRunPerAttempt
    BY DEF AttemptInv
  <1>2. QED
    BY <1>1, TypeCorrect, InitAttempt, StepAttempt, PTL DEF Spec

\* Only an attempt beyond the limit puts a signal into the DLQ.
THEOREM DeadLettersExhausted == Spec => []DeadLetteredOnlyWhenExhausted
  <1>1. AttemptInv => DeadLetteredOnlyWhenExhausted
    BY DEF AttemptInv
  <1>2. QED
    BY <1>1, TypeCorrect, InitAttempt, StepAttempt, PTL DEF Spec
-----------------------------------------------------------------------------
(* Every attempt but the first is paid for by a fault.                     *)

\* The loops whose attempt at the signal has failed and not been recorded.
Failing(s) == {w \in Loops : pc[w] = "markFailed" /\ Sig(w) = s}

\* Another attempt may begin, now or when an abandoned lease runs out, without a fault.
Idle(s) == ~AlreadyProcessed(ledger[s]) /\ ~(LeaseHeld(ledger[s]) /\ InFlight(s))

Due(s) == IF Idle(s) THEN 1 ELSE 0

\* The attempts so far, those that a recorded failure will allow, and the one that may
\* begin at once: the first attempt and the faults pay for all of them.
FaultsPay ==
  \A s \in Signals :
    /\ IsFiniteSet(Failing(s))
    /\ ledger[s].attempts + Cardinality(Failing(s)) + Due(s) <= 1 + faults

\* Nobody has begun, and every signal may.
LEMMA InitFaultsPay == Init => FaultsPay
  <1> SUFFICES ASSUME Init, NEW s \in Signals
               PROVE  /\ IsFiniteSet(Failing(s))
                      /\ ledger[s].attempts + Cardinality(Failing(s)) + Due(s) <= 1 + faults
    BY DEF FaultsPay
  <1>1. Failing(s) = {}
    BY DEF Init, Failing
  <1>2. ledger[s].attempts = 0 /\ faults = 0
    BY DEF Init, NoRow
  <1>3. QED
    BY <1>1, <1>2, FS_EmptySet DEF Due

\* A loop fails with the signal after the step only if it did before.
NoneFails(s) ==
  \A w \in Loops :
    pc'[w] = "markFailed" /\ Sig(w)' = s => pc[w] = "markFailed" /\ Sig(w) = s

\* How a step moves the account of a signal: it does nothing to it, begins an attempt
\* that was due, records a failure, or is a fault, which makes an attempt due or a loop
\* fail, never both.
AccountMoves(s) ==
  \/ /\ faults' = faults /\ ledger'[s].attempts = ledger[s].attempts
     /\ NoneFails(s) /\ (Idle(s)' => Idle(s))
  \/ /\ faults' = faults /\ ledger'[s].attempts = ledger[s].attempts + 1
     /\ NoneFails(s) /\ Idle(s) /\ ~Idle(s)'
  \/ /\ faults' = faults /\ ledger'[s].attempts = ledger[s].attempts /\ NoneFails(s)
     /\ \E w \in Failing(s) : pc'[w] # "markFailed"
  \/ /\ faults' = faults + 1 /\ ledger'[s].attempts = ledger[s].attempts /\ NoneFails(s)
  \/ /\ faults' = faults + 1 /\ ledger'[s].attempts = ledger[s].attempts
     /\ (Idle(s)' => Idle(s))
     /\ \E v \in Loops : \A w \in Loops \ {v} :
          pc'[w] = "markFailed" /\ Sig(w)' = s => pc[w] = "markFailed" /\ Sig(w) = s

\* What each statement makes of a row: taken, finished for good, or as it was.
LEMMA RowTaken ==
  ASSUME NEW row \in LedgerRow
  PROVE  /\ MayProcess(row) => LeaseHeld(Begun(row)) /\ ~AlreadyProcessed(Begun(row))
         /\ AlreadyProcessed(MarkedProcessed(row))
         /\ AlreadyProcessed(MarkedDeadLettered(row))
         /\ row.lease = "fresh" => (AlreadyProcessed(LeaseAged(row)) <=> AlreadyProcessed(row))
         /\ row.lease = "fresh" => (LeaseHeld(row) <=> ~AlreadyProcessed(row))
  BY DEF LedgerRow, MayProcess, LeaseHeld, AlreadyProcessed, Begun, MarkedProcessed,
         MarkedDeadLettered, LeaseAged

\* Every step moves every account in one of those ways.
LEMMA StepAccounts == TypeOK /\ [Next]_vars => \A s \in Signals : AccountMoves(s)
  <1> SUFFICES ASSUME TypeOK, [Next]_vars
               PROVE  \A t \in Signals : AccountMoves(t)
    OBVIOUS
  <1>0. \A t \in Signals : ledger[t] \in LedgerRow
    BY DEF TypeOK
  <1>1. ASSUME NEW w \in Loops, ReadNew(w) PROVE \A t \in Signals : AccountMoves(t)
    BY <1>1, <1>0, SigTyped DEF ReadNew, GoTo, Finish, SetRow, Fault, Failing, AccountMoves, NoneFails, Idle, InFlight, Sig, TypeOK, stores, run, Running, Business, Handoff
  <1>2. ASSUME NEW w \in Loops, ClaimIdle(w) PROVE \A t \in Signals : AccountMoves(t)
    BY <1>2, <1>0, SigTyped DEF ClaimIdle, GoTo, Finish, SetRow, Fault, Failing, AccountMoves, NoneFails, Idle, InFlight, Sig, TypeOK, stores, run, Running, Business, Handoff
  <1>3. ASSUME NEW w \in Loops, StartNext(w) PROVE \A t \in Signals : AccountMoves(t)
    BY <1>3, <1>0, SigTyped DEF StartNext, GoTo, AccountMoves, NoneFails, Idle, InFlight, Sig, TypeOK, stores, run, Running, Business, Handoff
  <1>4. ASSUME NEW w \in Loops, Ack(w) PROVE \A t \in Signals : AccountMoves(t)
    BY <1>4, <1>0, SigTyped DEF Ack, Finish, AccountMoves, NoneFails, Idle, InFlight, Sig, TypeOK, stores, run, Running, Business, Handoff
  <1>5. ASSUME NEW w \in Loops, SkipProcessed(w) PROVE \A t \in Signals : AccountMoves(t)
    BY <1>5, <1>0, SigTyped DEF SkipProcessed, GoTo, AccountMoves, NoneFails, Idle, InFlight, Sig, TypeOK, stores, run, Running, Business, Handoff
  <1>6. ASSUME NEW w \in Loops, SkipLeased(w) PROVE \A t \in Signals : AccountMoves(t)
    BY <1>6, <1>0, SigTyped DEF SkipLeased, Finish, AccountMoves, NoneFails, Idle, InFlight, Sig, TypeOK, stores, run, Running, Business, Handoff
  <1>7. ASSUME NEW w \in Loops, Begin(w) PROVE \A t \in Signals : AccountMoves(t)
    <2> DEFINE row == ledger[Sig(w)]
    <2> SUFFICES ASSUME NEW s \in Signals
                 PROVE  AccountMoves(s)
      OBVIOUS
    <2>1. Sig(w) \in Signals /\ row \in LedgerRow /\ MayProcess(row) /\ pc[w] = "begin"
      BY <1>7, <1>0, SigTyped DEF Begin
    <2>2. /\ ledger' = [ledger EXCEPT ![Sig(w)] = Begun(row)]
          /\ msg' = msg /\ faults' = faults
          /\ \E p \in {"dlqSend", "resolve"} : pc' = [pc EXCEPT ![w] = p]
      BY <1>7 DEF Begin, SetRow, GoTo
    <2>3. NoneFails(s)
      BY <2>2 DEF NoneFails, TypeOK, Sig
    <2>4. CASE s = Sig(w)
      <3>1. ledger'[s] = Begun(ledger[s]) /\ ledger[s] \in LedgerRow /\ MayProcess(ledger[s])
        BY <2>1, <2>2, <2>4 DEF TypeOK
      <3>2. Idle(s)
        BY <3>1 DEF Idle, MayProcess
      <3>3. pc'[w] \in Running /\ Sig(w)' = s
        BY <2>2, <2>4 DEF TypeOK, Sig, Running, Business, Handoff
      <3>4. InFlight(s)'
        BY <3>3 DEF InFlight
      <3>5. ~Idle(s)'
        BY <3>1, <3>4, RowTaken DEF Idle
      <3>6. ledger'[s].attempts = ledger[s].attempts + 1
        BY <3>1, RowAttempts
      <3>7. QED
        BY <2>2, <2>3, <3>2, <3>5, <3>6 DEF AccountMoves
    <2>5. CASE s # Sig(w)
      <3>1. ledger'[s] = ledger[s]
        BY <2>2, <2>5 DEF TypeOK
      <3>2. InFlight(s) => InFlight(s)'
        BY <2>1, <2>2 DEF InFlight, TypeOK, Sig, Running, Business, Handoff
      <3>3. QED
        BY <2>2, <2>3, <3>1, <3>2 DEF AccountMoves, Idle
    <2>6. QED
      BY <2>4, <2>5
  <1>8. ASSUME NEW w \in Loops, Resolve(w) PROVE \A t \in Signals : AccountMoves(t)
    BY <1>8, <1>0, SigTyped DEF Resolve, GoTo, AccountMoves, NoneFails, Idle, InFlight, Sig, TypeOK, stores, run, Running, Business, Handoff
  <1>9. ASSUME NEW w \in Loops, UpdateWorkItem(w) PROVE \A t \in Signals : AccountMoves(t)
    BY <1>9, <1>0, SigTyped DEF UpdateWorkItem, GoTo, AccountMoves, NoneFails, Idle, InFlight, Sig, TypeOK, stores, run, Running, Business, Handoff
  <1>10. ASSUME NEW w \in Loops, ScheduleAudit(w) PROVE \A t \in Signals : AccountMoves(t)
    BY <1>10, <1>0, SigTyped DEF ScheduleAudit, GoTo, AccountMoves, NoneFails, Idle, InFlight, Sig, TypeOK, stores, run, Running, Business, Handoff
  <1>11. ASSUME NEW w \in Loops, EnqueueAudit(w) PROVE \A t \in Signals : AccountMoves(t)
    BY <1>11, <1>0, SigTyped DEF EnqueueAudit, GoTo, AccountMoves, NoneFails, Idle, InFlight, Sig, TypeOK, stores, run, Running, Business, Handoff
  <1>12. ASSUME NEW w \in Loops, MarkProcessed(w) PROVE \A t \in Signals : AccountMoves(t)
    <2> SUFFICES ASSUME NEW s \in Signals
                 PROVE  AccountMoves(s)
      OBVIOUS
    <2>1. Sig(w) \in Signals /\ ledger[Sig(w)] \in LedgerRow
      BY <1>12, <1>0, SigTyped DEF MarkProcessed
    <2>2. ledger' = [ledger EXCEPT ![Sig(w)] = MarkedProcessed(ledger[Sig(w)])] /\ faults' = faults
      BY <1>12 DEF MarkProcessed, SetRow
    <2>3. NoneFails(s)
      BY <1>12 DEF MarkProcessed, GoTo, NoneFails, TypeOK, run, Sig
    <2>4. CASE s = Sig(w)
      <3>1. ledger'[s] = MarkedProcessed(ledger[s]) /\ ledger[s] \in LedgerRow
        BY <2>1, <2>2, <2>4 DEF TypeOK
      <3>2. ~Idle(s)' /\ ledger'[s].attempts = ledger[s].attempts
        BY <3>1, RowTaken, RowAttempts DEF Idle
      <3>3. QED
        BY <2>2, <2>3, <3>2 DEF AccountMoves
    <2>5. CASE s # Sig(w)
      <3>1. ledger'[s] = ledger[s]
        BY <2>2, <2>5 DEF TypeOK
      <3>2. InFlight(s) => InFlight(s)'
        BY <1>12, <2>5 DEF MarkProcessed, GoTo, run, InFlight, TypeOK, Sig
      <3>3. QED
        BY <2>2, <2>3, <3>1, <3>2 DEF AccountMoves, Idle
    <2>6. QED
      BY <2>4, <2>5
  <1>13. ASSUME NEW w \in Loops, MarkFailed(w) PROVE \A t \in Signals : AccountMoves(t)
    <2> SUFFICES ASSUME NEW s \in Signals
                 PROVE  AccountMoves(s)
      OBVIOUS
    <2>1. Sig(w) \in Signals /\ ledger[Sig(w)] \in LedgerRow
      BY <1>13, <1>0, SigTyped DEF MarkFailed
    <2>2. ledger' = [ledger EXCEPT ![Sig(w)] = MarkedFailed(ledger[Sig(w)])]
      BY <1>13 DEF MarkFailed, SetRow
    <2>3. NoneFails(s)
      BY <1>13 DEF MarkFailed, Finish, NoneFails, TypeOK, Sig
    <2>4. pc'[w] # "markFailed" /\ faults' = faults
      BY <1>13 DEF MarkFailed, Finish, TypeOK
    <2>5. CASE s = Sig(w)
      <3>1. w \in Failing(s)
        BY <1>13, <2>5 DEF MarkFailed, Failing
      <3>2. ledger'[s].attempts = ledger[s].attempts
        BY <2>1, <2>2, <2>5, RowAttempts DEF TypeOK
      <3>3. QED
        BY <2>3, <2>4, <3>1, <3>2 DEF AccountMoves
    <2>6. CASE s # Sig(w)
      <3>1. ledger'[s] = ledger[s]
        BY <2>2, <2>6 DEF TypeOK
      <3>2. InFlight(s) => InFlight(s)'
        BY <1>13, <2>6 DEF MarkFailed, Finish, InFlight, TypeOK, Sig
      <3>3. QED
        BY <2>3, <2>4, <3>1, <3>2 DEF AccountMoves, Idle
    <2>7. QED
      BY <2>5, <2>6
  <1>14. ASSUME NEW w \in Loops, DlqSend(w) PROVE \A t \in Signals : AccountMoves(t)
    BY <1>14, <1>0, SigTyped DEF DlqSend, GoTo, AccountMoves, NoneFails, Idle, InFlight, Sig, TypeOK, stores, run, Running, Business, Handoff
  <1>15. ASSUME NEW w \in Loops, DlqMark(w) PROVE \A t \in Signals : AccountMoves(t)
    <2> SUFFICES ASSUME NEW s \in Signals
                 PROVE  AccountMoves(s)
      OBVIOUS
    <2>1. Sig(w) \in Signals /\ ledger[Sig(w)] \in LedgerRow
      BY <1>15, <1>0, SigTyped DEF DlqMark
    <2>2. ledger' = [ledger EXCEPT ![Sig(w)] = MarkedDeadLettered(ledger[Sig(w)])] /\ faults' = faults
      BY <1>15 DEF DlqMark, SetRow
    <2>3. NoneFails(s)
      BY <1>15 DEF DlqMark, GoTo, NoneFails, TypeOK, run, Sig
    <2>4. CASE s = Sig(w)
      <3>1. ledger'[s] = MarkedDeadLettered(ledger[s]) /\ ledger[s] \in LedgerRow
        BY <2>1, <2>2, <2>4 DEF TypeOK
      <3>2. ~Idle(s)' /\ ledger'[s].attempts = ledger[s].attempts
        BY <3>1, RowTaken, RowAttempts DEF Idle
      <3>3. QED
        BY <2>2, <2>3, <3>2 DEF AccountMoves
    <2>5. CASE s # Sig(w)
      <3>1. ledger'[s] = ledger[s]
        BY <2>2, <2>5 DEF TypeOK
      <3>2. InFlight(s) => InFlight(s)'
        BY <1>15, <2>5 DEF DlqMark, GoTo, run, InFlight, TypeOK, Sig
      <3>3. QED
        BY <2>2, <2>3, <3>1, <3>2 DEF AccountMoves, Idle
    <2>6. QED
      BY <2>4, <2>5
  <1>16. ASSUME NEW w \in Loops, AckFails(w) PROVE \A t \in Signals : AccountMoves(t)
    BY <1>16, <1>0, SigTyped DEF AckFails, Finish, Fault, AccountMoves, NoneFails, Idle, InFlight, Sig, TypeOK, stores, run, Running, Business, Handoff
  <1>17. ASSUME NEW w \in Loops, BeginFails(w) PROVE \A t \in Signals : AccountMoves(t)
    BY <1>17, <1>0, SigTyped DEF BeginFails, Finish, Fault, AccountMoves, NoneFails, Idle, InFlight, Sig, TypeOK, stores, run, Running, Business, Handoff
  <1>18. ASSUME NEW w \in Loops, ResolveBusy(w) PROVE \A t \in Signals : AccountMoves(t)
    BY <1>18, <1>0, SigTyped DEF ResolveBusy, Finish, Fault, AccountMoves, NoneFails, Idle, InFlight, Sig, TypeOK, stores, run, Running, Business, Handoff
  <1>19. ASSUME NEW w \in Loops, BusinessFails(w) PROVE \A t \in Signals : AccountMoves(t)
    <2>1. Sig(w) \in Signals /\ \A v \in Loops : Sig(v)' = Sig(v)
      BY <1>19, SigTyped DEF BusinessFails, Business, run, Sig
    <2>2. pc[w] \in Business /\ pc' = [pc EXCEPT ![w] = "markFailed"] /\ faults' = faults + 1
      BY <1>19 DEF BusinessFails, GoTo, Fault
    <2>3. \A s \in Signals : InFlight(s) => InFlight(s)'
      BY <2>1, <2>2 DEF InFlight, TypeOK, Running
    <2>4. \A s \in Signals : \A v \in Loops \ {w} :
            pc'[v] = "markFailed" /\ Sig(v)' = s => pc[v] = "markFailed" /\ Sig(v) = s
      BY <2>1, <2>2 DEF TypeOK
    <2>5. CASE ledger' = ledger
      BY <2>2, <2>3, <2>4, <2>5 DEF AccountMoves, Idle
    <2>6. CASE SetRow(w, MarkedProcessed(ledger[Sig(w)]))
      <3> SUFFICES ASSUME NEW s \in Signals
                   PROVE  AccountMoves(s)
        OBVIOUS
      <3>1. ledger'[s] = ledger[s] \/ ledger'[s] = MarkedProcessed(ledger[s])
        BY <2>6 DEF SetRow, TypeOK
      <3>2. ledger'[s].attempts = ledger[s].attempts /\ (Idle(s)' => Idle(s))
        BY <1>0, <2>3, <3>1, RowTaken, RowAttempts DEF Idle
      <3>3. QED
        BY <2>2, <2>4, <3>2 DEF AccountMoves
    <2>7. QED
      BY <1>19, <2>5, <2>6 DEF BusinessFails
  <1>20. ASSUME NEW w \in Loops, MarkFailedFails(w) PROVE \A t \in Signals : AccountMoves(t)
    BY <1>20, <1>0, SigTyped DEF MarkFailedFails, Finish, Fault, AccountMoves, NoneFails, Idle, InFlight, Sig, TypeOK, stores, run, Running, Business, Handoff
  <1>21. ASSUME NEW w \in Loops, HandoffFails(w) PROVE \A t \in Signals : AccountMoves(t)
    BY <1>21, <1>0, SigTyped DEF HandoffFails, Finish, Fault, AccountMoves, NoneFails, Idle, InFlight, Sig, TypeOK, stores, run, Running, Business, Handoff
  <1>22. ASSUME NEW s \in Signals, LeaseLapses(s) PROVE \A t \in Signals : AccountMoves(t)
    <2> SUFFICES ASSUME NEW t \in Signals
                 PROVE  AccountMoves(t)
      OBVIOUS
    <2>1. /\ ledger[s].lease = "fresh" /\ ledger' = [ledger EXCEPT ![s] = LeaseAged(@)]
          /\ pc' = pc /\ msg' = msg /\ faults' = faults
      BY <1>22 DEF LeaseLapses, Age, run
    <2>2. NoneFails(t) /\ (InFlight(t) <=> InFlight(t)')
      BY <2>1 DEF NoneFails, InFlight, Sig
    <2>3. ledger'[t].attempts = ledger[t].attempts
      BY <1>0, <2>1, RowAttempts DEF TypeOK
    <2>4. Idle(t)' => Idle(t)
      <3>1. CASE t = s
        BY <1>0, <2>1, <3>1, RowTaken, <1>22 DEF LeaseLapses, Idle, TypeOK
      <3>2. CASE t # s
        BY <2>1, <2>2, <3>2 DEF Idle, TypeOK
      <3>3. QED
        BY <3>1, <3>2
    <2>5. QED
      BY <2>1, <2>2, <2>3, <2>4 DEF AccountMoves
  <1>23. ASSUME NEW s \in Signals, LeaseOverrun(s) PROVE \A t \in Signals : AccountMoves(t)
    <2> SUFFICES ASSUME NEW t \in Signals
                 PROVE  AccountMoves(t)
      OBVIOUS
    <2>1. /\ ledger[s].lease = "fresh" /\ ledger' = [ledger EXCEPT ![s] = LeaseAged(@)]
          /\ pc' = pc /\ msg' = msg /\ faults' = faults + 1
      BY <1>23 DEF LeaseOverrun, Age, Fault, run
    <2>2. NoneFails(t) /\ (InFlight(t) <=> InFlight(t)')
      BY <2>1 DEF NoneFails, InFlight, Sig
    <2>3. ledger'[t].attempts = ledger[t].attempts
      BY <1>0, <2>1, RowAttempts DEF TypeOK
    <2>4. QED
      BY <2>1, <2>2, <2>3 DEF AccountMoves
  <1>24. ASSUME NEW c \in Consumers, Crash(c) PROVE \A t \in Signals : AccountMoves(t)
    BY <1>24, <1>0 DEF Crash, Fault, AccountMoves, NoneFails, Idle, InFlight, Sig, TypeOK, stores, run, Running, Business, Handoff
  <1>25. ASSUME UNCHANGED vars PROVE \A t \in Signals : AccountMoves(t)
    BY <1>25, <1>0 DEF vars, AccountMoves, NoneFails, Idle, InFlight, Sig, TypeOK, stores, run, Running, Business, Handoff
  <1>26. QED
    BY <1>1, <1>2, <1>3, <1>4, <1>5, <1>6, <1>7, <1>8, <1>9, <1>10, <1>11, <1>12, <1>13, <1>14, <1>15, <1>16, <1>17, <1>18, <1>19, <1>20, <1>21, <1>22, <1>23, <1>24, <1>25 DEF Next, Step, Fails

\* A step that makes no loop fail leaves no more failing loops behind.
LEMMA NoneFailsSubset ==
  ASSUME NEW s \in Signals, NoneFails(s)
  PROVE  Failing(s)' \subseteq Failing(s)
  BY DEF Failing, NoneFails

\* The account is never overdrawn.
LEMMA StepFaultsPay == TypeOK /\ FaultsPay /\ [Next]_vars => FaultsPay'
  <1> SUFFICES ASSUME TypeOK, FaultsPay, [Next]_vars, NEW s \in Signals
               PROVE  /\ IsFiniteSet(Failing(s)')
                      /\ ledger'[s].attempts + Cardinality(Failing(s)') + Due(s)' <= 1 + faults'
    BY DEF FaultsPay
  <1> DEFINE A == ledger[s].attempts
             F == Failing(s)
             G == Failing(s)'
             c == Cardinality(F)
             d == Cardinality(G)
  <1>1. IsFiniteSet(F) /\ c \in Nat /\ A + c + Due(s) <= 1 + faults /\ A \in Nat
    BY FS_CardinalityType DEF FaultsPay, TypeOK, LedgerRow
  <1>2. faults \in Nat /\ Due(s) \in {0, 1} /\ Due(s)' \in {0, 1}
    BY MaxFaultsAssumption DEF TypeOK, Due
  <1>3. (Idle(s)' => Idle(s)) => Due(s)' <= Due(s)
    BY DEF Due
  <1>4. Idle(s) /\ ~Idle(s)' => Due(s) = 1 /\ Due(s)' = 0
    BY DEF Due
  <1>5. NoneFails(s) => IsFiniteSet(G) /\ d \in Nat /\ d <= c
    BY <1>1, NoneFailsSubset, FS_Subset, FS_CardinalityType
  <1>6. ASSUME NEW w \in Failing(s), pc'[w] # "markFailed", NoneFails(s)
        PROVE  IsFiniteSet(G) /\ d \in Nat /\ d <= c - 1
    <2>1. G \subseteq F \ {w}
      BY <1>6, NoneFailsSubset DEF Failing
    <2>2. IsFiniteSet(F \ {w}) /\ Cardinality(F \ {w}) = c - 1
      BY <1>1, FS_RemoveElement
    <2> HIDE DEF c, d
    <2>3. QED
      BY <2>1, <2>2, FS_Subset, FS_CardinalityType DEF d
  <1>7. ASSUME NEW v \in Loops,
               \A w \in Loops \ {v} :
                 pc'[w] = "markFailed" /\ Sig(w)' = s => pc[w] = "markFailed" /\ Sig(w) = s
        PROVE  IsFiniteSet(G) /\ d \in Nat /\ d <= c + 1
    <2>1. G \subseteq F \cup {v}
      BY <1>7 DEF Failing
    <2>a. /\ IsFiniteSet(F \cup {v})
          /\ Cardinality(F \cup {v}) = IF v \in F THEN c ELSE c + 1
      BY <1>1, FS_AddElement
    <2>b. Cardinality(F \cup {v}) \in Nat
      BY <2>a, FS_CardinalityType
    <2> HIDE DEF c
    <2>2. /\ IsFiniteSet(F \cup {v}) /\ Cardinality(F \cup {v}) <= c + 1
          /\ Cardinality(F \cup {v}) \in Nat
      BY <1>1, <2>a, <2>b
    <2>3. IsFiniteSet(G) /\ d \in Nat /\ d <= Cardinality(F \cup {v})
      BY <2>1, <2>2, FS_Subset, FS_CardinalityType
    <2> HIDE DEF d
    <2>4. QED
      BY <1>1, <2>2, <2>3
  <1>8. AccountMoves(s)
    BY StepAccounts
  <1> HIDE DEF A, F, G, c, d
  <1>9. /\ IsFiniteSet(G)
        /\ \/ faults' = faults /\ ledger'[s].attempts = A /\ d <= c /\ Due(s)' <= Due(s)
           \/ faults' = faults /\ ledger'[s].attempts = A + 1 /\ d <= c /\ Due(s) = 1 /\ Due(s)' = 0
           \/ faults' = faults /\ ledger'[s].attempts = A /\ d <= c - 1
           \/ faults' = faults + 1 /\ ledger'[s].attempts = A /\ d <= c
           \/ faults' = faults + 1 /\ ledger'[s].attempts = A /\ d <= c + 1 /\ Due(s)' <= Due(s)
        /\ d \in Nat
    BY <1>3, <1>4, <1>5, <1>6, <1>7, <1>8 DEF AccountMoves, A
  <1>10. ledger'[s].attempts + d + Due(s)' <= 1 + faults'
    BY <1>1, <1>2, <1>9
  <1>11. QED
    BY <1>9, <1>10 DEF d, G

\* Finitely many attempts, as many as are numbered lo .. hi.
LEMMA AttemptsCounted ==
  ASSUME NEW lo \in Nat \ {0}, NEW hi \in Nat, NEW S \in SUBSET (lo .. hi)
  PROVE  /\ IsFiniteSet(S) /\ Cardinality(S) \in Nat
         /\ S # {} => lo - 1 + Cardinality(S) <= hi
         /\ Cardinality(S) <= hi
  <1>1. IsFiniteSet(lo .. hi) /\ Cardinality(lo .. hi) = IF lo > hi THEN 0 ELSE hi - lo + 1
    BY FS_Interval
  <1>2. IsFiniteSet(S) /\ Cardinality(S) <= Cardinality(lo .. hi)
    BY <1>1, FS_Subset
  <1>3. Cardinality(S) \in Nat
    BY <1>2, FS_CardinalityType
  <1>4. S # {} => lo <= hi
    <2> SUFFICES ASSUME NEW n \in S
                 PROVE  lo <= hi
      OBVIOUS
    <2>1. n \in lo .. hi
      OBVIOUS
    <2>2. QED
      BY <2>1
  <1>5. QED
    BY <1>1, <1>2, <1>3, <1>4

\* A signal is given up, and every further time it is, only after as many faults, however
\* often its entry is redelivered and however many loops process it.
THEOREM DeadLettersAreBounded == Spec => []DeadLettersBounded
  <1>1. TypeOK /\ AttemptInv /\ FaultsPay => DeadLettersBounded
    <2> SUFFICES ASSUME TypeOK, AttemptInv, FaultsPay, NEW s \in Signals, deadLetters[s] # {}
                 PROVE  MaxAttempts + Cardinality(deadLetters[s]) <= 1 + faults
      BY DEF DeadLettersBounded
    <2>1. deadLetters[s] \in SUBSET (MaxAttempts + 1 .. ledger[s].attempts)
      BY DEF AttemptInv, DeadLetteredOnlyWhenExhausted
    <2>2. ledger[s].attempts \in Nat /\ MaxAttempts \in Nat /\ faults \in Nat
      BY MaxAttemptsAssumption, MaxFaultsAssumption DEF TypeOK, LedgerRow
    <2> DEFINE lo == MaxAttempts + 1
    <2>a. lo \in Nat \ {0} /\ lo - 1 = MaxAttempts
      BY <2>2
    <2> HIDE DEF lo
    <2>b. lo - 1 + Cardinality(deadLetters[s]) <= ledger[s].attempts
      BY <2>1, <2>2, <2>a, AttemptsCounted DEF lo
    <2>c. Cardinality(deadLetters[s]) \in Nat
      BY <2>1, <2>2, <2>a, AttemptsCounted DEF lo
    <2>3. /\ MaxAttempts + Cardinality(deadLetters[s]) <= ledger[s].attempts
          /\ Cardinality(deadLetters[s]) \in Nat
      BY <2>a, <2>b, <2>c
    <2>4. ledger[s].attempts + Cardinality(Failing(s)) + Due(s) <= 1 + faults
          /\ Cardinality(Failing(s)) \in Nat /\ Due(s) \in {0, 1}
      BY FS_CardinalityType DEF FaultsPay, Due
    <2>5. QED
      BY <2>2, <2>3, <2>4
  <1>2. QED
    BY <1>1, TypeCorrect, InitAttempt, StepAttempt, InitFaultsPay, StepFaultsPay, PTL DEF Spec

\* A signal is counted by its incident at most once, and once more for every fault: where
\* nothing crashes, fails or overruns its lease, redelivery counts nothing twice.
CountedOncePerFault == \A s \in Signals : Cardinality(applied[s]) <= 1 + faults

\* So it is in every run.
THEOREM EffectsPaidByFaults == Spec => []CountedOncePerFault
  <1>1. TypeOK /\ AttemptInv /\ FaultsPay => CountedOncePerFault
    <2> SUFFICES ASSUME TypeOK, AttemptInv, FaultsPay, NEW s \in Signals
                 PROVE  Cardinality(applied[s]) <= 1 + faults
      BY DEF CountedOncePerFault
    <2>1. applied[s] \in SUBSET (1 .. ledger[s].attempts)
      BY DEF AttemptInv, EffectsWithinAttempts
    <2>2. ledger[s].attempts \in Nat /\ faults \in Nat
      BY MaxFaultsAssumption DEF TypeOK, LedgerRow
    <2>3. Cardinality(applied[s]) <= ledger[s].attempts /\ Cardinality(applied[s]) \in Nat
      BY <2>1, <2>2, AttemptsCounted
    <2>4. ledger[s].attempts + Cardinality(Failing(s)) + Due(s) <= 1 + faults
          /\ Cardinality(Failing(s)) \in Nat /\ Due(s) \in {0, 1}
      BY FS_CardinalityType DEF FaultsPay, Due
    <2>5. QED
      BY <2>2, <2>3, <2>4
  <1>2. QED
    BY <1>1, TypeCorrect, InitAttempt, StepAttempt, InitFaultsPay, StepFaultsPay, PTL DEF Spec

-----------------------------------------------------------------------------
(* A processed signal was applied.                                         *)

\* The strengthening: the awaits behind the update and behind the audit row.
AppliedInv ==
  /\ \A w \in Loops :
       /\ pc[w] \in {"schedule", "enqueue", "markProcessed"} => applied[Sig(w)] # {}
       /\ pc[w] \in {"enqueue", "markProcessed"} => audit[Sig(w)] # "none"
  /\ ProcessedWasApplied

\* Nothing is processed yet.
LEMMA InitApplied == Init => AppliedInv
  BY DEF Init, AppliedInv, ProcessedWasApplied, NoRow

\* An audit row is never deleted.
LEMMA StepAuditKept ==
  TypeOK /\ [Next]_vars => \A s \in Signals : audit[s] # "none" => audit'[s] # "none"
  BY DEF Next, Step, Fails, vars, TypeOK, stores, ReadNew, ClaimIdle, StartNext, Ack,
         SkipProcessed, SkipLeased, Begin, Resolve, UpdateWorkItem, ScheduleAudit,
         EnqueueAudit, MarkProcessed, MarkFailed, DlqSend, DlqMark, AckFails, BeginFails,
         ResolveBusy, BusinessFails, MarkFailedFails, HandoffFails, LeaseLapses,
         LeaseOverrun, Age, Crash, GoTo

\* A run that is past the update of the work item has applied its signal, and one past
\* scheduling has an audit row, after every step.
LEMMA StepPastUpdate ==
  TypeOK /\ AppliedInv /\ [Next]_vars =>
    \A w \in Loops :
      /\ pc'[w] \in {"schedule", "enqueue", "markProcessed"} => applied'[Sig(w)'] # {}
      /\ pc'[w] \in {"enqueue", "markProcessed"} => audit'[Sig(w)'] # "none"
  <1> DEFINE P(w) ==
               /\ pc'[w] \in {"schedule", "enqueue", "markProcessed"} => applied'[Sig(w)'] # {}
               /\ pc'[w] \in {"enqueue", "markProcessed"} => audit'[Sig(w)'] # "none"
  <1> SUFFICES ASSUME TypeOK, AppliedInv, [Next]_vars
               PROVE  \A v \in Loops : P(v)
    OBVIOUS
  <1>0. \A s \in Signals : /\ applied[s] # {} => applied'[s] # {}
                           /\ audit[s] # "none" => audit'[s] # "none"
    BY StepGrows, StepAuditKept DEF Grows
  <1>1. ASSUME NEW w \in Loops, ReadNew(w) PROVE \A v \in Loops : P(v)
    BY <1>1, <1>0, SigTyped DEF ReadNew, AppliedInv, Sig, TypeOK, run, Business, Handoff
  <1>2. ASSUME NEW w \in Loops, ClaimIdle(w) PROVE \A v \in Loops : P(v)
    BY <1>2, <1>0, SigTyped DEF ClaimIdle, AppliedInv, Sig, TypeOK, run, Business, Handoff
  <1>3. ASSUME NEW w \in Loops, StartNext(w) PROVE \A v \in Loops : P(v)
    BY <1>3, <1>0, SigTyped DEF StartNext, GoTo, AppliedInv, Sig, TypeOK, run, Business, Handoff
  <1>4. ASSUME NEW w \in Loops, Ack(w) PROVE \A v \in Loops : P(v)
    BY <1>4, <1>0, SigTyped DEF Ack, Finish, AppliedInv, Sig, TypeOK, run, Business, Handoff
  <1>5. ASSUME NEW w \in Loops, SkipProcessed(w) PROVE \A v \in Loops : P(v)
    BY <1>5, <1>0, SigTyped DEF SkipProcessed, GoTo, AppliedInv, Sig, TypeOK, run, Business, Handoff
  <1>6. ASSUME NEW w \in Loops, SkipLeased(w) PROVE \A v \in Loops : P(v)
    BY <1>6, <1>0, SigTyped DEF SkipLeased, Finish, AppliedInv, Sig, TypeOK, run, Business, Handoff
  <1>7. ASSUME NEW w \in Loops, Begin(w) PROVE \A v \in Loops : P(v)
    BY <1>7, <1>0, SigTyped DEF Begin, SetRow, GoTo, AppliedInv, Sig, TypeOK, run, Business, Handoff
  <1>8. ASSUME NEW w \in Loops, Resolve(w) PROVE \A v \in Loops : P(v)
    BY <1>8, <1>0, SigTyped DEF Resolve, GoTo, AppliedInv, Sig, TypeOK, run, Business, Handoff
  <1>9. ASSUME NEW w \in Loops, UpdateWorkItem(w) PROVE \A v \in Loops : P(v)
    BY <1>9, <1>0, SigTyped DEF UpdateWorkItem, GoTo, AppliedInv, Sig, TypeOK, run, Business, Handoff
  <1>10. ASSUME NEW w \in Loops, ScheduleAudit(w) PROVE \A v \in Loops : P(v)
    BY <1>10, <1>0, SigTyped DEF ScheduleAudit, GoTo, AppliedInv, Sig, TypeOK, run, Business, Handoff
  <1>11. ASSUME NEW w \in Loops, EnqueueAudit(w) PROVE \A v \in Loops : P(v)
    BY <1>11, <1>0, SigTyped DEF EnqueueAudit, GoTo, AppliedInv, Sig, TypeOK, run, Business, Handoff
  <1>12. ASSUME NEW w \in Loops, MarkProcessed(w) PROVE \A v \in Loops : P(v)
    BY <1>12, <1>0, SigTyped DEF MarkProcessed, SetRow, GoTo, AppliedInv, Sig, TypeOK, run, Business, Handoff
  <1>13. ASSUME NEW w \in Loops, MarkFailed(w) PROVE \A v \in Loops : P(v)
    BY <1>13, <1>0, SigTyped DEF MarkFailed, SetRow, Finish, AppliedInv, Sig, TypeOK, run, Business, Handoff
  <1>14. ASSUME NEW w \in Loops, DlqSend(w) PROVE \A v \in Loops : P(v)
    BY <1>14, <1>0, SigTyped DEF DlqSend, GoTo, AppliedInv, Sig, TypeOK, run, Business, Handoff
  <1>15. ASSUME NEW w \in Loops, DlqMark(w) PROVE \A v \in Loops : P(v)
    BY <1>15, <1>0, SigTyped DEF DlqMark, SetRow, GoTo, AppliedInv, Sig, TypeOK, run, Business, Handoff
  <1>16. ASSUME NEW w \in Loops, AckFails(w) PROVE \A v \in Loops : P(v)
    BY <1>16, <1>0, SigTyped DEF AckFails, Finish, Fault, AppliedInv, Sig, TypeOK, run, Business, Handoff
  <1>17. ASSUME NEW w \in Loops, BeginFails(w) PROVE \A v \in Loops : P(v)
    BY <1>17, <1>0, SigTyped DEF BeginFails, Finish, Fault, AppliedInv, Sig, TypeOK, run, Business, Handoff
  <1>18. ASSUME NEW w \in Loops, ResolveBusy(w) PROVE \A v \in Loops : P(v)
    BY <1>18, <1>0, SigTyped DEF ResolveBusy, Finish, Fault, AppliedInv, Sig, TypeOK, run, Business, Handoff
  <1>19. ASSUME NEW w \in Loops, BusinessFails(w) PROVE \A v \in Loops : P(v)
    BY <1>19, <1>0, SigTyped DEF BusinessFails, SetRow, Fault, GoTo, AppliedInv, Sig, TypeOK, run, Business, Handoff
  <1>20. ASSUME NEW w \in Loops, MarkFailedFails(w) PROVE \A v \in Loops : P(v)
    BY <1>20, <1>0, SigTyped DEF MarkFailedFails, Finish, Fault, AppliedInv, Sig, TypeOK, run, Business, Handoff
  <1>21. ASSUME NEW w \in Loops, HandoffFails(w) PROVE \A v \in Loops : P(v)
    BY <1>21, <1>0, SigTyped DEF HandoffFails, Finish, Fault, AppliedInv, Sig, TypeOK, run, Business, Handoff
  <1>22. ASSUME NEW s \in Signals, LeaseLapses(s) PROVE \A v \in Loops : P(v)
    BY <1>22, <1>0, SigTyped DEF LeaseLapses, Age, AppliedInv, Sig, TypeOK, run, Business, Handoff
  <1>23. ASSUME NEW s \in Signals, LeaseOverrun(s) PROVE \A v \in Loops : P(v)
    BY <1>23, <1>0, SigTyped DEF LeaseOverrun, Age, Fault, AppliedInv, Sig, TypeOK, run, Business, Handoff
  <1>24. ASSUME NEW c \in Consumers, Crash(c) PROVE \A v \in Loops : P(v)
    BY <1>24, <1>0, SigTyped DEF Crash, Fault, AppliedInv, Sig, TypeOK, run, Business, Handoff
  <1>25. ASSUME UNCHANGED vars PROVE \A v \in Loops : P(v)
    BY <1>25, <1>0, SigTyped DEF vars, AppliedInv, Sig, TypeOK, run, Business, Handoff
  <1>26. QED
    BY <1>1, <1>2, <1>3, <1>4, <1>5, <1>6, <1>7, <1>8, <1>9, <1>10, <1>11, <1>12, <1>13, <1>14, <1>15, <1>16, <1>17, <1>18, <1>19, <1>20, <1>21, <1>22, <1>23, <1>24, <1>25 DEF Next, Step, Fails

\* The inductive invariant behind ProcessedWasApplied is preserved.
LEMMA StepApplied == TypeOK /\ AppliedInv /\ [Next]_vars => AppliedInv'
  <1> SUFFICES ASSUME TypeOK, AppliedInv, [Next]_vars
               PROVE  AppliedInv'
    OBVIOUS
  <1>1. ASSUME NEW s \in Signals, ledger'[s].processedAt
        PROVE  applied[s] # {} /\ audit[s] # "none"
    <2>1. ledger[s] \in LedgerRow /\ RowMoves(s)
      BY StepRows DEF TypeOK
    <2>2. ledger[s].processedAt \/ \E w \in Loops : pc[w] = "markProcessed" /\ Sig(w) = s
      BY <1>1, <2>1, RowProcessedAt DEF RowMoves
    <2>3. QED
      BY <2>2 DEF AppliedInv, ProcessedWasApplied
  <1>2. ProcessedWasApplied'
    BY <1>1, StepGrows, StepAuditKept DEF Grows, ProcessedWasApplied
  <1>3. QED
    BY <1>2, StepPastUpdate DEF AppliedInv

\* processed_at is set only for a signal that reached its work item and has an
\* audit row, whatever crashed or failed in between.
THEOREM ProcessedIsApplied == Spec => []ProcessedWasApplied
  <1>1. AppliedInv => ProcessedWasApplied
    BY DEF AppliedInv
  <1>2. QED
    BY <1>1, TypeCorrect, InitApplied, StepApplied, PTL DEF Spec

-----------------------------------------------------------------------------
(* Signal workers implement SignalFate.                                    *)

\* No entry changes to or from "acked" and no outcome changes.
SameFate ==
  /\ \A m \in Messages : delivery'[m] = "acked" <=> delivery[m] = "acked"
  /\ \A s \in Signals : /\ ledger'[s].processedAt <=> ledger[s].processedAt
                        /\ deadLetters'[s] = deadLetters[s]

\* A step that changes neither ACKs nor outcomes is a stutter of SignalFate.
LEMMA SameFateStutters ==
  SameFate => UNCHANGED <<AckedEntries, [s \in Signals |-> OutcomeOf(s)]>>
  <1> SUFFICES ASSUME SameFate
               PROVE  /\ AckedEntries' = AckedEntries
                      /\ \A s \in Signals : OutcomeOf(s)' = OutcomeOf(s)
    OBVIOUS
  <1>1. AckedEntries' = AckedEntries
    BY DEF SameFate, AckedEntries
  <1>2. ASSUME NEW s \in Signals PROVE OutcomeOf(s)' = OutcomeOf(s)
    <2>1. CASE ledger[s].processedAt
      BY <2>1 DEF SameFate, OutcomeOf
    <2>2. CASE ~ledger[s].processedAt
      BY <2>2 DEF SameFate, OutcomeOf
    <2>3. QED
      BY <2>1, <2>2
  <1>3. QED
    BY <1>1, <1>2

\* One signal gets an outcome, or had it already.
Gains(s, o) ==
  /\ AckedEntries' = AckedEntries
  /\ OutcomeOf(s)' = OutcomeOf(s) \cup {o}
  /\ \A t \in Signals \ {s} : OutcomeOf(t)' = OutcomeOf(t)

\* A step that adds an outcome to one signal is Settle or a stutter of SignalFate.
LEMMA GainsSettles ==
  ASSUME NEW s \in Signals, NEW o \in {"processed", "dead"}, Gains(s, o)
  PROVE  [Fate!Next]_<<AckedEntries, [t \in Signals |-> OutcomeOf(t)]>>
  <1>1. CASE o \in OutcomeOf(s)
    <2>1. \A t \in Signals : OutcomeOf(t)' = OutcomeOf(t)
      BY <1>1 DEF Gains
    <2>2. QED
      BY <2>1 DEF Gains
  <1>2. CASE o \notin OutcomeOf(s)
    <2> DEFINE outcome == [t \in Signals |-> OutcomeOf(t)]
    <2>1. o \in {"processed", "dead"} \ outcome[s]
      BY <1>2
    <2>2. outcome' = [outcome EXCEPT ![s] = @ \cup {o}]
      BY DEF Gains
    <2>3. Fate!Settle(s)
      BY <2>1, <2>2 DEF Fate!Settle, Gains
    <2>4. QED
      BY <2>3 DEF Fate!Next
  <1>3. QED
    BY <1>1, <1>2

\* Setting processed_at adds "processed" to the outcome of that signal only.
LEMMA ProcessedGains ==
  ASSUME NEW s \in Signals, ledger'[s].processedAt,
         \A t \in Signals \ {s} : ledger'[t] = ledger[t],
         deadLetters' = deadLetters, delivery' = delivery
  PROVE  Gains(s, "processed")
  <1>1. OutcomeOf(s)' = {"processed"} \cup (IF deadLetters[s] # {} THEN {"dead"} ELSE {})
    BY DEF OutcomeOf
  <1>2. OutcomeOf(s)' = OutcomeOf(s) \cup {"processed"}
    BY <1>1 DEF OutcomeOf
  <1>3. \A t \in Signals \ {s} : OutcomeOf(t)' = OutcomeOf(t)
    BY DEF OutcomeOf
  <1>4. QED
    BY <1>2, <1>3 DEF Gains, AckedEntries

\* Storing a dead letter adds "dead" to the outcome of that signal only.
LEMMA DeadGains ==
  ASSUME NEW s \in Signals, deadLetters'[s] # {},
         \A t \in Signals \ {s} : deadLetters'[t] = deadLetters[t],
         ledger' = ledger, delivery' = delivery
  PROVE  Gains(s, "dead")
  <1>1. OutcomeOf(s)' = (IF ledger[s].processedAt THEN {"processed"} ELSE {}) \cup {"dead"}
    BY DEF OutcomeOf
  <1>2. OutcomeOf(s)' = OutcomeOf(s) \cup {"dead"}
    BY <1>1 DEF OutcomeOf
  <1>3. \A t \in Signals \ {s} : OutcomeOf(t)' = OutcomeOf(t)
    BY DEF OutcomeOf
  <1>4. QED
    BY <1>2, <1>3 DEF Gains, AckedEntries

\* The initial state maps to the initial state of SignalFate.
LEMMA InitFate == Init => Fate!Init
  BY DEF Init, Fate!Init, AckedEntries, OutcomeOf, NoRow

\* Every step of the workers is a step of SignalFate or changes nothing there.
LEMMA StepFate ==
  TypeOK /\ SettledInv /\ [Next]_vars =>
    [Fate!Next]_<<AckedEntries, [s \in Signals |-> OutcomeOf(s)]>>
  <1> DEFINE Goal == [Fate!Next]_<<AckedEntries, [s \in Signals |-> OutcomeOf(s)]>>
  <1> SUFFICES ASSUME TypeOK, SettledInv, [Next]_vars
               PROVE  Goal
    OBVIOUS
  <1>0. \A s \in Signals : ledger[s] \in LedgerRow
    BY DEF TypeOK
  <1>a. SameFate => Goal
    BY SameFateStutters
  <1>b. ASSUME NEW s \in Signals, NEW o \in {"processed", "dead"}, Gains(s, o) PROVE Goal
    BY <1>b, GainsSettles
  <1> HIDE DEF Goal
  <1>1. ASSUME NEW w \in Loops, ReadNew(w) PROVE Goal
    BY <1>1, <1>a, <1>0, SigTyped, RowProcessedAt DEF ReadNew, SameFate, TypeOK, stores, Business, Handoff
  <1>2. ASSUME NEW w \in Loops, ClaimIdle(w) PROVE Goal
    BY <1>2, <1>a, <1>0, SigTyped, RowProcessedAt DEF ClaimIdle, SameFate, TypeOK, stores, Business, Handoff
  <1>3. ASSUME NEW w \in Loops, StartNext(w) PROVE Goal
    BY <1>3, <1>a, <1>0, SigTyped, RowProcessedAt DEF StartNext, GoTo, SameFate, TypeOK, stores, Business, Handoff
  <1>4. ASSUME NEW w \in Loops, Ack(w) PROVE Goal
    <2>1. msg[w] \in Messages /\ Settled(SignalOf[msg[w]])
      BY <1>4, SigTyped DEF Ack, SettledInv, AckBacked, Settled, Sig, TypeOK
    <2>2. /\ AckedEntries' = AckedEntries \cup {msg[w]}
          /\ \A s \in Signals : OutcomeOf(s)' = OutcomeOf(s)
      BY <1>4, <2>1 DEF Ack, AckedEntries, OutcomeOf, stores, TypeOK
    <2>3. OutcomeOf(SignalOf[msg[w]]) # {} /\ SignalOf[msg[w]] \in Signals
      BY <2>1, SignalOfAssumption DEF Settled, OutcomeOf
    <2>4. CASE msg[w] \in AckedEntries
      BY <2>2, <2>4 DEF Goal
    <2>5. CASE msg[w] \notin AckedEntries
      BY <2>1, <2>2, <2>3, <2>5 DEF Goal, Fate!Next, Fate!Ack
    <2>6. QED
      BY <2>4, <2>5
  <1>5. ASSUME NEW w \in Loops, SkipProcessed(w) PROVE Goal
    BY <1>5, <1>a, <1>0, SigTyped, RowProcessedAt DEF SkipProcessed, GoTo, SameFate, TypeOK, stores, Business, Handoff
  <1>6. ASSUME NEW w \in Loops, SkipLeased(w) PROVE Goal
    BY <1>6, <1>a, <1>0, SigTyped, RowProcessedAt DEF SkipLeased, Finish, SameFate, TypeOK, stores, Business, Handoff
  <1>7. ASSUME NEW w \in Loops, Begin(w) PROVE Goal
    BY <1>7, <1>a, <1>0, SigTyped, RowProcessedAt DEF Begin, SetRow, GoTo, SameFate, TypeOK, stores, Business, Handoff
  <1>8. ASSUME NEW w \in Loops, Resolve(w) PROVE Goal
    BY <1>8, <1>a, <1>0, SigTyped, RowProcessedAt DEF Resolve, GoTo, SameFate, TypeOK, stores, Business, Handoff
  <1>9. ASSUME NEW w \in Loops, UpdateWorkItem(w) PROVE Goal
    BY <1>9, <1>a, <1>0, SigTyped, RowProcessedAt DEF UpdateWorkItem, GoTo, SameFate, TypeOK, stores, Business, Handoff
  <1>10. ASSUME NEW w \in Loops, ScheduleAudit(w) PROVE Goal
    BY <1>10, <1>a, <1>0, SigTyped, RowProcessedAt DEF ScheduleAudit, GoTo, SameFate, TypeOK, stores, Business, Handoff
  <1>11. ASSUME NEW w \in Loops, EnqueueAudit(w) PROVE Goal
    BY <1>11, <1>a, <1>0, SigTyped, RowProcessedAt DEF EnqueueAudit, GoTo, SameFate, TypeOK, stores, Business, Handoff
  <1>12. ASSUME NEW w \in Loops, MarkProcessed(w) PROVE Goal
    <2>1. Sig(w) \in Signals /\ ledger[Sig(w)] \in LedgerRow
      BY <1>12, <1>0, SigTyped DEF MarkProcessed
    <2>2. PICK s \in Signals : s = Sig(w)
      BY <2>1
    <2>3. /\ ledger'[s].processedAt
          /\ \A t \in Signals \ {s} : ledger'[t] = ledger[t]
          /\ deadLetters' = deadLetters /\ delivery' = delivery
      BY <1>12, <2>1, <2>2, RowProcessedAt DEF MarkProcessed, SetRow, TypeOK
    <2>4. Gains(s, "processed")
      BY <2>3, ProcessedGains
    <2>5. QED
      BY <1>b, <2>4
  <1>13. ASSUME NEW w \in Loops, MarkFailed(w) PROVE Goal
    BY <1>13, <1>a, <1>0, SigTyped, RowProcessedAt DEF MarkFailed, SetRow, Finish, SameFate, TypeOK, stores, Business, Handoff
  <1>14. ASSUME NEW w \in Loops, DlqSend(w) PROVE Goal
    <2>1. Sig(w) \in Signals
      BY <1>14, SigTyped DEF DlqSend
    <2>2. PICK s \in Signals : s = Sig(w)
      BY <2>1
    <2>3. /\ deadLetters'[s] # {}
          /\ \A t \in Signals \ {s} : deadLetters'[t] = deadLetters[t]
          /\ ledger' = ledger /\ delivery' = delivery
      BY <1>14, <2>2 DEF DlqSend, TypeOK
    <2>4. Gains(s, "dead")
      BY <2>3, DeadGains
    <2>5. QED
      BY <1>b, <2>4
  <1>15. ASSUME NEW w \in Loops, DlqMark(w) PROVE Goal
    BY <1>15, <1>a, <1>0, SigTyped, RowProcessedAt DEF DlqMark, SetRow, GoTo, SameFate, TypeOK, stores, Business, Handoff
  <1>16. ASSUME NEW w \in Loops, AckFails(w) PROVE Goal
    BY <1>16, <1>a, <1>0, SigTyped, RowProcessedAt DEF AckFails, Finish, Fault, SameFate, TypeOK, stores, Business, Handoff
  <1>17. ASSUME NEW w \in Loops, BeginFails(w) PROVE Goal
    BY <1>17, <1>a, <1>0, SigTyped, RowProcessedAt DEF BeginFails, Finish, Fault, SameFate, TypeOK, stores, Business, Handoff
  <1>18. ASSUME NEW w \in Loops, ResolveBusy(w) PROVE Goal
    BY <1>18, <1>a, <1>0, SigTyped, RowProcessedAt DEF ResolveBusy, Finish, Fault, SameFate, TypeOK, stores, Business, Handoff
  <1>19. ASSUME NEW w \in Loops, BusinessFails(w) PROVE Goal
    <2>1. Sig(w) \in Signals /\ ledger[Sig(w)] \in LedgerRow
      BY <1>19, <1>0, SigTyped DEF BusinessFails, Business
    <2>2. CASE ledger' = ledger
      BY <1>19, <1>a, <2>2 DEF BusinessFails, SameFate
    <2>3. CASE SetRow(w, MarkedProcessed(ledger[Sig(w)]))
      <3>1. PICK s \in Signals : s = Sig(w)
        BY <2>1
      <3>2. /\ ledger'[s].processedAt
            /\ \A t \in Signals \ {s} : ledger'[t] = ledger[t]
            /\ deadLetters' = deadLetters /\ delivery' = delivery
        BY <1>19, <2>1, <2>3, <3>1, RowProcessedAt DEF BusinessFails, SetRow, TypeOK
      <3>3. Gains(s, "processed")
        BY <3>2, ProcessedGains
      <3>4. QED
        BY <1>b, <3>3
    <2>4. QED
      BY <1>19, <2>2, <2>3 DEF BusinessFails
  <1>20. ASSUME NEW w \in Loops, MarkFailedFails(w) PROVE Goal
    BY <1>20, <1>a, <1>0, SigTyped, RowProcessedAt DEF MarkFailedFails, Finish, Fault, SameFate, TypeOK, stores, Business, Handoff
  <1>21. ASSUME NEW w \in Loops, HandoffFails(w) PROVE Goal
    BY <1>21, <1>a, <1>0, SigTyped, RowProcessedAt DEF HandoffFails, Finish, Fault, SameFate, TypeOK, stores, Business, Handoff
  <1>22. ASSUME NEW s \in Signals, LeaseLapses(s) PROVE Goal
    BY <1>22, <1>a, <1>0, SigTyped, RowProcessedAt DEF LeaseLapses, Age, SameFate, TypeOK, stores, Business, Handoff
  <1>23. ASSUME NEW s \in Signals, LeaseOverrun(s) PROVE Goal
    BY <1>23, <1>a, <1>0, SigTyped, RowProcessedAt DEF LeaseOverrun, Age, Fault, SameFate, TypeOK, stores, Business, Handoff
  <1>24. ASSUME NEW c \in Consumers, Crash(c) PROVE Goal
    BY <1>24, <1>a, <1>0, SigTyped, RowProcessedAt DEF Crash, Fault, SameFate, TypeOK, stores, Business, Handoff
  <1>25. ASSUME UNCHANGED vars PROVE Goal
    BY <1>25, <1>a, <1>0, SigTyped, RowProcessedAt DEF vars, SameFate, TypeOK, stores, Business, Handoff
  <1>26. QED
    BY <1>1, <1>2, <1>3, <1>4, <1>5, <1>6, <1>7, <1>8, <1>9, <1>10, <1>11, <1>12, <1>13, <1>14, <1>15, <1>16, <1>17, <1>18, <1>19, <1>20, <1>21, <1>22, <1>23, <1>24, <1>25 DEF Next, Step, Fails

\* The consumer group, the leases and the retries implement SignalFate's safety
\* part: ACK only behind an outcome, and outcomes are never withdrawn.
THEOREM ImplementsFateSafety == Spec => Fate!Spec
  <1>1. Init => Fate!Init
    BY InitFate
  <1>2. TypeOK /\ SettledInv /\ [Next]_vars =>
          [Fate!Next]_<<AckedEntries, [s \in Signals |-> OutcomeOf(s)]>>
    BY StepFate
  <1>3. QED
    BY <1>1, <1>2, TypeCorrect, InitSettled, StepSettled, PTL DEF Spec, Fate!Spec
=============================================================================
