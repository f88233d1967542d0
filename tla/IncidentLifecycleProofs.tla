----------------------- MODULE IncidentLifecycleProofs -----------------------
(***************************************************************************)
(* Proofs about module IncidentLifecycle, for any number of operators, any   *)
(* size of the pool and any submitted times.                                 *)
(***************************************************************************)
EXTENDS IncidentLifecycle, TLAPS

\* Every step is well-typed.
LEMMA StepTypes == TypeOK /\ [Next]_vars => TypeOK'
<1> SUFFICES ASSUME TypeOK, [Next]_vars PROVE TypeOK'
  OBVIOUS
<1> USE OperatorsAssumption, EndsAssumption, IntAssumption, MaxFaultsAssumption
        DEF TypeOK, InRange, GoTo, Fault, Connected, Status, incident
<1>1. CASE UNCHANGED vars
  BY <1>1 DEF vars, incident
<1>2. ASSUME NEW p \in Operators, Request(p) \/ Step(p) \/ Fails(p)
      PROVE  TypeOK'
  <2>1. CASE RequestTransition(p)   BY <2>1 DEF RequestTransition
  <2>2. CASE RequestRca(p)          BY <2>2 DEF RequestRca
  <2>3. CASE Connect(p)             BY <2>3 DEF Connect
  <2>4. CASE LockForUpdate(p)       BY <2>4 DEF LockForUpdate
  <2>5. CASE RejectTransition(p)    BY <2>5 DEF RejectTransition, Abort
  <2>6. CASE Execute(p)             BY <2>6 DEF Execute
  <2>7. CASE ReadRca(p)             BY <2>7 DEF ReadRca
  <2>8. CASE RcaMissing(p)          BY <2>8 DEF RcaMissing, Abort
  <2>9. CASE Commit(p)
    <3>1. <<seen[p], target[p]>> \in (Status \cup {"none"}) \X Status
      BY <2>9 DEF Commit
    <3>2. history' \in HistoryType
      BY <3>1, <2>9 DEF Commit, HistoryType
    <3> QED BY <3>2, <2>9 DEF Commit
  <2>10. CASE CloseOutOfRange(p)    BY <2>10 DEF CloseOutOfRange, Abort
  <2>11. CASE FindRca(p)            BY <2>11 DEF FindRca
  <2>12. CASE StartInsert(p)        BY <2>12 DEF StartInsert
  <2>13. CASE InsertRca(p)          BY <2>13 DEF InsertRca
  <2>14. CASE StartMeasure(p)       BY <2>14 DEF StartMeasure
  <2>15. CASE UpdateMttr(p)         BY <2>15 DEF UpdateMttr
  <2>16. CASE ConnectionTimeout(p)  BY <2>16 DEF ConnectionTimeout, Abort
  <2>17. CASE Return(p)             BY <2>17 DEF Return
  <2>18. CASE TransactionFails(p)   BY <2>18 DEF TransactionFails, Abort
  <2>19. CASE AnswerLost(p)         BY <2>19 DEF AnswerLost
  <2>20. CASE SubmitFails(p)        BY <2>20 DEF SubmitFails
  <2>21. CASE Refresh(p)            BY <2>21 DEF Refresh
  <2>22. CASE RefreshTimeout(p)     BY <2>22 DEF RefreshTimeout
  <2>23. CASE Respond(p)            BY <2>23 DEF Respond
  <2> QED BY <1>2, <2>1, <2>2, <2>3, <2>4, <2>5, <2>6, <2>7, <2>8, <2>9, <2>10,
             <2>11, <2>12, <2>13, <2>14, <2>15, <2>16, <2>17, <2>18,
             <2>19, <2>20, <2>21, <2>22, <2>23
             DEF Request, Step, Fails
<1> QED BY <1>1, <1>2 DEF Next

\* The initial state is well-typed.
LEMMA TypeInit == Init => TypeOK
<1>1. <<"none", "OPEN">> \in (Status \cup {"none"}) \X Status
  BY DEF Status
<1>2. << <<"none", "OPEN">> >> \in HistoryType
  BY <1>1 DEF HistoryType
<1> SUFFICES ASSUME Init PROVE TypeOK
  OBVIOUS
<1>3. history \in HistoryType
  BY <1>2 DEF Init
<1>4. /\ status \in Status /\ closedAt \in BOOLEAN
  BY DEF Init, Status
<1>5. /\ mttr = Null /\ rca = Null /\ lock = "none"
  BY DEF Init
<1>6. faults \in 0 .. MaxFaults
  BY MaxFaultsAssumption DEF Init
<1>7. /\ pc = [p \in Operators |-> "idle"]
      /\ target \in [Operators -> Status \cup {"none"}]
      /\ seen \in [Operators -> Status \cup {"none"}]
      /\ end \in [Operators -> Ends \cup {Null}]
  BY DEF Init
<1> QED BY <1>3, <1>4, <1>5, <1>6, <1>7 DEF TypeOK

\* Types, in particular the width of mttr_seconds.
THEOREM TypeCorrect == Spec => []TypeOK
  BY TypeInit, StepTypes, PTL DEF Spec

-----------------------------------------------------------------------------
\* Between FOR UPDATE and COMMIT a transition owns the lock, and the status it
\* read is the current one and admits its target.
Locked ==
  \A p \in Operators :
    /\ pc[p] \in {"check", "readRca", "commit"} => lock = p /\ seen[p] = status
    /\ pc[p] \in {"readRca", "commit"} => target[p] \in Allowed(seen[p])
    /\ pc[p] = "readRca" => target[p] = "CLOSED"

\* One step of somebody keeps the lock meaningful.
LEMMA StepLocked == TypeOK /\ Locked /\ [Next]_vars => Locked'
<1> SUFFICES ASSUME TypeOK, Locked, [Next]_vars PROVE Locked'
  OBVIOUS
<1> USE OperatorsAssumption DEF TypeOK, Locked, GoTo, Fault, Connected, incident
<1>1. CASE UNCHANGED vars
  BY <1>1 DEF vars, incident
<1>2. ASSUME NEW p \in Operators, Request(p) \/ Step(p) \/ Fails(p)
      PROVE  Locked'
  <2>1. CASE RequestTransition(p)   BY <2>1 DEF RequestTransition
  <2>2. CASE RequestRca(p)          BY <2>2 DEF RequestRca
  <2>3. CASE Connect(p)             BY <2>3 DEF Connect
  <2>4. CASE LockForUpdate(p)       BY <2>4 DEF LockForUpdate
  <2>5. CASE RejectTransition(p)    BY <2>5 DEF RejectTransition, Abort
  <2>6. CASE Execute(p)             BY <2>6 DEF Execute
  <2>7. CASE ReadRca(p)             BY <2>7 DEF ReadRca
  <2>8. CASE RcaMissing(p)          BY <2>8 DEF RcaMissing, Abort
  <2>9. CASE Commit(p)              BY <2>9 DEF Commit
  <2>10. CASE CloseOutOfRange(p)    BY <2>10 DEF CloseOutOfRange, Abort
  <2>11. CASE FindRca(p)            BY <2>11 DEF FindRca
  <2>12. CASE StartInsert(p)        BY <2>12 DEF StartInsert
  <2>13. CASE InsertRca(p)          BY <2>13 DEF InsertRca
  <2>14. CASE StartMeasure(p)       BY <2>14 DEF StartMeasure
  <2>15. CASE UpdateMttr(p)         BY <2>15 DEF UpdateMttr
  <2>16. CASE ConnectionTimeout(p)  BY <2>16 DEF ConnectionTimeout, Abort
  <2>17. CASE Return(p)             BY <2>17 DEF Return
  <2>18. CASE TransactionFails(p)   BY <2>18 DEF TransactionFails, Abort
  <2>19. CASE AnswerLost(p)         BY <2>19 DEF AnswerLost
  <2>20. CASE SubmitFails(p)        BY <2>20 DEF SubmitFails
  <2>21. CASE Refresh(p)            BY <2>21 DEF Refresh
  <2>22. CASE RefreshTimeout(p)     BY <2>22 DEF RefreshTimeout
  <2>23. CASE Respond(p)            BY <2>23 DEF Respond
  <2> QED BY <1>2, <2>1, <2>2, <2>3, <2>4, <2>5, <2>6, <2>7, <2>8, <2>9, <2>10,
             <2>11, <2>12, <2>13, <2>14, <2>15, <2>16, <2>17, <2>18,
             <2>19, <2>20, <2>21, <2>22, <2>23
             DEF Request, Step, Fails
<1> QED BY <1>1, <1>2 DEF Next

-----------------------------------------------------------------------------
\* What the requests know of the RCA: a closing transition and the winner of a
\* submission carry the end of the RCA that is stored.
RcaKnown ==
  \A p \in Operators :
    /\ pc[p] = "commit" /\ target[p] = "CLOSED" => rca # Null /\ end[p] = rca
    /\ pc[p] \in {"measure", "measuring"} => rca # Null /\ end[p] = rca
    /\ pc[p] \in {"findRca", "insert", "inserting"} => end[p] \in Ends

IExplained == TypeOK /\ Locked /\ RcaKnown /\ ClosedIsExplained

\* No step takes the explanation of a closed incident away.
LEMMA StepExplained == IExplained /\ [Next]_vars => RcaKnown' /\ ClosedIsExplained'
<1> SUFFICES ASSUME IExplained, [Next]_vars PROVE RcaKnown' /\ ClosedIsExplained'
  OBVIOUS
<1> USE EndsAssumption
        DEF IExplained, TypeOK, InRange, Locked, RcaKnown, ClosedIsExplained, Allowed,
            GoTo, Fault, Connected, Status, incident
<1>1. CASE UNCHANGED vars
  BY <1>1 DEF vars, incident
<1>2. ASSUME NEW p \in Operators, Request(p) \/ Step(p) \/ Fails(p)
      PROVE  RcaKnown' /\ ClosedIsExplained'
  <2>1. CASE RequestTransition(p)   BY <2>1 DEF RequestTransition
  <2>2. CASE RequestRca(p)          BY <2>2 DEF RequestRca
  <2>3. CASE Connect(p)             BY <2>3 DEF Connect
  <2>4. CASE LockForUpdate(p)       BY <2>4 DEF LockForUpdate
  <2>5. CASE RejectTransition(p)    BY <2>5 DEF RejectTransition, Abort
  <2>6. CASE Execute(p)             BY <2>6 DEF Execute
  <2>7. CASE ReadRca(p)             BY <2>7 DEF ReadRca
  <2>8. CASE RcaMissing(p)          BY <2>8 DEF RcaMissing, Abort
  <2>9. CASE Commit(p)              BY <2>9 DEF Commit
  <2>10. CASE CloseOutOfRange(p)    BY <2>10 DEF CloseOutOfRange, Abort
  <2>11. CASE FindRca(p)            BY <2>11 DEF FindRca
  <2>12. CASE StartInsert(p)        BY <2>12 DEF StartInsert
  <2>13. CASE InsertRca(p)          BY <2>13 DEF InsertRca
  <2>14. CASE StartMeasure(p)       BY <2>14 DEF StartMeasure
  <2>15. CASE UpdateMttr(p)         BY <2>15 DEF UpdateMttr
  <2>16. CASE ConnectionTimeout(p)  BY <2>16 DEF ConnectionTimeout, Abort
  <2>17. CASE Return(p)             BY <2>17 DEF Return
  <2>18. CASE TransactionFails(p)   BY <2>18 DEF TransactionFails, Abort
  <2>19. CASE AnswerLost(p)         BY <2>19 DEF AnswerLost
  <2>20. CASE SubmitFails(p)        BY <2>20 DEF SubmitFails
  <2>21. CASE Refresh(p)            BY <2>21 DEF Refresh
  <2>22. CASE RefreshTimeout(p)     BY <2>22 DEF RefreshTimeout
  <2>23. CASE Respond(p)            BY <2>23 DEF Respond
  <2> QED BY <1>2, <2>1, <2>2, <2>3, <2>4, <2>5, <2>6, <2>7, <2>8, <2>9, <2>10,
             <2>11, <2>12, <2>13, <2>14, <2>15, <2>16, <2>17, <2>18,
             <2>19, <2>20, <2>21, <2>22, <2>23
             DEF Request, Step, Fails
<1> QED BY <1>1, <1>2 DEF Next

\* IExplained is inductive.
LEMMA ExplainedInvariant == Spec => []IExplained
<1>1. Init => IExplained
  BY TypeInit DEF Init, IExplained, Locked, RcaKnown, ClosedIsExplained
<1>2. IExplained /\ [Next]_vars => IExplained'
  BY StepTypes, StepLocked, StepExplained DEF IExplained
<1> QED BY <1>1, <1>2, PTL DEF Spec

\* Closed incidents have their analysis and its MTTR, for any races of closing
\* and submitting operators (resolved.state.ts, rca.service.ts).
THEOREM ClosedExplained == Spec => []ClosedIsExplained
<1>1. IExplained => ClosedIsExplained
  BY DEF IExplained
<1> QED BY <1>1, ExplainedInvariant, PTL

-----------------------------------------------------------------------------
\* One step extends the walk through the lifecycle or leaves it alone.
LEMMA StepHistory ==
  TypeOK /\ Locked /\ history # << >> /\ HistoryIsLifecycle /\ [Next]_vars
    => history' # << >> /\ HistoryIsLifecycle'
<1> SUFFICES ASSUME TypeOK, Locked, history # << >>, HistoryIsLifecycle, [Next]_vars
             PROVE  history' # << >> /\ HistoryIsLifecycle'
  OBVIOUS
<1>1. CASE UNCHANGED <<status, history>>
  BY <1>1 DEF HistoryIsLifecycle
<1>2. ASSUME NEW p \in Operators, Commit(p)
      PROVE  history' # << >> /\ HistoryIsLifecycle'
  <2> DEFINE n == Len(history)
             entry == <<seen[p], target[p]>>
  <2>1. history \in HistoryType /\ n \in Nat \ {0}
    BY DEF TypeOK, HistoryType
  <2>2. entry \in (Status \cup {"none"}) \X Status
    <3>1. target[p] \in Allowed(seen[p]) /\ seen[p] = status
      BY <1>2 DEF Commit, Locked
    <3> QED BY <3>1 DEF TypeOK, Allowed, Status
  <2>3. /\ history' = Append(history, entry)
        /\ status' = target[p]
        /\ seen[p] = status
        /\ target[p] \in Allowed(seen[p])
    BY <1>2 DEF Commit, Locked
  <2>4. /\ Len(history') = n + 1
        /\ history'[n + 1] = entry
        /\ \A k \in 1 .. n : history'[k] = history[k]
    BY <2>1, <2>2, <2>3 DEF HistoryType
  <2>5. history'[1] = <<"none", "OPEN">>
    BY <2>1, <2>4 DEF HistoryIsLifecycle
  <2>6. history'[Len(history')][2] = status'
    BY <2>3, <2>4
  <2>7. ASSUME NEW k \in 1 .. Len(history') - 1
        PROVE  /\ history'[k + 1][1] = history'[k][2]
               /\ history'[k + 1][2] \in Allowed(history'[k + 1][1])
    <3>1. CASE k = n
      BY <3>1, <2>1, <2>3, <2>4 DEF HistoryIsLifecycle
    <3>2. CASE k \in 1 .. n - 1
      <4>1. history'[k] = history[k] /\ history'[k + 1] = history[k + 1]
        BY <3>2, <2>1, <2>4
      <4> QED BY <3>2, <4>1 DEF HistoryIsLifecycle
    <3> QED BY <3>1, <3>2, <2>1, <2>4
  <2> QED BY <2>1, <2>4, <2>5, <2>6, <2>7 DEF HistoryIsLifecycle
<1>3. \A p \in Operators : (Request(p) \/ Step(p) \/ Fails(p)) /\ ~Commit(p)
        => UNCHANGED <<status, history>>
  BY DEF Request, Step, Fails, RequestTransition, RequestRca, Connect, LockForUpdate,
         RejectTransition, Execute, ReadRca, RcaMissing, CloseOutOfRange, FindRca,
         StartInsert, InsertRca, StartMeasure, UpdateMttr, ConnectionTimeout, Return,
         Refresh, RefreshTimeout, Respond,
         TransactionFails, AnswerLost, SubmitFails, Abort, incident
<1> QED BY <1>1, <1>2, <1>3 DEF Next, vars, incident

\* The status history is a gap-free walk from OPEN to the current status.
THEOREM HistoryCorrect == Spec => []HistoryIsLifecycle
<1> DEFINE I == TypeOK /\ Locked /\ history # << >> /\ HistoryIsLifecycle
<1>1. Init => I
  BY TypeInit DEF Init, Locked, HistoryIsLifecycle
<1>2. I /\ [Next]_vars => I'
  BY StepTypes, StepLocked, StepHistory
<1>3. I => HistoryIsLifecycle
  OBVIOUS
<1> QED BY <1>1, <1>2, <1>3, PTL DEF Spec

-----------------------------------------------------------------------------
\* Every step is a step of the contract or changes none of its variables.
LEMMA StepContract == IExplained /\ [Next]_vars => [Contract!Next]_(Contract!cvars)
<1> SUFFICES ASSUME IExplained, [Next]_vars, ~UNCHANGED <<status, rca, mttr>>
             PROVE  Contract!Next
  BY DEF Contract!cvars
<1>1. ASSUME NEW p \in Operators, Commit(p) PROVE Contract!Next
  <2>1. seen[p] = status /\ target[p] \in Allowed(status) /\ status' = target[p]
    BY <1>1 DEF Commit, IExplained, Locked
  <2>2. CASE target[p] = "CLOSED"
    <3>1. rca # Null /\ mttr' = rca /\ rca' = rca
      BY <1>1, <2>2 DEF Commit, IExplained, RcaKnown
    <3>2. status = "RESOLVED"
      BY <2>1, <2>2 DEF Allowed, IExplained, TypeOK, Status
    <3> QED BY <2>1, <2>2, <3>1, <3>2 DEF Contract!Next, Contract!Close
  <2>3. CASE target[p] # "CLOSED"
    <3>1. UNCHANGED <<rca, mttr>>
      BY <1>1, <2>3 DEF Commit
    <3> QED BY <2>1, <2>3, <3>1
            DEF Allowed, IExplained, TypeOK, Status, Contract!Next, Contract!Advance
  <2> QED BY <2>2, <2>3
<1>2. ASSUME NEW p \in Operators, InsertRca(p) PROVE Contract!Next
  BY <1>2 DEF InsertRca, IExplained, RcaKnown, Contract!Next, Contract!Analyse
<1>3. ASSUME NEW p \in Operators, UpdateMttr(p) PROVE Contract!Next
  BY <1>3 DEF UpdateMttr, IExplained, RcaKnown, Contract!Next, Contract!Measure
<1>4. \A p \in Operators :
        (Request(p) \/ Step(p) \/ Fails(p)) /\ ~Commit(p) /\ ~InsertRca(p) /\ ~UpdateMttr(p)
        => UNCHANGED <<status, rca, mttr>>
  BY DEF Request, Step, Fails, RequestTransition, RequestRca, Connect, LockForUpdate,
         RejectTransition, Execute, ReadRca, RcaMissing, CloseOutOfRange, FindRca,
         StartInsert, StartMeasure, ConnectionTimeout, Return,
         Refresh, RefreshTimeout, Respond,
         TransactionFails, AnswerLost, SubmitFails, Abort, incident
<1> QED BY <1>1, <1>2, <1>3, <1>4 DEF Next, vars, incident

\* The lifecycle implements the contract.
THEOREM LifecycleImplementsContract == Spec => ImplementsContract
<1>1. Init => Contract!Init
  BY DEF Init, Contract!Init
<1> QED BY <1>1, StepContract, ExplainedInvariant, PTL
        DEF Spec, ImplementsContract, Contract!Spec
=============================================================================
