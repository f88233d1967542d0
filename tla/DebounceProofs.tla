--------------------------- MODULE DebounceProofs ---------------------------
(***************************************************************************)
(* Proofs about module Debounce, for any number of signals, items, retries  *)
(* and faults, and about the severity that a signal gives the incident that  *)
(* it creates (module AlertStrategies).                                     *)
(***************************************************************************)
EXTENDS Debounce, AlertStrategies, FiniteSetTheorems, TLAPS

USE DEF Owning, Found

\* One type-correct step of the signal or of the environment.
LEMMA StepTypes == TypeOK /\ [Next]_vars => TypeOK'
<1> SUFFICES ASSUME TypeOK, [Next]_vars PROVE TypeOK'
  OBVIOUS
<1> USE NamesAssumption, MaxRetriesAssumption, BoundsAssumption
        DEF TypeOK, GoTo, Take, Over, Restart, Active, Unlocked, Orphaned, Fault
<1>1. CASE UNCHANGED vars
  BY <1>1 DEF vars
<1>2. ASSUME NEW s \in Signals, Step(s) PROVE TypeOK'
  <2>1. CASE Start(s)           BY <2>1 DEF Start
  <2>15. CASE GiveUp(s)         BY <2>15 DEF GiveUp
  <2>2. CASE AskExisting(s)     BY <2>2 DEF AskExisting
  <2>3. CASE AskAcquired(s)     BY <2>3 DEF AskAcquired
  <2>4. CASE AskWait(s)         BY <2>4 DEF AskWait
  <2>5. CASE LookupFound(s)     BY <2>5 DEF LookupFound
  <2>6. CASE LookupNone(s)      BY <2>6 DEF LookupNone
  <2>7. CASE CacheActive(s)     BY <2>7 DEF CacheActive
  <2>8. CASE Release(s)         BY <2>8 DEF Release
  <2>9. CASE PeekFound(s)       BY <2>9 DEF PeekFound
  <2>10. CASE PeekNone(s)       BY <2>10 DEF PeekNone
  <2>11. CASE Create(s)         BY <2>11 DEF Create
  <2>12. CASE Publish(s)        BY <2>12 DEF Publish, Publishes
  <2>13. CASE AddSignal(s)      BY <2>13 DEF AddSignal
  <2>14. CASE Finish(s)         BY <2>14 DEF Finish
  <2> QED BY <1>2, <2>1, <2>2, <2>3, <2>4, <2>5, <2>6, <2>7, <2>8, <2>9, <2>10,
             <2>11, <2>12, <2>13, <2>14, <2>15 DEF Step
<1>3. ASSUME NEW s \in Signals, Fail(s) PROVE TypeOK'
  BY <1>3 DEF Fail
<1>4. ASSUME NEW s \in Signals, Crash(s) PROVE TypeOK'
  BY <1>4 DEF Crash
<1>9. ASSUME NEW s \in Signals, Resent(s) PROVE TypeOK'
  BY <1>9 DEF Resent, Publishes
<1>5. ASSUME NEW i \in Items, Close(i) PROVE TypeOK'
  BY <1>5 DEF Close
<1>6. CASE KeyExpires           BY <1>6 DEF KeyExpires
<1>7. CASE LockLapses           BY <1>7 DEF LockLapses
<1>8. CASE LockOverrun          BY <1>8 DEF LockOverrun
<1> QED BY <1>1, <1>2, <1>3, <1>4, <1>5, <1>6, <1>7, <1>8, <1>9 DEF Next

\* Every reachable state is well-typed: in particular a run that is about to
\* publish, cache or count has the id of an item, and the wait loop is bounded.
THEOREM TypeCorrect == Spec => []TypeOK
<1>1. Init => TypeOK
  BY NamesAssumption, MaxRetriesAssumption, BoundsAssumption DEF Init, TypeOK
<1> QED BY <1>1, StepTypes, PTL DEF Spec

-----------------------------------------------------------------------------
\* What is needed of targets: every id that a run may still publish exists.
TargetsExist ==
  \A s \in Signals : pc[s] \in Found => status[target[s]] # "absent"

\* An item that was committed stays committed.
LEMMA ItemsStay ==
  ASSUME TypeOK, [Next]_vars, NEW i \in Items, status[i] # "absent"
  PROVE  status'[i] # "absent"
<1>1. \A s \in Signals : Step(s) /\ ~Create(s) => status' = status
  BY DEF Step, Start, GiveUp, AskExisting, AskAcquired, AskWait, LookupFound, LookupNone,
         CacheActive, Release, PeekFound, PeekNone, Publish, Publishes, AddSignal, Finish
<1>2. \A s \in Signals : Create(s) => status'[i] # "absent"
  BY DEF Create, TypeOK
<1>3. \A s \in Signals : Fail(s) \/ Crash(s) \/ Resent(s) => status' = status
  BY DEF Fail, Crash, Resent, Publishes
<1>4. \A j \in Items : Close(j) => status'[i] # "absent"
  BY DEF Close, TypeOK
<1>5. KeyExpires \/ LockLapses \/ LockOverrun => status' = status
  BY DEF KeyExpires, LockLapses, LockOverrun
<1> QED BY <1>1, <1>2, <1>3, <1>4, <1>5 DEF Next, vars

\* How a step moves the target and the key: only to ids that exist.
LEMMA StepExists ==
  TypeOK /\ TargetsExist /\ NeverUncommitted /\ [Next]_vars
    => TargetsExist' /\ NeverUncommitted'
<1> SUFFICES ASSUME TypeOK, TargetsExist, NeverUncommitted, [Next]_vars
             PROVE  TargetsExist' /\ NeverUncommitted'
  OBVIOUS
<1>0. \A i \in Items : status[i] # "absent" => status'[i] # "absent"
  BY ItemsStay
<1>t. TypeOK'
  BY StepTypes
<1> SUFFICES /\ TargetsExist'
             /\ key' # "none" => status'[key'] # "absent"
  BY <1>t DEF TargetsExist, NeverUncommitted
<1> USE NamesAssumption, <1>0
        DEF TypeOK, TargetsExist, NeverUncommitted, GoTo, Take, Over, Restart, Active
<1>1. CASE UNCHANGED vars
  BY <1>1 DEF vars
<1>2. ASSUME NEW s \in Signals, Step(s)
      PROVE /\ TargetsExist'
            /\ key' # "none" => status'[key'] # "absent"
  <2>1. CASE Start(s)           BY <2>1 DEF Start
  <2>15. CASE GiveUp(s)         BY <2>15 DEF GiveUp
  <2>2. CASE AskExisting(s)     BY <2>2 DEF AskExisting
  <2>3. CASE AskAcquired(s)     BY <2>3 DEF AskAcquired
  <2>4. CASE AskWait(s)         BY <2>4 DEF AskWait
  <2>5. CASE LookupFound(s)     BY <2>5 DEF LookupFound
  <2>6. CASE LookupNone(s)      BY <2>6 DEF LookupNone
  <2>7. CASE CacheActive(s)     BY <2>7 DEF CacheActive
  <2>8. CASE Release(s)         BY <2>8 DEF Release
  <2>9. CASE PeekFound(s)       BY <2>9 DEF PeekFound
  <2>10. CASE PeekNone(s)       BY <2>10 DEF PeekNone
  <2>11. CASE Create(s)         BY <2>11 DEF Create
  <2>12. CASE Publish(s)        BY <2>12 DEF Publish, Publishes
  <2>13. CASE AddSignal(s)      BY <2>13 DEF AddSignal
  <2>14. CASE Finish(s)         BY <2>14 DEF Finish
  <2> QED BY <1>2, <2>1, <2>2, <2>3, <2>4, <2>5, <2>6, <2>7, <2>8, <2>9, <2>10,
             <2>11, <2>12, <2>13, <2>14, <2>15 DEF Step
<1>3. ASSUME NEW s \in Signals, Fail(s) \/ Crash(s) \/ Resent(s)
      PROVE /\ TargetsExist'
            /\ key' # "none" => status'[key'] # "absent"
  BY <1>3 DEF Fail, Crash, Resent, Publishes
<1>4. ASSUME NEW i \in Items, Close(i)
      PROVE /\ TargetsExist'
            /\ key' # "none" => status'[key'] # "absent"
  BY <1>4 DEF Close
<1>5. CASE KeyExpires           BY <1>5 DEF KeyExpires
<1>6. CASE LockLapses           BY <1>6 DEF LockLapses
<1>7. CASE LockOverrun          BY <1>7 DEF LockOverrun
<1> QED BY <1>1, <1>2, <1>3, <1>4, <1>5, <1>6, <1>7 DEF Next

\* Publish-after-create: the debounce key and every signal about to be counted
\* name a committed work item, whatever fails, crashes or expires.
THEOREM KeysAreCommitted == Spec => []NeverUncommitted
<1>1. Init => TypeOK /\ TargetsExist /\ NeverUncommitted
  BY NamesAssumption, MaxRetriesAssumption, BoundsAssumption
     DEF Init, TypeOK, TargetsExist, NeverUncommitted
<1> QED BY <1>1, StepTypes, StepExists, PTL DEF Spec

\* No step frees the lock of a run that still needs it, except the TTL.
LEMMA StepUnlocks ==
  ASSUME TypeOK, [Next]_vars, NEW s \in Signals, lock = s, lock' # s, pc'[s] \in Owning
  PROVE  overruns' > overruns
<1> USE NamesAssumption DEF TypeOK, GoTo, Take, Over, Restart, Unlocked, Orphaned
<1>1. CASE UNCHANGED vars
  BY <1>1 DEF vars
<1>2. ASSUME NEW t \in Signals, Step(t) PROVE FALSE
  <2>1. ~AskAcquired(t)
    BY DEF AskAcquired
  <2>2. t = s \/ lock' = lock
    BY <1>2, <2>1 DEF Step, Start, GiveUp, AskExisting, AskWait, LookupFound, LookupNone,
          CacheActive, Release, PeekFound, PeekNone, Create, Publish, Publishes, AddSignal, Finish
  <2>3. pc'[s] \notin Owning
    BY <1>2, <2>1, <2>2 DEF Step, Start, GiveUp, AskExisting, AskWait, LookupFound, LookupNone,
          CacheActive, Release, PeekFound, PeekNone, Create, Publish, Publishes, AddSignal, Finish
  <2> QED BY <2>3
<1>3. ASSUME NEW t \in Signals, Fail(t) \/ Crash(t) \/ Resent(t) PROVE FALSE
  BY <1>3 DEF Fail, Crash, Resent, Publishes
<1>4. ASSUME NEW i \in Items, Close(i) PROVE FALSE
  BY <1>4 DEF Close
<1>5. ~KeyExpires /\ ~LockLapses
  BY DEF KeyExpires, LockLapses
<1>6. CASE LockOverrun
  BY <1>6, BoundsAssumption DEF LockOverrun
<1> QED BY <1>1, <1>2, <1>3, <1>4, <1>5, <1>6 DEF Next

\* A run that needs the creator lock loses it to nobody but the TTL: release and
\* publish of a run that has lost its own lock leave its successor's alone.
THEOREM LockIsKept == Spec => OnlyOwnerUnlocks
<1>1. TypeOK /\ [Next]_vars =>
        [\A s \in Signals :
           lock = s /\ lock' # s => overruns' > overruns \/ pc'[s] \notin Owning]_vars
  BY StepUnlocks
<1> QED BY <1>1, TypeCorrect, PTL DEF Spec, OnlyOwnerUnlocks

-----------------------------------------------------------------------------
\* Runs that believe to hold the creator lock and do not: there is one more of them
\* only when a lock expires under its owner.
Stale == {s \in Signals : pc[s] \in Owning /\ lock # s}
Creating == {s \in Signals : pc[s] = "create"}

\* The invariant that makes the bound inductive: what is active and what is about to be
\* created is bounded together, because the owner looks for active incidents first.
IActive ==
  /\ TypeOK
  /\ IsFiniteSet(Stale) /\ Cardinality(Stale) <= overruns
  /\ IsFiniteSet(Active)
  /\ Cardinality(Active) + Cardinality(Creating) <= 1 + overruns

\* The lock and the runs that rely on it, step by step.
LEMMA StepStale ==
  ASSUME TypeOK, [Next]_vars
  PROVE  \/ overruns' = overruns /\ Stale' \subseteq Stale
         \/ LockOverrun /\ Stale' \subseteq Stale \cup {lock}
<1> USE NamesAssumption
        DEF TypeOK, Stale, GoTo, Take, Over, Restart, Active, Unlocked, Orphaned, Fault
<1>1. CASE UNCHANGED vars
  BY <1>1 DEF vars
<1>2. ASSUME NEW s \in Signals, Step(s)
      PROVE  overruns' = overruns /\ Stale' \subseteq Stale
  <2>1. CASE Start(s)           BY <2>1 DEF Start
  <2>15. CASE GiveUp(s)         BY <2>15 DEF GiveUp
  <2>2. CASE AskExisting(s)     BY <2>2 DEF AskExisting
  <2>3. CASE AskAcquired(s)     BY <2>3 DEF AskAcquired
  <2>4. CASE AskWait(s)         BY <2>4 DEF AskWait
  <2>5. CASE LookupFound(s)     BY <2>5 DEF LookupFound
  <2>6. CASE LookupNone(s)      BY <2>6 DEF LookupNone
  <2>7. CASE CacheActive(s)     BY <2>7 DEF CacheActive
  <2>8. CASE Release(s)         BY <2>8 DEF Release
  <2>9. CASE PeekFound(s)       BY <2>9 DEF PeekFound
  <2>10. CASE PeekNone(s)       BY <2>10 DEF PeekNone
  <2>11. CASE Create(s)         BY <2>11 DEF Create
  <2>12. CASE Publish(s)        BY <2>12 DEF Publish, Publishes
  <2>13. CASE AddSignal(s)      BY <2>13 DEF AddSignal
  <2>14. CASE Finish(s)         BY <2>14 DEF Finish
  <2> QED BY <1>2, <2>1, <2>2, <2>3, <2>4, <2>5, <2>6, <2>7, <2>8, <2>9, <2>10,
             <2>11, <2>12, <2>13, <2>14, <2>15 DEF Step
<1>3. ASSUME NEW s \in Signals, Fail(s) \/ Crash(s) \/ Resent(s)
      PROVE  overruns' = overruns /\ Stale' \subseteq Stale
  BY <1>3 DEF Fail, Crash, Resent, Publishes
<1>4. ASSUME NEW i \in Items, Close(i)
      PROVE  overruns' = overruns /\ Stale' \subseteq Stale
  BY <1>4 DEF Close
<1>5. CASE KeyExpires           BY <1>5 DEF KeyExpires
<1>6. CASE LockLapses           BY <1>6 DEF LockLapses
<1>7. CASE LockOverrun          BY <1>7 DEF LockOverrun
<1> QED BY <1>1, <1>2, <1>3, <1>4, <1>5, <1>6, <1>7 DEF Next

\* Only a lookup that found nothing adds a creator, only a creator adds an incident.
LEMMA StepActive ==
  ASSUME TypeOK, [Next]_vars
  PROVE  \/ Active = {} /\ Active' = {}
         \/ \E s \in Creating, i \in Items :
              Active' = Active \cup {i} /\ Creating' = Creating \ {s}
         \/ Active' \subseteq Active /\ Creating' \subseteq Creating
<1> USE NamesAssumption DEF TypeOK, Creating, GoTo, Take, Over, Restart, Active
<1>1. CASE UNCHANGED vars
  BY <1>1 DEF vars
<1>2. ASSUME NEW s \in Signals, LookupNone(s) PROVE Active = {} /\ Active' = {}
  BY <1>2 DEF LookupNone
<1>3. ASSUME NEW s \in Signals, Create(s)
      PROVE  \E t \in Creating, i \in Items :
               Active' = Active \cup {i} /\ Creating' = Creating \ {t}
  <2>1. PICK i \in Items : status' = [status EXCEPT ![i] = "active"]
    BY <1>3 DEF Create
  <2>2. Active' = Active \cup {i}
    BY <2>1
  <2>3. s \in Creating /\ Creating' = Creating \ {s}
    BY <1>3 DEF Create
  <2> QED BY <2>2, <2>3
<1>4. ASSUME NEW s \in Signals, Step(s), ~LookupNone(s), ~Create(s)
      PROVE  Active' \subseteq Active /\ Creating' \subseteq Creating
  <2>1. status' = status
    BY <1>4 DEF Step, Start, GiveUp, AskExisting, AskAcquired, AskWait, LookupFound, CacheActive,
          Release, PeekFound, PeekNone, Publish, Publishes, AddSignal, Finish
  <2>2. \E p : p # "create" /\ pc' = [pc EXCEPT ![s] = p]
    BY <1>4 DEF Step, Start, GiveUp, AskExisting, AskAcquired, AskWait, LookupFound, CacheActive,
          Release, PeekFound, PeekNone, Publish, Publishes, AddSignal, Finish
  <2> QED BY <2>1, <2>2
<1>5. ASSUME NEW s \in Signals, Fail(s) \/ Crash(s) \/ Resent(s)
      PROVE  Active' \subseteq Active /\ Creating' \subseteq Creating
  BY <1>5 DEF Fail, Crash, Resent, Publishes
<1>6. ASSUME NEW i \in Items, Close(i)
      PROVE  Active' \subseteq Active /\ Creating' \subseteq Creating
  BY <1>6 DEF Close
<1>7. CASE KeyExpires           BY <1>7 DEF KeyExpires
<1>8. CASE LockLapses           BY <1>8 DEF LockLapses
<1>9. CASE LockOverrun          BY <1>9 DEF LockOverrun
<1> QED BY <1>1, <1>2, <1>3, <1>4, <1>5, <1>6, <1>7, <1>8, <1>9 DEF Next, Step

\* One more element is at most one more.
LEMMA OneMore ==
  ASSUME NEW S, NEW x, IsFiniteSet(S)
  PROVE  IsFiniteSet(S \cup {x}) /\ Cardinality(S \cup {x}) <= Cardinality(S) + 1
<1>1. /\ IsFiniteSet(S \cup {x})
      /\ Cardinality(S \cup {x}) = IF x \in S THEN Cardinality(S) ELSE Cardinality(S) + 1
  BY FS_AddElement
<1>2. Cardinality(S) \in Nat
  BY FS_CardinalityType
<1> QED BY <1>1, <1>2

\* At most one creator holds the lock, all others are stale.
LEMMA CreatingBounded ==
  ASSUME IsFiniteSet(Stale)
  PROVE  IsFiniteSet(Creating) /\ Cardinality(Creating) <= Cardinality(Stale) + 1
<1>1. Creating \in SUBSET (Stale \cup {lock})
  BY DEF Creating, Stale
<1>2. /\ IsFiniteSet(Stale \cup {lock})
      /\ Cardinality(Stale \cup {lock}) <= Cardinality(Stale) + 1
  BY OneMore
<1> QED BY <1>1, <1>2, FS_Subset, FS_CardinalityType

\* One step keeps the bound.
LEMMA StepBounded == IActive /\ [Next]_vars => IActive'
<1> SUFFICES ASSUME IActive, [Next]_vars PROVE IActive'
  OBVIOUS
<1>1. TypeOK'
  BY StepTypes DEF IActive
<1>2. overruns \in Nat /\ overruns' \in Nat /\ overruns' >= overruns
  BY <1>1, StepStale, BoundsAssumption DEF IActive, TypeOK, LockOverrun
<1>3. IsFiniteSet(Stale') /\ Cardinality(Stale') <= overruns'
  <2>1. CASE overruns' = overruns /\ Stale' \subseteq Stale
    BY <2>1, FS_Subset, FS_CardinalityType, <1>2 DEF IActive
  <2>2. CASE LockOverrun /\ Stale' \subseteq Stale \cup {lock}
    <3>1. overruns' = overruns + 1
      BY <2>2 DEF LockOverrun
    <3>2. /\ IsFiniteSet(Stale \cup {lock})
          /\ Cardinality(Stale \cup {lock}) <= Cardinality(Stale) + 1
      BY OneMore DEF IActive
    <3> QED BY <2>2, <3>1, <3>2, <1>2, FS_Subset, FS_CardinalityType DEF IActive
  <2> QED BY <2>1, <2>2, StepStale DEF IActive
<1>4. IsFiniteSet(Creating) /\ IsFiniteSet(Creating') /\ Cardinality(Creating') <= overruns' + 1
  <2>1. IsFiniteSet(Creating)
    BY CreatingBounded DEF IActive
  <2>2. Creating' \in SUBSET (Stale' \cup {lock'})
    BY DEF Creating, Stale
  <2>3. /\ IsFiniteSet(Stale' \cup {lock'})
        /\ Cardinality(Stale' \cup {lock'}) <= Cardinality(Stale') + 1
    BY <1>3, OneMore
  <2> QED BY <1>2, <1>3, <2>1, <2>2, <2>3, FS_Subset, FS_CardinalityType
<1>5. IsFiniteSet(Active') /\ Cardinality(Active') + Cardinality(Creating') <= 1 + overruns'
  <2>1. CASE Active' = {}
    BY <2>1, <1>2, <1>4, FS_EmptySet, FS_CardinalityType
  <2>2. ASSUME NEW s \in Creating, NEW i \in Items,
               Active' = Active \cup {i}, Creating' = Creating \ {s}
        PROVE  IsFiniteSet(Active') /\ Cardinality(Active') + Cardinality(Creating') <= 1 + overruns'
    <3>1. /\ IsFiniteSet(Active')
          /\ Cardinality(Active') <= Cardinality(Active) + 1
      BY <2>2, FS_AddElement, FS_CardinalityType DEF IActive
    <3>2. Cardinality(Creating') = Cardinality(Creating) - 1
      BY <2>2, <1>4, FS_RemoveElement
    <3> QED BY <1>2, <1>4, <3>1, <3>2, FS_CardinalityType DEF IActive
  <2>3. CASE Active' \subseteq Active /\ Creating' \subseteq Creating
    <3>1. IsFiniteSet(Active') /\ Cardinality(Active') <= Cardinality(Active)
      BY <2>3, FS_Subset DEF IActive
    <3>2. Cardinality(Creating') <= Cardinality(Creating)
      BY <2>3, <1>4, FS_Subset
    <3> QED BY <1>2, <1>4, <3>1, <3>2, FS_CardinalityType DEF IActive
  <2> QED BY <2>1, <2>2, <2>3, StepActive DEF IActive
<1> QED BY <1>1, <1>3, <1>5 DEF IActive

\* Every lock that expires under its live owner costs at most one more simultaneously
\* active incident; without one there is never a second: not after crashes, failed calls,
\* expired debounce keys or incidents closed in between (debounce.service.ts).
THEOREM ActiveIncidentsBounded == Spec => []ActiveBounded
<1>1. ASSUME Init PROVE IActive
  <2>1. TypeOK
    BY <1>1, NamesAssumption, MaxRetriesAssumption, BoundsAssumption DEF Init, TypeOK
  <2>2. Active = {} /\ Stale = {} /\ Creating = {} /\ overruns = 0
    BY <1>1 DEF Init, Active, Stale, Creating
  <2> QED BY <2>1, <2>2, FS_EmptySet DEF IActive
<1>2. ASSUME IActive PROVE ActiveBounded
  <2>1. Cardinality(Active) \in Nat /\ Cardinality(Creating) \in Nat /\ overruns \in Nat
    BY <1>2, CreatingBounded, FS_CardinalityType, BoundsAssumption DEF IActive, TypeOK
  <2> QED BY <1>2, <2>1 DEF IActive, ActiveBounded
<1> QED BY <1>1, <1>2, StepBounded, PTL DEF Spec

-----------------------------------------------------------------------------
\* What neither a key, nor a run under way, nor a lookup names is not found again.
LEMMA StepQuiet ==
  ASSUME TypeOK, [Next]_vars, NEW i \in Items, Quiet(i)
  PROVE  Quiet(i)' /\ \A s \in Signals : i \in linked'[s] => i \in linked[s]
<1> USE NamesAssumption DEF TypeOK, Quiet, GoTo, Take, Over, Restart, Active
<1>1. CASE UNCHANGED vars
  BY <1>1 DEF vars
<1>2. ASSUME NEW s \in Signals, Step(s)
      PROVE  Quiet(i)' /\ \A t \in Signals : i \in linked'[t] => i \in linked[t]
  <2>1. CASE Start(s)           BY <2>1 DEF Start
  <2>15. CASE GiveUp(s)         BY <2>15 DEF GiveUp
  <2>2. CASE AskExisting(s)     BY <2>2 DEF AskExisting
  <2>3. CASE AskAcquired(s)     BY <2>3 DEF AskAcquired
  <2>4. CASE AskWait(s)         BY <2>4 DEF AskWait
  <2>5. CASE LookupFound(s)     BY <2>5 DEF LookupFound
  <2>6. CASE LookupNone(s)      BY <2>6 DEF LookupNone
  <2>7. CASE CacheActive(s)     BY <2>7 DEF CacheActive
  <2>8. CASE Release(s)         BY <2>8 DEF Release
  <2>9. CASE PeekFound(s)       BY <2>9 DEF PeekFound
  <2>10. CASE PeekNone(s)       BY <2>10 DEF PeekNone
  <2>11. CASE Create(s)         BY <2>11 DEF Create
  <2>12. CASE Publish(s)        BY <2>12 DEF Publish, Publishes
  <2>13. CASE AddSignal(s)      BY <2>13 DEF AddSignal
  <2>14. CASE Finish(s)         BY <2>14 DEF Finish
  <2> QED BY <1>2, <2>1, <2>2, <2>3, <2>4, <2>5, <2>6, <2>7, <2>8, <2>9, <2>10,
             <2>11, <2>12, <2>13, <2>14, <2>15 DEF Step
<1>3. ASSUME NEW s \in Signals, Fail(s) \/ Crash(s) \/ Resent(s)
      PROVE  Quiet(i)' /\ \A t \in Signals : i \in linked'[t] => i \in linked[t]
  BY <1>3 DEF Fail, Crash, Resent, Publishes
<1>4. ASSUME NEW j \in Items, Close(j)
      PROVE  Quiet(i)' /\ \A t \in Signals : i \in linked'[t] => i \in linked[t]
  BY <1>4 DEF Close
<1>5. CASE KeyExpires           BY <1>5 DEF KeyExpires
<1>6. CASE LockLapses           BY <1>6 DEF LockLapses
<1>7. CASE LockOverrun          BY <1>7 DEF LockOverrun
<1> QED BY <1>1, <1>2, <1>3, <1>4, <1>5, <1>6, <1>7 DEF Next

\* Signals reach a closed incident only through a key or a run that already names it;
\* once both are gone it stays closed to them (debounce.service.ts, addSignal).
THEOREM ClosedIncidentsStayQuiet == Spec => ClosedStaysQuiet
<1>1. TypeOK /\ [Next]_vars =>
        [\A i \in Items : Quiet(i) =>
           Quiet(i)' /\ \A s \in Signals : i \in linked'[s] => i \in linked[s]]_vars
  BY StepQuiet
<1> QED BY <1>1, TypeCorrect, PTL DEF Spec, ClosedStaysQuiet

-----------------------------------------------------------------------------
(* Refinement of ComponentIncidents: the key, the lock, the targets and the *)
(* awaits are hidden, failures, crashes and TTLs become stutters.           *)

Settled == {s \in Signals : pc[s] = "done"}

Promise == INSTANCE ComponentIncidents WITH settled <- Settled

\* A run that is past create or addSignal has linked its signal.
LinkedWhenPast ==
  \A s \in Signals : pc[s] \in {"publish", "republish", "finish", "done"} => linked[s] # {}

\* The three invariants that the refinement rests on.
IPromise == IActive /\ TargetsExist /\ NeverUncommitted /\ LinkedWhenPast

\* Steps that change nothing of the incidents and settle no signal.
LEMMA InnerSteps ==
  ASSUME NEW s \in Signals,
         \/ Step(s) /\ ~Create(s) /\ ~AddSignal(s) /\ ~Finish(s)
         \/ Fail(s) \/ Crash(s) \/ Resent(s) \/ KeyExpires \/ LockLapses
  PROVE  UNCHANGED <<status, linked, overruns>>
BY DEF Step, Start, GiveUp, AskExisting, AskAcquired, AskWait, LookupFound, LookupNone,
       CacheActive, Release, PeekFound, PeekNone, Publish, Publishes, Fail, Crash, Resent,
        KeyExpires, LockLapses

\* None of them brings a run past create or addSignal, and none settles or unsettles a signal.
LEMMA InnerAwaits ==
  ASSUME TypeOK, NEW s \in Signals,
         \/ Step(s) /\ ~Create(s) /\ ~AddSignal(s) /\ ~Finish(s)
         \/ Fail(s) \/ Crash(s) \/ Resent(s) \/ KeyExpires \/ LockLapses
  PROVE  /\ Settled' = Settled
         /\ \A t \in Signals : pc'[t] \in {"publish", "republish", "finish", "done"}
                                 => pc[t] \in {"publish", "republish", "finish", "done"}
<1> USE DEF TypeOK, Settled, GoTo, Take, Over, Restart
<1>1. CASE Step(s) /\ ~Create(s) /\ ~AddSignal(s) /\ ~Finish(s)
  BY <1>1 DEF Step, Start, GiveUp, AskExisting, AskAcquired, AskWait, LookupFound, LookupNone,
       CacheActive, Release, PeekFound, PeekNone, Publish, Publishes
<1>2. CASE Fail(s) \/ Crash(s) \/ Resent(s)
  BY <1>2 DEF Fail, Crash, Resent, Publishes
<1>3. CASE KeyExpires \/ LockLapses
  BY <1>3 DEF KeyExpires, LockLapses
<1> QED BY <1>1, <1>2, <1>3

\* The instance has its own copy of Cardinality.
LEMMA SameCardinality == \A S : Promise!Cardinality(S) = Cardinality(S)
BY DEF Promise!Cardinality, Cardinality

\* The two steps that link, and the one that settles.
LEMMA CreateOpens ==
  ASSUME IActive, NEW s \in Signals, Create(s)
  PROVE  /\ \E i \in Items : Promise!Open(s, i)
         /\ s \notin Settled /\ linked'[s] # {} /\ pc'[s] = "publish"
         /\ \A t \in Signals \ {s} : linked'[t] = linked[t] /\ pc'[t] = pc[t]
<1>1. PICK i \in Items : /\ status[i] = "absent"
                         /\ status' = [status EXCEPT ![i] = "active"]
                         /\ linked' = [linked EXCEPT ![s] = @ \cup {i}]
  BY DEF Create
<1>2. Cardinality(Active) <= overruns
  <2>1. IsFiniteSet(Creating) /\ s \in Creating
    BY CreatingBounded DEF IActive, Create, Creating
  <2>2. Cardinality(Creating) # 0
    BY <2>1, FS_EmptySet
  <2> QED BY <2>1, <2>2, FS_CardinalityType, BoundsAssumption DEF IActive, TypeOK
<1>3. pc' = [pc EXCEPT ![s] = "publish"] /\ pc[s] = "create" /\ overruns' = overruns
  BY DEF Create, GoTo
<1>4. Settled' = Settled /\ s \notin Settled
  BY <1>3 DEF IActive, TypeOK, Settled
<1>5. Promise!Open(s, i)
  <2>1. Active = {j \in Items : status[j] = "active"}
    BY DEF Active
  <2>2. Promise!Cardinality({j \in Items : status[j] = "active"}) <= overruns
    BY <1>2, <2>1, SameCardinality
  <2> QED BY <1>1, <1>3, <1>4, <2>2 DEF Promise!Open, Promise!Link
<1> QED BY <1>1, <1>3, <1>4, <1>5 DEF IActive, TypeOK

LEMMA AddLinks ==
  ASSUME TypeOK, TargetsExist, NEW s \in Signals, AddSignal(s)
  PROVE  /\ \E i \in Items : Promise!Add(s, i)
         /\ s \notin Settled /\ linked'[s] # {} /\ pc'[s] = "finish"
         /\ \A t \in Signals \ {s} : linked'[t] = linked[t] /\ pc'[t] = pc[t]
<1>1. target[s] \in Items /\ status[target[s]] # "absent"
  BY DEF TypeOK, TargetsExist, AddSignal
<1>2. /\ linked' = [linked EXCEPT ![s] = @ \cup {target[s]}]
      /\ pc' = [pc EXCEPT ![s] = "finish"] /\ pc[s] = "add"
      /\ status' = status /\ overruns' = overruns
  BY <1>1 DEF AddSignal, GoTo, TypeOK
<1>3. Settled' = Settled /\ s \notin Settled
  BY <1>2 DEF TypeOK, Settled
<1>4. Promise!Add(s, target[s])
  BY <1>1, <1>2, <1>3 DEF Promise!Add, Promise!Link
<1> QED BY <1>1, <1>2, <1>3, <1>4 DEF TypeOK

LEMMA FinishSettles ==
  ASSUME TypeOK, LinkedWhenPast, NEW s \in Signals, Finish(s)
  PROVE  /\ Promise!Settle(s) /\ s \notin Settled
         /\ \A t \in Signals : pc'[t] = pc[t] \/ t = s
<1>1. pc' = [pc EXCEPT ![s] = "done"] /\ pc[s] = "finish" /\ linked[s] # {}
  BY DEF Finish, Over, GoTo, LinkedWhenPast
<1>2. Settled' = Settled \cup {s} /\ s \notin Settled
  BY <1>1 DEF TypeOK, Settled
<1> QED BY <1>1, <1>2 DEF Promise!Settle, Finish, TypeOK

\* Who is past the link stays linked: no step takes a link away.
LEMMA StepPast ==
  ASSUME IPromise, [Next]_vars
  PROVE  LinkedWhenPast'
<1> USE DEF IPromise, IActive, LinkedWhenPast
<1>1. CASE UNCHANGED vars
  BY <1>1 DEF vars
<1>2. ASSUME NEW s \in Signals, Create(s) PROVE LinkedWhenPast'
  BY <1>2, CreateOpens
<1>3. ASSUME NEW s \in Signals, AddSignal(s) PROVE LinkedWhenPast'
  BY <1>3, AddLinks
<1>4. ASSUME NEW s \in Signals, Finish(s) PROVE LinkedWhenPast'
  <2>1. linked' = linked /\ pc[s] = "finish"
    BY <1>4 DEF Finish
  <2> QED BY <1>4, <2>1, FinishSettles
<1>5. ASSUME NEW s \in Signals,
             \/ Step(s) /\ ~Create(s) /\ ~AddSignal(s) /\ ~Finish(s)
             \/ Fail(s) \/ Crash(s) \/ Resent(s) \/ KeyExpires \/ LockLapses
      PROVE  LinkedWhenPast'
  BY <1>5, InnerSteps, InnerAwaits
<1>6. CASE KeyExpires \/ LockLapses \/ LockOverrun
  BY <1>6 DEF KeyExpires, LockLapses, LockOverrun
<1>7. ASSUME NEW i \in Items, Close(i) PROVE LinkedWhenPast'
  BY <1>7 DEF Close
<1> QED BY <1>1, <1>2, <1>3, <1>4, <1>5, <1>6, <1>7 DEF Next

\* Every step of the detailed specification is one of the promise's, or hidden.
LEMMA StepPromise ==
  ASSUME IPromise, [Next]_vars
  PROVE  [Promise!Next]_(Promise!civars)
<1> USE DEF IPromise
<1>1. CASE UNCHANGED vars
  BY <1>1 DEF vars, Promise!civars, Settled
<1>2. ASSUME NEW s \in Signals, Create(s) PROVE Promise!Next
  BY <1>2, CreateOpens DEF Promise!Next
<1>3. ASSUME NEW s \in Signals, AddSignal(s) PROVE Promise!Next
  BY <1>3, AddLinks DEF Promise!Next, IActive
<1>4. ASSUME NEW s \in Signals, Finish(s) PROVE Promise!Next
  BY <1>4, FinishSettles DEF Promise!Next, IActive
<1>5. ASSUME NEW s \in Signals,
             \/ Step(s) /\ ~Create(s) /\ ~AddSignal(s) /\ ~Finish(s)
             \/ Fail(s) \/ Crash(s) \/ Resent(s)
      PROVE  UNCHANGED Promise!civars
  BY <1>5, InnerSteps, InnerAwaits DEF Promise!civars, IActive
<1>6. CASE KeyExpires \/ LockLapses
  BY <1>6 DEF KeyExpires, LockLapses, Promise!civars, Settled
<1>7. CASE LockOverrun
  BY <1>7 DEF LockOverrun, Promise!Overrun, Promise!Next, Settled
<1>8. ASSUME NEW i \in Items, Close(i) PROVE Promise!Next
  BY <1>8 DEF Close, Promise!Close, Promise!Next, Settled
<1> QED BY <1>1, <1>2, <1>3, <1>4, <1>5, <1>6, <1>7, <1>8 DEF Next

\* The Lua scripts, TTLs, retries and SQL statements of deduplication implement the promise:
\* an incident is opened only while no more are active than locks have expired under their
\* owners, signals are linked to committed incidents only, no link is taken back, no closed
\* incident reopens, and a signal is processed only when an incident has counted it
\* (debounce.service.ts and step 3 of signal.processor.ts).
THEOREM DebounceImplementsPromise == Spec => Promise!Spec
<1>1. ASSUME Init PROVE IPromise /\ Promise!Init
  <2>1. TypeOK
    BY <1>1, NamesAssumption, MaxRetriesAssumption, BoundsAssumption DEF Init, TypeOK
  <2>2. Active = {} /\ Stale = {} /\ Creating = {} /\ Settled = {} /\ overruns = 0
    BY <1>1 DEF Init, Active, Stale, Creating, Settled
  <2>3. IActive
    BY <2>1, <2>2, FS_EmptySet DEF IActive
  <2>4. TargetsExist /\ NeverUncommitted /\ LinkedWhenPast
    BY <1>1 DEF Init, TargetsExist, NeverUncommitted, LinkedWhenPast
  <2> QED BY <1>1, <2>2, <2>3, <2>4 DEF IPromise, Init, Promise!Init
<1>2. IPromise /\ [Next]_vars => IPromise'
  BY StepBounded, StepExists, StepPast DEF IPromise, IActive
<1>3. IPromise /\ [Next]_vars => [Promise!Next]_(Promise!civars)
  BY StepPromise
<1> QED BY <1>1, <1>2, <1>3, PTL DEF Spec, Promise!Spec

-----------------------------------------------------------------------------
\* Whatever the producer sends, the INSERT of the incident gets a severity that the column
\* type severity_level has: no signal can be retried to death because of it.
THEOREM SeverityIsLegal ==
  ASSUME NEW signal \in Signal
  PROVE  SeverityOf(signal) \in Severity
BY DEF Signal, Severity, SeverityOf, DefaultSeverity

\* The severity that the producer claims moves no incident of a registered service up or down,
\* and only a database outage pages as P0 there.
THEOREM ProducerDoesNotDecide ==
  ASSUME NEW signal \in Signal, signal.service \in Registered, NEW claim \in Severity
  PROVE  /\ SeverityOf([signal EXCEPT !.raw = claim]) = SeverityOf(signal)
         /\ SeverityOf(signal) = "P0" <=> signal.service = "RDBMS"
         /\ SeverityOf(signal) # "P3"
<1>1. SeverityOf([signal EXCEPT !.raw = claim]) = SeverityOf(signal)
  <2> DEFINE other == [signal EXCEPT !.raw = claim]
  <2>1. /\ other.service = signal.service /\ other.timedOut = signal.timedOut
        /\ other.miss_rate_percent = signal.miss_rate_percent
        /\ other.missRate = signal.missRate /\ other.current_lag = signal.current_lag
    BY DEF Signal
  <2>2. MissRate(other) = MissRate(signal)
    BY <2>1 DEF MissRate
  <2> HIDE DEF other
  <2>3. SeverityOf(other) = SeverityOf(signal)
    BY <2>1, <2>2 DEF SeverityOf, Registered
  <2> QED BY <2>3 DEF other
<1> QED BY <1>1 DEF SeverityOf, Registered

\* The same signal of a cache or queue that is worse off is not less urgent, provided the rate
\* is reported under the same name: miss_rate_percent hides missRate as soon as it is not 0.
THEOREM WorseIsNotLessUrgent ==
  ASSUME NEW signal \in Signal, NEW worse \in Signal,
         worse.service = signal.service, worse.raw = signal.raw, worse.timedOut = signal.timedOut,
         worse.missRate >= signal.missRate, worse.current_lag >= signal.current_lag,
         \/ worse.miss_rate_percent = 0 /\ signal.miss_rate_percent = 0
         \/ signal.miss_rate_percent # 0 /\ worse.miss_rate_percent >= signal.miss_rate_percent
                                         /\ worse.miss_rate_percent # 0
  PROVE  Urgency(SeverityOf(worse)) >= Urgency(SeverityOf(signal))
<1>1. MissRate(worse) >= MissRate(signal) /\ MissRate(worse) \in Int /\ MissRate(signal) \in Int
  BY DEF Signal, MissRate
<1>2. worse.current_lag \in Int /\ signal.current_lag \in Int
  BY DEF Signal
<1>3. CASE signal.service \in Registered
  BY <1>1, <1>2, <1>3 DEF SeverityOf, Urgency, Registered
<1>4. CASE signal.service \notin Registered
  <2>1. SeverityOf(worse) = SeverityOf(signal)
    BY <1>4 DEF SeverityOf, DefaultSeverity, Registered
  <2>2. Urgency(SeverityOf(signal)) \in Int
    BY SeverityIsLegal DEF Severity, Urgency
  <2> QED BY <2>1, <2>2
<1> QED BY <1>3, <1>4
=============================================================================
