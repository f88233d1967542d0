------------------------------ MODULE Debounce ------------------------------
(***************************************************************************)
(* How the signals of one component find or create their work item:        *)
(*   workers/debounce.service.ts             resolveWorkItem, publish, locks *)
(*   workers/signal.processor.ts             steps 2 and 3 of process()      *)
(*   repositories/work-item.repository.ts    create, addSignal,              *)
(*                                           findActiveByComponent           *)
(* The Redis keys debounce:{component} and lock:debounce:{component} and the *)
(* work_items of one component are independent of those of other components, *)
(* so one component is modelled.                                            *)
(*                                                                         *)
(* A handler is the current run of SignalProcessor.process for a signal.  A  *)
(* failed, crashed or vain run is started again (module SignalPipeline says  *)
(* when) until INGEST_MAX_ATTEMPTS runs have begun; the next one only hands   *)
(* the signal to the dead letter queue.                                     *)
(* Each Lua script and each SQL statement is a step; other handlers, time    *)
(* and the operator who closes incidents come between any two of them.       *)
(***************************************************************************)
EXTENDS Integers, FiniteSets

CONSTANTS
  Signals,      \* signals of the component
  Items,        \* uuids that work items can get
  MaxRetries,   \* lockMaxRetries
  MaxAttempts,  \* INGEST_MAX_ATTEMPTS
  MaxOverruns,  \* bound: how often a lock expires under a live owner
  MaxFaults     \* bound: failed calls, commands sent twice and crashes

ASSUME NamesAssumption == Signals \cap {"none", "orphan"} = {} /\ "none" \notin Items
ASSUME MaxRetriesAssumption == MaxRetries \in Nat \ {0} /\ MaxAttempts \in Nat \ {0}
ASSUME BoundsAssumption == MaxOverruns \in Nat /\ MaxFaults \in Nat

VARIABLES
  key,       \* value of debounce:{component}, or "none"
  lock,      \* owner of the creator lock, "none", or "orphan": a token that no
             \* live run knows any more
  status,    \* work_items: "absent", "active" (not CLOSED) or "closed"
  linked,    \* work items that counted the signal (create or addSignal)
  pc,        \* await of the signal's run
  target,    \* workItemExternalId of the run
  tries,     \* iterations of the wait loop
  attempts,  \* ingest_ledger.attempt_count: runs begun, whatever became of them
  overruns, faults

vars == <<key, lock, status, linked, pc, target, tries, attempts, overruns, faults>>

\* Awaits of the run that has taken the lock in this resolution.
Owning == {"lookup", "cacheOwned", "release", "create", "publish"}
\* Awaits of a run that has found a work item.
Found == {"cacheOwned", "cache", "release", "publish", "republish", "add"}

Active == {i \in Items : status[i] = "active"}

Init ==
  /\ key = "none" /\ lock = "none"
  /\ status = [i \in Items |-> "absent"]
  /\ linked = [s \in Signals |-> {}]
  /\ pc = [s \in Signals |-> "ready"]
  /\ target = [s \in Signals |-> "none"]
  /\ tries = [s \in Signals |-> 0]
  /\ attempts = [s \in Signals |-> 0]
  /\ overruns = 0 /\ faults = 0

GoTo(s, p) == pc' = [pc EXCEPT ![s] = p]
Take(s, i) == target' = [target EXCEPT ![s] = i]

\* Mutant: DEL without the comparison of RELEASE_LOCK_SCRIPT.
UncheckedDelete(s) == "none"

\* RELEASE_LOCK_SCRIPT: delete the lock if it still holds this run's token.
Unlocked(s) == IF lock = s THEN "none" ELSE lock

\* The lock when a run ends without releasing it.
Orphaned(s) == IF lock = s THEN "orphan" ELSE lock

\* The run is over; its variables are gone.
Over(s, p) ==
  /\ GoTo(s, p) /\ Take(s, "none")
  /\ tries' = [tries EXCEPT ![s] = 0]

\* The signal waits for its next run.
Restart(s) == Over(s, "ready")

-----------------------------------------------------------------------------
(* beginProcessing, and DebounceService.resolveWorkItem.                   *)

\* A run begins: that alone counts as an attempt.
Start(s) ==
  /\ pc[s] = "ready" /\ attempts[s] < MaxAttempts
  /\ attempts' = [attempts EXCEPT ![s] = @ + 1]
  /\ GoTo(s, "ask")
  /\ UNCHANGED <<key, lock, status, linked, target, tries, overruns, faults>>

\* The run after the last attempt: handoffToDlq.  (What may go wrong in it is the
\* subject of module SignalPipeline.)
GiveUp(s) ==
  /\ pc[s] = "ready" /\ attempts[s] = MaxAttempts
  /\ GoTo(s, "dead")
  /\ UNCHANGED <<key, lock, status, linked, target, tries, attempts, overruns, faults>>

\* GET_OR_ACQUIRE_SCRIPT: EXISTING.
AskExisting(s) ==
  /\ pc[s] = "ask" /\ key # "none"
  /\ Take(s, key) /\ GoTo(s, "add")
  /\ UNCHANGED <<key, lock, status, linked, tries, attempts, overruns, faults>>

\* ACQUIRED: SET lock NX.
AskAcquired(s) ==
  /\ pc[s] = "ask" /\ key = "none" /\ lock = "none"
  /\ lock' = s
  /\ GoTo(s, "lookup")
  /\ UNCHANGED <<key, status, linked, target, tries, attempts, overruns, faults>>

\* WAIT.
AskWait(s) ==
  /\ pc[s] = "ask" /\ key = "none" /\ lock # "none"
  /\ GoTo(s, "peek")
  /\ UNCHANGED <<key, lock, status, linked, target, tries, attempts, overruns, faults>>

\* findActiveByComponent of the owner: reuse an active incident, or be the one
\* that creates.  With several active ones created_at decides; any is possible.
\* Mutant: any incident of the component is found, whatever its status is.
LookupFoundClosed(s) ==
  /\ pc[s] = "lookup"
  /\ \E i \in Items : status[i] # "absent" /\ Take(s, i)
  /\ GoTo(s, "cacheOwned")
  /\ UNCHANGED <<key, lock, status, linked, tries, attempts, overruns, faults>>

LookupFound(s) ==
  /\ pc[s] = "lookup"
  /\ \E i \in Active : Take(s, i)
  /\ GoTo(s, "cacheOwned")
  /\ UNCHANGED <<key, lock, status, linked, tries, attempts, overruns, faults>>

\* Mutant: the new uuid is published before its work item exists.
LookupNonePublishes(s) ==
  /\ pc[s] = "lookup" /\ Active = {}
  /\ \E i \in Items : status[i] = "absent" /\ key' = i
  /\ GoTo(s, "create")
  /\ UNCHANGED <<lock, status, linked, target, tries, attempts, overruns, faults>>

\* Mutant: the lock owner creates without asking PostgreSQL for an active item.
LookupSkipped(s) ==
  /\ pc[s] = "lookup"
  /\ GoTo(s, "create")
  /\ UNCHANGED <<key, lock, status, linked, target, tries, attempts, overruns, faults>>

LookupNone(s) ==
  /\ pc[s] = "lookup" /\ Active = {}
  /\ GoTo(s, "create")
  /\ UNCHANGED <<key, lock, status, linked, target, tries, attempts, overruns, faults>>

\* The unconditional SET .. EX of findAndCacheActiveWorkItem, of owner and waiter.
CacheActive(s) ==
  /\ pc[s] \in {"cacheOwned", "cache"}
  /\ key' = target[s]
  /\ GoTo(s, IF pc[s] = "cacheOwned" THEN "release" ELSE "add")
  /\ UNCHANGED <<lock, status, linked, target, tries, attempts, overruns, faults>>

\* releaseLock of an owner that reuses; its errors are swallowed.
Release(s) ==
  /\ pc[s] = "release"
  /\ \/ lock' = Unlocked(s) /\ UNCHANGED faults
     \/ lock' = Orphaned(s) /\ faults < MaxFaults /\ faults' = faults + 1
  /\ GoTo(s, "add")
  /\ UNCHANGED <<key, status, linked, target, tries, attempts, overruns>>

\* findActiveByComponent of a waiter.
PeekFound(s) ==
  /\ pc[s] = "peek"
  /\ \E i \in Active : Take(s, i)
  /\ GoTo(s, "cache")
  /\ UNCHANGED <<key, lock, status, linked, tries, attempts, overruns, faults>>

\* Mutant: one round too many.
PeekNoneTooOften(s) ==
  /\ pc[s] = "peek" /\ Active = {}
  /\ IF tries[s] < MaxRetries
     THEN tries' = [tries EXCEPT ![s] = @ + 1] /\ GoTo(s, "ask") /\ UNCHANGED target
     ELSE Restart(s)
  /\ UNCHANGED <<key, lock, status, linked, attempts, overruns, faults>>

\* Mutant: process() swallows DebounceResolutionInProgressError and goes on.
PeekNoneSwallowed(s) ==
  /\ pc[s] = "peek" /\ Active = {}
  /\ IF tries[s] + 1 < MaxRetries
     THEN tries' = [tries EXCEPT ![s] = @ + 1] /\ GoTo(s, "ask")
     ELSE UNCHANGED tries /\ GoTo(s, "finish")
  /\ UNCHANGED <<key, lock, status, linked, target, attempts, overruns, faults>>

\* Nothing to reuse: sleep and ask again, up to lockMaxRetries times; then
\* DebounceResolutionInProgressError ends the run, its attempt is spent.
PeekNone(s) ==
  /\ pc[s] = "peek" /\ Active = {}
  /\ IF tries[s] + 1 < MaxRetries
     THEN tries' = [tries EXCEPT ![s] = @ + 1] /\ GoTo(s, "ask") /\ UNCHANGED target
     ELSE Restart(s)
  /\ UNCHANGED <<key, lock, status, linked, attempts, overruns, faults>>

-----------------------------------------------------------------------------
(* Step 3 of SignalProcessor.process.                                      *)

\* workItem.create: a fresh uuid, status OPEN, signal_count 1, one transaction.
Create(s) ==
  /\ pc[s] = "create"
  /\ \E i \in Items :
       /\ status[i] = "absent"
       /\ status' = [status EXCEPT ![i] = "active"]
       /\ linked' = [linked EXCEPT ![s] = @ \cup {i}]
       /\ Take(s, i)
  /\ GoTo(s, "publish")
  /\ UNCHANGED <<key, lock, tries, attempts, overruns, faults>>

\* PUBLISH_NEW_WORK_ITEM_SCRIPT: the owner publishes and unlocks; a run that has
\* lost its lock, or whose script runs again, publishes only where there is no key.
Publishes(s) ==
  /\ key' = IF lock = s \/ key = "none" THEN target[s] ELSE key
  /\ lock' = Unlocked(s)

Publish(s) ==
  /\ pc[s] \in {"publish", "republish"}
  /\ Publishes(s)
  /\ GoTo(s, "finish")
  /\ UNCHANGED <<status, linked, target, tries, attempts, overruns, faults>>

\* workItem.addSignal: UPDATE .. WHERE external_id, whatever the status is.
AddSignal(s) ==
  /\ pc[s] = "add"
  /\ linked' = [linked EXCEPT ![s] = IF status[target[s]] = "absent" THEN @ ELSE @ \cup {target[s]}]
  /\ GoTo(s, "finish")
  /\ UNCHANGED <<key, lock, status, target, tries, attempts, overruns, faults>>

\* The rest of process() succeeds.
Finish(s) ==
  /\ pc[s] = "finish"
  /\ Over(s, "done")
  /\ UNCHANGED <<key, lock, status, linked, attempts, overruns, faults>>

-----------------------------------------------------------------------------
(* Failures and time.                                                      *)

Fault == faults < MaxFaults /\ faults' = faults + 1

\* The connection breaks after the server ran the command: ioredis sends it once more.
\* The second GET_OR_ACQUIRE finds a lock, its own, and answers WAIT; nobody will
\* release that lock.  A second publish or SET .. EX comes when others may have acted.
Resent(s) ==
  /\ Fault
  /\ \/ /\ pc[s] = "ask" /\ key = "none" /\ lock = "none"
        /\ lock' = "orphan" /\ UNCHANGED <<key, pc>>
     \/ /\ pc[s] \in {"cacheOwned", "cache"}
        /\ key' = target[s] /\ UNCHANGED <<lock, pc>>
     \/ /\ pc[s] = "publish"
        /\ Publishes(s) /\ GoTo(s, "republish")
  /\ UNCHANGED <<status, linked, target, tries, attempts, overruns>>

\* An await throws.  While the lock is held the error path releases it
\* (resolveWorkItem's catch, abandonPendingWorkItem), unless that fails too.
\* releaseLock itself never throws.
Fail(s) ==
  /\ pc[s] \notin {"ready", "release", "done", "dead"} /\ Fault
  /\ lock' \in IF pc[s] \in Owning THEN {Unlocked(s), Orphaned(s)} ELSE {lock}
  /\ Restart(s)
  /\ UNCHANGED <<key, status, linked, attempts, overruns>>

\* The worker process dies; its token is forgotten.
Crash(s) ==
  /\ pc[s] \notin {"ready", "done", "dead"} /\ Fault
  /\ lock' = Orphaned(s)
  /\ Restart(s)
  /\ UNCHANGED <<key, status, linked, attempts, overruns>>

\* DEBOUNCE_TTL_SEC passes (or the key is evicted).
KeyExpires ==
  /\ key # "none" /\ key' = "none"
  /\ UNCHANGED <<lock, status, linked, pc, target, tries, attempts, overruns, faults>>

\* Mutant: SET .. NX without EX.
LockNeverLapses == lock = "orphan" /\ UNCHANGED vars

\* DEBOUNCE_CREATION_LOCK_TTL_SEC passes after its owner is gone.
LockLapses ==
  /\ lock = "orphan" /\ lock' = "none"
  /\ UNCHANGED <<key, status, linked, pc, target, tries, attempts, overruns, faults>>

\* It passes while the owner is still at work.
LockOverrun ==
  /\ lock \in Signals /\ lock' = "none"
  /\ overruns < MaxOverruns /\ overruns' = overruns + 1
  /\ UNCHANGED <<key, status, linked, pc, target, tries, attempts, faults>>

\* The operator closes the incident (module IncidentLifecycle); Redis is not told.
Close(i) ==
  /\ status[i] = "active"
  /\ status' = [status EXCEPT ![i] = "closed"]
  /\ UNCHANGED <<key, lock, linked, pc, target, tries, attempts, overruns, faults>>

-----------------------------------------------------------------------------
Step(s) ==
  \/ Start(s) \/ GiveUp(s) \/ AskExisting(s) \/ AskAcquired(s) \/ AskWait(s)
  \/ LookupFound(s) \/ LookupNone(s) \/ CacheActive(s) \/ Release(s)
  \/ PeekFound(s) \/ PeekNone(s)
  \/ Create(s) \/ Publish(s) \/ AddSignal(s) \/ Finish(s)

Next ==
  \/ \E s \in Signals : Step(s) \/ Fail(s) \/ Crash(s) \/ Resent(s)
  \/ \E i \in Items : Close(i)
  \/ KeyExpires \/ LockLapses \/ LockOverrun

Spec == Init /\ [][Next]_vars

\* Handlers run and are redelivered; the TTL of an abandoned lock runs out.
FairSpec == Spec /\ WF_vars(LockLapses) /\ \A s \in Signals : WF_vars(Step(s))

-----------------------------------------------------------------------------
(* Properties.                                                             *)

\* Types; a run that has found or created an item knows which.
TypeOK ==
  /\ key \in Items \cup {"none"}
  /\ lock \in Signals \cup {"none", "orphan"}
  /\ status \in [Items -> {"absent", "active", "closed"}]
  /\ linked \in [Signals -> SUBSET Items]
  /\ pc \in [Signals -> Owning \cup Found \cup {"ready", "ask", "peek", "finish", "done", "dead"}]
  /\ target \in [Signals -> Items \cup {"none"}]
  /\ \A s \in Signals : pc[s] \in Found => target[s] \in Items
  /\ tries \in [Signals -> 0 .. MaxRetries - 1]
  /\ attempts \in [Signals -> 0 .. MaxAttempts]
  /\ overruns \in 0 .. MaxOverruns
  /\ faults \in 0 .. MaxFaults

\* The debounce key never names an uncommitted incident, so the UPDATE of a
\* signal that is added always finds its row (publish after create).
NeverUncommitted ==
  /\ key # "none" => status[key] # "absent"
  /\ \A s \in Signals : pc[s] = "add" => status[target[s]] # "absent"

\* Deduplication up to overruns: every lock that expires under its owner costs at
\* most one more simultaneously active incident, whatever fails, crashes, expires
\* or is closed.
ActiveBounded == Cardinality(Active) <= 1 + overruns

\* A run that needs the lock keeps it until its TTL: the release or publish of a
\* run whose own lock has expired never frees the lock of its successor.
OnlyOwnerUnlocks ==
  [][\A s \in Signals :
       lock = s /\ lock' # s => overruns' > overruns \/ pc'[s] \notin Owning]_vars

\* The incident is closed, the debounce key does not name it, and no run that has resolved
\* its component to it is under way.
Quiet(i) ==
  /\ status[i] = "closed" /\ key # i
  /\ \A s \in Signals : pc[s] \in Found => target[s] # i

\* The key may outlive the incident, and signals of a new outage are then added to a closed
\* one: but only as long as the key or a run from before names it.  Neither a lookup nor a
\* late publish or cache write brings a closed incident back.
ClosedStaysQuiet ==
  [][\A i \in Items : Quiet(i) =>
       Quiet(i)' /\ \A s \in Signals : i \in linked'[s] => i \in linked[s]]_vars

\* Every signal ends up counted by a work item or in the dead letter queue.  Waiting for the
\* lock of another run can use up all its attempts although no call ever failed, but then
\* the run that it waited for gets its own signal counted: not all of them give up.
EverySignalSettles ==
  \A s \in Signals :
    <>(\/ pc[s] = "done" /\ linked[s] # {}
       \/ pc[s] = "dead" /\ (faults > 0 \/ \E t \in Signals : linked[t] # {}))
=============================================================================
