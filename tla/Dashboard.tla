------------------------------ MODULE Dashboard ------------------------------
(***************************************************************************)
(* The Redis projection of active incidents behind the live feed:          *)
(*   workers/dashboard-cache.service.ts        onIncidentCreated, ..Updated, *)
(*                                             onStatusChanged              *)
(*   repositories/dashboard-state.repository.ts   the Redis commands         *)
(*   dashboard/dashboard.service.ts            getLiveFeed and reconciliation *)
(* A writer is a signal worker or a status request: it commits to work_items *)
(* and then refreshes the projection from what it reads there.  A reader is  *)
(* a page that polls one tab (frontend/src/pages/LiveFeed.tsx); what it finds *)
(* missing it backfills.  Postgres decides, nothing orders the refreshes.    *)
(* The feed's limits (50 and 100 ids) are above the number of incidents here; *)
(* the tab CLOSED reads Postgres only and is left out.                       *)
(***************************************************************************)
EXTENDS Naturals, FiniteSets

CONSTANTS
  Incidents,
  Writers,      \* concurrent signal runs and status requests
  Readers,      \* concurrent live feed pages
  TabOf,        \* the tab a page polls: an active status or "ALL"
  MaxSignals,   \* bound: signals per incident
  MaxFaults     \* bound: failed calls, crashes and evicted keys

ActiveStatus == {"OPEN", "INVESTIGATING", "RESOLVED"}

ASSUME TabOfAssumption == TabOf \in [Readers -> ActiveStatus \cup {"ALL"}]
ASSUME MaxSignalsAssumption == MaxSignals \in Nat \ {0}
ASSUME MaxFaultsAssumption == MaxFaults \in Nat

\* The fields of a summary that change: status and signal_count.
Summary == [status : ActiveStatus \cup {"ABSENT", "CLOSED"}, signals : 0 .. MaxSignals]
NoSummary == [status |-> "ABSENT", signals |-> 0]

\* The lifecycle (module IncidentLifecycle): the only successor of a status.
Successor == [OPEN |-> "INVESTIGATING", INVESTIGATING |-> "RESOLVED", RESOLVED |-> "CLOSED"]

NoJob == [kind |-> "none"]

VARIABLES
  row,      \* work_items
  ids,      \* sorted sets dashboard:open, dashboard:investigating, dashboard:resolved
  hash,     \* hashes incident:{external_id}
  pc, job, view,        \* of writers: await, cause of the refresh, summary read
  at, wanted, valid, rows,   \* of readers: await, ids being looked up, whether
                             \* other ids were valid, rows to warm the cache with
  clean,    \* history: incidents whose latest refresh ran alone and to the end
  faults

table == row
cache == <<ids, hash>>
writer == <<pc, job, view>>
reader == <<at, wanted, valid, rows>>
vars == <<row, ids, hash, pc, job, view, at, wanted, valid, rows, clean, faults>>

Init ==
  /\ row = [i \in Incidents |-> NoSummary]
  /\ ids = [s \in ActiveStatus |-> {}]
  /\ hash = [i \in Incidents |-> NoSummary]
  /\ pc = [w \in Writers |-> "idle"]
  /\ job = [w \in Writers |-> NoJob]
  /\ view = [w \in Writers |-> NoSummary]
  /\ at = [r \in Readers |-> "idle"]
  /\ wanted = [r \in Readers |-> {}]
  /\ valid = [r \in Readers |-> FALSE]
  /\ rows = [r \in Readers |-> <<>>]
  /\ clean = {} /\ faults = 0

Fault == faults < MaxFaults /\ faults' = faults + 1

\* Somebody is about to change the projection of i.
Touched(i) ==
  \/ \E w \in Writers : pc[w] # "idle" /\ job[w].inc = i
  \/ \E r \in Readers : at[r] \in {"prune", "backfill", "warm"} /\ i \in wanted[r]

-----------------------------------------------------------------------------
(* Writers: commit to Postgres, then call DashboardCacheService.           *)

\* The commit of writer w on incident i, with the refresh it leads to.
Commit(w, i, new, refresh) ==
  /\ pc[w] = "idle"
  /\ row' = [row EXCEPT ![i] = new]
  /\ job' = [job EXCEPT ![w] = refresh]
  /\ pc' = [pc EXCEPT ![w] = IF refresh.kind = "closed" THEN "write" ELSE "read"]
  /\ clean' = IF Touched(i) THEN clean \ {i} ELSE clean \cup {i}
  /\ UNCHANGED <<cache, view, reader, faults>>

\* WorkItemService.create, then onIncidentCreated.
Create(w, i) ==
  /\ row[i].status = "ABSENT"
  /\ Commit(w, i, [status |-> "OPEN", signals |-> 1], [kind |-> "created", inc |-> i])

\* addSignal, whatever the status is, then onIncidentUpdated.
AddSignal(w, i) ==
  /\ row[i].status # "ABSENT" /\ row[i].signals < MaxSignals
  /\ Commit(w, i, [row[i] EXCEPT !.signals = @ + 1], [kind |-> "updated", inc |-> i])

\* WorkflowService.transition, then onStatusChanged.
Transition(w, i) ==
  /\ row[i].status \in ActiveStatus
  /\ LET old == row[i].status
         new == Successor[old]
     IN  Commit(w, i, [row[i] EXCEPT !.status = new],
                [kind |-> IF new = "CLOSED" THEN "closed" ELSE "changed",
                 inc |-> i, old |-> old, new |-> new])

Goto(w, p) == pc' = [pc EXCEPT ![w] = p]

\* The refresh returns.
Done(w) ==
  /\ Goto(w, "idle")
  /\ job' = [job EXCEPT ![w] = NoJob]
  /\ view' = [view EXCEPT ![w] = NoSummary]

\* Mutant: the service counts the signal itself on top of what Postgres says.
ReadSummaryCounts(w) ==
  /\ pc[w] = "read"
  /\ LET now == row[job[w].inc]
     IN  /\ view' = [view EXCEPT ![w] = [now EXCEPT !.signals = IF @ < MaxSignals THEN @ + 1 ELSE @]]
         /\ Goto(w, IF job[w].kind = "updated" /\ now.status = "CLOSED" THEN "prune" ELSE "write")
  /\ UNCHANGED <<table, cache, job, reader, clean, faults>>

\* Mutant: onIncidentUpdated does not ask whether the incident is CLOSED.
ReadSummaryUnchecked(w) ==
  /\ pc[w] = "read"
  /\ view' = [view EXCEPT ![w] = row[job[w].inc]]
  /\ Goto(w, "write")
  /\ UNCHANGED <<table, cache, job, reader, clean, faults>>

\* findDashboardSummaryByExternalId; the row exists.  Only onIncidentUpdated asks
\* whether it is CLOSED.
ReadSummary(w) ==
  /\ pc[w] = "read"
  /\ LET now == row[job[w].inc]
     IN  /\ view' = [view EXCEPT ![w] = now]
         /\ Goto(w, IF job[w].kind = "updated" /\ now.status = "CLOSED" THEN "prune" ELSE "write")
  /\ UNCHANGED <<table, cache, job, reader, clean, faults>>

\* addNewIncident: ZADD dashboard:open, whatever the status is by now; HSET.
WriteCreated(w) ==
  /\ pc[w] = "write" /\ job[w].kind = "created"
  /\ ids' = [ids EXCEPT !["OPEN"] = @ \cup {job[w].inc}]
  /\ hash' = [hash EXCEPT ![job[w].inc] = view[w]]
  /\ Done(w)
  /\ UNCHANGED <<table, reader, clean, faults>>

\* upsertActiveIncidentProjection: ZADD, HSET, no ZREM from the other sets.
WriteUpdated(w) ==
  /\ pc[w] = "write" /\ job[w].kind = "updated"
  /\ ids' = [ids EXCEPT ![view[w].status] = @ \cup {job[w].inc}]
  /\ hash' = [hash EXCEPT ![job[w].inc] = view[w]]
  /\ Done(w)
  /\ UNCHANGED <<table, reader, clean, faults>>

\* removeFromAllStateSets, and then deleteIncidentSummary, of a CLOSED incident.
PruneClosed(w) ==
  /\ pc[w] = "prune"
  /\ ids' = [s \in ActiveStatus |-> ids[s] \ {job[w].inc}]
  /\ Goto(w, "delete")
  /\ UNCHANGED <<table, hash, job, view, reader, clean, faults>>

DeleteClosed(w) ==
  /\ pc[w] = "delete"
  /\ hash' = [hash EXCEPT ![job[w].inc] = NoSummary]
  /\ Done(w)
  /\ UNCHANGED <<table, ids, reader, clean, faults>>

\* Mutant: moveIncidentState leaves the summary alone.
WriteMovedIdOnly(w) ==
  /\ pc[w] = "write" /\ job[w].kind = "changed"
  /\ ids' = [ids EXCEPT ![job[w].old] = @ \ {job[w].inc}, ![job[w].new] = @ \cup {job[w].inc}]
  /\ Done(w)
  /\ UNCHANGED <<table, hash, reader, clean, faults>>

\* moveIncidentState: from the old set to the new one, with the summary read.
WriteMoved(w) ==
  /\ pc[w] = "write" /\ job[w].kind = "changed"
  /\ ids' = [ids EXCEPT ![job[w].old] = @ \ {job[w].inc}, ![job[w].new] = @ \cup {job[w].inc}]
  /\ hash' = [hash EXCEPT ![job[w].inc] = view[w]]
  /\ Done(w)
  /\ UNCHANGED <<table, reader, clean, faults>>

\* moveIncidentState to CLOSED: ZREM from the old set, DEL.
WriteClosed(w) ==
  /\ pc[w] = "write" /\ job[w].kind = "closed"
  /\ ids' = [ids EXCEPT ![job[w].old] = @ \ {job[w].inc}]
  /\ hash' = [hash EXCEPT ![job[w].inc] = NoSummary]
  /\ Done(w)
  /\ UNCHANGED <<table, reader, clean, faults>>

\* A call of the refresh throws (logged and swallowed), or the process dies.
RefreshFails(w) ==
  /\ pc[w] # "idle" /\ Fault
  /\ clean' = clean \ {job[w].inc}
  /\ Done(w)
  /\ UNCHANGED <<table, cache, reader>>

-----------------------------------------------------------------------------
(* Readers: getLiveFeed.                                                   *)

\* The summary belongs on the tab.
Belongs(r, summary) ==
  IF TabOf[r] = "ALL" THEN summary.status \in ActiveStatus ELSE summary.status = TabOf[r]

Listed(r) == IF TabOf[r] = "ALL" THEN UNION {ids[s] : s \in ActiveStatus} ELSE ids[TabOf[r]]

Turn(r, p) == at' = [at EXCEPT ![r] = p]
Look(r, some) == wanted' = [wanted EXCEPT ![r] = some]

\* The request is answered, and its fire-and-forget warmCache has ended.
Answer(r) ==
  /\ Turn(r, "idle") /\ Look(r, {})
  /\ valid' = [valid EXCEPT ![r] = FALSE]
  /\ rows' = [rows EXCEPT ![r] = <<>>]

\* getIdsByStatus or getAllActiveIds; without ids, Postgres.
ReadIds(r) ==
  /\ at[r] = "idle"
  /\ Look(r, Listed(r))
  /\ Turn(r, IF Listed(r) = {} THEN "feed" ELSE "hashes")
  /\ UNCHANGED <<table, cache, writer, valid, rows, clean, faults>>

\* loadIncidentSummaries.  Cache HIT: every id has a summary that belongs here.
Hit(r) ==
  /\ at[r] = "hashes" /\ \A i \in wanted[r] : Belongs(r, hash[i])
  /\ Answer(r)
  /\ UNCHANGED <<table, cache, writer, clean, faults>>

\* Some ids have no summary or one of another status.
Mismatch(r) ==
  LET unresolved == {i \in wanted[r] : ~Belongs(r, hash[i])}
  IN  /\ at[r] = "hashes" /\ unresolved # {}
      /\ Look(r, unresolved)
      /\ valid' = [valid EXCEPT ![r] = unresolved # wanted[r]]
      /\ clean' = clean \ unresolved
      /\ Turn(r, "prune")
      /\ UNCHANGED <<table, cache, writer, rows, faults>>

\* Mutant: the stale ids are only logged.
PruneNothing(r) ==
  /\ at[r] = "prune"
  /\ Turn(r, "backfill")
  /\ UNCHANGED <<table, cache, writer, wanted, valid, rows, clean, faults>>

\* reconcileCachedIncidents: removeFromAllStateSets.
Prune(r) ==
  /\ at[r] = "prune"
  /\ ids' = [s \in ActiveStatus |-> ids[s] \ wanted[r]]
  /\ Turn(r, "backfill")
  /\ UNCHANGED <<table, hash, writer, wanted, valid, rows, clean, faults>>

\* The rows of the incidents in some that belong on the tab, to be cached.
Fetch(r, some) ==
  LET found == {i \in some : Belongs(r, row[i])}
  IN  /\ found # {}
      /\ rows' = [rows EXCEPT ![r] = [i \in found |-> row[i]]]
      /\ Look(r, found)
      /\ clean' = clean \ found
      /\ Turn(r, "warm")

\* findDashboardSummariesByExternalIds.
Backfill(r) ==
  /\ at[r] = "backfill"
  /\ Fetch(r, wanted[r])
  /\ UNCHANGED <<table, cache, writer, valid, faults>>

\* It finds nothing: answer with the valid ids, or ask for the whole feed.
BackfillNone(r) ==
  /\ at[r] = "backfill" /\ \A i \in wanted[r] : ~Belongs(r, row[i])
  /\ IF valid[r] THEN Answer(r) ELSE Turn(r, "feed") /\ UNCHANGED <<wanted, valid, rows>>
  /\ UNCHANGED <<table, cache, writer, clean, faults>>

\* getLiveFeedFromPostgres.
Feed(r) ==
  /\ at[r] = "feed"
  /\ Fetch(r, Incidents)
  /\ UNCHANGED <<table, cache, writer, valid, faults>>

FeedNone(r) ==
  /\ at[r] = "feed" /\ \A i \in Incidents : ~Belongs(r, row[i])
  /\ Answer(r)
  /\ UNCHANGED <<table, cache, writer, clean, faults>>

\* warmCache.
Warm(r) ==
  /\ at[r] = "warm"
  /\ hash' = [i \in Incidents |-> IF i \in wanted[r] THEN rows[r][i] ELSE hash[i]]
  /\ ids' = [s \in ActiveStatus |-> ids[s] \cup {i \in wanted[r] : rows[r][i].status = s}]
  /\ Answer(r)
  /\ UNCHANGED <<table, writer, clean, faults>>

\* A call throws: the catch blocks turn to Postgres, or go on without the write.
ReadFails(r) ==
  /\ Fault
  /\ \/ at[r] \in {"idle", "hashes", "backfill"} /\ Turn(r, "feed") /\ UNCHANGED <<wanted, valid, rows>>
     \/ at[r] = "prune" /\ Turn(r, "backfill") /\ UNCHANGED <<wanted, valid, rows>>
     \/ at[r] \in {"feed", "warm"} /\ Answer(r)
  /\ UNCHANGED <<table, cache, writer, clean>>

-----------------------------------------------------------------------------
\* allkeys-lru: Redis evicts a hash or a whole sorted set.
Evict ==
  /\ Fault
  /\ \/ \E i \in Incidents :
          /\ hash[i] # NoSummary
          /\ hash' = [hash EXCEPT ![i] = NoSummary]
          /\ clean' = clean \ {i} /\ UNCHANGED ids
     \/ \E s \in ActiveStatus :
          /\ ids[s] # {}
          /\ ids' = [ids EXCEPT ![s] = {}]
          /\ clean' = clean \ ids[s] /\ UNCHANGED hash
  /\ UNCHANGED <<table, writer, reader>>

Write(w) ==
  \/ ReadSummary(w) \/ WriteCreated(w) \/ WriteUpdated(w) \/ PruneClosed(w)
  \/ DeleteClosed(w) \/ WriteMoved(w) \/ WriteClosed(w)

Read(r) ==
  \/ ReadIds(r) \/ Hit(r) \/ Mismatch(r) \/ Prune(r) \/ Backfill(r)
  \/ BackfillNone(r) \/ Feed(r) \/ FeedNone(r) \/ Warm(r)

Next ==
  \/ \E w \in Writers : \/ \E i \in Incidents : Create(w, i) \/ AddSignal(w, i) \/ Transition(w, i)
                        \/ Write(w) \/ RefreshFails(w)
  \/ \E r \in Readers : Read(r) \/ ReadFails(r)
  \/ Evict

Spec == Init /\ [][Next]_vars

\* A refresh runs to its end, and the pages keep polling.
FairSpec ==
  /\ Spec
  /\ \A w \in Writers : WF_vars(Write(w))
  /\ \A r \in Readers : WF_vars(Read(r))

-----------------------------------------------------------------------------
(* Properties.                                                             *)

Jobs ==
  {NoJob} \cup [kind : {"created", "updated"}, inc : Incidents]
  \cup [kind : {"changed"}, inc : Incidents, old : ActiveStatus, new : ActiveStatus]
  \cup [kind : {"closed"}, inc : Incidents, old : ActiveStatus, new : {"CLOSED"}]

\* Types; a writer that is about to write an update has an active summary.
TypeOK ==
  /\ row \in [Incidents -> Summary]
  /\ ids \in [ActiveStatus -> SUBSET Incidents]
  /\ hash \in [Incidents -> Summary]
  /\ pc \in [Writers -> {"idle", "read", "write", "prune", "delete"}]
  /\ job \in [Writers -> Jobs]
  /\ \A w \in Writers :
       /\ pc[w] = "idle" <=> job[w] = NoJob
       /\ pc[w] = "write" /\ job[w].kind = "updated" => view[w].status \in ActiveStatus
  /\ view \in [Writers -> Summary]
  /\ at \in [Readers -> {"idle", "hashes", "prune", "backfill", "feed", "warm"}]
  /\ wanted \in [Readers -> SUBSET Incidents]
  /\ valid \in [Readers -> BOOLEAN]
  /\ rows \in [Readers -> UNION {[some -> Summary] : some \in SUBSET Incidents}]
  /\ \A r \in Readers : at[r] = "warm" => DOMAIN rows[r] = wanted[r]
  /\ clean \subseteq Incidents
  /\ faults \in 0 .. MaxFaults

Rank == [ABSENT |-> 0, OPEN |-> 1, INVESTIGATING |-> 2, RESOLVED |-> 3, CLOSED |-> 4]

\* The projection never runs ahead of Postgres: whatever overlaps, fails or is
\* evicted, a summary is a state that the incident has been in (refresh after
\* COMMIT, from what was read).
NeverAhead ==
  \A i \in Incidents :
    Rank[hash[i].status] <= Rank[row[i].status] /\ hash[i].signals <= row[i].signals

\* An incident whose latest refresh ran to its end without another one of the same
\* incident in between is projected exactly, however wrong the projection was
\* before, and stays so until somebody touches it again.
LoneRefreshIsExact ==
  \A i \in clean : ~Touched(i) =>
    IF row[i].status = "CLOSED" THEN hash[i] = NoSummary
                                ELSE hash[i] = row[i] /\ i \in ids[row[i].status]

\* A listed id without a summary (its hash evicted, or deleted by a close that
\* knew only one of the sets the id was in) is pruned or backfilled by the pages
\* that poll, although refreshes write old summaries at the same time.
DanglingIsRepaired ==
  \A i \in Incidents : \A s \in ActiveStatus :
    i \in ids[s] /\ hash[i] = NoSummary ~> i \notin ids[s] \/ hash[i] # NoSummary

-----------------------------------------------------------------------------
(* What the documentation says and the code does not do.                   *)

\* architecture.md: when an incident becomes CLOSED its projection is removed.
ClosedIsRemoved ==
  \A i \in Incidents : row[i].status = "CLOSED" /\ ~Touched(i) =>
    hash[i] = NoSummary /\ \A s \in ActiveStatus : i \notin ids[s]
=============================================================================
