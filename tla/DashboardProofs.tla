--------------------------- MODULE DashboardProofs ---------------------------
(* Proofs about the projection of the live feed (Dashboard).                 *)
EXTENDS Dashboard, TLAPS

-----------------------------------------------------------------------------
(* Summaries, as old as they may be.                                       *)

\* An incident that was s may have become t.
Below(s, t) == Rank[s.status] <= Rank[t.status] /\ s.signals <= t.signals

LEMMA RankTyped ==
  ASSUME NEW s \in Summary
  PROVE  /\ s.status \in ActiveStatus \cup {"ABSENT", "CLOSED"}
         /\ Rank[s.status] \in 0 .. 4 /\ s.signals \in Nat
BY MaxSignalsAssumption DEF Summary, ActiveStatus, Rank

LEMMA NoSummaryTyped == NoSummary \in Summary
BY MaxSignalsAssumption DEF NoSummary, Summary

LEMMA BelowOrder ==
  ASSUME NEW s \in Summary, NEW t \in Summary, NEW u \in Summary
  PROVE  /\ Below(s, s) /\ Below(NoSummary, s)
         /\ Below(s, t) /\ Below(t, u) => Below(s, u)
<1>1. /\ Rank[s.status] \in Nat /\ Rank[t.status] \in Nat /\ Rank[u.status] \in Nat
      /\ s.signals \in Nat /\ t.signals \in Nat /\ u.signals \in Nat
  BY RankTyped
<1>2. Rank[NoSummary.status] = 0 /\ NoSummary.signals = 0
  BY DEF NoSummary, Rank
<1> QED BY <1>1, <1>2 DEF Below

-----------------------------------------------------------------------------
(* The inductive invariant of NeverAhead.                                  *)

\* What a writer has read, and what for.
WriterInv(w) ==
  /\ pc[w] = "idle" => view[w] = NoSummary
  /\ pc[w] # "idle" => row[job[w].inc].status # "ABSENT" /\ Below(view[w], row[job[w].inc])
  /\ job[w].kind = "changed" => job[w].old \in ActiveStatus /\ job[w].new \in ActiveStatus

\* What a reader has fetched to warm the cache with.
ReaderInv(r) ==
  at[r] = "warm" =>
    \A i \in wanted[r] : rows[r][i] \in Summary /\ Below(rows[r][i], row[i])

\* NeverAhead alone is not inductive: the summaries that are on their way into the cache
\* must not be ahead of the table either.
BaseInv ==
  /\ TypeOK
  /\ \A i \in Incidents : row[i].status = "ABSENT" => row[i] = NoSummary
  /\ \A i \in Incidents : Below(hash[i], row[i])
  /\ \A w \in Writers : WriterInv(w)
  /\ \A r \in Readers : ReaderInv(r)

LEMMA FaultTyped ==
  ASSUME TypeOK, Fault \/ UNCHANGED faults
  PROVE  faults' \in 0 .. MaxFaults
BY MaxFaultsAssumption DEF TypeOK, Fault

LEMMA JobTyped ==
  ASSUME NEW refresh \in Jobs
  PROVE  /\ refresh.kind \in {"none", "created", "updated", "changed", "closed"}
         /\ refresh.kind = "none" <=> refresh = NoJob
         /\ refresh # NoJob => refresh.inc \in Incidents
         /\ refresh.kind = "changed" => refresh.old \in ActiveStatus /\ refresh.new \in ActiveStatus
         /\ refresh.kind = "closed" => refresh.old \in ActiveStatus
BY DEF Jobs, NoJob

LEMMA WriterJob ==
  ASSUME BaseInv, NEW w \in Writers
  PROVE  /\ job[w].kind \in {"none", "created", "updated", "changed", "closed"}
         /\ pc[w] = "idle" <=> job[w].kind = "none"
         /\ pc[w] # "idle" => job[w].inc \in Incidents
         /\ job[w].kind = "changed" => job[w].old \in ActiveStatus /\ job[w].new \in ActiveStatus
         /\ job[w].kind = "closed" => job[w].old \in ActiveStatus
BY JobTyped DEF BaseInv, TypeOK

LEMMA Start ==
  ASSUME Init
  PROVE  BaseInv
<1>1. rows \in [Readers -> UNION {[some -> Summary] : some \in SUBSET Incidents}]
  <2>1. <<>> \in [{} -> Summary]
    OBVIOUS
  <2>2. <<>> \in UNION {[some -> Summary] : some \in SUBSET Incidents}
    BY <2>1
  <2> QED BY <2>2 DEF Init
<1>2. NoJob \in Jobs
  BY DEF Jobs
<1>3. TypeOK
  BY <1>1, <1>2, NoSummaryTyped, MaxFaultsAssumption DEF Init, TypeOK
<1>4. Below(NoSummary, NoSummary)
  BY NoSummaryTyped, BelowOrder
<1>5. \A w \in Writers : WriterInv(w)
  BY DEF Init, WriterInv, NoJob
<1>6. \A r \in Readers : ReaderInv(r)
  BY DEF Init, ReaderInv
<1> QED BY <1>3, <1>4, <1>5, <1>6 DEF Init, BaseInv

\* A step may move incidents on, and bring summaries that are not ahead of them.
LEMMA Carry ==
  ASSUME BaseInv, TypeOK',
         \A i \in Incidents : /\ Below(row[i], row'[i])
                              /\ row[i].status # "ABSENT" => row'[i].status # "ABSENT"
                              /\ row'[i].status = "ABSENT" => row'[i] = NoSummary,
         \A i \in Incidents : hash'[i] = hash[i] \/ Below(hash'[i], row'[i]),
         \A w \in Writers : (pc'[w] = pc[w] /\ job'[w] = job[w] /\ view'[w] = view[w]) \/ WriterInv(w)',
         \A r \in Readers : (at'[r] = at[r] /\ wanted'[r] = wanted[r] /\ rows'[r] = rows[r])
                            \/ ReaderInv(r)'
  PROVE  BaseInv'
<1>1. \A i \in Incidents : row[i] \in Summary /\ row'[i] \in Summary /\ hash[i] \in Summary
  BY DEF BaseInv, TypeOK
<1>2. \A i \in Incidents : Below(hash'[i], row'[i])
  BY <1>1, BelowOrder DEF BaseInv
<1>3. ASSUME NEW w \in Writers PROVE WriterInv(w)'
  <2>1. CASE pc'[w] = pc[w] /\ job'[w] = job[w] /\ view'[w] = view[w]
    <3>1. CASE pc[w] = "idle"
      BY <2>1, <3>1, WriterJob DEF BaseInv, WriterInv
    <3>2. CASE pc[w] # "idle"
      <4>1. job[w].inc \in Incidents /\ view[w] \in Summary /\ WriterInv(w)
        BY <3>2, WriterJob DEF BaseInv, TypeOK
      <4> QED BY <1>1, <2>1, <3>2, <4>1, BelowOrder DEF WriterInv
    <3> QED BY <3>1, <3>2
  <2> QED BY <2>1
<1>4. ASSUME NEW r \in Readers PROVE ReaderInv(r)'
  <2>1. CASE at'[r] = at[r] /\ wanted'[r] = wanted[r] /\ rows'[r] = rows[r]
    <3>1. wanted[r] \subseteq Incidents /\ ReaderInv(r)
      BY DEF BaseInv, TypeOK
    <3> QED BY <1>1, <2>1, <3>1, BelowOrder DEF ReaderInv
  <2> QED BY <2>1
<1> QED BY <1>2, <1>3, <1>4 DEF BaseInv

-----------------------------------------------------------------------------
(* Writers.                                                                *)

\* A commit only moves its incident on, and hands its refresh to the writer.
LEMMA CommitKeeps ==
  ASSUME BaseInv, NEW w \in Writers, NEW i \in Incidents, NEW new \in Summary, NEW refresh \in Jobs,
         Commit(w, i, new, refresh), new.status # "ABSENT", Below(row[i], new),
         refresh.inc = i, refresh # NoJob
  PROVE  BaseInv'
<1>1. /\ pc[w] = "idle" /\ row' = [row EXCEPT ![i] = new] /\ job' = [job EXCEPT ![w] = refresh]
      /\ \/ refresh.kind = "closed" /\ pc' = [pc EXCEPT ![w] = "write"]
         \/ refresh.kind # "closed" /\ pc' = [pc EXCEPT ![w] = "read"]
      /\ clean' \in {clean \ {i}, clean \cup {i}}
      /\ UNCHANGED <<ids, hash, view, at, wanted, valid, rows, faults>>
  BY DEF Commit, cache, reader
<1>2. /\ row \in [Incidents -> Summary] /\ view \in [Writers -> Summary] /\ job \in [Writers -> Jobs]
      /\ pc \in [Writers -> {"idle", "read", "write", "prune", "delete"}]
  BY DEF BaseInv, TypeOK
<1>3. \A j \in Incidents : /\ Below(row[j], row'[j])
                           /\ row[j].status # "ABSENT" => row'[j].status # "ABSENT"
                           /\ row'[j].status = "ABSENT" => row'[j] = NoSummary
  BY <1>1, <1>2, BelowOrder DEF BaseInv
<1>4. /\ row' \in [Incidents -> Summary] /\ job' \in [Writers -> Jobs]
      /\ pc' \in [Writers -> {"idle", "read", "write", "prune", "delete"}]
      /\ job'[w] = refresh /\ pc'[w] # "idle" /\ row'[i] = new
      /\ \A v \in Writers \ {w} : job'[v] = job[v] /\ pc'[v] = pc[v]
  BY <1>1, <1>2
<1>5. pc'[w] = "write" => job'[w].kind = "closed"
  BY <1>1, <1>2
<1>6. TypeOK'
  BY <1>1, <1>4, <1>5 DEF BaseInv, TypeOK
<1>7. view[w] = NoSummary
  BY <1>1 DEF BaseInv, WriterInv
<1>8. WriterInv(w)'
  BY <1>1, <1>4, <1>7, JobTyped, BelowOrder DEF WriterInv
<1> QED BY <1>1, <1>3, <1>4, <1>6, <1>8, Carry

LEMMA CreateKeeps ==
  ASSUME BaseInv, NEW w \in Writers, NEW i \in Incidents, Create(w, i)
  PROVE  BaseInv'
<1> DEFINE new == [status |-> "OPEN", signals |-> 1]
           refresh == [kind |-> "created", inc |-> i]
<1>1. new \in Summary /\ refresh \in Jobs /\ refresh # NoJob
  BY MaxSignalsAssumption DEF Summary, ActiveStatus, Jobs, NoJob
<1>2. Below(row[i], new)
  BY <1>1, BelowOrder DEF Create, BaseInv
<1> QED BY <1>1, <1>2, CommitKeeps DEF Create

LEMMA AddSignalKeeps ==
  ASSUME BaseInv, NEW w \in Writers, NEW i \in Incidents, AddSignal(w, i)
  PROVE  BaseInv'
<1> DEFINE new == [row[i] EXCEPT !.signals = @ + 1]
           refresh == [kind |-> "updated", inc |-> i]
<1>1. row[i] \in Summary /\ row[i].signals \in Nat /\ row[i].signals < MaxSignals
  BY RankTyped DEF AddSignal, BaseInv, TypeOK
<1>2. /\ new \in Summary /\ new.status = row[i].status /\ new.signals = row[i].signals + 1
      /\ refresh \in Jobs /\ refresh # NoJob
  BY <1>1, MaxSignalsAssumption DEF Summary, Jobs, NoJob
<1>3. Below(row[i], new)
  BY <1>1, <1>2, RankTyped DEF Below
<1> HIDE DEF new, refresh
<1>4. Commit(w, i, new, refresh) /\ refresh.inc = i /\ row[i].status # "ABSENT"
  BY DEF AddSignal, new, refresh
<1> QED BY <1>2, <1>3, <1>4, CommitKeeps

LEMMA TransitionKeeps ==
  ASSUME BaseInv, NEW w \in Writers, NEW i \in Incidents, Transition(w, i)
  PROVE  BaseInv'
<1> DEFINE old == row[i].status
           next == Successor[old]
           new == [row[i] EXCEPT !.status = next]
           refresh == [kind |-> IF next = "CLOSED" THEN "closed" ELSE "changed",
                       inc |-> i, old |-> old, new |-> next]
<1>1. /\ row[i] \in Summary /\ row[i].signals \in Nat /\ old \in ActiveStatus
      /\ next \in {"INVESTIGATING", "RESOLVED", "CLOSED"}
  BY RankTyped DEF Transition, BaseInv, TypeOK, ActiveStatus, Successor
<1>2. new \in Summary /\ new.status = next /\ new.signals = row[i].signals
  BY <1>1 DEF Summary, ActiveStatus
<1>3. refresh \in Jobs /\ refresh # NoJob
  BY <1>1 DEF Jobs, NoJob, ActiveStatus
<1>4. Rank[old] <= Rank[next]
  BY <1>1 DEF Rank, Successor, ActiveStatus
<1>5. Below(row[i], new)
  BY <1>1, <1>2, <1>4 DEF Below
<1>6. Commit(w, i, new, refresh) /\ refresh.inc = i /\ new.status # "ABSENT"
  BY <1>1, <1>2 DEF Transition
<1> HIDE DEF new, refresh
<1> QED BY <1>2, <1>3, <1>5, <1>6, CommitKeeps

\* The writer goes on with what it has read.
LEMMA WriterAdvances ==
  ASSUME BaseInv, NEW w \in Writers, pc[w] # "idle",
         NEW p \in {"write", "prune", "delete"}, Goto(w, p), UNCHANGED <<table, hash, job, reader, faults>>,
         NEW v \in Summary, view' = [view EXCEPT ![w] = v], Below(v, row[job[w].inc]),
         p = "write" /\ job[w].kind = "updated" => v.status \in ActiveStatus,
         ids' \in [ActiveStatus -> SUBSET Incidents], clean' \subseteq Incidents
  PROVE  BaseInv'
<1>1. /\ pc' = [pc EXCEPT ![w] = p] /\ view \in [Writers -> Summary]
      /\ pc \in [Writers -> {"idle", "read", "write", "prune", "delete"}]
      /\ UNCHANGED <<row, hash, job, at, wanted, valid, rows, faults>>
  BY DEF Goto, table, reader, BaseInv, TypeOK
<1>2. /\ pc' \in [Writers -> {"idle", "read", "write", "prune", "delete"}]
      /\ view' \in [Writers -> Summary] /\ pc'[w] = p /\ p # "idle" /\ view'[w] = v
      /\ \A u \in Writers \ {w} : pc'[u] = pc[u] /\ view'[u] = view[u]
  BY <1>1
<1>3. TypeOK'
  BY <1>1, <1>2 DEF BaseInv, TypeOK
<1>4. WriterInv(w) /\ \A i \in Incidents : row[i] \in Summary
  BY DEF BaseInv, TypeOK
<1>5. WriterInv(w)'
  BY <1>1, <1>2, <1>4 DEF WriterInv
<1>6. \A i \in Incidents : /\ Below(row[i], row'[i])
                           /\ row[i].status # "ABSENT" => row'[i].status # "ABSENT"
                           /\ row'[i].status = "ABSENT" => row'[i] = NoSummary
  BY <1>1, <1>4, BelowOrder DEF BaseInv
<1> QED BY <1>1, <1>2, <1>3, <1>5, <1>6, Carry

LEMMA ReadSummaryKeeps ==
  ASSUME BaseInv, NEW w \in Writers, ReadSummary(w)
  PROVE  BaseInv'
<1> DEFINE now == row[job[w].inc]
           p == IF job[w].kind = "updated" /\ now.status = "CLOSED" THEN "prune" ELSE "write"
<1>1. pc[w] = "read" /\ job[w].inc \in Incidents
  BY WriterJob DEF ReadSummary
<1>2. now \in Summary /\ now.status # "ABSENT" /\ Below(now, now)
  BY <1>1, BelowOrder DEF BaseInv, WriterInv, TypeOK
<1>3. p = "write" /\ job[w].kind = "updated" => now.status \in ActiveStatus
  BY <1>2, RankTyped
<1>4. /\ view' = [view EXCEPT ![w] = now] /\ Goto(w, p)
      /\ UNCHANGED <<table, hash, job, reader, faults, ids, clean>>
  BY DEF ReadSummary, cache
<1>5. ids' \in [ActiveStatus -> SUBSET Incidents] /\ clean' \subseteq Incidents
  BY <1>4 DEF BaseInv, TypeOK
<1>6. p \in {"write", "prune"}
  OBVIOUS
<1> HIDE DEF p, now
<1> QED BY <1>1, <1>2, <1>3, <1>4, <1>5, <1>6, WriterAdvances DEF now

LEMMA PruneClosedKeeps ==
  ASSUME BaseInv, NEW w \in Writers, PruneClosed(w)
  PROVE  BaseInv'
<1>1. view[w] \in Summary /\ view' = [view EXCEPT ![w] = view[w]] /\ pc[w] = "prune"
  BY DEF PruneClosed, BaseInv, TypeOK
<1>2. Below(view[w], row[job[w].inc])
  BY <1>1 DEF BaseInv, WriterInv
<1>3. ids' \in [ActiveStatus -> SUBSET Incidents] /\ clean' \subseteq Incidents
  BY DEF PruneClosed, BaseInv, TypeOK
<1> QED BY <1>1, <1>2, <1>3, WriterAdvances DEF PruneClosed

\* The refresh ends; it has written the summary that it read, deleted one, or failed.
LEMMA WriterDone ==
  ASSUME BaseInv, NEW w \in Writers, pc[w] # "idle", Done(w), UNCHANGED <<table, reader>>,
         Fault \/ UNCHANGED faults, clean' \subseteq Incidents,
         ids' \in [ActiveStatus -> SUBSET Incidents],
         \/ UNCHANGED hash
         \/ hash' = [hash EXCEPT ![job[w].inc] = view[w]]
         \/ hash' = [hash EXCEPT ![job[w].inc] = NoSummary]
  PROVE  BaseInv'
<1>1. /\ pc' = [pc EXCEPT ![w] = "idle"] /\ job' = [job EXCEPT ![w] = NoJob]
      /\ view' = [view EXCEPT ![w] = NoSummary]
      /\ UNCHANGED <<row, at, wanted, valid, rows>> /\ faults' \in 0 .. MaxFaults
  BY FaultTyped DEF Done, Goto, table, reader, BaseInv
<1>2. /\ hash \in [Incidents -> Summary] /\ view \in [Writers -> Summary] /\ job \in [Writers -> Jobs]
      /\ pc \in [Writers -> {"idle", "read", "write", "prune", "delete"}]
      /\ row \in [Incidents -> Summary] /\ NoSummary \in Summary /\ NoJob \in Jobs
  BY NoSummaryTyped DEF BaseInv, TypeOK, Jobs
<1>3. /\ pc' \in [Writers -> {"idle", "read", "write", "prune", "delete"}]
      /\ view' \in [Writers -> Summary] /\ job' \in [Writers -> Jobs]
      /\ pc'[w] = "idle" /\ view'[w] = NoSummary /\ job'[w] = NoJob
      /\ \A u \in Writers \ {w} : pc'[u] = pc[u] /\ view'[u] = view[u] /\ job'[u] = job[u]
  BY <1>1, <1>2
<1>4. job[w].inc \in Incidents /\ Below(view[w], row[job[w].inc])
  BY WriterJob DEF BaseInv, WriterInv
<1>5. /\ hash' \in [Incidents -> Summary]
      /\ \A i \in Incidents : hash'[i] = hash[i] \/ Below(hash'[i], row'[i])
  <2>1. view[w] \in Summary /\ row' = row /\ Below(NoSummary, row[job[w].inc])
    BY <1>1, <1>2, <1>4, BelowOrder
  <2>2. CASE UNCHANGED hash
    BY <1>2, <2>2
  <2>3. CASE hash' = [hash EXCEPT ![job[w].inc] = view[w]]
    BY <1>2, <1>4, <2>1, <2>3
  <2>4. CASE hash' = [hash EXCEPT ![job[w].inc] = NoSummary]
    BY <1>2, <1>4, <2>1, <2>4
  <2> QED BY <2>2, <2>3, <2>4
<1>6. TypeOK'
  BY <1>1, <1>2, <1>3, <1>5 DEF BaseInv, TypeOK
<1>7. WriterInv(w)'
  BY <1>3 DEF WriterInv, NoJob
<1>8. \A i \in Incidents : /\ Below(row[i], row'[i])
                           /\ row[i].status # "ABSENT" => row'[i].status # "ABSENT"
                           /\ row'[i].status = "ABSENT" => row'[i] = NoSummary
  BY <1>1, <1>2, BelowOrder DEF BaseInv
<1> QED BY <1>1, <1>3, <1>5, <1>6, <1>7, <1>8, Carry

LEMMA WriteKeeps ==
  ASSUME BaseInv, NEW w \in Writers, Write(w) \/ RefreshFails(w)
  PROVE  BaseInv'
<1>1. /\ ids \in [ActiveStatus -> SUBSET Incidents] /\ clean \subseteq Incidents
      /\ pc[w] # "idle" => job[w].inc \in Incidents
  BY WriterJob DEF BaseInv, TypeOK
<1>2. CASE WriteCreated(w) \/ WriteUpdated(w) \/ WriteMoved(w)
  <2>1. /\ pc[w] # "idle" /\ Done(w) /\ UNCHANGED <<table, reader, clean, faults>>
        /\ hash' = [hash EXCEPT ![job[w].inc] = view[w]]
    BY <1>2 DEF WriteCreated, WriteUpdated, WriteMoved
  <2>2. ids' \in [ActiveStatus -> SUBSET Incidents]
    BY <1>1, <1>2, <2>1 DEF WriteCreated, WriteUpdated, WriteMoved
  <2> QED BY <1>1, <2>1, <2>2, WriterDone
<1>3. CASE DeleteClosed(w) \/ WriteClosed(w)
  <2>1. /\ pc[w] # "idle" /\ Done(w) /\ UNCHANGED <<table, reader, clean, faults>>
        /\ hash' = [hash EXCEPT ![job[w].inc] = NoSummary]
    BY <1>3 DEF DeleteClosed, WriteClosed
  <2>2. ids' \in [ActiveStatus -> SUBSET Incidents]
    BY <1>1, <1>3, <2>1 DEF DeleteClosed, WriteClosed
  <2> QED BY <1>1, <2>1, <2>2, WriterDone
<1>4. CASE RefreshFails(w)
  BY <1>1, <1>4, WriterDone DEF RefreshFails, cache
<1> QED BY <1>2, <1>3, <1>4, ReadSummaryKeeps, PruneClosedKeeps DEF Write

-----------------------------------------------------------------------------
(* Readers.                                                                *)

Snapshots == UNION {[some -> Summary] : some \in SUBSET Incidents}

\* The page goes on; only at warm does it hold rows.
LEMMA ReaderAdvances ==
  ASSUME BaseInv, NEW r \in Readers, UNCHANGED <<table, writer>>, Fault \/ UNCHANGED faults,
         clean' \subseteq Incidents, ids' \in [ActiveStatus -> SUBSET Incidents],
         hash' \in [Incidents -> Summary],
         \A i \in Incidents : hash'[i] = hash[i] \/ Below(hash'[i], row[i]),
         NEW a \in {"idle", "hashes", "prune", "backfill", "feed", "warm"}, Turn(r, a),
         wanted' \in [Readers -> SUBSET Incidents], valid' \in [Readers -> BOOLEAN],
         rows' \in [Readers -> Snapshots],
         \A q \in Readers \ {r} : wanted'[q] = wanted[q] /\ rows'[q] = rows[q],
         a = "warm" => /\ DOMAIN rows'[r] = wanted'[r]
                       /\ \A i \in wanted'[r] : rows'[r][i] = row[i]
  PROVE  BaseInv'
<1>1. /\ at' = [at EXCEPT ![r] = a] /\ UNCHANGED <<row, pc, job, view>> /\ faults' \in 0 .. MaxFaults
      /\ at \in [Readers -> {"idle", "hashes", "prune", "backfill", "feed", "warm"}]
      /\ row \in [Incidents -> Summary]
  BY FaultTyped DEF Turn, table, writer, BaseInv, TypeOK
<1>2. /\ at' \in [Readers -> {"idle", "hashes", "prune", "backfill", "feed", "warm"}]
      /\ at'[r] = a /\ \A q \in Readers \ {r} : at'[q] = at[q]
  BY <1>1
<1>3. \A q \in Readers : at'[q] = "warm" => DOMAIN rows'[q] = wanted'[q]
  BY <1>2 DEF BaseInv, TypeOK
<1>4. TypeOK'
  BY <1>1, <1>2, <1>3 DEF BaseInv, TypeOK, Snapshots
<1>5. ReaderInv(r)'
  <2>1. SUFFICES ASSUME a = "warm", NEW i \in wanted'[r]
                 PROVE  rows'[r][i] \in Summary /\ Below(rows'[r][i], row'[i])
    BY <1>2 DEF ReaderInv
  <2>2. i \in Incidents /\ rows'[r][i] = row[i] /\ row'[i] = row[i]
    BY <1>1, <2>1
  <2> QED BY <1>1, <2>2, BelowOrder
<1>6. \A i \in Incidents : /\ Below(row[i], row'[i])
                           /\ row[i].status # "ABSENT" => row'[i].status # "ABSENT"
                           /\ row'[i].status = "ABSENT" => row'[i] = NoSummary
  BY <1>1, BelowOrder DEF BaseInv
<1> QED BY <1>1, <1>2, <1>4, <1>5, <1>6, Carry

LEMMA ReaderTypes ==
  ASSUME BaseInv
  PROVE  /\ ids \in [ActiveStatus -> SUBSET Incidents] /\ hash \in [Incidents -> Summary]
         /\ row \in [Incidents -> Summary] /\ clean \subseteq Incidents
         /\ wanted \in [Readers -> SUBSET Incidents] /\ valid \in [Readers -> BOOLEAN]
         /\ rows \in [Readers -> Snapshots]
BY DEF BaseInv, TypeOK, Snapshots

LEMMA EmptySnapshot == <<>> \in Snapshots
<1>1. <<>> \in [{} -> Summary]
  OBVIOUS
<1> QED BY <1>1 DEF Snapshots

\* Answered, and nothing but the cache may have changed.
LEMMA AnswerKeeps ==
  ASSUME BaseInv, NEW r \in Readers, Answer(r), UNCHANGED <<table, writer>>,
         Fault \/ UNCHANGED faults, UNCHANGED clean,
         ids' \in [ActiveStatus -> SUBSET Incidents], hash' \in [Incidents -> Summary],
         \A i \in Incidents : hash'[i] = hash[i] \/ Below(hash'[i], row[i])
  PROVE  BaseInv'
<1>1. /\ wanted' = [wanted EXCEPT ![r] = {}] /\ valid' = [valid EXCEPT ![r] = FALSE]
      /\ rows' = [rows EXCEPT ![r] = <<>>] /\ Turn(r, "idle")
  BY DEF Answer, Look
<1>2. /\ wanted' \in [Readers -> SUBSET Incidents] /\ valid' \in [Readers -> BOOLEAN]
      /\ rows' \in [Readers -> Snapshots] /\ clean' \subseteq Incidents
      /\ \A q \in Readers \ {r} : wanted'[q] = wanted[q] /\ rows'[q] = rows[q]
  BY <1>1, ReaderTypes, EmptySnapshot
<1> QED BY <1>1, <1>2, ReaderAdvances

LEMMA FetchKeeps ==
  ASSUME BaseInv, NEW r \in Readers, NEW some \in SUBSET Incidents, Fetch(r, some),
         UNCHANGED <<table, cache, writer, valid, faults>>
  PROVE  BaseInv'
<1> DEFINE found == {i \in some : Belongs(r, row[i])}
           copy == [i \in found |-> row[i]]
<1>1. found \in SUBSET Incidents /\ copy \in [found -> Summary]
  BY ReaderTypes
<1>2. copy \in Snapshots
  BY <1>1 DEF Snapshots
<1>3. /\ rows' = [rows EXCEPT ![r] = copy] /\ wanted' = [wanted EXCEPT ![r] = found]
      /\ clean' = clean \ found /\ Turn(r, "warm")
  BY DEF Fetch, Look
<1>4. DOMAIN copy = found /\ \A i \in found : copy[i] = row[i]
  OBVIOUS
<1> HIDE DEF found, copy
<1>5. /\ wanted' \in [Readers -> SUBSET Incidents] /\ rows' \in [Readers -> Snapshots]
      /\ wanted'[r] = found /\ rows'[r] = copy /\ clean' \subseteq Incidents
      /\ \A q \in Readers \ {r} : wanted'[q] = wanted[q] /\ rows'[q] = rows[q]
  BY <1>1, <1>2, <1>3, ReaderTypes
<1>6. /\ ids' \in [ActiveStatus -> SUBSET Incidents] /\ hash' = hash
      /\ hash' \in [Incidents -> Summary] /\ valid' \in [Readers -> BOOLEAN]
  BY ReaderTypes DEF cache
<1> QED BY <1>3, <1>4, <1>5, <1>6, ReaderAdvances

\* The page goes on with the ids it is looking up.
LEMMA LookKeeps ==
  ASSUME BaseInv, NEW r \in Readers, UNCHANGED <<table, hash, writer, rows>>,
         Fault \/ UNCHANGED faults, clean' \subseteq Incidents,
         ids' \in [ActiveStatus -> SUBSET Incidents],
         NEW a \in {"hashes", "prune", "backfill", "feed"}, Turn(r, a),
         NEW some \in SUBSET Incidents, UNCHANGED wanted \/ Look(r, some),
         NEW b \in BOOLEAN, UNCHANGED valid \/ valid' = [valid EXCEPT ![r] = b]
  PROVE  BaseInv'
<1>1. /\ wanted' \in [Readers -> SUBSET Incidents]
      /\ \A q \in Readers \ {r} : wanted'[q] = wanted[q] /\ rows'[q] = rows[q]
  BY ReaderTypes DEF Look
<1>2. valid' \in [Readers -> BOOLEAN]
  BY ReaderTypes
<1> QED BY <1>1, <1>2, ReaderTypes, ReaderAdvances

LEMMA ReadKeeps ==
  ASSUME BaseInv, NEW r \in Readers, Read(r) \/ ReadFails(r)
  PROVE  BaseInv'
<1>1. CASE ReadIds(r)
  <2>1. Listed(r) \in SUBSET Incidents
    BY ReaderTypes, TabOfAssumption DEF Listed
  <2>2. \E a \in {"hashes", "feed"} : Turn(r, a)
    BY <1>1 DEF ReadIds
  <2>3. /\ Look(r, Listed(r)) /\ UNCHANGED <<table, ids, hash, writer, rows, valid, faults, clean>>
    BY <1>1 DEF ReadIds, cache
  <2> QED BY <2>1, <2>2, <2>3, ReaderTypes, LookKeeps
<1>2. CASE Hit(r) \/ FeedNone(r)
  BY <1>2, ReaderTypes, AnswerKeeps DEF Hit, FeedNone, cache
<1>3. CASE Mismatch(r)
  <2> DEFINE unresolved == {i \in wanted[r] : ~Belongs(r, hash[i])}
  <2>1. unresolved \in SUBSET Incidents
    BY ReaderTypes
  <2>2. /\ Look(r, unresolved) /\ Turn(r, "prune") /\ clean' = clean \ unresolved
        /\ valid' = [valid EXCEPT ![r] = (unresolved # wanted[r])]
        /\ UNCHANGED <<table, ids, hash, writer, rows, faults>>
    BY <1>3 DEF Mismatch, cache
  <2>3. (unresolved # wanted[r]) \in BOOLEAN
    OBVIOUS
  <2> HIDE DEF unresolved
  <2> QED BY <2>1, <2>2, <2>3, ReaderTypes, LookKeeps
<1>4. CASE Prune(r)
  <2>1. ids' \in [ActiveStatus -> SUBSET Incidents]
    BY <1>4, ReaderTypes DEF Prune
  <2> QED BY <1>4, <2>1, ReaderTypes, LookKeeps DEF Prune
<1>5. CASE Backfill(r)
  BY <1>5, ReaderTypes, FetchKeeps DEF Backfill
<1>6. CASE Feed(r)
  BY <1>6, FetchKeeps DEF Feed
<1>7. CASE BackfillNone(r)
  <2>1. UNCHANGED <<table, ids, hash, writer, faults, clean>>
    BY <1>7 DEF BackfillNone, cache
  <2>2. CASE valid[r]
    BY <1>7, <2>1, <2>2, ReaderTypes, AnswerKeeps DEF BackfillNone
  <2>3. CASE ~valid[r]
    BY <1>7, <2>1, <2>3, ReaderTypes, LookKeeps DEF BackfillNone
  <2> QED BY <2>2, <2>3
<1>8. CASE Warm(r)
  <2>1. /\ hash' = [i \in Incidents |-> IF i \in wanted[r] THEN rows[r][i] ELSE hash[i]]
        /\ Answer(r) /\ at[r] = "warm"
    BY <1>8 DEF Warm
  <2>2. \A i \in wanted[r] : rows[r][i] \in Summary /\ Below(rows[r][i], row[i])
    BY <2>1 DEF BaseInv, ReaderInv
  <2>3. /\ hash' \in [Incidents -> Summary]
        /\ \A i \in Incidents : hash'[i] = hash[i] \/ Below(hash'[i], row[i])
    BY <2>1, <2>2, ReaderTypes
  <2>4. ids' \in [ActiveStatus -> SUBSET Incidents]
    BY <1>8, ReaderTypes DEF Warm
  <2> QED BY <1>8, <2>1, <2>3, <2>4, AnswerKeeps DEF Warm
<1>9. CASE ReadFails(r)
  <2>1. UNCHANGED <<table, ids, hash, writer, clean>> /\ Fault
    BY <1>9 DEF ReadFails, cache
  <2>2. CASE UNCHANGED <<wanted, valid, rows>> /\ \E a \in {"feed", "backfill"} : Turn(r, a)
    BY <2>1, <2>2, ReaderTypes, LookKeeps
  <2>3. CASE Answer(r)
    BY <2>1, <2>3, ReaderTypes, AnswerKeeps
  <2> QED BY <1>9, <2>2, <2>3 DEF ReadFails
<1> QED BY <1>1, <1>2, <1>3, <1>4, <1>5, <1>6, <1>7, <1>8, <1>9 DEF Read

-----------------------------------------------------------------------------
LEMMA EvictKeeps ==
  ASSUME BaseInv, Evict
  PROVE  BaseInv'
<1>1. UNCHANGED <<row, pc, job, view, at, wanted, valid, rows>> /\ faults' \in 0 .. MaxFaults
  BY FaultTyped DEF Evict, table, writer, reader, BaseInv
<1>2. /\ ids' \in [ActiveStatus -> SUBSET Incidents] /\ hash' \in [Incidents -> Summary]
      /\ clean' \subseteq Incidents /\ \A i \in Incidents : hash'[i] = hash[i] \/ hash'[i] = NoSummary
  BY ReaderTypes, NoSummaryTyped DEF Evict
<1>3. \A i \in Incidents : /\ Below(row[i], row'[i]) /\ Below(NoSummary, row'[i])
                           /\ row[i].status # "ABSENT" => row'[i].status # "ABSENT"
                           /\ row'[i].status = "ABSENT" => row'[i] = NoSummary
  BY <1>1, ReaderTypes, BelowOrder DEF BaseInv
<1>4. TypeOK'
  BY <1>1, <1>2 DEF BaseInv, TypeOK
<1> QED BY <1>1, <1>2, <1>3, <1>4, Carry

LEMMA BaseStep ==
  ASSUME BaseInv, [Next]_vars
  PROVE  BaseInv'
<1>1. CASE UNCHANGED vars
  <2>1. TypeOK'
    BY <1>1 DEF vars, BaseInv, TypeOK
  <2>2. \A i \in Incidents : Below(row[i], row'[i]) /\ row'[i] = row[i]
    BY <1>1, ReaderTypes, BelowOrder DEF vars
  <2> QED BY <1>1, <2>1, <2>2, Carry DEF vars, BaseInv
<1> QED BY <1>1, CreateKeeps, AddSignalKeeps, TransitionKeeps, WriteKeeps, ReadKeeps, EvictKeeps DEF Next

LEMMA BaseInvariant == Spec => []BaseInv
<1>1. Init => BaseInv
  BY Start
<1>2. BaseInv /\ [Next]_vars => BaseInv'
  BY BaseStep
<1> QED BY <1>1, <1>2, PTL DEF Spec

\* Types, of any number of writers, pages and incidents.
THEOREM TypeCorrect == Spec => []TypeOK
<1>1. BaseInv => TypeOK
  BY DEF BaseInv
<1> QED BY <1>1, BaseInvariant, PTL

\* No summary in Redis is ahead of work_items, whatever overlaps, fails or is evicted: the
\* refreshes and the pages write what they read after the COMMIT.
THEOREM ProjectionNeverAhead == Spec => []NeverAhead
<1>1. BaseInv => NeverAhead
  BY DEF BaseInv, NeverAhead, Below
<1> QED BY <1>1, BaseInvariant, PTL

-----------------------------------------------------------------------------
(* A refresh that runs alone.                                              *)

Busy(w, i) == pc[w] # "idle" /\ job[w].inc = i

Holds(r, i) == at[r] \in {"prune", "backfill", "warm"} /\ i \in wanted[r]

Exact(i) ==
  IF row[i].status = "CLOSED" THEN hash[i] = NoSummary
                              ELSE hash[i] = row[i] /\ i \in ids[row[i].status]

\* What a writer knows of its incident while nobody else touches it.
Knows(w, i) ==
  /\ pc[w] = "write" /\ job[w].kind # "closed" => view[w] = row[i] /\ row[i].status # "CLOSED"
  /\ job[w].kind = "created" => row[i].status = "OPEN"
  /\ job[w].kind = "changed" => row[i].status = job[w].new
  /\ job[w].kind = "closed" => row[i].status = "CLOSED"
  /\ pc[w] \in {"prune", "delete"} => row[i].status = "CLOSED" /\ job[w].kind = "updated"
  /\ job[w].kind = "closed" => pc[w] = "write"

\* The incidents in clean have at most one writer, no reader, and are exact without both.
CleanOf(i) ==
  /\ row[i].status \in ActiveStatus \cup {"CLOSED"}
  /\ \A r \in Readers : ~Holds(r, i)
  /\ \A w, v \in Writers : Busy(w, i) /\ Busy(v, i) => w = v
  /\ \A w \in Writers : Busy(w, i) => Knows(w, i)
  /\ (\A w \in Writers : ~Busy(w, i)) => Exact(i)

CleanInv == \A i \in clean : CleanOf(i)

LEMMA TouchedBy ==
  ASSUME NEW i
  PROVE  Touched(i) <=> (\E w \in Writers : Busy(w, i)) \/ (\E r \in Readers : Holds(r, i))
BY DEF Touched, Busy, Holds

\* A step on other incidents.
LEMMA Elsewhere ==
  ASSUME NEW i \in Incidents, CleanOf(i), row'[i] = row[i], hash'[i] = hash[i],
         \A s \in ActiveStatus : i \in ids[s] => i \in ids'[s],
         \A w \in Writers : (pc'[w] = pc[w] /\ job'[w] = job[w] /\ view'[w] = view[w])
                            \/ (~Busy(w, i) /\ ~Busy(w, i)'),
         \A r \in Readers : ~Holds(r, i)'
  PROVE  CleanOf(i)'
<1>1. \A w \in Writers : Busy(w, i)' <=> Busy(w, i)
  BY DEF Busy
<1>2. \A w \in Writers : Busy(w, i)' => Knows(w, i)'
  BY <1>1 DEF CleanOf, Knows, Busy
<1>3. (\A w \in Writers : ~Busy(w, i)') => Exact(i)'
  BY <1>1 DEF CleanOf, Exact
<1> QED BY <1>1, <1>2, <1>3 DEF CleanOf

LEMMA CommitClean ==
  ASSUME BaseInv, CleanInv, NEW w \in Writers, NEW j \in Incidents, NEW new, NEW refresh,
         Commit(w, j, new, refresh), refresh.inc = j,
         refresh.kind \in {"created", "updated", "changed", "closed"},
         new.status \in ActiveStatus \cup {"CLOSED"},
         refresh.kind = "created" => new.status = "OPEN",
         refresh.kind = "changed" => new.status = refresh.new,
         refresh.kind = "closed" => new.status = "CLOSED",
         NEW i \in clean'
  PROVE  CleanOf(i)'
<1>1. /\ pc[w] = "idle" /\ row' = [row EXCEPT ![j] = new] /\ job' = [job EXCEPT ![w] = refresh]
      /\ \/ refresh.kind = "closed" /\ pc' = [pc EXCEPT ![w] = "write"]
         \/ refresh.kind # "closed" /\ pc' = [pc EXCEPT ![w] = "read"]
      /\ clean' = IF Touched(j) THEN clean \ {j} ELSE clean \cup {j}
      /\ UNCHANGED <<ids, hash, view, at, wanted, valid, rows, faults>>
  BY DEF Commit, cache, reader
<1>2. /\ row \in [Incidents -> Summary] /\ job \in [Writers -> Jobs] /\ clean \subseteq Incidents
      /\ pc \in [Writers -> {"idle", "read", "write", "prune", "delete"}]
  BY DEF BaseInv, TypeOK
<1>3. /\ job'[w] = refresh /\ row'[j] = new
      /\ pc'[w] = IF refresh.kind = "closed" THEN "write" ELSE "read"
      /\ \A v \in Writers \ {w} : job'[v] = job[v] /\ pc'[v] = pc[v]
      /\ \A k \in Incidents \ {j} : row'[k] = row[k]
  BY <1>1, <1>2
<1>4. CASE i = j
  <2>1. ~Touched(j)
    BY <1>1, <1>4
  <2>2. \A v \in Writers \ {w} : ~Busy(v, i)'
    BY <1>3, <1>4, <2>1, TouchedBy DEF Busy
  <2>3. \A r \in Readers : ~Holds(r, i)'
    BY <1>1, <1>4, <2>1, TouchedBy DEF Holds
  <2>4. Busy(w, i)' /\ Knows(w, i)'
    BY <1>3, <1>4 DEF Busy, Knows
  <2> QED BY <1>3, <1>4, <2>2, <2>3, <2>4 DEF CleanOf
<1>5. CASE i # j
  <2>1. i \in clean /\ i \in Incidents /\ CleanOf(i)
    BY <1>1, <1>2, <1>5 DEF CleanInv
  <2>2. ~Busy(w, i) /\ ~Busy(w, i)'
    BY <1>1, <1>3, <1>5 DEF Busy
  <2>3. \A r \in Readers : ~Holds(r, i)'
    BY <1>1, <2>1 DEF CleanOf, Holds
  <2> QED BY <1>1, <1>3, <1>5, <2>1, <2>2, <2>3, Elsewhere
<1> QED BY <1>4, <1>5

LEMMA WriterCommits ==
  ASSUME BaseInv, CleanInv, NEW w \in Writers, NEW j \in Incidents,
         Create(w, j) \/ AddSignal(w, j) \/ Transition(w, j), NEW i \in clean'
  PROVE  CleanOf(i)'
<1>1. CASE Create(w, j)
  BY <1>1, CommitClean DEF Create, ActiveStatus
<1>2. CASE AddSignal(w, j)
  <2> DEFINE new == [row[j] EXCEPT !.signals = @ + 1]
             refresh == [kind |-> "updated", inc |-> j]
  <2>1. new.status \in ActiveStatus \cup {"CLOSED"}
    BY <1>2 DEF AddSignal, BaseInv, TypeOK, Summary
  <2>2. Commit(w, j, new, refresh) /\ refresh.inc = j /\ refresh.kind = "updated"
    BY <1>2 DEF AddSignal
  <2> HIDE DEF new, refresh
  <2> QED BY <2>1, <2>2, CommitClean
<1>3. CASE Transition(w, j)
  <2> DEFINE next == Successor[row[j].status]
             refresh == [kind |-> IF next = "CLOSED" THEN "closed" ELSE "changed",
                         inc |-> j, old |-> row[j].status, new |-> next]
  <2>1. Commit(w, j, [row[j] EXCEPT !.status = next], refresh)
    BY <1>3 DEF Transition
  <2>2. [row[j] EXCEPT !.status = next].status = next /\ next \in ActiveStatus \cup {"CLOSED"}
    BY <1>3 DEF Transition, BaseInv, TypeOK, Summary, ActiveStatus, Successor
  <2>3. /\ refresh.inc = j /\ refresh.new = next /\ refresh.kind \in {"changed", "closed"}
        /\ refresh.kind = "closed" => next = "CLOSED"
    OBVIOUS
  <2> HIDE DEF refresh, next
  <2> QED BY <2>1, <2>2, <2>3, CommitClean
<1> QED BY <1>1, <1>2, <1>3

\* The writer of i goes on, alone.
LEMMA SummaryRead ==
  ASSUME BaseInv, CleanInv, NEW w \in Writers, ReadSummary(w) \/ PruneClosed(w), NEW i \in clean'
  PROVE  CleanOf(i)'
<1>1. /\ i \in clean /\ i \in Incidents /\ CleanOf(i) /\ pc[w] # "idle"
      /\ UNCHANGED <<row, hash, job, at, wanted, clean>>
      /\ ids \in [ActiveStatus -> SUBSET Incidents]
  BY DEF ReadSummary, PruneClosed, CleanInv, BaseInv, TypeOK, table, cache, reader
<1>2. /\ \E p \in {"write", "prune", "delete"} : pc' = [pc EXCEPT ![w] = p]
      /\ \E v : view' = [view EXCEPT ![w] = v]
      /\ pc \in [Writers -> {"idle", "read", "write", "prune", "delete"}]
      /\ view \in [Writers -> Summary]
  <2>1. view = [view EXCEPT ![w] = view[w]]
    BY DEF BaseInv, TypeOK
  <2> QED BY <2>1 DEF ReadSummary, PruneClosed, Goto, BaseInv, TypeOK
<1>3. /\ \A v \in Writers : pc'[v] = "idle" <=> pc[v] = "idle"
      /\ \A v \in Writers \ {w} : pc'[v] = pc[v] /\ view'[v] = view[v]
  BY <1>1, <1>2
<1>4. \A v \in Writers : Busy(v, i)' <=> Busy(v, i)
  BY <1>1, <1>3 DEF Busy
<1>5. \A r \in Readers : ~Holds(r, i)'
  BY <1>1 DEF CleanOf, Holds
<1>6. CASE job[w].inc # i
  <2>1. ~Busy(w, i) /\ ~Busy(w, i)'
    BY <1>1, <1>6 DEF Busy
  <2>2. \A s \in ActiveStatus : i \in ids[s] => i \in ids'[s]
    BY <1>1, <1>6 DEF ReadSummary, PruneClosed, cache
  <2> QED BY <1>1, <1>3, <1>5, <2>1, <2>2, Elsewhere
<1>7. CASE job[w].inc = i
  <2>1. Busy(w, i) /\ Knows(w, i) /\ \A v \in Writers : Busy(v, i) => v = w
    BY <1>1, <1>7 DEF Busy, CleanOf
  <2>2. Knows(w, i)'
    <3>1. CASE ReadSummary(w)
      <4>1. /\ pc[w] = "read" /\ view'[w] = row[i] /\ row'[i] = row[i] /\ job' = job
            /\ pc'[w] = IF job[w].kind = "updated" /\ row[i].status = "CLOSED" THEN "prune" ELSE "write"
        BY <1>1, <1>2, <1>7, <3>1 DEF ReadSummary, Goto
      <4>2. job[w].kind \in {"created", "updated", "changed", "closed"}
        BY <1>1, WriterJob
      <4>3. job[w].kind = "changed" => job[w].new # "CLOSED"
        BY WriterJob DEF ActiveStatus
      <4> QED BY <2>1, <4>1, <4>2, <4>3 DEF Knows
    <3>2. CASE PruneClosed(w)
      <4>1. pc[w] = "prune" /\ row'[i] = row[i] /\ job' = job /\ pc'[w] = "delete"
        BY <1>1, <1>2, <3>2 DEF PruneClosed, Goto
      <4> QED BY <2>1, <4>1 DEF Knows
    <3> QED BY <3>1, <3>2
  <2>3. row'[i].status \in ActiveStatus \cup {"CLOSED"}
    BY <1>1 DEF CleanOf
  <2> QED BY <1>4, <1>5, <2>1, <2>2, <2>3 DEF CleanOf
<1> QED BY <1>6, <1>7

\* The refresh of i ends with the exact summary, unless it fails.
LEMMA RefreshEnds ==
  ASSUME BaseInv, CleanInv, NEW w \in Writers, pc[w] # "idle", Done(w), UNCHANGED <<row, at, wanted>>,
         \A k \in Incidents : k # job[w].inc => hash'[k] = hash[k] /\ \A s \in ActiveStatus : k \in ids[s] => k \in ids'[s],
         NEW i \in clean, i = job[w].inc => (Knows(w, i) => Exact(i)')
  PROVE  CleanOf(i)'
<1>1. /\ i \in Incidents /\ CleanOf(i)
      /\ pc' = [pc EXCEPT ![w] = "idle"] /\ job' = [job EXCEPT ![w] = NoJob]
      /\ view' = [view EXCEPT ![w] = NoSummary]
      /\ pc \in [Writers -> {"idle", "read", "write", "prune", "delete"}]
      /\ job \in [Writers -> Jobs] /\ view \in [Writers -> Summary]
  BY DEF Done, Goto, CleanInv, BaseInv, TypeOK
<1>2. /\ pc'[w] = "idle"
      /\ \A v \in Writers \ {w} : pc'[v] = pc[v] /\ view'[v] = view[v] /\ job'[v] = job[v]
  BY <1>1
<1>3. \A r \in Readers : ~Holds(r, i)'
  BY <1>1 DEF CleanOf, Holds
<1>4. CASE job[w].inc # i
  <2>1. ~Busy(w, i) /\ ~Busy(w, i)'
    BY <1>2, <1>4 DEF Busy
  <2> QED BY <1>1, <1>2, <1>3, <1>4, <2>1, Elsewhere
<1>5. CASE job[w].inc = i
  <2>1. Busy(w, i) /\ Knows(w, i) /\ \A v \in Writers : Busy(v, i) => v = w
    BY <1>1, <1>5 DEF Busy, CleanOf
  <2>2. \A v \in Writers : ~Busy(v, i)'
    BY <1>2, <2>1 DEF Busy
  <2>3. row'[i].status \in ActiveStatus \cup {"CLOSED"}
    BY <1>1 DEF CleanOf
  <2> QED BY <1>3, <1>5, <2>1, <2>2, <2>3 DEF CleanOf
<1> QED BY <1>4, <1>5

LEMMA SummaryWritten ==
  ASSUME BaseInv, CleanInv, NEW w \in Writers,
         \/ WriteCreated(w) \/ WriteUpdated(w) \/ WriteMoved(w)
         \/ DeleteClosed(w) \/ WriteClosed(w) \/ RefreshFails(w),
         NEW i \in clean'
  PROVE  CleanOf(i)'
<1>1. /\ ids \in [ActiveStatus -> SUBSET Incidents] /\ hash \in [Incidents -> Summary]
      /\ clean \subseteq Incidents /\ view[w] \in Summary /\ row \in [Incidents -> Summary]
  BY DEF BaseInv, TypeOK
<1>2. /\ pc[w] # "idle" /\ Done(w) /\ UNCHANGED <<row, at, wanted>> /\ i \in clean
  BY DEF WriteCreated, WriteUpdated, WriteMoved, DeleteClosed, WriteClosed, RefreshFails, table, reader
<1>3. job[w].inc \in Incidents /\ i \in Incidents
  BY <1>1, <1>2, WriterJob
<1>4. CASE RefreshFails(w)
  <2>1. i # job[w].inc /\ UNCHANGED <<ids, hash>>
    BY <1>4 DEF RefreshFails, cache
  <2> QED BY <1>2, <2>1, RefreshEnds
<1>5. CASE DeleteClosed(w) \/ WriteClosed(w)
  <2>1. /\ hash' = [hash EXCEPT ![job[w].inc] = NoSummary]
        /\ UNCHANGED ids \/ ids' = [ids EXCEPT ![job[w].old] = @ \ {job[w].inc}]
        /\ pc[w] = "delete" \/ job[w].kind = "closed"
    BY <1>5 DEF DeleteClosed, WriteClosed
  <2>2. \A k \in Incidents : k # job[w].inc =>
          hash'[k] = hash[k] /\ \A s \in ActiveStatus : k \in ids[s] => k \in ids'[s]
    BY <1>1, <2>1
  <2>3. i = job[w].inc => (Knows(w, i) => Exact(i)')
    BY <1>1, <1>2, <1>3, <2>1 DEF Knows, Exact
  <2> QED BY <1>2, <2>2, <2>3, RefreshEnds
<1>6. CASE WriteCreated(w) \/ WriteUpdated(w) \/ WriteMoved(w)
  <2>1. /\ hash' = [hash EXCEPT ![job[w].inc] = view[w]] /\ pc[w] = "write"
        /\ job[w].kind \in {"created", "updated", "changed"}
    BY <1>6 DEF WriteCreated, WriteUpdated, WriteMoved
  <2>2. \E s \in ActiveStatus : \E old \in ActiveStatus :
          /\ ids' = [ids EXCEPT ![s] = @ \cup {job[w].inc}]
             \/ ids' = [ids EXCEPT ![old] = @ \ {job[w].inc}, ![s] = @ \cup {job[w].inc}]
          /\ job[w].inc = i /\ Knows(w, i) => s = row[i].status
    <3>1. CASE WriteCreated(w)
      BY <3>1, <2>1 DEF WriteCreated, ActiveStatus, Knows
    <3>2. CASE WriteUpdated(w)
      <4>1. view[w].status \in ActiveStatus
        BY <3>2 DEF WriteUpdated, BaseInv, TypeOK
      <4> QED BY <2>1, <3>2, <4>1 DEF WriteUpdated, Knows
    <3>3. CASE WriteMoved(w)
      <4>1. job[w].old \in ActiveStatus /\ job[w].new \in ActiveStatus /\ job[w].kind = "changed"
        BY <3>3, WriterJob DEF WriteMoved
      <4> QED BY <3>3, <4>1 DEF WriteMoved, Knows
    <3> QED BY <1>6, <3>1, <3>2, <3>3
  <2>3. PICK s \in ActiveStatus, old \in ActiveStatus :
          /\ ids' = [ids EXCEPT ![s] = @ \cup {job[w].inc}]
             \/ ids' = [ids EXCEPT ![old] = @ \ {job[w].inc}, ![s] = @ \cup {job[w].inc}]
          /\ job[w].inc = i /\ Knows(w, i) => s = row[i].status
    BY <2>2
  <2>4. job[w].inc \in ids'[s] /\ \A k \in Incidents : k # job[w].inc => \A t \in ActiveStatus : k \in ids[t] => k \in ids'[t]
    BY <1>1, <2>3
  <2>5. \A k \in Incidents : k # job[w].inc => hash'[k] = hash[k]
    BY <1>1, <2>1
  <2>6. i = job[w].inc => (Knows(w, i) => Exact(i)')
    BY <1>1, <1>2, <1>3, <2>1, <2>3, <2>4 DEF Knows, Exact
  <2> QED BY <1>2, <2>4, <2>5, <2>6, RefreshEnds
<1> QED BY <1>4, <1>5, <1>6

\* Pages take what they are about to write out of clean.
LEMMA ReaderClean ==
  ASSUME BaseInv, CleanInv, NEW r \in Readers, UNCHANGED <<table, writer>>, NEW i \in clean',
         i \in clean, hash'[i] = hash[i], \A s \in ActiveStatus : i \in ids[s] => i \in ids'[s],
         ~Holds(r, i)', \A q \in Readers \ {r} : at'[q] = at[q] /\ wanted'[q] = wanted[q]
  PROVE  CleanOf(i)'
<1>1. i \in Incidents /\ CleanOf(i)
  BY DEF CleanInv, BaseInv, TypeOK
<1>2. \A q \in Readers : ~Holds(q, i)'
  BY <1>1 DEF CleanOf, Holds
<1> QED BY <1>1, <1>2, Elsewhere DEF table, writer

LEMMA PagesClean ==
  ASSUME BaseInv, CleanInv, NEW r \in Readers, Read(r) \/ ReadFails(r), NEW i \in clean'
  PROVE  CleanOf(i)'
<1>1. /\ ids \in [ActiveStatus -> SUBSET Incidents] /\ clean \subseteq Incidents
      /\ wanted \in [Readers -> SUBSET Incidents]
      /\ at \in [Readers -> {"idle", "hashes", "prune", "backfill", "feed", "warm"}]
  BY DEF BaseInv, TypeOK
<1>2. UNCHANGED <<table, writer>> /\ i \in clean /\ ~Holds(r, i) /\ i \in Incidents
  BY <1>1 DEF Read, ReadFails, ReadIds, Hit, Mismatch, Prune, Backfill, BackfillNone, Feed, FeedNone,
              Warm, Fetch, CleanInv, CleanOf
<1>3. /\ \A q \in Readers \ {r} : at'[q] = at[q] /\ wanted'[q] = wanted[q]
      /\ at'[r] \in {"prune", "backfill", "warm"} => i \notin wanted'[r]
  <2>1. CASE ReadIds(r)
    BY <1>1, <2>1 DEF ReadIds, Turn, Look
  <2>2. CASE Mismatch(r)
    BY <1>1, <2>2 DEF Mismatch, Turn, Look
  <2>3. CASE Prune(r)
    BY <1>1, <1>2, <2>3 DEF Prune, Turn, Holds
  <2>4. CASE Backfill(r) \/ Feed(r)
    BY <1>1, <2>4 DEF Backfill, Feed, Fetch, Turn, Look
  <2>5. CASE Hit(r) \/ FeedNone(r) \/ Warm(r)
    BY <1>1, <2>5 DEF Hit, FeedNone, Warm, Answer, Turn, Look
  <2>6. CASE BackfillNone(r)
    BY <1>1, <2>6 DEF BackfillNone, Answer, Turn, Look
  <2>7. CASE ReadFails(r)
    BY <1>1, <1>2, <2>7 DEF ReadFails, Answer, Turn, Look, Holds
  <2> QED BY <2>1, <2>2, <2>3, <2>4, <2>5, <2>6, <2>7 DEF Read
<1>4. hash'[i] = hash[i] /\ \A s \in ActiveStatus : i \in ids[s] => i \in ids'[s]
  <2>1. CASE Prune(r)
    <3>1. i \notin wanted[r]
      BY <1>2, <2>1 DEF Prune, Holds
    <3>2. hash' = hash /\ ids' = [s \in ActiveStatus |-> ids[s] \ wanted[r]]
      BY <2>1 DEF Prune
    <3>3. \A s \in ActiveStatus : i \in ids[s] => i \in ids'[s]
      BY <3>1, <3>2
    <3> QED BY <3>2, <3>3
  <2>2. CASE Warm(r)
    BY <1>1, <1>2, <2>2 DEF Warm, Holds
  <2>3. CASE UNCHANGED <<ids, hash>>
    BY <2>3
  <2> QED BY <2>1, <2>2, <2>3 DEF Read, ReadFails, ReadIds, Hit, Mismatch, Backfill, BackfillNone,
                                  Feed, FeedNone, cache
<1> QED BY <1>2, <1>3, <1>4, ReaderClean DEF Holds

LEMMA CleanStep ==
  ASSUME BaseInv, CleanInv, [Next]_vars
  PROVE  CleanInv'
<1> SUFFICES ASSUME NEW i \in clean' PROVE CleanOf(i)'
  BY DEF CleanInv
<1>1. CASE Evict
  <2>1. /\ i \in clean /\ i \in Incidents /\ CleanOf(i) /\ ids \in [ActiveStatus -> SUBSET Incidents]
        /\ UNCHANGED <<row, pc, job, view, at, wanted>>
    BY <1>1 DEF Evict, CleanInv, BaseInv, TypeOK, table, writer, reader
  <2>2. hash'[i] = hash[i] /\ \A s \in ActiveStatus : i \in ids[s] => i \in ids'[s]
    BY <1>1, <2>1, ReaderTypes DEF Evict
  <2>3. \A r \in Readers : ~Holds(r, i)'
    BY <2>1 DEF CleanOf, Holds
  <2> QED BY <2>1, <2>2, <2>3, Elsewhere
<1>2. CASE UNCHANGED vars
  <2>1. i \in clean /\ i \in Incidents /\ CleanOf(i) /\ UNCHANGED <<row, ids, hash, pc, job, view, at, wanted>>
    BY <1>2 DEF vars, CleanInv, BaseInv, TypeOK
  <2>2. \A r \in Readers : ~Holds(r, i)'
    BY <2>1 DEF CleanOf, Holds
  <2> QED BY <2>1, <2>2, Elsewhere
<1>3. ASSUME NEW w \in Writers, Write(w) \/ RefreshFails(w) PROVE CleanOf(i)'
  BY <1>3, SummaryRead, SummaryWritten DEF Write
<1> QED BY <1>1, <1>2, <1>3, WriterCommits, PagesClean DEF Next

\* A refresh that ran alone has left the exact projection, and it stays exact until somebody
\* touches the incident again.  The invariant says what the lone writer knows at each await.
THEOREM LoneRefreshesAreExact == Spec => []LoneRefreshIsExact
<1>1. Init => BaseInv /\ CleanInv
  BY Start DEF Init, CleanInv
<1>2. BaseInv /\ CleanInv /\ [Next]_vars => (BaseInv /\ CleanInv)'
  BY BaseStep, CleanStep
<1>3. CleanInv => LoneRefreshIsExact
  BY TouchedBy DEF CleanInv, CleanOf, LoneRefreshIsExact, Exact
<1> QED BY <1>1, <1>2, <1>3, PTL DEF Spec
=============================================================================
