----------------------------- MODULE IncidentList -----------------------------
(***************************************************************************)
(* GET /incidents, read page by page while incidents change:                *)
(*   incidents/incidents.controller.ts, incidents.service.ts  listIncidents   *)
(*   repositories/work-item.repository.ts                     findAll         *)
(*   sql/001_init_schema.sql                                  the trigger      *)
(* A page is two queries, COUNT and SELECT .. LIMIT .. OFFSET, that see two     *)
(* states of the table; the client goes on to the last of totalPages.        *)
(* updated_at is the time at which the transaction that wrote it began.  Two   *)
(* may begin in the same microsecond, and the ORDER BY has no key after         *)
(* updated_at: the order of such rows is any, and another one for each page.    *)
(* The filters on severity and component never change for an incident: they    *)
(* are a smaller table.                                                       *)
(* What happens after the last page is of no interest.                        *)
(***************************************************************************)
EXTENDS Integers, FiniteSets, Sequences

CONSTANTS
  N,         \* bound: incidents, 1 .. N
  Urgent,    \* those of the higher of two severities
  Limit,     \* rows of a page
  MaxWrites  \* bound: transactions

Incidents == 1 .. N
Lifecycle == [OPEN |-> "INVESTIGATING", INVESTIGATING |-> "RESOLVED", RESOLVED |-> "CLOSED"]
Status == {"OPEN", "INVESTIGATING", "RESOLVED", "CLOSED"}
Filters == Status \cup {"all"}

ASSUME NAssumption == N \in Nat
ASSUME UrgentAssumption == Urgent \subseteq Incidents
ASSUME LimitAssumption == Limit \in Nat \ {0}
ASSUME MaxWritesAssumption == MaxWrites \in Nat

VARIABLES
  status,    \* work_items, or "absent"
  updated,   \* updated_at
  began,     \* NOW() of the transactions on the incident that are not over
  now, writes,   \* the clock, and the transactions so far
  at, filter, page, total,   \* the client: its await, parameters, count
  seen,      \* incidents it was shown
  steady,    \* history: listed when it began, and since then neither written nor
             \* tied in the order with another listed incident
  left, late,          \* .. incidents that left the list, that updated_at took back
  arrived              \* .. incidents that came into it after the last count

table == <<status, updated, began, now, writes>>
client == <<at, filter, page, total, seen>>
history == <<steady, left, late, arrived>>
vars == <<table, client, history>>

Matches(s) == s # "absent" /\ filter \in {"all", s}
List == {i \in Incidents : Matches(status[i])}

\* Mutant: ORDER BY .. updated_at ASC.
OldestFirst(i, j) ==
  \/ i \in Urgent /\ j \notin Urgent
  \/ (i \in Urgent <=> j \in Urgent) /\ updated[i] < updated[j]

\* ORDER BY severity, updated_at DESC: i comes before j.
Before(i, j) ==
  \/ i \in Urgent /\ j \notin Urgent
  \/ (i \in Urgent <=> j \in Urgent) /\ updated[i] > updated[j]

\* The same severity, the same microsecond.
Tied(i, j) == ~Before(i, j) /\ ~Before(j, i)
Untied(i) == \A j \in List : Tied(i, j) => j = i

\* What else may decide between ties: the plan, the place of the rows in the file.
Whims == {k \in [Incidents -> Incidents] : \A i, j \in Incidents : k[i] = k[j] => i = j}

\* LIMIT and OFFSET.
Rows(whim) ==
  LET place(i) == Cardinality({j \in List : Before(j, i) \/ (Tied(j, i) /\ whim[j] < whim[i])})
  IN  {i \in List : place(i) \in (page - 1) * Limit .. page * Limit - 1}

\* Mutant: a page is missing when its first row would be one past the end.
NeverShort == page * Limit > total

\* totalPages is reached.
LastPage == page * Limit >= total

\* RemoveAt of SequencesExt, which the modules of the proofs do not bear.
Without(q, k) == SubSeq(q, 1, k - 1) \o SubSeq(q, k + 1, Len(q))

-----------------------------------------------------------------------------
\* BEGIN of create, addSignal or transition: NOW() is fixed.
Begin(i) ==
  /\ at # "done" /\ writes < MaxWrites /\ writes' = writes + 1
  /\ status[i] = "absent" => began[i] = <<>>
  /\ now' \in {now, now + 1}
  /\ began' = [began EXCEPT ![i] = Append(@, now')]
  /\ UNCHANGED <<status, updated, client, history>>

\* COMMIT: the incident is created, counts a signal, or moves on.  The row lock does not
\* follow the order in which they began: updated_at may go back.
Commit(i) ==
  \E k \in DOMAIN began[i] :
    /\ at # "done"
    /\ status' \in {[status EXCEPT ![i] = s] : s \in
         CASE status[i] = "absent" -> {"OPEN"}
           [] status[i] = "CLOSED" -> {"CLOSED"}
           [] OTHER                -> {status[i], Lifecycle[status[i]]}}
    /\ updated' = [updated EXCEPT ![i] = began[i][k]]
    /\ began' = [began EXCEPT ![i] = Without(@, k)]
    /\ UNCHANGED <<now, writes, client>>
    /\ steady' = {u \in steady \ {i} : Untied(u)'}
    /\ left' = left + IF Matches(status[i]) /\ ~Matches(status'[i]) THEN 1 ELSE 0
    /\ late' = late + IF began[i][k] < updated[i] THEN 1 ELSE 0
    /\ arrived' = arrived + IF ~Matches(status[i]) /\ Matches(status'[i]) THEN 1 ELSE 0

\* The client asks for page 1 of a list.
Ask ==
  /\ at = "idle" /\ at' = "count"
  /\ filter' \in Filters /\ page' = 1
  /\ UNCHANGED <<table, total, seen, arrived>>
  /\ steady' = {u \in List' : Untied(u)'} /\ left' = 0 /\ late' = 0

\* SELECT COUNT(*).
Count ==
  /\ at = "count" /\ at' = "rows"
  /\ total' = Cardinality(List)
  /\ arrived' = 0
  /\ UNCHANGED <<table, filter, page, seen, steady, left, late>>

\* The second query and the answer; then the next page.
Answer ==
  /\ at = "rows"
  /\ \E whim \in Whims : seen' = seen \cup Rows(whim)
  /\ IF LastPage THEN at' = "done" /\ page' = page ELSE at' = "count" /\ page' = page + 1
  /\ UNCHANGED <<table, filter, total, history>>

Init ==
  /\ status \in [Incidents -> {"absent", "OPEN", "INVESTIGATING"}]
  /\ updated = [i \in Incidents |-> i] /\ now = N /\ writes = 0
  /\ began = [i \in Incidents |-> <<>>]
  /\ at = "idle" /\ filter = "all" /\ page = 1 /\ total = 0 /\ seen = {}
  /\ steady = {} /\ left = 0 /\ late = 0 /\ arrived = 0

Next == Ask \/ Count \/ Answer \/ \E i \in Incidents : Begin(i) \/ Commit(i)

Spec == Init /\ [][Next]_vars

-----------------------------------------------------------------------------
(* Properties.                                                             *)

\* Types; a client asks for no page that starts behind the last incident.
TypeOK ==
  /\ status \in [Incidents -> Status \cup {"absent"}]
  /\ updated \in [Incidents -> Nat] /\ now \in Nat /\ writes \in 0 .. MaxWrites
  /\ began \in [Incidents -> Seq(Nat)]
  /\ at \in {"idle", "count", "rows", "done"} /\ filter \in Filters
  /\ page \in Nat \ {0} /\ (page - 1) * Limit <= N /\ (page > 1 => (page - 1) * Limit < N)
  /\ total \in 0 .. N /\ seen \subseteq Incidents
  /\ steady \subseteq Incidents
  /\ {left, late, arrived} \subseteq Nat

\* Whoever reads to the last page misses no more of the incidents that did not change and
\* tied with no other than left the list meanwhile, fell back in it behind a later update of
\* theirs, or came in after the last count: signals that reorder and lengthen the list make
\* it show an incident twice, but hide none.  (Of tied ones it may hide any number.)
MissedBounded ==
  at = "done" => Cardinality(steady \ seen) <= left + late + arrived
=============================================================================
