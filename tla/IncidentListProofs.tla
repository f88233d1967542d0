-------------------------- MODULE IncidentListProofs --------------------------
(***************************************************************************)
(* Theorems about IncidentList, for any number of incidents, any severities, *)
(* any page size and any number of transactions.                            *)
(***************************************************************************)
EXTENDS IncidentList, FiniteSetTheorems, TLAPS

-----------------------------------------------------------------------------
(* Type correctness.                                                       *)

Types ==
  /\ status \in [Incidents -> Status \cup {"absent"}]
  /\ updated \in [Incidents -> Nat] /\ began \in [Incidents -> Seq(Nat)]
  /\ now \in Nat /\ writes \in 0 .. MaxWrites
  /\ at \in {"idle", "count", "rows", "done"} /\ filter \in Filters
  /\ page \in Nat \ {0} /\ total \in Nat /\ seen \subseteq Incidents
  /\ steady \subseteq Incidents
  /\ left \in Nat /\ late \in Nat /\ arrived \in Nat

\* The count is one of the table, and a page begins before the incident that it counted last.
Pages ==
  /\ total <= N
  /\ page > 1 => (page - 1) * Limit < N

\* A list is a finite set of at most N incidents.
LEMMA ListFinite ==
  /\ List \subseteq Incidents
  /\ IsFiniteSet(List) /\ Cardinality(List) \in Nat /\ Cardinality(List) <= N
  <1>1. IsFiniteSet(1 .. N) /\ Cardinality(1 .. N) = N
    BY NAssumption, FS_Interval
  <1>2. List \subseteq 1 .. N
    BY DEF List, Incidents
  <1>3. QED
    BY <1>1, <1>2, FS_Subset, FS_CardinalityType DEF Incidents

\* How a commit writes the row of one incident.
Writes(i, k) ==
  /\ k \in DOMAIN began[i]
  /\ status' \in [Incidents -> Status \cup {"absent"}]
  /\ \A j \in Incidents \ {i} : status'[j] = status[j]
  /\ updated' = [updated EXCEPT ![i] = began[i][k]]
  /\ began' = [began EXCEPT ![i] = Without(@, k)]
  /\ UNCHANGED <<now, writes, client>>
  /\ steady' = {u \in steady \ {i} : Untied(u)'}
  /\ left' = left + IF Matches(status[i]) /\ ~Matches(status'[i]) THEN 1 ELSE 0
  /\ late' = late + IF began[i][k] < updated[i] THEN 1 ELSE 0
  /\ arrived' = arrived + IF ~Matches(status[i]) /\ Matches(status'[i]) THEN 1 ELSE 0
  /\ at # "done"

\* Every commit does so, whatever it does to the status.
LEMMA CommitWrites ==
  ASSUME Types, NEW i \in Incidents, Commit(i)
  PROVE  \E k \in DOMAIN began[i] : Writes(i, k)
  <1>1. PICK k \in DOMAIN began[i] :
          /\ at # "done"
          /\ status' \in {[status EXCEPT ![i] = s] : s \in
               CASE status[i] = "absent" -> {"OPEN"}
                 [] status[i] = "CLOSED" -> {"CLOSED"}
                 [] OTHER                -> {status[i], Lifecycle[status[i]]}}
          /\ updated' = [updated EXCEPT ![i] = began[i][k]]
          /\ began' = [began EXCEPT ![i] = Without(@, k)]
          /\ UNCHANGED <<now, writes, client>>
          /\ steady' = {u \in steady \ {i} : Untied(u)'}
          /\ left' = left + IF Matches(status[i]) /\ ~Matches(status'[i]) THEN 1 ELSE 0
          /\ late' = late + IF began[i][k] < updated[i] THEN 1 ELSE 0
          /\ arrived' = arrived + IF ~Matches(status[i]) /\ Matches(status'[i]) THEN 1 ELSE 0
    BY DEF Commit
  <1>2. PICK s \in CASE status[i] = "absent" -> {"OPEN"}
                     [] status[i] = "CLOSED" -> {"CLOSED"}
                     [] OTHER                -> {status[i], Lifecycle[status[i]]} :
          status' = [status EXCEPT ![i] = s]
    BY <1>1
  <1>3. status[i] \in Status \cup {"absent"}
    BY DEF Types
  <1>4. s \in Status
    <2>1. CASE status[i] = "absent"
      BY <1>2, <2>1 DEF Status
    <2>2. CASE status[i] = "CLOSED"
      BY <1>2, <2>2 DEF Status
    <2>3. CASE status[i] \in {"OPEN", "INVESTIGATING", "RESOLVED"}
      <3>1. Lifecycle[status[i]] \in Status
        BY <2>3 DEF Lifecycle, Status
      <3>2. s \in {status[i], Lifecycle[status[i]]}
        BY <1>2, <2>3
      <3>3. QED
        BY <2>3, <3>1, <3>2 DEF Status
    <2>4. QED
      BY <1>3, <2>1, <2>2, <2>3 DEF Status
  <1>5. /\ status' \in [Incidents -> Status \cup {"absent"}]
        /\ \A j \in Incidents \ {i} : status'[j] = status[j]
    BY <1>2, <1>4 DEF Types
  <1>6. Writes(i, k)
    BY <1>1, <1>5 DEF Writes
  <1>7. QED
    BY <1>6

\* A transaction less is still a sequence of times.
LEMMA RemoveTyped ==
  ASSUME NEW q \in Seq(Nat), NEW k \in DOMAIN q
  PROVE  q[k] \in Nat /\ Without(q, k) \in Seq(Nat)
  <1>1. k \in 1 .. Len(q) /\ Len(q) \in Nat
    OBVIOUS
  <1>2. SubSeq(q, 1, k - 1) \in Seq(Nat)
    BY <1>1
  <1>3. SubSeq(q, k + 1, Len(q)) \in Seq(Nat)
    BY <1>1
  <1>4. QED
    BY <1>1, <1>2, <1>3 DEF Without

\* The state in which the service is asked.
LEMMA InitTypes == Init => Types /\ Pages
  BY NAssumption, LimitAssumption, MaxWritesAssumption
  DEF Init, Types, Pages, Incidents, Status, Filters

\* Every step keeps the types.
LEMMA StepTypes == Types /\ [Next]_vars => Types'
  <1> SUFFICES ASSUME Types, [Next]_vars
               PROVE  Types'
    OBVIOUS
  <1>1. CASE Ask
    BY <1>1 DEF Ask, Types, table, Filters, List
  <1>2. CASE Count
    BY <1>2, ListFinite DEF Count, Types, table
  <1>3. CASE Answer
    BY <1>3 DEF Answer, Types, table, history, Rows, List
  <1>4. ASSUME NEW i \in Incidents, Begin(i) PROVE Types'
    <2>1. now' \in Nat /\ writes' \in 0 .. MaxWrites
      BY <1>4, MaxWritesAssumption DEF Begin, Types
    <2>2. began' \in [Incidents -> Seq(Nat)]
      BY <1>4, <2>1 DEF Begin, Types
    <2>3. QED
      BY <1>4, <2>1, <2>2 DEF Begin, Types, client, history
  <1>5. ASSUME NEW i \in Incidents, Commit(i) PROVE Types'
    <2>1. PICK k \in DOMAIN began[i] : Writes(i, k)
      BY <1>5, CommitWrites
    <2>2. began[i] \in Seq(Nat)
      BY DEF Types
    <2>3. began[i][k] \in Nat /\ Without(began[i], k) \in Seq(Nat)
      BY <2>2, RemoveTyped
    <2>4. left' \in Nat /\ late' \in Nat /\ arrived' \in Nat
      BY <2>1, <2>3 DEF Writes, Types
    <2>5. QED
      BY <2>1, <2>3, <2>4 DEF Writes, Types, client
  <1>6. CASE UNCHANGED vars
    BY <1>6 DEF vars, table, client, history, Types
  <1>7. QED
    BY <1>1, <1>2, <1>3, <1>4, <1>5, <1>6 DEF Next

\* Every step keeps the pages within the table.
LEMMA StepPages == Types /\ Pages /\ [Next]_vars => Pages'
  <1> SUFFICES ASSUME Types, Pages, [Next]_vars
               PROVE  Pages'
    OBVIOUS
  <1>1. CASE UNCHANGED <<page, total>>
    BY <1>1 DEF Pages
  <1>2. CASE Ask
    BY <1>2 DEF Ask, Pages
  <1>3. CASE Count
    BY <1>3, ListFinite DEF Count, Pages
  <1>4. CASE Answer
    <2>1. CASE LastPage
      BY <1>4, <2>1 DEF Answer, Pages
    <2>2. CASE ~LastPage
      <3>1. page' = page + 1 /\ total' = total
        BY <1>4, <2>2 DEF Answer
      <3>2. page' - 1 = page
        BY <3>1 DEF Types
      <3>3. page * Limit \in Nat /\ page * Limit < total
        BY <2>2, LimitAssumption DEF LastPage, Types
      <3>4. (page' - 1) * Limit < N
        BY <3>2, <3>3, NAssumption DEF Pages, Types
      <3>5. QED
        BY <3>1, <3>4 DEF Pages
    <2>3. QED
      BY <2>1, <2>2
  <1>5. ASSUME NEW i \in Incidents, Commit(i) PROVE UNCHANGED <<page, total>>
    BY <1>5 DEF Commit, client
  <1>6. QED
    BY <1>1, <1>2, <1>3, <1>4, <1>5 DEF Next, Begin, vars, client

\* The two parts together are the type invariant.
LEMMA TypesSuffice == Types /\ Pages => TypeOK
  <1> SUFFICES ASSUME Types, Pages
               PROVE  TypeOK
    OBVIOUS
  <1>1. total \in 0 .. N
    BY NAssumption DEF Types, Pages
  <1>2. (page - 1) * Limit <= N
    <2>1. CASE page > 1
      <3>1. page - 1 \in Nat
        BY DEF Types
      <3>2. (page - 1) * Limit \in Nat
        BY <3>1, LimitAssumption
      <3>3. QED
        BY <2>1, <3>2, NAssumption DEF Pages
    <2>2. CASE ~(page > 1)
      <3>1. page - 1 = 0
        BY <2>2 DEF Types
      <3>2. QED
        BY <3>1, LimitAssumption, NAssumption
    <2>3. QED
      BY <2>1, <2>2
  <1>3. QED
    BY <1>1, <1>2 DEF TypeOK, Types, Pages

\* Rows, clock, counters and the client's parameters keep their types in every run, and no
\* page is asked for behind the last incident.
THEOREM TypeCorrect == Spec => []TypeOK
  <1>1. Types /\ Pages /\ [Next]_vars => (Types /\ Pages)'
    BY StepTypes, StepPages
  <1>2. QED
    BY <1>1, InitTypes, TypesSuffice, PTL DEF Spec

-----------------------------------------------------------------------------
(* The place of an incident in the list.                                   *)

Ahead(i) == {j \in List : Before(j, i)}
Place(i) == Cardinality(Ahead(i))

\* The place of a listed incident is a number below the length of the list.
Placed ==
  \A i \in Incidents :
    /\ IsFiniteSet(Ahead(i)) /\ Place(i) \in Nat
    /\ i \in List => Place(i) < Cardinality(List)

\* It is, in every state and in the next one.
LEMMA PlaceTyped == Types => Placed
  <1> SUFFICES ASSUME Types, NEW i \in Incidents
               PROVE  /\ IsFiniteSet(Ahead(i)) /\ Place(i) \in Nat
                      /\ i \in List => Place(i) < Cardinality(List)
    BY DEF Placed
  <1>1. Ahead(i) \subseteq List
    BY DEF Ahead
  <1>2. IsFiniteSet(Ahead(i)) /\ Place(i) \in Nat /\ Place(i) <= Cardinality(List)
    BY <1>1, ListFinite, FS_Subset, FS_CardinalityType DEF Place
  <1>3. ASSUME i \in List PROVE Place(i) # Cardinality(List)
    <2>1. ~Before(i, i)
      BY DEF Before, Types
    <2>2. Ahead(i) # List
      BY <1>3, <2>1 DEF Ahead
    <2>3. QED
      BY <1>1, <2>2, ListFinite, FS_Subset DEF Place
  <1>4. QED
    BY <1>2, <1>3, ListFinite

\* The same of the state after a step.
LEMMA PlaceTypedNext == Types' => Placed'
  BY PlaceTyped, PTL

\* No steady incident is tied.
SteadyUntied == \A u \in steady : Untied(u)

\* An Ask or a Commit leaves none that is; no other step moves a row.
LEMMA StepSteady == SteadyUntied /\ [Next]_vars => SteadyUntied'
  <1> SUFFICES ASSUME SteadyUntied, [Next]_vars
               PROVE  SteadyUntied'
    OBVIOUS
  <1>1. ASSUME UNCHANGED <<status, updated, filter, steady>>
        PROVE  SteadyUntied'
    BY <1>1 DEF SteadyUntied, Untied, Tied, Before, List, Matches
  <1>2. CASE Ask
    BY <1>2 DEF Ask, SteadyUntied
  <1>3. CASE Count \/ Answer
    BY <1>1, <1>3 DEF Count, Answer, table, history
  <1>4. ASSUME NEW i \in Incidents, Begin(i) PROVE SteadyUntied'
    BY <1>1, <1>4 DEF Begin, client, history
  <1>5. ASSUME NEW i \in Incidents, Commit(i) PROVE SteadyUntied'
    BY <1>5 DEF Commit, SteadyUntied
  <1>6. CASE UNCHANGED vars
    BY <1>1, <1>6 DEF vars, table, client, history
  <1>7. QED
    BY <1>2, <1>3, <1>4, <1>5, <1>6 DEF Next

\* A listed incident that no other ties with shares its place with none.
LEMMA PlaceInjective ==
  ASSUME Types, NEW i \in List, NEW j \in List, Untied(i), Place(i) = Place(j)
  PROVE  i = j
  <1>0. i \in Incidents /\ j \in Incidents
    BY DEF List
  <1>1. ASSUME NEW k \in List, NEW l \in List, Before(k, l)
        PROVE  Place(k) < Place(l)
    <2>0. k \in Incidents /\ l \in Incidents
      BY DEF List
    <2>1. Ahead(k) \subseteq Ahead(l)
      BY <1>1, <2>0 DEF Ahead, Before, Types, List
    <2>2. k \in Ahead(l) /\ k \notin Ahead(k)
      BY <1>1, <2>0 DEF Ahead, Before, Types
    <2>3. IsFiniteSet(Ahead(l)) /\ Place(l) \in Nat /\ Place(k) \in Nat
      BY <2>0, PlaceTyped DEF Placed
    <2>4. Place(k) <= Place(l) /\ (Place(l) = Place(k) => Ahead(l) = Ahead(k))
      BY <2>1, <2>3, FS_Subset DEF Place
    <2>5. QED
      BY <2>2, <2>3, <2>4
  <1>2. Place(i) \in Nat /\ Place(j) \in Nat
    BY <1>0, PlaceTyped DEF Placed
  <1>3. ~Before(i, j) /\ ~Before(j, i)
    BY <1>1, <1>2
  <1>4. QED
    BY <1>3 DEF Untied, Tied

\* Whatever decides between ties, an untied incident is shown by the page that its place
\* is on.
LEMMA UntiedShown ==
  ASSUME Types, NEW whim \in Whims, NEW u \in List, Untied(u)
  PROVE  u \in Rows(whim) <=> Place(u) \in (page - 1) * Limit .. page * Limit - 1
  <1>1. {j \in List : Before(j, u) \/ (Tied(j, u) /\ whim[j] < whim[u])} = Ahead(u)
    <2>1. ~(whim[u] < whim[u])
      BY DEF Whims, Incidents, List
    <2>2. \A j \in List : Tied(j, u) => j = u
      BY DEF Untied, Tied
    <2>3. QED
      BY <2>1, <2>2 DEF Ahead
  <1>2. QED
    BY <1>1 DEF Rows, Place

-----------------------------------------------------------------------------
(* Nobody is missed without a reason.                                      *)

\* Rows that the pages before this one had.
Passed == (page - 1) * Limit

\* Steady incidents that have moved to a page that the client has behind it.
Behind == {u \in steady \ seen : Place(u) < Passed}

\* The strengthening: steady incidents stay in the list; at every moment at most as many
\* of them are behind the client as left the list or fell back in it; and the list is longer
\* than its count only by what arrived since.
NoneHidden ==
  /\ steady \subseteq List
  /\ at = "idle" => page = 1
  /\ IsFiniteSet(Behind)
  /\ at # "done" => Cardinality(Behind) <= left + late
  /\ at = "rows" => Cardinality(List) <= total + arrived
  /\ MissedBounded

\* Nothing has been asked.
LEMMA InitNoneHidden == Init => NoneHidden
  <1> SUFFICES ASSUME Init
               PROVE  NoneHidden
    OBVIOUS
  <1>1. Behind = {} /\ steady = {}
    BY DEF Init, Behind
  <1>2. IsFiniteSet(Behind) /\ Cardinality(Behind) = 0
    BY <1>1, FS_EmptySet
  <1>3. left = 0 /\ late = 0 /\ at = "idle" /\ page = 1
    BY DEF Init
  <1>4. QED
    BY <1>1, <1>2, <1>3 DEF NoneHidden, MissedBounded

\* Subsets of the incidents are finite.
LEMMA BehindFinite ==
  ASSUME NEW S \in SUBSET Incidents
  PROVE  IsFiniteSet(S) /\ Cardinality(S) \in Nat
  <1>1. IsFiniteSet(Incidents)
    BY NAssumption, FS_Interval DEF Incidents
  <1>2. QED
    BY <1>1, FS_Subset, FS_CardinalityType

\* A commit that neither takes its incident from the list nor sets its updated_at back moves
\* no other incident towards the first page.
LEMMA PlaceKept ==
  ASSUME Types, Types', NEW i \in Incidents, NEW k \in DOMAIN began[i], Writes(i, k),
         left' = left, late' = late, NEW u \in Incidents \ {i}
  PROVE  Place(u)' >= Place(u)
  <1>1. /\ Matches(status[i]) => Matches(status'[i])
        /\ ~(began[i][k] < updated[i])
    BY DEF Writes, Types
  <1>2. filter' = filter
    BY DEF Writes, client
  <1>3. List \subseteq List'
    BY <1>1, <1>2 DEF List, Writes, Matches
  <1>4. ASSUME NEW j \in List, Before(j, u) PROVE Before(j, u)'
    <2>0. j \in Incidents
      BY DEF List
    <2>1. updated'[u] = updated[u]
      BY DEF Writes, Types
    <2>2. updated'[j] >= updated[j]
      <3>1. updated' = [updated EXCEPT ![i] = began[i][k]]
        BY DEF Writes
      <3>2. began[i] \in Seq(Nat)
        BY DEF Types
      <3>3. began[i][k] \in Nat
        BY <3>2, RemoveTyped
      <3>4. updated \in [Incidents -> Nat]
        BY DEF Types
      <3>5. QED
        BY <1>1, <2>0, <3>1, <3>3, <3>4
    <2>3. updated[j] \in Nat /\ updated'[j] \in Nat /\ updated[u] \in Nat
      BY <2>0 DEF Types
    <2>4. QED
      BY <1>4, <2>1, <2>2, <2>3 DEF Before
  <1>5. Ahead(u) \subseteq Ahead(u)'
    BY <1>3, <1>4 DEF Ahead
  <1>6. \A v \in Incidents : IsFiniteSet(Ahead(v)') /\ Place(v)' \in Nat
    BY PlaceTypedNext DEF Placed
  <1>7. Place(u) \in Nat
    BY PlaceTyped DEF Placed
  <1>8. QED
    BY <1>5, <1>6, <1>7, FS_Subset DEF Place

\* No commit moves another incident by more than one place towards the first page.
LEMMA PlaceDrops ==
  ASSUME Types, Types', NEW i \in Incidents, NEW k \in DOMAIN began[i], Writes(i, k),
         NEW u \in Incidents \ {i}
  PROVE  Place(u)' >= Place(u) - 1
  <1>1. filter' = filter
    BY DEF Writes, client
  <1>2. List \ {i} \subseteq List'
    BY <1>1 DEF List, Writes, Matches
  <1>3. ASSUME NEW j \in List \ {i}, Before(j, u) PROVE Before(j, u)'
    BY <1>3 DEF Before, Writes, Types, List
  <1>4. Ahead(u) \ {i} \subseteq Ahead(u)'
    BY <1>2, <1>3 DEF Ahead
  <1>5. \A v \in Incidents : IsFiniteSet(Ahead(v)') /\ Place(v)' \in Nat
    BY PlaceTypedNext DEF Placed
  <1>6. IsFiniteSet(Ahead(u)) /\ Place(u) \in Nat
    BY PlaceTyped DEF Placed
  <1>7. /\ IsFiniteSet(Ahead(u) \ {i})
        /\ Cardinality(Ahead(u) \ {i}) = IF i \in Ahead(u) THEN Place(u) - 1 ELSE Place(u)
    BY <1>6, FS_RemoveElement DEF Place
  <1>8. Cardinality(Ahead(u) \ {i}) <= Place(u)'
    BY <1>4, <1>5, FS_Subset DEF Place
  <1> HIDE DEF Place
  <1>9. QED
    BY <1>5, <1>6, <1>7, <1>8

\* One more behind the client, and one more counted as gone or late.
LEMMA OneMoreBehind ==
  ASSUME NEW b \in Int, NEW gone \in Int, NEW back \in Int, b <= gone + back,
         NEW b2 \in Int, NEW gone2 \in Int, NEW back2 \in Int,
         b2 <= b + 1, gone2 + back2 >= gone + back + 1
  PROVE  b2 <= gone2 + back2
  OBVIOUS

\* A commit puts at most one steady incident behind the client, and that only when it
\* counts an incident that left or fell back.
LEMMA CommitBehind ==
  ASSUME Types, Types', SteadyUntied, NoneHidden, NEW i \in Incidents, NEW k \in DOMAIN began[i],
         Writes(i, k)
  PROVE  /\ IsFiniteSet(Behind')
         /\ Cardinality(Behind') <= left' + late'
  <1>1. /\ page' = page /\ seen' = seen /\ steady' \subseteq steady \ {i} /\ at # "done"
        /\ steady \subseteq List /\ List \subseteq Incidents
        /\ IsFiniteSet(Behind) /\ Cardinality(Behind) <= left + late
    BY ListFinite DEF Writes, client, NoneHidden
  <1>2. Passed' = Passed /\ Passed \in Int
    <2>1. page - 1 \in Int /\ Limit \in Int
      BY LimitAssumption DEF Types
    <2>2. QED
      BY <1>1, <2>1 DEF Passed
  <1>3. left \in Nat /\ late \in Nat /\ Cardinality(Behind) \in Nat
    BY <1>1, FS_CardinalityType DEF Types
  <1>4. \A u \in Incidents : Place(u) \in Nat
    BY PlaceTyped DEF Placed
  <1>5. \A u \in Incidents : Place(u)' \in Nat
    BY PlaceTypedNext DEF Placed
  <1>6. CASE left' = left /\ late' = late
    <2>1. Behind' \subseteq Behind
      <3> SUFFICES ASSUME NEW u \in Behind'
                   PROVE  u \in Behind
        OBVIOUS
      <3>1. u \in steady \ seen /\ u # i /\ Place(u)' < Passed
        BY <1>1, <1>2 DEF Behind
      <3>2. u \in Incidents
        BY <1>1, <3>1
      <3>3. Place(u) < Passed
        BY <1>2, <1>4, <1>5, <1>6, <3>1, <3>2, PlaceKept
      <3>4. QED
        BY <3>1, <3>3 DEF Behind
    <2>2. QED
      BY <1>1, <1>3, <1>6, <2>1, FS_Subset, FS_CardinalityType
  <1>7. CASE ~(left' = left /\ late' = late)
    <2>1. left' + late' >= left + late + 1
      BY <1>3, <1>7 DEF Writes
    <2>2. \E v \in Incidents : Behind' \subseteq Behind \cup {v}
      <3> SUFFICES ASSUME NEW v \in Behind' \ Behind, NEW u \in Behind' \ Behind
                   PROVE  u = v
        <4>1. \A u \in Behind' : u \in Incidents
          BY <1>1 DEF Behind
        <4>2. CASE Behind' \subseteq Behind
          BY <4>2
        <4>3. QED
          BY <4>1, <4>2
      <3>1. ASSUME NEW x \in Behind' \ Behind
            PROVE  x \in List /\ Untied(x) /\ Place(x) = Passed
        <4>1. x \in steady \ seen /\ x # i /\ Place(x)' < Passed /\ ~(Place(x) < Passed)
          BY <1>1, <1>2 DEF Behind
        <4>2. x \in List /\ x \in Incidents /\ Untied(x)
          BY <1>1, <4>1 DEF SteadyUntied
        <4>3. Place(x)' >= Place(x) - 1
          BY <4>1, <4>2, PlaceDrops
        <4>4. QED
          BY <1>2, <1>4, <1>5, <4>1, <4>2, <4>3
      <3>2. QED
        BY <3>1, PlaceInjective
    <2>3. PICK v \in Incidents : Behind' \subseteq Behind \cup {v}
      BY <2>2
    <2>4. /\ IsFiniteSet(Behind \cup {v})
          /\ Cardinality(Behind \cup {v}) =
               IF v \in Behind THEN Cardinality(Behind) ELSE Cardinality(Behind) + 1
      BY <1>1, FS_AddElement
    <2>5. /\ IsFiniteSet(Behind') /\ Cardinality(Behind') \in Nat
          /\ Cardinality(Behind') <= Cardinality(Behind \cup {v})
      BY <2>3, <2>4, FS_Subset, FS_CardinalityType
    <2>6. Cardinality(Behind \cup {v}) <= Cardinality(Behind) + 1
          /\ Cardinality(Behind \cup {v}) \in Nat
      BY <1>3, <2>4, FS_CardinalityType
    <2>7. /\ left \in Int /\ late \in Int /\ Cardinality(Behind) \in Int
          /\ left' \in Int /\ late' \in Int /\ Cardinality(Behind') \in Int
      BY <1>3, <2>5 DEF Types
    <2>8. Cardinality(Behind) <= left + late
      BY <1>1
    <2>9. Cardinality(Behind') <= Cardinality(Behind) + 1
      BY <1>3, <2>5, <2>6
    <2>10. Cardinality(Behind') <= left' + late'
      BY <2>1, <2>7, <2>8, <2>9, OneMoreBehind
    <2>11. QED
      BY <2>5, <2>10
  <1>8. QED
    BY <1>6, <1>7

\* A page shows every untied incident whose place is between its first and last row.
LEMMA RowsShown ==
  ASSUME Types, NEW whim \in Whims, NEW u \in List, Untied(u), ~(Place(u) < Passed),
         u \notin Rows(whim)
  PROVE  ~(Place(u) < page * Limit)
  <1>1. Place(u) \in Nat
    BY PlaceTyped, ListFinite DEF Placed
  <1>2. Passed \in Nat /\ page * Limit \in Nat
    <2>1. page - 1 \in Nat /\ page \in Nat /\ Limit \in Nat
      BY LimitAssumption DEF Types
    <2>2. QED
      BY <2>1 DEF Passed
  <1>3. u \in Rows(whim) <=> Place(u) \in Passed .. page * Limit - 1
    BY UntiedShown DEF Passed
  <1>4. QED
    BY <1>1, <1>2, <1>3

\* The incidents whose place is behind the last page are no more than came in after the count.
LEMMA BeyondArrived ==
  ASSUME Types, NoneHidden, at = "rows", LastPage,
         NEW Z \in SUBSET List, \A u \in Z : Untied(u), \A u \in Z : ~(Place(u) < page * Limit)
  PROVE  Cardinality(Z) <= arrived
  <1> DEFINE lo == page * Limit
             hi == total + arrived - 1
             f == [u \in Z |-> Place(u)]
  <1>1. lo \in Nat /\ total \in Nat /\ arrived \in Nat /\ hi \in Int
    <2>1. page \in Nat /\ Limit \in Nat
      BY LimitAssumption DEF Types
    <2>2. lo \in Nat
      BY <2>1
    <2>3. QED
      BY <2>2 DEF Types
  <1>2. \A u \in Z : Place(u) \in Nat /\ Place(u) < Cardinality(List)
    BY PlaceTyped, ListFinite DEF Placed
  <1>3. Cardinality(List) \in Nat /\ Cardinality(List) <= total + arrived
    BY ListFinite DEF NoneHidden
  <1>4. lo >= total
    BY DEF LastPage
  <1> HIDE DEF lo
  <1>5. \A u \in Z : Place(u) \in lo .. hi
    BY <1>1, <1>2, <1>3 DEF lo
  <1>6. f \in Injection(Z, lo .. hi)
    <2>1. f \in [Z -> lo .. hi]
      BY <1>5
    <2>2. ASSUME NEW u \in Z, NEW v \in Z, f[u] = f[v] PROVE u = v
      BY <2>2, PlaceInjective
    <2>3. QED
      BY <2>1, <2>2 DEF Injection, IsInjective
  <1>7. IsFiniteSet(lo .. hi) /\ Cardinality(lo .. hi) = IF lo > hi THEN 0 ELSE hi - lo + 1
    BY <1>1, FS_Interval
  <1>8. Cardinality(lo .. hi) <= arrived
    BY <1>1, <1>4, <1>7
  <1> HIDE DEF f, hi
  <1>9. IsFiniteSet(Z) /\ Cardinality(Z) <= Cardinality(lo .. hi)
    BY <1>6, <1>7, FS_Injection
  <1>10. Cardinality(Z) \in Nat /\ Cardinality(lo .. hi) \in Nat
    BY <1>7, <1>9, FS_CardinalityType
  <1>11. QED
    BY <1>1, <1>8, <1>9, <1>10

\* A page that is not the last hides none: what is behind the client then was before.
LEMMA AnswerBehind ==
  ASSUME Types, SteadyUntied, NoneHidden, Answer, ~LastPage
  PROVE  Behind' \subseteq Behind
  <1>0. PICK whim \in Whims : seen' = seen \cup Rows(whim)
    BY DEF Answer
  <1>1. /\ steady' = steady /\ page' = page + 1
        /\ UNCHANGED <<table, filter>>
    BY DEF Answer, history
  <1>2. page' - 1 = page
    BY <1>1 DEF Types
  <1>3. Passed' = page * Limit
    BY <1>2 DEF Passed
  <1>4. List' = List
    BY <1>1 DEF List, Matches, table
  <1>5. \A u \in Incidents : Place(u)' = Place(u)
    BY <1>1, <1>4 DEF Place, Ahead, Before, table
  <1> SUFFICES ASSUME NEW u \in Behind'
               PROVE  u \in Behind
    OBVIOUS
  <1>6. /\ u \in steady /\ u \notin seen /\ u \notin Rows(whim) /\ u \in List
        /\ u \in Incidents /\ Untied(u) /\ Place(u)' < page * Limit
    BY <1>0, <1>1, <1>3, ListFinite DEF Behind, NoneHidden, SteadyUntied
  <1>7. Place(u) < page * Limit
    BY <1>5, <1>6
  <1>8. QED
    BY <1>6, <1>7, RowsShown DEF Behind

\* What the last page does not show is behind the client or came in after the count.
LEMMA AnswerMissed ==
  ASSUME Types, SteadyUntied, NoneHidden, Answer, LastPage
  PROVE  MissedBounded'
  <1>0. PICK whim \in Whims : seen' = seen \cup Rows(whim)
    BY DEF Answer
  <1>1. /\ steady' = steady /\ at = "rows"
        /\ left' = left /\ late' = late /\ arrived' = arrived
    BY DEF Answer, history
  <1> DEFINE M == steady \ (seen \cup Rows(whim))
             B == Behind
             Z == {u \in M : ~(Place(u) < page * Limit)}
  <1>2. M \subseteq B \cup Z
    <2> SUFFICES ASSUME NEW u \in M, u \notin Behind
                 PROVE  ~(Place(u) < page * Limit)
      OBVIOUS
    <2>1. u \in List /\ Untied(u) /\ u \notin Rows(whim) /\ ~(Place(u) < Passed)
      BY DEF NoneHidden, SteadyUntied, Behind
    <2>2. QED
      BY <2>1, RowsShown
  <1>3. Z \subseteq List /\ Z \subseteq Incidents
    BY ListFinite DEF NoneHidden
  <1>4. Cardinality(Z) <= arrived
    <2>1. \A u \in Z : Untied(u)
      BY DEF SteadyUntied
    <2>2. QED
      BY <1>1, <1>3, <2>1, BeyondArrived
  <1>5. IsFiniteSet(Z) /\ Cardinality(Z) \in Nat
    BY <1>3, BehindFinite
  <1>6. IsFiniteSet(B) /\ Cardinality(B) \in Nat /\ Cardinality(B) <= left + late
    BY <1>1, FS_CardinalityType DEF NoneHidden
  <1> HIDE DEF M, B, Z
  <1>7. IsFiniteSet(B \cup Z) /\ Cardinality(B \cup Z) <= Cardinality(B) + Cardinality(Z)
    <2>1. IsFiniteSet(B \cap Z) /\ Cardinality(B \cap Z) \in Nat
      BY <1>6, FS_Intersection, FS_CardinalityType
    <2>2. /\ IsFiniteSet(B \cup Z)
          /\ Cardinality(B \cup Z) = Cardinality(B) + Cardinality(Z) - Cardinality(B \cap Z)
      BY <1>5, <1>6, FS_Union
    <2>3. QED
      BY <1>5, <1>6, <2>1, <2>2
  <1>8. /\ IsFiniteSet(M) /\ Cardinality(M) \in Nat
        /\ Cardinality(M) <= Cardinality(B \cup Z) /\ Cardinality(B \cup Z) \in Nat
    BY <1>2, <1>7, FS_Subset, FS_CardinalityType
  <1>9. left \in Nat /\ late \in Nat /\ arrived \in Nat
    BY DEF Types
  <1>10. Cardinality(M) <= left + late + arrived
    BY <1>4, <1>5, <1>6, <1>7, <1>8, <1>9
  <1>11. QED
    BY <1>0, <1>1, <1>10 DEF MissedBounded, M

\* Every step keeps the strengthening.
LEMMA StepNoneHidden ==
  Types /\ Types' /\ SteadyUntied /\ NoneHidden /\ [Next]_vars => NoneHidden'
  <1> SUFFICES ASSUME Types, Types', SteadyUntied, NoneHidden, [Next]_vars
               PROVE  NoneHidden'
    OBVIOUS
  <1>0. /\ left \in Nat /\ late \in Nat /\ arrived \in Nat
        /\ IsFiniteSet(Behind) /\ Cardinality(Behind) \in Nat
    BY FS_CardinalityType DEF Types, NoneHidden
  <1>1. CASE Ask
    <2>1. /\ page' = 1 /\ at' = "count" /\ left' = 0 /\ late' = 0
          /\ steady' \subseteq List'
      BY <1>1 DEF Ask
    <2>3. Passed' = 0
      BY <2>1, LimitAssumption DEF Passed
    <2>4. Behind' = {}
      <3>1. steady' \subseteq Incidents
        BY <2>1 DEF List
      <3>2. \A u \in Incidents : Place(u)' \in Nat
        BY PlaceTypedNext DEF Placed
      <3>3. QED
        BY <2>3, <3>1, <3>2 DEF Behind
    <2>5. IsFiniteSet(Behind') /\ Cardinality(Behind') = 0
      BY <2>4, FS_EmptySet
    <2>6. QED
      BY <2>1, <2>5 DEF NoneHidden, MissedBounded
  <1>2. ASSUME UNCHANGED <<status, updated, filter, page, seen, steady, left, late>>
        PROVE  List' = List /\ Behind' = Behind
    BY <1>2 DEF List, Matches, Behind, Place, Ahead, Before, Passed
  <1>3. CASE Count
    <2>1. /\ at' = "rows" /\ total' = Cardinality(List) /\ arrived' = 0 /\ at = "count"
          /\ left' = left /\ late' = late /\ steady' = steady
          /\ List' = List /\ Behind' = Behind
      BY <1>2, <1>3 DEF Count, table
    <2>2. Cardinality(List) \in Nat
      BY ListFinite
    <2>3. QED
      BY <2>1, <2>2 DEF NoneHidden, MissedBounded
  <1>4. CASE Answer
    <2>1. List' = List /\ steady' = steady /\ left' = left /\ late' = late /\ at = "rows"
      BY <1>4 DEF Answer, List, Matches, table, history
    <2>2. CASE LastPage
      <3>1. at' = "done"
        BY <1>4, <2>2 DEF Answer
      <3>2. MissedBounded'
        BY <1>4, <2>2, AnswerMissed
      <3>3. IsFiniteSet(Behind')
        <4>1. Behind' \subseteq Incidents
          BY DEF Behind, Types
        <4>2. QED
          BY <4>1, BehindFinite
      <3>4. QED
        BY <2>1, <3>1, <3>2, <3>3 DEF NoneHidden
    <2>3. CASE ~LastPage
      <3>1. at' = "count"
        BY <1>4, <2>3 DEF Answer
      <3>2. /\ IsFiniteSet(Behind') /\ Cardinality(Behind') \in Nat
            /\ Cardinality(Behind') <= Cardinality(Behind)
        BY <1>0, <1>4, <2>3, AnswerBehind, FS_Subset, FS_CardinalityType
      <3>3. Cardinality(Behind') <= left + late
        BY <1>0, <2>1, <3>2 DEF NoneHidden
      <3>4. QED
        BY <2>1, <3>1, <3>2, <3>3 DEF NoneHidden, MissedBounded
    <2>4. QED
      BY <2>2, <2>3
  <1>5. ASSUME NEW i \in Incidents, Begin(i) PROVE NoneHidden'
    <2>1. List' = List /\ Behind' = Behind /\ UNCHANGED <<client, history>>
      BY <1>2, <1>5 DEF Begin, client, history
    <2>2. QED
      BY <2>1 DEF NoneHidden, MissedBounded, client, history
  <1>6. ASSUME NEW i \in Incidents, Commit(i) PROVE NoneHidden'
    <2>1. PICK k \in DOMAIN began[i] : Writes(i, k)
      BY <1>6, CommitWrites
    <2>2. IsFiniteSet(Behind') /\ Cardinality(Behind') <= left' + late'
      BY <2>1, CommitBehind
    <2>3. /\ steady' \subseteq steady \ {i} /\ UNCHANGED <<at, filter, page, total>>
          /\ at # "done" /\ \A j \in Incidents \ {i} : status'[j] = status[j]
      BY <2>1 DEF Writes, client
    <2>4. List \ {i} \subseteq List' /\ List' \subseteq List \cup {i}
      BY <2>3 DEF List, Matches
    <2>5. steady' \subseteq List'
      BY <2>3, <2>4 DEF NoneHidden
    <2>6. ASSUME at = "rows" PROVE Cardinality(List') <= total + arrived'
      <3>1. Cardinality(List) <= total + arrived /\ total \in Nat
        BY <2>6 DEF NoneHidden, Types
      <3>2. CASE List' \subseteq List
        <4>1. Cardinality(List') <= Cardinality(List) /\ Cardinality(List') \in Nat
          BY <3>2, ListFinite, FS_Subset, FS_CardinalityType
        <4>2. arrived' = arrived \/ arrived' = arrived + 1
          BY <1>0, <2>1 DEF Writes
        <4>3. QED
          BY <1>0, <3>1, <4>1, <4>2, ListFinite
      <3>3. CASE ~(List' \subseteq List)
        <4>1. i \in List' /\ i \notin List
          BY <2>4, <3>3
        <4>2. arrived' = arrived + 1
          BY <2>1, <2>3, <4>1 DEF Writes, List, Matches
        <4>3. /\ IsFiniteSet(List \cup {i})
              /\ Cardinality(List \cup {i}) = Cardinality(List) + 1
          BY <4>1, ListFinite, FS_AddElement
        <4>4. Cardinality(List') <= Cardinality(List \cup {i}) /\ Cardinality(List') \in Nat
          BY <2>4, <4>3, FS_Subset, FS_CardinalityType
        <4>5. QED
          BY <1>0, <3>1, <4>2, <4>3, <4>4, ListFinite
      <3>4. QED
        BY <3>2, <3>3
    <2>7. QED
      BY <2>2, <2>3, <2>5, <2>6 DEF NoneHidden, MissedBounded
  <1>7. CASE UNCHANGED vars
    <2>1. List' = List /\ Behind' = Behind /\ UNCHANGED <<client, history>>
      BY <1>2, <1>7 DEF vars, table, client, history
    <2>2. QED
      BY <2>1 DEF NoneHidden, MissedBounded, client, history
  <1>8. QED
    BY <1>1, <1>3, <1>4, <1>5, <1>6, <1>7 DEF Next

\* However often signals, status changes and creations reorder the list between two queries,
\* whoever reads to the last page misses no more of the unchanged incidents that tied with no
\* other than left it, fell back in it, or came in after the last count.  Without ties among
\* the listed, that is all unchanged ones; of tied ones the code promises nothing.
THEOREM FewAreMissed == Spec => []MissedBounded
  <1>1. Types /\ Pages /\ [Next]_vars => (Types /\ Pages)'
    BY StepTypes, StepPages
  <1>2. NoneHidden => MissedBounded
    BY DEF NoneHidden
  <1>3. Init => SteadyUntied
    BY DEF Init, SteadyUntied
  <1>4. QED
    BY <1>1, <1>2, <1>3, InitTypes, InitNoneHidden, StepSteady, StepNoneHidden, PTL DEF Spec
=============================================================================
