--------------------------- MODULE AdmissionProofs ---------------------------
(* Proofs about the token bucket (RateLimiter), about the stream that it      *)
(* protects (Ingestion), and about both together (Admission).                 *)
EXTENDS Admission, FiniteSetTheorems, TLAPS

-----------------------------------------------------------------------------
(* The bucket.                                                             *)

\* The inductive invariant.  A window opens with the tokens of the moment, so that the
\* bounds of a window need the bound of the bucket.
BucketInv == BucketTypeOK /\ tokens <= BucketCapacity /\ GrantsBounded /\ WaitingEarns

LEMMA RefillAdds ==
  ASSUME NEW x \in Int, NEW y \in Int
  PROVE  /\ RefillRate * x \in Int /\ RefillRate * y \in Int
         /\ RefillRate * (x + y) = RefillRate * x + RefillRate * y
         /\ x >= 0 => RefillRate * x >= 0
         /\ x <= 0 => RefillRate * x <= 0
BY RefillRateAssumption

\* A grant takes from the credit what it counts, and leaves no debt.
LEMMA ScriptBalance ==
  ASSUME BucketInv, NEW now \in Nat, NEW n \in Nat \ {0}, Script(now, n)
  PROVE  /\ Credit(now) \in 0 .. BucketCapacity
         /\ tokens' \in 0 .. BucketCapacity
         /\ granted' \in Nat
         /\ granted' + tokens' = granted + Credit(now)
<1>1. Refilled(now) \in Nat
  <2>1. Positive(now - lastRefill) \in Nat
    BY DEF Positive, BucketInv, BucketTypeOK
  <2> QED BY <2>1, RefillRateAssumption DEF Refilled, BucketInv, BucketTypeOK
<1>2. Credit(now) \in 0 .. BucketCapacity
  BY <1>1, BucketCapacityAssumption DEF Credit, Lesser
<1>3. /\ tokens' = IF Credit(now) >= n THEN Credit(now) - n ELSE Credit(now)
      /\ granted' = granted + (IF Credit(now) >= n THEN n ELSE 0)
  BY DEF Script, Left
<1>4. granted \in Nat
  BY DEF BucketInv, BucketTypeOK
<1> QED BY <1>2, <1>3, <1>4, BucketCapacityAssumption

\* The script finds the refill of the waiting time, up to the capacity; more than that
\* only where Redis forgot the bucket.
LEMMA CreditEarned ==
  ASSUME BucketInv, NEW now \in Nat
  PROVE  LET wait == IF now >= lastRefill THEN now - lastRefill ELSE 0 IN
         /\ Credit(now) = BucketCapacity \/ Credit(now) >= tokens + RefillRate * wait
         /\ \/ Credit(now) <= tokens + RefillRate * wait
            \/ ~Known /\ Refilled(now) < BucketCapacity /\ Credit(now) = BucketCapacity
<1> DEFINE wait == IF now >= lastRefill THEN now - lastRefill ELSE 0
<1>1. wait \in Nat /\ Positive(now - lastRefill) = wait
  BY DEF Positive, BucketInv, BucketTypeOK
<1>2. Refilled(now) = tokens + RefillRate * wait /\ Refilled(now) \in Nat
  <2>1. RefillRate * wait = wait * RefillRate /\ RefillRate * wait \in Nat
    BY <1>1, RefillRateAssumption
  <2> QED BY <1>1, <2>1 DEF Refilled, BucketInv, BucketTypeOK
<1> HIDE DEF wait
<1>3. /\ Credit(now) = BucketCapacity \/ Credit(now) >= Refilled(now)
      /\ \/ Credit(now) <= Refilled(now)
         \/ ~Known /\ Refilled(now) < BucketCapacity /\ Credit(now) = BucketCapacity
  BY <1>2, BucketCapacityAssumption DEF Credit, Lesser
<1> QED BY <1>2, <1>3 DEF wait

\* Arithmetic of WaitingEarns: g granted, t tokens, c of credit, b back, e earned, w waited.
LEMMA Surplus ==
  ASSUME NEW cap \in Nat, NEW g \in Nat, NEW t \in Nat, NEW c \in Nat,
         NEW e \in Int, NEW w \in Int, NEW b \in Int,
         w >= 0, b <= 0, g + t >= cap \/ g + t >= e, c = cap \/ c >= t + w
  PROVE  g + c >= cap \/ g + c >= e + w + b
OBVIOUS

LEMMA ScriptKeeps ==
  ASSUME BucketInv, NEW now \in Nat, NEW n \in Nat \ {0}, Script(now, n)
  PROVE  BucketInv'
<1> DEFINE wait == IF now >= lastRefill THEN now - lastRefill ELSE 0
           back == IF lastRefill >= now THEN lastRefill - now ELSE 0
           lost == IF ~Known /\ Refilled(now) < BucketCapacity THEN 1 ELSE 0
           earned == RefillRate * (lastRefill - since)
<1>1. /\ time \in Nat /\ tokens \in Nat /\ lastRefill \in Nat /\ expireAt \in Nat
      /\ since \in Nat /\ granted \in Nat /\ setBack \in Nat /\ forgotten \in Nat
      /\ BucketCapacity \in Nat \ {0} /\ RefillRate \in Nat \ {0}
  BY BucketCapacityAssumption, RefillRateAssumption DEF BucketInv, BucketTypeOK
<1>2. /\ time' = time /\ since' = since /\ lastRefill' = now
      /\ setBack' = setBack + back /\ forgotten' = forgotten + lost
      /\ expireAt' = time + Ttl
  BY <1>1 DEF Script, Positive
<1>3. wait \in Nat /\ back \in Nat /\ lost \in {0, 1} /\ now - lastRefill = wait - back
  BY <1>1
<1>4. /\ Credit(now) \in 0 .. BucketCapacity /\ tokens' \in 0 .. BucketCapacity
      /\ granted' \in Nat /\ granted' + tokens' = granted + Credit(now)
  BY ScriptBalance
<1>5. /\ Credit(now) = BucketCapacity \/ Credit(now) >= tokens + RefillRate * wait
      /\ \/ Credit(now) <= tokens + RefillRate * wait
         \/ lost = 1 /\ Credit(now) = BucketCapacity
  BY CreditEarned
<1>6. BucketTypeOK' /\ tokens' <= BucketCapacity
  <2>1. Ttl \in Nat
    BY <1>1 DEF Ttl
  <2> QED BY <1>1, <1>2, <1>3, <1>4, <2>1 DEF BucketTypeOK
<1> HIDE DEF wait, back, lost
<1>7. GrantsBounded'
  <2> DEFINE window == RefillRate * (lastRefill - since + setBack)
             caps == BucketCapacity * (1 + forgotten)
  <2>1. /\ window \in Int /\ caps \in Int /\ RefillRate * wait \in Int
        /\ RefillRate * (now - since + (setBack + back)) = window + RefillRate * wait
    <3>1. now - since + (setBack + back) = (lastRefill - since + setBack) + wait
      BY <1>1, <1>3
    <3> QED BY <1>1, <1>3, <3>1, RefillAdds
  <2>2. BucketCapacity * (1 + (forgotten + lost)) = caps + BucketCapacity * lost
    BY <1>1, <1>3
  <2>3. lost = 1 => BucketCapacity * lost = BucketCapacity
    BY <1>1
  <2>4. BucketCapacity * lost >= 0 /\ BucketCapacity * lost \in Int
    BY <1>1, <1>3
  <2>5. RefillRate * wait >= 0
    BY <1>3, RefillAdds
  <2>6. granted + tokens <= caps + window
    BY DEF BucketInv, GrantsBounded
  <2>7. granted' + tokens' <= (caps + BucketCapacity * lost) + (window + RefillRate * wait)
    <3> HIDE DEF window, caps
    <3> QED BY <1>1, <1>4, <1>5, <2>1, <2>3, <2>4, <2>5, <2>6
  <2> QED BY <1>2, <2>1, <2>2, <2>7 DEF GrantsBounded
<1>8. WaitingEarns'
  <2>1. /\ earned \in Int /\ RefillRate * wait \in Int /\ RefillRate * (-back) \in Int
        /\ RefillRate * (now - since) = earned + RefillRate * wait + RefillRate * (-back)
    <3>1. now - since = (lastRefill - since) + (wait + (-back))
      BY <1>1, <1>3
    <3> QED BY <1>1, <1>3, <3>1, RefillAdds
  <2>2. RefillRate * (-back) <= 0
    BY <1>3, RefillAdds
  <2>3. granted + tokens >= BucketCapacity \/ granted + tokens >= earned
    BY <1>1 DEF BucketInv, WaitingEarns, Lesser
  <2>4. RefillRate * wait >= 0
    BY <1>3, RefillAdds
  <2>5. \/ granted' + tokens' >= BucketCapacity
        \/ granted' + tokens' >= earned + RefillRate * wait + RefillRate * (-back)
    <3>1. granted \in Nat /\ tokens \in Nat /\ Credit(now) \in Nat /\ granted' + tokens' = granted + Credit(now)
      BY <1>1, <1>4
    <3>2. Credit(now) = BucketCapacity \/ Credit(now) >= tokens + RefillRate * wait
      BY <1>5
    <3> HIDE DEF earned
    <3> QED BY <1>1, <3>1, <3>2, <2>1, <2>2, <2>3, <2>4, Surplus
  <2>6. /\ granted' + tokens' \in Int
        /\ \/ granted' + tokens' >= BucketCapacity
           \/ granted' + tokens' >= RefillRate * (now - since)
    BY <1>4, <2>1, <2>5
  <2> QED BY <1>1, <1>2, <2>1, <2>6 DEF WaitingEarns, Lesser
<1> QED BY <1>6, <1>7, <1>8 DEF BucketInv

LEMMA BucketStart ==
  ASSUME BucketInit
  PROVE  BucketInv
BY BucketCapacityAssumption, RefillRateAssumption
DEF BucketInit, BucketInv, BucketTypeOK, GrantsBounded, WaitingEarns, Lesser

LEMMA BucketStep ==
  ASSUME BucketInv, [BucketNext]_bucketVars
  PROVE  BucketInv'
<1>1. CASE Tick
  BY <1>1 DEF Tick, history, BucketInv, BucketTypeOK, GrantsBounded, WaitingEarns, Lesser
<1>2. CASE Evict
  BY <1>2 DEF Evict, history, BucketInv, BucketTypeOK, GrantsBounded, WaitingEarns, Lesser
<1>3. CASE OpenWindow
  <2>1. /\ since' = lastRefill /\ lastRefill' = lastRefill /\ tokens' = tokens
        /\ granted' = 0 /\ setBack' = 0 /\ forgotten' = 0
        /\ time' = time /\ expireAt' = expireAt
    BY <1>3 DEF OpenWindow
  <2>2. BucketTypeOK' /\ tokens' <= BucketCapacity
    BY <2>1 DEF BucketInv, BucketTypeOK
  <2>3. RefillRate * (lastRefill - lastRefill + 0) = 0 /\ RefillRate * (lastRefill - lastRefill) = 0
    BY RefillRateAssumption DEF BucketInv, BucketTypeOK
  <2>4. GrantsBounded' /\ WaitingEarns'
    BY <2>1, <2>2, <2>3, BucketCapacityAssumption DEF BucketTypeOK, GrantsBounded, WaitingEarns, Lesser
  <2> QED BY <2>2, <2>4 DEF BucketInv
<1>4. CASE \E now \in Stamps, n \in Nat \ {0} : Script(now, n)
  <2>1. PICK now \in Stamps, n \in Nat \ {0} : Script(now, n)
    BY <1>4
  <2>2. now \in Nat
    BY MaxTimeAssumption, MaxSkewAssumption DEF Stamps
  <2> QED BY <2>1, <2>2, ScriptKeeps
<1>5. CASE UNCHANGED bucketVars
  BY <1>5 DEF bucketVars, history, BucketInv, BucketTypeOK, GrantsBounded, WaitingEarns, Lesser
<1> QED BY <1>1, <1>2, <1>3, <1>4, <1>5 DEF BucketNext

LEMMA BucketInvariant == BucketSpec => []BucketInv
<1>1. BucketInit => BucketInv
  BY BucketStart
<1>2. BucketInv /\ [BucketNext]_bucketVars => BucketInv'
  BY BucketStep
<1> QED BY <1>1, <1>2, PTL DEF BucketSpec

-----------------------------------------------------------------------------
(* The bucket among requests, failures and evictions.                      *)

\* Whatever the API and its workers do is a step of the bucket, or none.
LEMMA AdmissionMovesBucket ==
  ASSUME [AdmissionNext]_admissionVars
  PROVE  [BucketNext]_bucketVars
<1>1. ASSUME NEW r \in Requests, Limit(r) PROVE BucketNext
  BY <1>1, SizeOfAssumption DEF Limit, BucketNext
<1>2. ASSUME NEW r \in Requests, LimitFailsOpen(r) PROVE [BucketNext]_bucketVars
  BY <1>2, SizeOfAssumption DEF LimitFailsOpen, BucketNext
<1>3. ASSUME NEW r \in Requests, Handle(r) PROVE UNCHANGED bucketVars
  BY <1>3 DEF Handle
<1>7. ASSUME NEW r \in Requests, LimitResent(r) PROVE BucketNext
  BY <1>7, SizeOfAssumption DEF LimitResent, BucketNext
<1>4. ASSUME NEW n \in 1 .. BucketCapacity, LimitInvalid(n) PROVE BucketNext
  <2>1. n \in Nat \ {0}
    BY BucketCapacityAssumption
  <2> QED BY <1>4, <2>1 DEF LimitInvalid, BucketNext
<1>5. CASE Tick \/ OpenWindow \/ Evict
  BY <1>5 DEF BucketNext
<1>6. CASE UNCHANGED admissionVars
  BY <1>6 DEF admissionVars
<1> QED BY <1>1, <1>2, <1>3, <1>4, <1>5, <1>6, <1>7 DEF AdmissionNext

\* The limiter grants no more than the capacity and the refill of the window, however
\* requests, clocks, failures and evictions interleave (TOKEN_BUCKET_SCRIPT).
THEOREM LimiterIsBounded == AdmissionSpec => []GrantsBounded
<1>1. AdmissionInit => BucketInv
  BY BucketStart DEF AdmissionInit
<1>2. BucketInv /\ [AdmissionNext]_admissionVars => BucketInv'
  BY AdmissionMovesBucket, BucketStep
<1>3. BucketInv => GrantsBounded
  BY DEF BucketInv
<1> QED BY <1>1, <1>2, <1>3, PTL DEF AdmissionSpec

\* What a client has waited for is in its bucket or was granted to it: a refused request
\* takes nothing (the hmset of a refusal writes the refill).
THEOREM WaitingIsNotLost == AdmissionSpec => []WaitingEarns
<1>1. AdmissionInit => BucketInv
  BY BucketStart DEF AdmissionInit
<1>2. BucketInv /\ [AdmissionNext]_admissionVars => BucketInv'
  BY AdmissionMovesBucket, BucketStep
<1>3. BucketInv => WaitingEarns
  BY DEF BucketInv
<1> QED BY <1>1, <1>2, <1>3, PTL DEF AdmissionSpec

\* The API uses the bucket as the bucket promises to be used: each behaviour of it with its
\* requests, failures and workers is a behaviour of the bucket alone, where calls of any
\* number of tokens come at any time.
THEOREM AdmissionImplementsBucket == AdmissionSpec => BucketSpec
<1>1. AdmissionInit => BucketInit
  BY DEF AdmissionInit
<1>2. [AdmissionNext]_admissionVars => [BucketNext]_bucketVars
  BY AdmissionMovesBucket
<1> QED BY <1>1, <1>2, PTL DEF AdmissionSpec, BucketSpec

-----------------------------------------------------------------------------
(* The stream.                                                             *)

\* A signal is in the stream only when its produce() was started.
QueuedWasProduced == \A entry \in Queued : entry[2] < next[entry[1]]

StreamInv ==
  /\ TypeOK /\ StreamBounded /\ AcceptedStays
  /\ IsFiniteSet(Queued) /\ QueuedWasProduced

\* A script that finds room evicts nothing.
LEMMA AddAppends ==
  ASSUME NEW entry \in Signals, stream \in Seq(Signals), ~Full, Add(entry)
  PROVE  /\ stream' = Append(stream, entry) /\ stream' \in Seq(Signals)
         /\ Len(stream') = Len(stream) + 1 /\ Len(stream') <= MaxLength
         /\ Queued' = Queued \cup {entry}
<1>1. Len(stream) \in Nat /\ Len(stream) < MaxLength
  BY MaxLengthAssumption DEF Full
<1>2. PICK evicted \in 0 .. Len(stream) :
        /\ evicted > 0 => Len(stream) + 1 - evicted >= MaxLength
        /\ stream' = Append(SubSeq(stream, evicted + 1, Len(stream)), entry)
  BY DEF Add
<1>3. evicted = 0
  BY <1>1, <1>2, MaxLengthAssumption
<1>4. SubSeq(stream, 1, Len(stream)) = stream
  OBVIOUS
<1>5. stream' = Append(stream, entry)
  BY <1>2, <1>3, <1>4
<1>6. /\ stream' \in Seq(Signals) /\ Len(stream') = Len(stream) + 1
      /\ \A k \in 1 .. Len(stream) : stream'[k] = stream[k]
      /\ stream'[Len(stream) + 1] = entry
  BY <1>5
<1>7. Queued' = Queued \cup {entry}
  BY <1>1, <1>6 DEF Queued
<1> QED BY <1>1, <1>5, <1>6, <1>7, MaxLengthAssumption

LEMMA OneMoreQueued ==
  ASSUME NEW S, IsFiniteSet(S), NEW e, e \notin S
  PROVE  IsFiniteSet(S \cup {e}) /\ Cardinality(S \cup {e}) = Cardinality(S) + 1
<1>1. IsFiniteSet(S \cup {e})
      /\ Cardinality(S \cup {e}) = IF e \in S THEN Cardinality(S) ELSE Cardinality(S) + 1
  BY FS_AddElement
<1> QED BY <1>1

LEMMA StreamStart ==
  ASSUME Init
  PROVE  StreamInv
<1>1. Queued = {} /\ Accepted = {}
  <2>1. \A signal \in Signals : accepted[signal[1]] = {}
    BY DEF Init, Signals
  <2>2. Accepted = {}
    BY <2>1 DEF Accepted
  <2>3. Queued = {}
    BY DEF Init, Queued
  <2> QED BY <2>2, <2>3
<1>2. IsFiniteSet({}) /\ Cardinality({}) = 0
  BY FS_EmptySet
<1>3. TypeOK
  BY SizeOfAssumption, MaxFaultsAssumption DEF Init, TypeOK
<1>4. Len(stream) = 0 /\ faults = 0
  BY DEF Init
<1>5. AcceptedStays
  BY <1>1, <1>2, <1>4 DEF AcceptedStays
<1> QED BY <1>1, <1>2, <1>3, <1>4, <1>5, MaxLengthAssumption
     DEF StreamInv, StreamBounded, QueuedWasProduced

LEMMA AcceptedCount ==
  ASSUME StreamInv
  PROVE  /\ IsFiniteSet(Accepted) /\ Cardinality(Accepted) \in Nat
         /\ faults \in Nat /\ Len(stream) \in Nat
         /\ Len(stream) <= Cardinality(Accepted) + faults
<1>1. IsFiniteSet(Accepted)
  BY FS_Subset DEF StreamInv, AcceptedStays
<1> QED BY <1>1, FS_CardinalityType, MaxFaultsAssumption DEF StreamInv, TypeOK, AcceptedStays

LEMMA QueuedFromRequests ==
  ASSUME TypeOK, NEW entry \in Queued
  PROVE  entry[1] \in Requests /\ entry \in Signals
<1>1. entry \in Signals
  BY DEF TypeOK, Queued
<1> QED BY <1>1 DEF Signals

LEMMA SameSignals ==
  ASSUME StreamInv, UNCHANGED <<stream, next, inFlight, accepted, rejected>>,
         answer' \in [Requests -> {0, 202}], acked' \subseteq Signals,
         faults' \in 0 .. MaxFaults, faults' >= faults
  PROVE  StreamInv'
<1>1. Queued' = Queued /\ Accepted' = Accepted
  BY DEF Queued, Accepted
<1>2. TypeOK'
  BY DEF StreamInv, TypeOK
<1>3. AcceptedStays'
  <2>1. Accepted' \subseteq Queued'
    BY <1>1 DEF StreamInv, AcceptedStays
  <2>2. Len(stream') <= Cardinality(Accepted') + faults'
    <3>1. Len(stream') = Len(stream) /\ Cardinality(Accepted') = Cardinality(Accepted)
      BY <1>1
    <3> QED BY <3>1, AcceptedCount, MaxFaultsAssumption
  <2> QED BY <2>1, <2>2 DEF AcceptedStays
<1>4. StreamBounded' /\ QueuedWasProduced'
  BY <1>1 DEF StreamInv, StreamBounded, QueuedWasProduced
<1> QED BY <1>1, <1>2, <1>3, <1>4 DEF StreamInv

\* What a settled produce() does to the counts.
LEMMA Settled ==
  ASSUME TypeOK, NEW r \in Requests, NEW k \in inFlight[r], NEW c \in {"accepted", "rejected"},
         Settle(r, k, c)
  PROVE  /\ {inFlight', accepted', rejected'} \subseteq [Requests -> SUBSET Nat]
         /\ inFlight'[r] = inFlight[r] \ {k}
         /\ \/ accepted'[r] = accepted[r] \cup {k} /\ rejected'[r] = rejected[r] /\ c = "accepted"
            \/ rejected'[r] = rejected[r] \cup {k} /\ accepted'[r] = accepted[r] /\ c = "rejected"
         /\ \A q \in Requests \ {r} :
              inFlight'[q] = inFlight[q] /\ accepted'[q] = accepted[q] /\ rejected'[q] = rejected[q]
<1>1. k \in Nat /\ inFlight \in [Requests -> SUBSET Nat]
      /\ accepted \in [Requests -> SUBSET Nat] /\ rejected \in [Requests -> SUBSET Nat]
  BY DEF TypeOK
<1>2. inFlight' = [inFlight EXCEPT ![r] = @ \ {k}]
  BY DEF Settle
<1>3. CASE c = "accepted" /\ accepted' = [accepted EXCEPT ![r] = @ \cup {k}] /\ UNCHANGED rejected
  BY <1>1, <1>2, <1>3
<1>4. CASE c = "rejected" /\ rejected' = [rejected EXCEPT ![r] = @ \cup {k}] /\ UNCHANGED accepted
  BY <1>1, <1>2, <1>4
<1> QED BY <1>3, <1>4 DEF Settle

LEMMA SettledTypeOK ==
  ASSUME TypeOK, NEW r \in Requests, NEW k \in inFlight[r], NEW c \in {"accepted", "rejected"},
         Settle(r, k, c), stream' \in Seq(Signals), faults' \in 0 .. MaxFaults,
         UNCHANGED <<acked, next, answer>>
  PROVE  TypeOK'
<1>1. ASSUME NEW q \in Requests
      PROVE  /\ next'[q] <= SizeOf[q] + 1
             /\ inFlight'[q] \cup accepted'[q] \cup rejected'[q] \subseteq 1 .. next'[q] - 1
             /\ inFlight'[q] \cap (accepted'[q] \cup rejected'[q]) = {}
             /\ accepted'[q] \cap rejected'[q] = {}
  <2>1. CASE q = r
    BY <2>1, Settled DEF TypeOK
  <2>2. CASE q # r
    BY <2>2, Settled DEF TypeOK
  <2> QED BY <2>1, <2>2
<1> QED BY <1>1, Settled DEF TypeOK

LEMMA InFlightIsSignal ==
  ASSUME TypeOK, NEW r \in Requests, NEW k \in inFlight[r]
  PROVE  <<r, k>> \in Signals /\ k < next[r] /\ k \notin accepted[r] \cup rejected[r]
<1>1. k \in 1 .. next[r] - 1 /\ next[r] \in Nat /\ next[r] <= SizeOf[r] + 1 /\ SizeOf[r] \in Nat
  BY SizeOfAssumption DEF TypeOK
<1>2. k \in 1 .. SizeOf[r] /\ k < next[r]
  BY <1>1
<1>3. <<r, k>> \in Signals
  BY <1>2 DEF Signals
<1> QED BY <1>2, <1>3 DEF TypeOK

\* The stream after the script has added a signal that was in flight.
LEMMA AddQueues ==
  ASSUME StreamInv, NEW r \in Requests, NEW k \in inFlight[r], ~Full, Add(<<r, k>>)
  PROVE  /\ stream' \in Seq(Signals) /\ Len(stream') = Len(stream) + 1
         /\ Len(stream') <= MaxLength
         /\ Queued' = Queued \cup {<<r, k>>} /\ IsFiniteSet(Queued')
<1>1. <<r, k>> \in Signals
  BY InFlightIsSignal DEF StreamInv
<1>2. /\ stream' \in Seq(Signals) /\ Len(stream') = Len(stream) + 1
      /\ Len(stream') <= MaxLength /\ Queued' = Queued \cup {<<r, k>>}
  BY <1>1, AddAppends DEF StreamInv, TypeOK
<1>3. IsFiniteSet(Queued \cup {<<r, k>>})
  BY FS_AddElement DEF StreamInv
<1> QED BY <1>2, <1>3

\* A settled produce() adds its signal to the accepted ones, or none.
LEMMA SettledAccepted ==
  ASSUME TypeOK, NEW r \in Requests, NEW k \in inFlight[r], NEW c \in {"accepted", "rejected"},
         Settle(r, k, c)
  PROVE  /\ c = "accepted" => Accepted' = Accepted \cup {<<r, k>>} /\ <<r, k>> \notin Accepted
         /\ c = "rejected" => Accepted' = Accepted
<1>1. \A signal \in Signals : signal[1] \in Requests /\ signal = <<signal[1], signal[2]>>
  BY DEF Signals
<1>2. \A signal \in Signals \ {<<r, k>>} :
        signal[2] \in accepted'[signal[1]] <=> signal[2] \in accepted[signal[1]]
  BY <1>1, Settled
<1>3. <<r, k>> \in Signals /\ k \notin accepted[r]
  BY InFlightIsSignal
<1>4. <<r, k>>[1] = r /\ <<r, k>>[2] = k
  OBVIOUS
<1>5. /\ c = "accepted" => k \in accepted'[r]
      /\ c = "rejected" => k \notin accepted'[r]
  BY <1>3, Settled
<1> QED BY <1>2, <1>3, <1>4, <1>5 DEF Accepted

\* A produce() settles whose signal the script has added to the stream: it is counted as
\* accepted, or a fault has paid for it.
LEMMA EnqueueKeeps ==
  ASSUME StreamInv, NEW r \in Requests, NEW k \in inFlight[r], NEW c \in {"accepted", "rejected"},
         ~Full, Add(<<r, k>>), Settle(r, k, c), faults' \in 0 .. MaxFaults,
         faults' = IF c = "accepted" THEN faults ELSE faults + 1,
         UNCHANGED <<acked, next, answer>>
  PROVE  StreamInv'
<1>1. TypeOK'
  BY AddQueues, SettledTypeOK DEF StreamInv
<1>2. AcceptedStays'
  <2>1. Accepted' \subseteq Queued'
    BY AddQueues, SettledAccepted DEF StreamInv, AcceptedStays
  <2>2. CASE c = "accepted"
    <3>1. Cardinality(Accepted') = Cardinality(Accepted) + 1
      BY <2>2, SettledAccepted, AcceptedCount, OneMoreQueued DEF StreamInv
    <3> QED BY <2>1, <2>2, <3>1, AddQueues, AcceptedCount DEF AcceptedStays
  <2>3. CASE c = "rejected"
    <3>1. Cardinality(Accepted') = Cardinality(Accepted)
      BY <2>3, SettledAccepted DEF StreamInv
    <3> QED BY <2>1, <2>3, <3>1, AddQueues, AcceptedCount DEF AcceptedStays
  <2> QED BY <2>2, <2>3
<1>3. QueuedWasProduced'
  BY AddQueues, InFlightIsSignal DEF StreamInv, QueuedWasProduced
<1> QED BY <1>1, <1>2, <1>3, AddQueues DEF StreamInv, StreamBounded

\* The script runs once more for a signal that stays in flight.
LEMMA ResentKeeps ==
  ASSUME StreamInv, NEW r \in Requests, NEW k \in inFlight[r], EvalResent(r, k)
  PROVE  StreamInv'
<1>1. /\ ~Full /\ Add(<<r, k>>) /\ faults < MaxFaults /\ faults' = faults + 1
      /\ UNCHANGED <<acked, next, inFlight, accepted, rejected, answer>>
  BY DEF EvalResent
<1>2. TypeOK'
  BY <1>1, AddQueues, MaxFaultsAssumption DEF StreamInv, TypeOK
<1>3. Accepted' = Accepted
  BY <1>1 DEF Accepted
<1>4. AcceptedStays'
  <2>1. Accepted' \subseteq Queued'
    BY <1>1, <1>3, AddQueues DEF StreamInv, AcceptedStays
  <2>2. Cardinality(Accepted') = Cardinality(Accepted)
    BY <1>3
  <2> QED BY <1>1, <2>1, <2>2, AddQueues, AcceptedCount DEF AcceptedStays
<1>5. QueuedWasProduced'
  BY <1>1, AddQueues, InFlightIsSignal DEF StreamInv, QueuedWasProduced
<1> QED BY <1>1, <1>2, <1>4, <1>5, AddQueues DEF StreamInv, StreamBounded

LEMMA RejectKeeps ==
  ASSUME StreamInv, NEW r \in Requests, NEW k \in inFlight[r], Settle(r, k, "rejected"),
         faults' \in 0 .. MaxFaults, faults' >= faults, UNCHANGED <<stream, acked, next, answer>>
  PROVE  StreamInv'
<1>1. TypeOK'
  BY SettledTypeOK DEF StreamInv, TypeOK
<1>2. Queued' = Queued
  BY DEF Queued
<1>3. AcceptedStays'
  <2>1. Accepted' = Accepted
    BY SettledAccepted DEF StreamInv
  <2>2. Accepted' \subseteq Queued'
    BY <1>2, <2>1 DEF StreamInv, AcceptedStays
  <2>3. Len(stream') = Len(stream) /\ Cardinality(Accepted') = Cardinality(Accepted)
    BY <2>1
  <2> QED BY <2>2, <2>3, AcceptedCount, MaxFaultsAssumption DEF AcceptedStays
<1>4. StreamBounded' /\ QueuedWasProduced'
  BY <1>2 DEF StreamInv, StreamBounded, QueuedWasProduced
<1> QED BY <1>1, <1>2, <1>3, <1>4 DEF StreamInv

LEMMA StartKeeps ==
  ASSUME StreamInv, NEW r \in Requests, Start(r)
  PROVE  StreamInv'
<1>1. /\ next[r] \in Nat \ {0} /\ next[r] <= SizeOf[r] /\ SizeOf[r] \in Nat
      /\ inFlight' = [inFlight EXCEPT ![r] = @ \cup {next[r]}]
      /\ next' = [next EXCEPT ![r] = @ + 1]
      /\ UNCHANGED <<stream, acked, accepted, rejected, answer, faults>>
  BY SizeOfAssumption DEF Start, StreamInv, TypeOK
<1>2. Queued' = Queued
  BY <1>1 DEF Queued
<1>3. TypeOK'
  <2>1. /\ next' \in [Requests -> Nat \ {0}] /\ inFlight' \in [Requests -> SUBSET Nat]
        /\ next'[r] = next[r] + 1 /\ inFlight'[r] = inFlight[r] \cup {next[r]}
        /\ \A q \in Requests \ {r} : next'[q] = next[q] /\ inFlight'[q] = inFlight[q]
    BY <1>1 DEF StreamInv, TypeOK
  <2>2. ASSUME NEW q \in Requests
        PROVE  /\ next'[q] <= SizeOf[q] + 1
               /\ inFlight'[q] \cup accepted'[q] \cup rejected'[q] \subseteq 1 .. next'[q] - 1
               /\ inFlight'[q] \cap (accepted'[q] \cup rejected'[q]) = {}
               /\ accepted'[q] \cap rejected'[q] = {}
    <3>1. CASE q = r
      BY <1>1, <2>1, <3>1 DEF StreamInv, TypeOK
    <3>2. CASE q # r
      BY <1>1, <2>1, <3>2 DEF StreamInv, TypeOK
    <3> QED BY <3>1, <3>2
  <2> QED BY <1>1, <2>1, <2>2 DEF StreamInv, TypeOK
<1>4. AcceptedStays' /\ StreamBounded'
  <2>1. Accepted' = Accepted
    BY <1>1 DEF Accepted
  <2> QED BY <1>1, <1>2, <2>1 DEF StreamInv, AcceptedStays, StreamBounded
<1>5. QueuedWasProduced'
  <2>1. SUFFICES ASSUME NEW entry \in Queued
                 PROVE  entry[2] < next'[entry[1]]
    BY <1>2 DEF QueuedWasProduced
  <2>2. entry[1] \in Requests /\ entry[2] \in Nat /\ entry[2] < next[entry[1]]
    BY QueuedFromRequests, SizeOfAssumption DEF StreamInv, QueuedWasProduced, Signals
  <2> QED BY <1>1, <2>2 DEF StreamInv, TypeOK
<1> QED BY <1>2, <1>3, <1>4, <1>5 DEF StreamInv

LEMMA ServeKeeps ==
  ASSUME StreamInv, NEW r \in Requests, Serve(r)
  PROVE  StreamInv'
<1>1. CASE Start(r)
  BY <1>1, StartKeeps
<1>2. ASSUME NEW k \in inFlight[r], Enqueue(r, k) PROVE StreamInv'
  BY <1>2, EnqueueKeeps DEF Enqueue, StreamInv, TypeOK
<1>3. ASSUME NEW k \in inFlight[r], Reject(r, k) PROVE StreamInv'
  <2>1. faults' \in 0 .. MaxFaults /\ faults' >= faults
    BY <1>3 DEF Reject, StreamInv, TypeOK
  <2> QED BY <1>3, <2>1, RejectKeeps DEF Reject
<1>4. CASE Answer(r)
  <2>1. /\ answer' \in [Requests -> {0, 202}] /\ acked' \subseteq Signals
        /\ faults' \in 0 .. MaxFaults /\ faults' >= faults
    BY <1>4 DEF Answer, StreamInv, TypeOK
  <2> QED BY <1>4, <2>1, SameSignals DEF Answer
<1> QED BY <1>1, <1>2, <1>3, <1>4 DEF Serve

LEMMA EvalFailsKeeps ==
  ASSUME StreamInv, NEW r \in Requests, NEW k \in inFlight[r], EvalFails(r, k)
  PROVE  StreamInv'
<1>1. faults' \in 0 .. MaxFaults /\ faults' = faults + 1 /\ faults' >= faults
  BY MaxFaultsAssumption DEF EvalFails, StreamInv, TypeOK
<1>2. CASE UNCHANGED stream
  BY <1>1, <1>2, RejectKeeps DEF EvalFails
<1>3. CASE ~Full /\ Add(<<r, k>>)
  BY <1>1, <1>3, EnqueueKeeps DEF EvalFails
<1> QED BY <1>2, <1>3 DEF EvalFails

LEMMA AckKeeps ==
  ASSUME StreamInv, NEW entry \in Signals, Ack(entry)
  PROVE  StreamInv'
<1>1. /\ answer' \in [Requests -> {0, 202}] /\ acked' \subseteq Signals
      /\ faults' \in 0 .. MaxFaults /\ faults' >= faults
  BY DEF Ack, StreamInv, TypeOK
<1> QED BY <1>1, SameSignals DEF Ack

\* Steps of the limiter, and failures elsewhere, leave the stream alone.
LEMMA ElsewhereKeeps ==
  ASSUME StreamInv, UNCHANGED controllerVars, faults' \in 0 .. MaxFaults, faults' >= faults
  PROVE  StreamInv'
BY SameSignals DEF controllerVars, StreamInv, TypeOK

\* The state of a request between the limiter and its answer.
AdmissionInv == StreamInv /\ BucketInv /\ AdmissionTypeOK

LEMMA VerdictTyped ==
  ASSUME AdmissionInv, [AdmissionNext]_admissionVars
  PROVE  /\ verdict' \in [Requests -> {"none", "next", "limited"}]
         /\ invalid' \in 0 .. MaxInvalid
<1>0. invalid \in 0 .. MaxInvalid /\ verdict \in [Requests -> {"none", "next", "limited"}]
  BY DEF AdmissionInv, AdmissionTypeOK
<1>1. ASSUME NEW r \in Requests, Limit(r) \/ LimitResent(r) \/ LimitFailsOpen(r)
      PROVE  verdict' \in [Requests -> {"none", "next", "limited"}] /\ invalid' = invalid
  BY <1>0, <1>1 DEF Limit, LimitResent, LimitFailsOpen
<1>2. ASSUME NEW n, LimitInvalid(n) PROVE verdict' = verdict /\ invalid' \in 0 .. MaxInvalid
  BY <1>0, <1>2, MaxInvalidAssumption DEF LimitInvalid
<1>3. CASE UNCHANGED <<verdict, invalid>>
  BY <1>0, <1>3
<1> QED BY <1>0, <1>1, <1>2, <1>3 DEF AdmissionNext, Handle, admissionVars

LEMMA AdmissionStreamStep ==
  ASSUME StreamInv, [AdmissionNext]_admissionVars
  PROVE  StreamInv'
<1>0. faults \in 0 .. MaxFaults /\ faults >= faults
  BY DEF StreamInv, TypeOK
<1>1. ASSUME NEW r \in Requests, Limit(r) PROVE StreamInv'
  BY <1>0, <1>1, ElsewhereKeeps DEF Limit, ingestionVars
<1>2. ASSUME NEW r \in Requests, LimitResent(r) \/ LimitFailsOpen(r) PROVE StreamInv'
  <2>1. UNCHANGED controllerVars /\ faults < MaxFaults /\ faults' = faults + 1
    BY <1>2 DEF LimitResent, LimitFailsOpen
  <2>2. faults' \in 0 .. MaxFaults /\ faults' >= faults
    BY <1>0, <2>1, MaxFaultsAssumption
  <2> QED BY <2>1, <2>2, ElsewhereKeeps
<1>3. ASSUME NEW r \in Requests, Handle(r) PROVE StreamInv'
  BY <1>3, ServeKeeps DEF Handle
<1>4. ASSUME NEW n, LimitInvalid(n) PROVE StreamInv'
  BY <1>0, <1>4, ElsewhereKeeps DEF LimitInvalid, ingestionVars
<1>5. ASSUME NEW r \in Requests, NEW k \in inFlight[r], EvalResent(r, k) \/ EvalFails(r, k)
      PROVE  StreamInv'
  BY <1>5, ResentKeeps, EvalFailsKeeps
<1>6. ASSUME NEW entry \in Signals, Ack(entry) PROVE StreamInv'
  BY <1>6, AckKeeps
<1>7. CASE UNCHANGED ingestionVars
  BY <1>0, <1>7, ElsewhereKeeps DEF ingestionVars
<1>8. CASE faults < MaxFaults /\ faults' = faults + 1 /\ UNCHANGED controllerVars
  <2>1. faults' \in 0 .. MaxFaults /\ faults' >= faults
    BY <1>0, <1>8, MaxFaultsAssumption
  <2> QED BY <1>8, <2>1, ElsewhereKeeps
<1> QED BY <1>1, <1>2, <1>3, <1>4, <1>5, <1>6, <1>7, <1>8 DEF AdmissionNext, admissionVars

LEMMA AdmissionInvariant == AdmissionSpec => []AdmissionInv
<1>1. AdmissionInit => AdmissionInv
  BY StreamStart, BucketStart, MaxInvalidAssumption
  DEF AdmissionInit, AdmissionInv, StreamInv, BucketInv, AdmissionTypeOK
<1>2. AdmissionInv /\ [AdmissionNext]_admissionVars => AdmissionInv'
  <2> SUFFICES ASSUME AdmissionInv, [AdmissionNext]_admissionVars PROVE AdmissionInv'
    OBVIOUS
  <2>1. StreamInv'
    BY AdmissionStreamStep DEF AdmissionInv
  <2>2. BucketInv'
    BY AdmissionMovesBucket, BucketStep DEF AdmissionInv
  <2> QED BY <2>1, <2>2, VerdictTyped DEF AdmissionInv, StreamInv, BucketInv, AdmissionTypeOK
<1> QED BY <1>1, <1>2, PTL DEF AdmissionSpec

\* Types of the limiter and the controller together.
THEOREM AdmissionTypeCorrect == AdmissionSpec => []AdmissionTypeOK
<1>1. AdmissionInv => AdmissionTypeOK
  BY DEF AdmissionInv
<1> QED BY <1>1, AdmissionInvariant, PTL

\* XLEN and XADD in one script: any number of API processes keeps the stream in bounds.
THEOREM StreamStaysBounded == AdmissionSpec => []StreamBounded
<1>1. AdmissionInv => StreamBounded
  BY DEF AdmissionInv, StreamInv
<1> QED BY <1>1, AdmissionInvariant, PTL

\* A signal counted as accepted is in the stream: MAXLEN never evicts an entry, because the
\* script adds one only where there is room.  Each lost answer puts at most one entry more
\* into the stream than the client was told of (produce, and the retries of ioredis).
THEOREM AcceptedSignalsStay == AdmissionSpec => []AcceptedStays
<1>1. AdmissionInv => AcceptedStays
  BY DEF AdmissionInv, StreamInv
<1> QED BY <1>1, AdmissionInvariant, PTL

-----------------------------------------------------------------------------
(* The counts of an answer.                                                *)

\* Every started produce() is in flight or counted; the answer waits for all of them; a
\* request that the limiter has not let pass does not reach the controller.
CountInv ==
  \A r \in Requests :
    /\ inFlight[r] \cup accepted[r] \cup rejected[r] = 1 .. next[r] - 1
    /\ answer[r] = 202 => next[r] = SizeOf[r] + 1 /\ inFlight[r] = {}
    /\ verdict[r] # "next" => next[r] = 1 /\ answer[r] = 0

LEMMA SameCounts ==
  ASSUME CountInv, NEW q \in Requests,
         inFlight'[q] \cup accepted'[q] \cup rejected'[q] = inFlight[q] \cup accepted[q] \cup rejected[q],
         inFlight'[q] \subseteq inFlight[q],
         next'[q] = next[q], answer'[q] = answer[q], verdict'[q] = verdict[q]
  PROVE  /\ inFlight'[q] \cup accepted'[q] \cup rejected'[q] = 1 .. next'[q] - 1
         /\ answer'[q] = 202 => next'[q] = SizeOf[q] + 1 /\ inFlight'[q] = {}
         /\ verdict'[q] # "next" => next'[q] = 1 /\ answer'[q] = 0
BY DEF CountInv

\* A produce() that settles moves its signal from those in flight to one of the counts.
LEMMA SettleCounts ==
  ASSUME TypeOK, CountInv, NEW r \in Requests, NEW k \in inFlight[r],
         NEW c \in {"accepted", "rejected"}, Settle(r, k, c), UNCHANGED <<next, answer, verdict>>
  PROVE  CountInv'
<1>1. SUFFICES ASSUME NEW q \in Requests
      PROVE  /\ inFlight'[q] \cup accepted'[q] \cup rejected'[q]
                = inFlight[q] \cup accepted[q] \cup rejected[q]
             /\ inFlight'[q] \subseteq inFlight[q]
  BY SameCounts DEF CountInv
<1>2. CASE q = r
  BY <1>2, Settled
<1>3. CASE q # r
  BY <1>3, Settled
<1> QED BY <1>2, <1>3

LEMMA StartCounts ==
  ASSUME TypeOK, CountInv, NEW r \in Requests, Start(r), verdict[r] = "next", verdict' = verdict
  PROVE  CountInv'
<1>1. SUFFICES ASSUME NEW q \in Requests
      PROVE  /\ inFlight'[q] \cup accepted'[q] \cup rejected'[q] = 1 .. next'[q] - 1
             /\ answer'[q] = 202 => next'[q] = SizeOf[q] + 1 /\ inFlight'[q] = {}
             /\ verdict'[q] # "next" => next'[q] = 1 /\ answer'[q] = 0
  BY DEF CountInv
<1>2. /\ next[r] \in Nat \ {0} /\ next[r] <= SizeOf[r] /\ SizeOf[r] \in Nat
      /\ UNCHANGED <<accepted, rejected, answer>>
      /\ next'[r] = next[r] + 1 /\ inFlight'[r] = inFlight[r] \cup {next[r]}
      /\ q # r => next'[q] = next[q] /\ inFlight'[q] = inFlight[q]
  <2>1. /\ next \in [Requests -> Nat \ {0}] /\ inFlight \in [Requests -> SUBSET Nat] /\ SizeOf[r] \in Nat
    BY SizeOfAssumption DEF TypeOK
  <2>2. /\ next[r] <= SizeOf[r] /\ UNCHANGED <<accepted, rejected, answer>>
        /\ inFlight' = [inFlight EXCEPT ![r] = @ \cup {next[r]}]
        /\ next' = [next EXCEPT ![r] = @ + 1]
    BY DEF Start
  <2> QED BY <2>1, <2>2
<1>3. CASE q = r
  <2>1. 1 .. next'[r] - 1 = (1 .. next[r] - 1) \cup {next[r]}
    BY <1>2
  <2>2. inFlight'[r] \cup accepted'[r] \cup rejected'[r] = 1 .. next'[r] - 1
    BY <1>2, <2>1 DEF CountInv
  <2>3. answer[r] # 202
    BY <1>2 DEF CountInv
  <2> QED BY <1>2, <1>3, <2>2, <2>3
<1>4. CASE q # r
  BY <1>2, <1>4, SameCounts
<1> QED BY <1>3, <1>4

LEMMA ServeCounts ==
  ASSUME TypeOK, CountInv, NEW r \in Requests, Handle(r)
  PROVE  CountInv'
<1>1. verdict[r] = "next" /\ Serve(r) /\ verdict' = verdict
  BY DEF Handle
<1>2. CASE Start(r)
  BY <1>1, <1>2, StartCounts
<1>3. ASSUME NEW k \in inFlight[r], Enqueue(r, k) \/ Reject(r, k) PROVE CountInv'
  BY <1>1, <1>3, SettleCounts DEF Enqueue, Reject
<1>4. CASE Answer(r)
  <2>1. /\ UNCHANGED <<next, inFlight, accepted, rejected>>
        /\ next[r] = SizeOf[r] + 1 /\ inFlight[r] = {}
        /\ \A q \in Requests \ {r} : answer'[q] = answer[q]
    <3>1. /\ next[r] \in Nat /\ SizeOf[r] \in Nat /\ next[r] <= SizeOf[r] + 1
          /\ answer \in [Requests -> {0, 202}]
      BY SizeOfAssumption DEF TypeOK
    <3>2. /\ UNCHANGED <<next, inFlight, accepted, rejected>>
          /\ next[r] > SizeOf[r] /\ inFlight[r] = {} /\ answer' = [answer EXCEPT ![r] = 202]
      BY <1>4 DEF Answer
    <3> QED BY <3>1, <3>2
  <2> QED BY <1>1, <2>1 DEF CountInv
<1> QED BY <1>1, <1>2, <1>3, <1>4 DEF Serve

LEMMA CountStep ==
  ASSUME AdmissionInv, CountInv, [AdmissionNext]_admissionVars
  PROVE  CountInv'
<1>0. TypeOK /\ verdict \in [Requests -> {"none", "next", "limited"}]
  BY DEF AdmissionInv, AdmissionTypeOK
<1>1. ASSUME NEW r \in Requests, Limit(r) \/ LimitResent(r) \/ LimitFailsOpen(r) PROVE CountInv'
  <2>1. /\ UNCHANGED <<next, inFlight, accepted, rejected, answer>>
        /\ verdict[r] = "none" /\ \A q \in Requests \ {r} : verdict'[q] = verdict[q]
    BY <1>0, <1>1 DEF Limit, LimitResent, LimitFailsOpen, ingestionVars, controllerVars
  <2> QED BY <2>1 DEF CountInv
<1>2. ASSUME NEW r \in Requests, Handle(r) PROVE CountInv'
  BY <1>0, <1>2, ServeCounts
<1>3. ASSUME NEW r \in Requests, NEW k \in inFlight[r], EvalFails(r, k), verdict' = verdict
      PROVE  CountInv'
  BY <1>0, <1>3, SettleCounts DEF EvalFails
<1>7. ASSUME NEW r \in Requests, NEW k \in inFlight[r], EvalResent(r, k), verdict' = verdict
      PROVE  CountInv'
  BY <1>7 DEF EvalResent, CountInv
<1>4. CASE UNCHANGED <<next, inFlight, accepted, rejected, answer, verdict>>
  BY <1>4 DEF CountInv
<1>5. ASSUME NEW n, LimitInvalid(n) PROVE CountInv'
  BY <1>4, <1>5 DEF LimitInvalid, ingestionVars, controllerVars
<1>6. ASSUME NEW entry, Ack(entry), verdict' = verdict PROVE CountInv'
  BY <1>4, <1>6 DEF Ack
<1> QED BY <1>1, <1>2, <1>3, <1>4, <1>5, <1>6, <1>7
     DEF AdmissionNext, admissionVars, ingestionVars, controllerVars

LEMMA CountInvariant == AdmissionSpec => [](AdmissionInv /\ CountInv)
<1>1. AdmissionInit => CountInv
  BY DEF AdmissionInit, Init, CountInv
<1>2. AdmissionInv /\ CountInv /\ [AdmissionNext]_admissionVars => CountInv'
  BY CountStep
<1> QED BY <1>1, <1>2, AdmissionInvariant, PTL DEF AdmissionSpec

\* The counts of an answered request add up to its batch; one that is limited never
\* reaches the controller and has nothing in the stream.
AnsweredInFull ==
  \A r \in Requests :
    /\ answer[r] = 202 => Cardinality(accepted[r]) + Cardinality(rejected[r]) = SizeOf[r]
    /\ verdict[r] = "limited" => answer[r] = 0 /\ \A entry \in Queued : entry[1] # r

LEMMA CountsAddUp ==
  ASSUME AdmissionInv, CountInv
  PROVE  AnsweredInFull
<1>1. SUFFICES ASSUME NEW r \in Requests
      PROVE  /\ answer[r] = 202 => Cardinality(accepted[r]) + Cardinality(rejected[r]) = SizeOf[r]
             /\ verdict[r] = "limited" => answer[r] = 0 /\ \A entry \in Queued : entry[1] # r
  BY DEF AnsweredInFull
<1>2. TypeOK /\ StreamInv
  BY DEF AdmissionInv, StreamInv
<1>3. ASSUME answer[r] = 202
      PROVE  Cardinality(accepted[r]) + Cardinality(rejected[r]) = SizeOf[r]
  <2>1. SizeOf[r] \in Nat /\ next[r] = SizeOf[r] + 1 /\ accepted[r] \cap rejected[r] = {}
    BY <1>2, <1>3, SizeOfAssumption DEF CountInv, TypeOK
  <2>2. accepted[r] \cup rejected[r] = 1 .. SizeOf[r]
    BY <1>3, <2>1 DEF CountInv
  <2>3. IsFiniteSet(1 .. SizeOf[r]) /\ Cardinality(1 .. SizeOf[r]) = SizeOf[r]
    BY <2>1, FS_Interval
  <2>4. IsFiniteSet(accepted[r]) /\ IsFiniteSet(rejected[r])
    BY <2>2, <2>3, FS_Subset
  <2>5. Cardinality(accepted[r]) \in Nat /\ Cardinality(rejected[r]) \in Nat
    BY <2>4, FS_CardinalityType
  <2>6. Cardinality({}) = 0
    BY FS_EmptySet
  <2>7. Cardinality(accepted[r] \cup rejected[r])
          = Cardinality(accepted[r]) + Cardinality(rejected[r]) - Cardinality(accepted[r] \cap rejected[r])
    BY <2>4, FS_Union
  <2>8. Cardinality(accepted[r] \cup rejected[r]) = SizeOf[r] /\ Cardinality(accepted[r] \cap rejected[r]) = 0
    BY <2>1, <2>2, <2>3, <2>6
  <2> QED BY <2>5, <2>7, <2>8
<1>4. ASSUME verdict[r] = "limited" PROVE answer[r] = 0 /\ \A entry \in Queued : entry[1] # r
  <2>1. next[r] = 1 /\ answer[r] = 0
    BY <1>4 DEF CountInv
  <2>2. ASSUME NEW entry \in Queued, entry[1] = r PROVE FALSE
    <3>1. entry[2] \in Nat \ {0} /\ entry[2] < next[r]
      BY <1>2, <2>2, QueuedFromRequests, SizeOfAssumption DEF StreamInv, QueuedWasProduced, Signals
    <3> QED BY <2>1, <3>1
  <2> QED BY <2>1, <2>2
<1> QED BY <1>3, <1>4

\* What an answer says, whatever calls fail on the way to it (enqueueBatch, ingestBatch):
\* the state part of EveryBatchAnswered, for every number and size of batches.
THEOREM AnswersAddUp == AdmissionSpec => []AnsweredInFull
<1>1. AdmissionInv /\ CountInv => AnsweredInFull
  BY CountsAddUp
<1> QED BY <1>1, CountInvariant, PTL

-----------------------------------------------------------------------------
(* Signals that the client is told are rejected and that are in the stream. *)

Ghosts == {entry \in Queued : entry[2] \in rejected[entry[1]]}

\* A signal that was reported as rejected, and that the client sends again, is in the
\* stream only for a call to Redis that failed after the script had run.
GhostsPaidByFaults == Cardinality(Ghosts) <= faults

\* The stream has an entry for each signal in it.
LEMMA QueuedFits ==
  ASSUME StreamInv
  PROVE  Cardinality(Queued) \in Nat /\ Cardinality(Queued) <= Len(stream)
<1>1. stream \in Seq(Signals) /\ Len(stream) \in Nat
  BY DEF StreamInv, TypeOK
<1>2. stream \in Surjection(1 .. Len(stream), Queued)
  BY <1>1 DEF Queued, Surjection
<1>3. IsFiniteSet(1 .. Len(stream)) /\ Cardinality(1 .. Len(stream)) = Len(stream)
  BY <1>1, FS_Interval
<1>4. IsFiniteSet(Queued) /\ Cardinality(Queued) <= Cardinality(1 .. Len(stream))
  BY <1>2, <1>3, FS_Surjection
<1> QED BY <1>3, <1>4, FS_CardinalityType

\* Ghosts and accepted signals share the stream, so that the bound of its entries is one
\* of the ghosts.
LEMMA GhostPrice ==
  ASSUME StreamInv
  PROVE  GhostsPaidByFaults
<1>1. \A signal \in Signals : signal[1] \in Requests
  BY DEF Signals
<1>2. Ghosts \cap Accepted = {}
  BY <1>1 DEF Ghosts, Accepted, StreamInv, TypeOK
<1>3. Ghosts \cup Accepted \subseteq Queued
  BY DEF Ghosts, StreamInv, AcceptedStays
<1>4. IsFiniteSet(Ghosts) /\ IsFiniteSet(Accepted) /\ IsFiniteSet(Ghosts \cup Accepted)
      /\ Cardinality(Ghosts \cup Accepted) <= Cardinality(Queued)
  <2>1. IsFiniteSet(Queued) /\ Ghosts \in SUBSET Queued /\ Accepted \in SUBSET Queued
        /\ Ghosts \cup Accepted \in SUBSET Queued
    BY <1>3 DEF StreamInv
  <2> QED BY <2>1, FS_Subset
<1>5. Cardinality(Ghosts \cup Accepted)
        = Cardinality(Ghosts) + Cardinality(Accepted) - Cardinality(Ghosts \cap Accepted)
  BY <1>4, FS_Union
<1>6. Cardinality(Ghosts \cap Accepted) = 0
  BY <1>2, FS_EmptySet
<1>7. Cardinality(Ghosts) \in Nat
  BY <1>4, FS_CardinalityType
<1> QED BY <1>4, <1>5, <1>6, <1>7, QueuedFits, AcceptedCount DEF GhostsPaidByFaults

\* produce() counts a call that throws as rejected although the script may have run: this
\* bounds the signals that a retry of the rejected ones puts into the stream twice.
THEOREM GhostsArePaidByFaults == AdmissionSpec => []GhostsPaidByFaults
<1>1. AdmissionInv => GhostsPaidByFaults
  BY GhostPrice DEF AdmissionInv
<1> QED BY <1>1, AdmissionInvariant, PTL
=============================================================================
