----------------------------- MODULE RateLimiter -----------------------------
(***************************************************************************)
(* The token bucket of one client in the control Redis:                     *)
(*   common/middleware/rate-limiter.middleware.ts  TOKEN_BUCKET_SCRIPT, use *)
(* Every API process passes its own clock to the script, read before the     *)
(* call; the key expires by the clock of Redis.  Time is in whole seconds.   *)
(***************************************************************************)
EXTENDS Integers

CONSTANTS
  BucketCapacity,  \* RATE_LIMIT_BUCKET_CAPACITY
  RefillRate,      \* RATE_LIMIT_REFILL_RATE, per second
  MaxSkew,         \* bound: distance of an API clock from Redis, with the delay of the call
  MaxTime          \* bound: end of time

ASSUME BucketCapacityAssumption == BucketCapacity \in Nat \ {0}
ASSUME RefillRateAssumption == RefillRate \in Nat \ {0}
ASSUME MaxSkewAssumption == MaxSkew \in Nat
ASSUME MaxTimeAssumption == MaxTime \in Nat

VARIABLES
  time,        \* clock of Redis
  tokens,      \* the hash rl:tb:{client}; it is gone from expireAt on
  lastRefill,
  expireAt,
  \* History, of a window that opens at any moment:
  since,       \* lastRefill when it opened
  granted,     \* tokens taken in it
  setBack,     \* seconds by which late clocks have set lastRefill back in it
  forgotten    \* times that Redis forgot a bucket that was not full again

history == <<since, granted, setBack, forgotten>>
bucketVars == <<time, tokens, lastRefill, expireAt, history>>

\* The client has not come yet.
BucketInit ==
  /\ time = 0 /\ tokens = BucketCapacity /\ lastRefill = 0 /\ expireAt = 0
  /\ since = 0 /\ granted = 0 /\ setBack = 0 /\ forgotten = 0

\* The Redis clock advances.
Tick ==
  /\ time < MaxTime /\ time' = time + 1
  /\ UNCHANGED <<tokens, lastRefill, expireAt, history>>

\* Redis is out of memory and evicts the key (volatile-lru), or lost its data.
Evict ==
  /\ expireAt > time /\ expireAt' = time
  /\ UNCHANGED <<time, tokens, lastRefill, history>>

\* An observer opens a window.
OpenWindow ==
  /\ since' = lastRefill /\ granted' = 0 /\ setBack' = 0 /\ forgotten' = 0
  /\ UNCHANGED <<time, tokens, lastRefill, expireAt>>

-----------------------------------------------------------------------------
\* What an API process may read from its clock for a request that runs now.
Stamps == {s \in 0 .. MaxTime + MaxSkew : time - MaxSkew <= s /\ s <= time + MaxSkew}

Lesser(a, b) == IF a <= b THEN a ELSE b
Positive(a) == IF a >= 0 THEN a ELSE 0

Known == time < expireAt
Ttl == (BucketCapacity + RefillRate - 1) \div RefillRate + 1
Refilled(now) == tokens + Positive(now - lastRefill) * RefillRate

\* The tokens that the script finds: the full bucket when there is no key.
Credit(now) == IF Known THEN Lesser(BucketCapacity, Refilled(now)) ELSE BucketCapacity

\* Mutant: a refused request writes lastRefill and not the refill.
UnwrittenRefusal(now, n) == IF Credit(now) >= n THEN Credit(now) - n ELSE Lesser(tokens, Credit(now))

\* The tokens that the script leaves.
Left(now, n) == IF Credit(now) >= n THEN Credit(now) - n ELSE Credit(now)

\* Mutant: lastRefill is written only with a grant.
GrantStamps(now, n) ==
  /\ tokens' = Left(now, n)
  /\ lastRefill' = IF Credit(now) >= n THEN now ELSE lastRefill
  /\ expireAt' = time + Ttl
  /\ granted' = granted + (IF Credit(now) >= n THEN n ELSE 0)
  /\ setBack' = setBack + Positive(lastRefill - now)
  /\ forgotten' = forgotten + (IF ~Known /\ Refilled(now) < BucketCapacity THEN 1 ELSE 0)
  /\ UNCHANGED <<time, since>>

\* The script, for a batch of n signals: hmset and expire run whether it is allowed or not.
Script(now, n) ==
  /\ tokens' = Left(now, n)
  /\ lastRefill' = now
  /\ expireAt' = time + Ttl
  /\ granted' = granted + (IF Credit(now) >= n THEN n ELSE 0)
  /\ setBack' = setBack + Positive(lastRefill - now)
  /\ forgotten' = forgotten + (IF ~Known /\ Refilled(now) < BucketCapacity THEN 1 ELSE 0)
  /\ UNCHANGED <<time, since>>

BucketNext ==
  \/ Tick \/ Evict \/ OpenWindow
  \/ \E now \in Stamps, n \in Nat \ {0} : Script(now, n)

BucketSpec == BucketInit /\ [][BucketNext]_bucketVars

-----------------------------------------------------------------------------
(* Properties.                                                             *)

\* Types; the bucket is never in debt.
BucketTypeOK ==
  /\ time \in Nat /\ lastRefill \in Nat /\ expireAt \in Nat /\ since \in Nat
  /\ tokens \in Nat
  /\ granted \in Nat /\ setBack \in Nat /\ forgotten \in Nat

\* In no window does the script grant more than the capacity and the refill of the
\* window.  Beyond that it grants the refill of the seconds by which late clocks set
\* lastRefill back, and a capacity for each bucket that Redis forgot too early.
GrantsBounded ==
  granted + tokens <= BucketCapacity * (1 + forgotten)
                      + RefillRate * (lastRefill - since + setBack)

\* Time that a client has waited is not lost, however many of its requests are
\* refused meanwhile: what it did not take of a window's refill is in the bucket.
WaitingEarns ==
  granted + tokens >= Lesser(BucketCapacity, RefillRate * (lastRefill - since))
=============================================================================
