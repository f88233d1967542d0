------------------------------ MODULE Ingestion ------------------------------
(***************************************************************************)
(* Admission of signal batches to the bounded stream signals:ingest:        *)
(*   signals/signals.controller.ts        ingestBatch                       *)
(*   signals/signals.service.ts           enqueueBatch                      *)
(*   signals/stream-producer.service.ts   produce and its Lua script        *)
(*   common/redis/redis.service.ts        the client that sends the script   *)
(* The API processes run requests concurrently; a request enqueues its       *)
(* signals chunk by chunk, several at a time.  The workers (module           *)
(* SignalPipeline) read the stream and ACK its entries.                      *)
(***************************************************************************)
EXTENDS Naturals, Sequences, FiniteSets

CONSTANTS
  Requests,
  SizeOf,       \* number of signals in each request
  Chunk,        \* batchChunkSize
  Concurrency,  \* batchEnqueueConcurrency
  MaxLength,    \* STREAM_MAX_LENGTH
  MaxFaults     \* bound: failed calls to Redis and lost answers

ASSUME SizeOfAssumption == SizeOf \in [Requests -> Nat \ {0}]
ASSUME ConcurrencyAssumption == Concurrency \in Nat \ {0}
ASSUME ChunkAssumption == Chunk \in Nat /\ Chunk >= Concurrency
ASSUME MaxLengthAssumption == MaxLength \in Nat
ASSUME MaxFaultsAssumption == MaxFaults \in Nat

\* The signals of the requests.
Signals == UNION {{r} \X (1 .. SizeOf[r]) : r \in Requests}

VARIABLES
  stream,     \* entries in Redis, oldest first
  acked,      \* signals of which a worker has ACKed an entry
  next,       \* the next signal of a request to be started
  inFlight,   \* signals of a request whose produce() has not settled
  accepted,   \* signals of a request that are counted as accepted
  rejected,   \* .. as rejected
  answer,     \* HTTP status of a request, or 0
  faults

vars == <<stream, acked, next, inFlight, accepted, rejected, answer, faults>>

Init ==
  /\ stream = <<>> /\ acked = {}
  /\ next = [r \in Requests |-> 1]
  /\ inFlight = [r \in Requests |-> {}]
  /\ accepted = [r \in Requests |-> {}]
  /\ rejected = [r \in Requests |-> {}]
  /\ answer = [r \in Requests |-> 0]
  /\ faults = 0

Queued == {stream[k] : k \in 1 .. Len(stream)}
Accepted == {signal \in Signals : signal[2] \in accepted[signal[1]]}

-----------------------------------------------------------------------------
(* SignalsService.enqueueBatch.                                            *)

\* Mutant: the loop index is off by one.
StartZeroBased(r) ==
  /\ next[r] <= SizeOf[r]
  /\ Cardinality(inFlight[r]) < Concurrency
  /\ inFlight' = [inFlight EXCEPT ![r] = @ \cup {next[r] - 1}]
  /\ next' = [next EXCEPT ![r] = @ + 1]
  /\ UNCHANGED <<stream, acked, accepted, rejected, answer, faults>>

\* The loop starts produce() for the next signal: Promise.race keeps fewer than
\* Concurrency others in flight, Promise.allSettled lets a chunk finish first.
Start(r) ==
  /\ next[r] <= SizeOf[r]
  /\ Cardinality(inFlight[r]) < Concurrency
  /\ (next[r] - 1) % Chunk = 0 => inFlight[r] = {}
  /\ inFlight' = [inFlight EXCEPT ![r] = @ \cup {next[r]}]
  /\ next' = [next EXCEPT ![r] = @ + 1]
  /\ UNCHANGED <<stream, acked, accepted, rejected, answer, faults>>

\* produce() has settled, one way or the other.
Settle(r, k, counter) ==
  /\ inFlight' = [inFlight EXCEPT ![r] = @ \ {k}]
  /\ \/ counter = "accepted" /\ accepted' = [accepted EXCEPT ![r] = @ \cup {k}] /\ UNCHANGED rejected
     \/ counter = "rejected" /\ rejected' = [rejected EXCEPT ![r] = @ \cup {k}] /\ UNCHANGED accepted

\* Mutant: one entry too many is let in.
LengthExceeded == Len(stream) > MaxLength

\* XLEN of the script.
Full == Len(stream) >= MaxLength

\* Mutant: XADD trims to one entry less than XLEN lets in.
AddTrimsEarly(entry) ==
  \E evicted \in 0 .. Len(stream) :
    /\ evicted > 0 => Len(stream) + 1 - evicted >= MaxLength - 1
    /\ stream' = Append(SubSeq(stream, evicted + 1, Len(stream)), entry)

\* XADD MAXLEN ~ of the script: Redis may evict the oldest entries beyond the
\* maximal length.
Add(entry) ==
  \E evicted \in 0 .. Len(stream) :
    /\ evicted > 0 => Len(stream) + 1 - evicted >= MaxLength
    /\ stream' = Append(SubSeq(stream, evicted + 1, Len(stream)), entry)

\* The answer of the script is lost with the connection: ioredis sends the command once
\* more as soon as it is connected again (maxRetriesPerRequest), and the script, which
\* is not idempotent, runs again.
EvalResent(r, k) ==
  /\ k \in inFlight[r] /\ faults < MaxFaults /\ faults' = faults + 1
  /\ ~Full /\ Add(<<r, k>>)
  /\ UNCHANGED <<acked, next, inFlight, accepted, rejected, answer>>

\* ATOMIC_ENQUEUE_SCRIPT: check and XADD in one step; the message id is returned.
Enqueue(r, k) ==
  /\ k \in inFlight[r] /\ ~Full
  /\ Add(<<r, k>>)
  /\ Settle(r, k, "accepted")
  /\ UNCHANGED <<acked, next, answer, faults>>

\* QUEUE_FULL.
Reject(r, k) ==
  /\ k \in inFlight[r] /\ Full
  /\ Settle(r, k, "rejected")
  /\ UNCHANGED <<stream, acked, next, answer, faults>>

\* Mutant: a call that fails is not counted at all.
EvalFailsUncounted(r, k) ==
  /\ k \in inFlight[r] /\ faults < MaxFaults /\ faults' = faults + 1
  /\ inFlight' = [inFlight EXCEPT ![r] = @ \ {k}]
  /\ UNCHANGED <<stream, acked, next, accepted, rejected, answer>>

\* eval throws, with the retries of the client used up; the last one may have run.
EvalFails(r, k) ==
  /\ k \in inFlight[r] /\ faults < MaxFaults /\ faults' = faults + 1
  /\ UNCHANGED stream \/ (~Full /\ Add(<<r, k>>))
  /\ Settle(r, k, "rejected")
  /\ UNCHANGED <<acked, next, answer>>

\* Every task has settled: the controller answers 202 with both counts.
Answer(r) ==
  /\ next[r] > SizeOf[r] /\ inFlight[r] = {} /\ answer[r] = 0
  /\ answer' = [answer EXCEPT ![r] = 202]
  /\ UNCHANGED <<stream, acked, next, inFlight, accepted, rejected, faults>>

-----------------------------------------------------------------------------
\* A worker ACKs an entry (module SignalPipeline).  XACK takes it off the pending
\* list; it stays in the stream, and nothing trims or deletes it.
Ack(entry) ==
  /\ entry \in Queued \ acked
  /\ acked' = acked \cup {entry}
  /\ UNCHANGED <<stream, next, inFlight, accepted, rejected, answer, faults>>

-----------------------------------------------------------------------------
Serve(r) ==
  \/ Start(r)
  \/ \E k \in inFlight[r] : Enqueue(r, k) \/ Reject(r, k)
  \/ Answer(r)

Next ==
  \/ \E r \in Requests : Serve(r) \/ \E k \in inFlight[r] : EvalResent(r, k) \/ EvalFails(r, k)
  \/ \E entry \in Signals : Ack(entry)

Spec == Init /\ [][Next]_vars

\* Requests are served, workers ACK every entry.
FairSpec ==
  /\ Spec
  /\ \A r \in Requests : WF_vars(Serve(r))
  /\ \A entry \in Signals : WF_vars(Ack(entry))

-----------------------------------------------------------------------------
(* Properties.                                                             *)

\* Types; a signal is counted once and only after it was started.
TypeOK ==
  /\ stream \in Seq(Signals)
  /\ acked \subseteq Signals
  /\ next \in [Requests -> Nat \ {0}]
  /\ {inFlight, accepted, rejected} \subseteq [Requests -> SUBSET Nat]
  /\ answer \in [Requests -> {0, 202}]
  /\ \A r \in Requests :
       /\ next[r] <= SizeOf[r] + 1
       /\ inFlight[r] \cup accepted[r] \cup rejected[r] \subseteq 1 .. next[r] - 1
       /\ inFlight[r] \cap (accepted[r] \cup rejected[r]) = {}
       /\ accepted[r] \cap rejected[r] = {}
  /\ faults \in 0 .. MaxFaults

\* The stream is bounded, whatever number of API processes enqueue at a time.
StreamBounded == Len(stream) <= MaxLength

\* A signal that was counted as accepted is in the stream, and MAXLEN never evicts it,
\* read or unread, to make room for another one.  Every entry beyond one for each
\* accepted signal, be it a second one or one of a signal that was rejected or not
\* answered, is paid for by a call whose answer was lost.
AcceptedStays ==
  /\ Accepted \subseteq Queued
  /\ Len(stream) <= Cardinality(Accepted) + faults

-----------------------------------------------------------------------------
(* What the documentation says and the code does not do.                   *)

\* backpressure.md: after an overload the queue drains by itself.
FullIsTemporary == []<>(~Full)
=============================================================================
