------------------------------ MODULE Pipeline ------------------------------
(***************************************************************************)
(* The ingestion pipeline (ingest/internal/pipeline/pipeline.go): one      *)
(* goroutine that takes decoded events from a bounded channel, runs gap    *)
(* detection, frames them and publishes them to Kafka in batches.          *)
(*                                                                         *)
(* Pipeline.Run is a select loop; one action is one iteration of it.  The  *)
(* publish call inside an iteration blocks, but nothing the loop keeps is  *)
(* visible to another goroutine while it waits, so an iteration is atomic. *)
(*                                                                         *)
(* The producer is sink.KafkaProducer.  A failed Publish does not mean     *)
(* that nothing was written: the Kafka writer cuts the messages of a call  *)
(* into one run of record batches per topic and partition and reports an   *)
(* error when any of them failed, or when the answer to it was lost.       *)
(***************************************************************************)
EXTENDS GapDetector, Sequences, FiniteSets

CONSTANTS
    Venue, Symbol, Kind,        \* what an event is about
    ConnectionScopedVenues,     \* venues with one counter per connection
    Encoders,                   \* the kinds an encoder is registered for
    Topics,                     \* the kinds with a topic, mapped to the topic
    Partition, PartitionOf,     \* the hash balancer: symbols to partitions
    BatchSize,                  \* messages that trigger a flush
    MaxPendingEvents,           \* messages kept after a failed flush
    DropOnGap,                  \* whether the event that shows a gap is dropped
    ResyncOnGap,                \* whether an OnResync callback is installed
    WriterBatchSize,            \* records the Kafka writer puts in one batch
    BufferSize,                 \* capacity of the channel
    Sequence,                   \* the sequence numbers events may carry
    Sound,                      \* whether events have a payload that can be encoded
    MaxEvents,                  \* bound: events ever sent
    MaxFailures                 \* bound: failed flushes

ASSUME PipelineAssumption ==
    /\ ConnectionScopedVenues \subseteq Venue
    /\ Encoders \subseteq Kind
    /\ DOMAIN Topics \subseteq Kind
    /\ PartitionOf \in [Symbol -> Partition]
    /\ BatchSize \in Nat \ {0}
    /\ MaxPendingEvents \in Nat \ {0}
    /\ WriterBatchSize \in Nat \ {0}
    /\ BufferSize \in Nat \ {0}
    /\ DropOnGap \in BOOLEAN
    /\ ResyncOnGap \in BOOLEAN
    /\ Sequence \subseteq Nat \cup {NoSequence}
    /\ Sound \subseteq BOOLEAN
    /\ MaxEvents \in Nat
    /\ MaxFailures \in Nat

VARIABLES
    in,         \* the channel of decoded events
    inClosed,   \* the channel has been closed
    ctxDone,    \* the root context has been cancelled
    running,    \* Run has not returned
    last,       \* Detector.last
    batch,      \* framed messages not yet published
    stats,      \* Stats
    broker,     \* the records in Kafka
    calls,      \* history: Publish calls made, the order of their records
    framed,     \* history: every message ever put in the batch, in order
    discarded,  \* history: the messages removed because the buffer was full
    latest,     \* history: sequence of the last event of a key not a duplicate
    seen        \* history: sequences of a key since its counter last restarted

runVars  == <<inClosed, ctxDone, running>>
sinkVars == <<broker, calls>>
histVars == <<framed, discarded, latest, seen>>
vars     == <<in, runVars, last, batch, stats, sinkVars, histVars>>

(***************************************************************************)
(* Events, messages and stream keys.                                       *)
(***************************************************************************)

\* A decoded event; sound is false when it has no payload or one that its
\* schema rejects, and id tells events apart that are otherwise equal.
Event == [venue : Venue, symbol : Symbol, kind : Kind, seq : Sequence,
          sound : Sound, id : Nat]

channelFor(kind) ==
    CASE kind = "trade"          -> "trades"
      [] kind = "book_delta"     -> "book"
      [] kind = "chain_transfer" -> "chain"
      [] OTHER                   -> "unknown"

sequenceKey(ev) ==
    IF ev.venue \in ConnectionScopedVenues
    THEN [venue |-> ev.venue, symbol |-> "", channel |-> "connection"]
    ELSE [venue |-> ev.venue, symbol |-> ev.symbol, channel |-> channelFor(ev.kind)]

Key == [venue : ConnectionScopedVenues, symbol : {""}, channel : {"connection"}]
       \cup [venue : Venue \ ConnectionScopedVenues, symbol : Symbol,
             channel : {channelFor(k) : k \in Kind}]

\* frame fails without an encoder or a topic for the kind, without a payload,
\* and when the payload cannot be encoded.
Framable(ev) ==
    /\ ev.kind \in Encoders
    /\ ev.kind \in DOMAIN Topics
    /\ ev.sound

Topic == {Topics[k] : k \in DOMAIN Topics}

\* The message is keyed by the symbol, so the symbol decides its partition.
frame(ev) == [topic |-> Topics[ev.kind], key |-> ev.symbol, id |-> ev.id]

Message == [topic : Topic, key : Symbol, id : Nat]

\* Two messages are ordered by Kafka when they share a topic and a partition.
SamePartition(m, n) ==
    m.topic = n.topic /\ PartitionOf[m.key] = PartitionOf[n.key]


(***************************************************************************)
(* Publishing.  broker holds one record per message written: the Publish   *)
(* call that wrote it and the message's place in the call.  The order of a *)
(* partition is the order of these pairs.                                  *)
(***************************************************************************)
Before(r, q) == r.at < q.at \/ (r.at = q.at /\ r.pos < q.pos)

\* Publish(ctx, b...) writes the messages of b whose indices are in S.
Publish(b, S) ==
    /\ broker' = broker \cup {[at |-> calls, pos |-> i, msg |-> b[i]] : i \in S}
    /\ calls' = calls + 1

\* The record batch of the Kafka writer that b[i] travels in.
WriterBatch(b, i) ==
    Cardinality({j \in 1 .. i - 1 : SamePartition(b[i], b[j])}) \div WriterBatchSize

\* What a Publish that returns an error may have written: any of its record
\* batches, each as a whole, all of them if only the answer was lost.
PartialWrites(b) ==
    {S \in SUBSET DOMAIN b :
        \A i, j \in DOMAIN b :
            SamePartition(b[i], b[j]) /\ WriterBatch(b, i) = WriterBatch(b, j)
                => (i \in S <=> j \in S)}

\* Mutant: the retry buffer is not bounded.
ExcessNone(b) == 0

\* How many of the oldest messages a failed flush removes from b.
Excess(b) == IF Len(b) > MaxPendingEvents THEN Len(b) - MaxPendingEvents ELSE 0

\* Mutant: a failed flush gives up on the batch.
RetainedNone(b) == <<>>

\* Mutant: a full buffer loses its newest messages.
RetainedOldest(b) == SubSeq(b, 1, Len(b) - Excess(b))

\* What a failed flush keeps of b.
Retained(b) == SubSeq(b, Excess(b) + 1, Len(b))

\* Mutant: a retry leaves out the messages the failed publish did write.
FlushFailUnwritten(b, s) ==
    /\ s.PublishFailures < MaxFailures
    /\ \E S \in PartialWrites(b) :
            /\ Publish(b, S)
            /\ batch' = SelectSeq(Retained(b), LAMBDA m : \A i \in S : b[i] # m)
    /\ stats' = [s EXCEPT !.PublishFailures = @ + 1, !.Dropped = @ + Excess(b)]
    /\ discarded' = discarded \cup {b[i] : i \in 1 .. Excess(b)}

\* The publish failed: the batch is kept for the next flush, without its
\* oldest messages if it has outgrown the retry buffer.
FlushFail(b, s) ==
    /\ s.PublishFailures < MaxFailures
    /\ \E S \in PartialWrites(b) : Publish(b, S)
    /\ batch' = Retained(b)
    /\ stats' = [s EXCEPT !.PublishFailures = @ + 1, !.Dropped = @ + Excess(b)]
    /\ discarded' = discarded \cup {b[i] : i \in 1 .. Excess(b)}

FlushOk(b, s) ==
    /\ Publish(b, DOMAIN b)
    /\ batch' = <<>>
    /\ stats' = [s EXCEPT !.Published = @ + Len(b)]
    /\ UNCHANGED discarded

FlushNothing(b, s) ==
    /\ b = <<>>
    /\ batch' = b
    /\ stats' = s
    /\ UNCHANGED <<sinkVars, discarded>>

\* flush, called with batch b and statistics s.
Flush(b, s) ==
    \/ FlushNothing(b, s)
    \/ b # <<>> /\ FlushOk(b, s)
    \/ b # <<>> /\ FlushFail(b, s)

(***************************************************************************)
(* One iteration of Run: an event from the channel.                        *)
(***************************************************************************)
Init ==
    /\ in = <<>> /\ inClosed = FALSE /\ ctxDone = FALSE /\ running = TRUE
    /\ last = [k \in Key |-> NoLast]
    /\ batch = <<>>
    /\ stats = [Received |-> 0, Published |-> 0, Duplicates |-> 0, Gaps |-> 0,
                Missed |-> 0, EncodeErrs |-> 0, PublishFailures |-> 0,
                Dropped |-> 0]
    /\ broker = {} /\ calls = 0
    /\ framed = <<>> /\ discarded = {}
    /\ latest = [k \in Key |-> NoLast]
    /\ seen = [k \in Key |-> {}]

verdict(ev) == Status(last[sequenceKey(ev)], ev.seq)

\* Stats after the event has been counted and checked.
Checked(ev) ==
    [stats EXCEPT
        !.Received   = @ + 1,
        !.Duplicates = @ + (IF verdict(ev) = "duplicate" THEN 1 ELSE 0),
        !.Gaps       = @ + (IF NeedsResync(verdict(ev)) THEN 1 ELSE 0),
        !.Missed     = @ + Missing(last[sequenceKey(ev)], ev.seq)]

\* checkSequence: the detector observes the event and, on a discontinuity, the
\* OnResync callback makes it forget the stream.
checkSequence(ev) ==
    LET k        == sequenceKey(ev)
        observed == Observe(last, k, ev.seq)
    IN  /\ last' = IF NeedsResync(verdict(ev)) /\ ResyncOnGap
                   THEN Reset(observed, k) ELSE observed
        /\ latest' = [latest EXCEPT ![k] =
                        IF verdict(ev) \in {"duplicate", "unsequenced"} THEN @ ELSE ev.seq]
        /\ seen' = [seen EXCEPT ![k] =
                        IF verdict(ev) = "unsequenced" THEN @
                        ELSE IF verdict(ev) = "regression" THEN {ev.seq}
                        ELSE @ \cup {ev.seq}]

\* What checkSequence returns: whether the event goes no further.
Dropped(ev) ==
    \/ verdict(ev) = "duplicate"
    \/ NeedsResync(verdict(ev)) /\ DropOnGap

DropEvent(ev) ==
    /\ Dropped(ev)
    /\ stats' = Checked(ev)
    /\ UNCHANGED <<batch, sinkVars, framed, discarded>>

EncodeError(ev) ==
    /\ ~Dropped(ev) /\ ~Framable(ev)
    /\ stats' = [Checked(ev) EXCEPT !.EncodeErrs = @ + 1]
    /\ UNCHANGED <<batch, sinkVars, framed, discarded>>

\* The message joins the batch, which is flushed when it has reached BatchSize.
AppendMessage(ev) ==
    LET b == Append(batch, frame(ev))
    IN  /\ ~Dropped(ev) /\ Framable(ev)
        /\ framed' = Append(framed, frame(ev))
        /\ \/ /\ Len(b) < BatchSize
              /\ batch' = b
              /\ stats' = Checked(ev)
              /\ UNCHANGED <<sinkVars, discarded>>
           \/ /\ Len(b) >= BatchSize
              /\ Flush(b, Checked(ev))

Receive ==
    /\ running /\ in # <<>>
    /\ in' = Tail(in)
    /\ LET ev == Head(in)
       IN  /\ checkSequence(ev)
           /\ DropEvent(ev) \/ EncodeError(ev) \/ AppendMessage(ev)
    /\ UNCHANGED runVars

(***************************************************************************)
(* The other iterations of Run.                                            *)
(***************************************************************************)

\* Mutant: the ticker only releases full batches.
TickFull ==
    /\ running
    /\ Len(batch) >= BatchSize
    /\ Flush(batch, stats)
    /\ UNCHANGED <<in, runVars, last, framed, latest, seen>>

\* <-ticker.C
Tick ==
    /\ running
    /\ Flush(batch, stats)
    /\ UNCHANGED <<in, runVars, last, framed, latest, seen>>

\* The channel is closed and drained: flush once more and return.
Drained ==
    /\ running /\ inClosed /\ in = <<>>
    /\ Flush(batch, stats)
    /\ running' = FALSE
    /\ UNCHANGED <<in, inClosed, ctxDone, last, framed, latest, seen>>

\* The final flush on a context of its own; a failure is logged, not counted.
\* Run returns either way, with the batch as good as empty if it was written.
FinalFlush ==
    \/ /\ Publish(batch, DOMAIN batch)
       /\ batch' = <<>>
       /\ stats' = [stats EXCEPT !.Published = @ + Len(batch)]
    \/ /\ batch # <<>>
       /\ \E S \in PartialWrites(batch) : Publish(batch, S)
       /\ UNCHANGED <<batch, stats>>

\* Mutant: shutdown waits for something to flush.
FinishBusy ==
    /\ running /\ ctxDone /\ batch # <<>>
    /\ FinalFlush
    /\ running' = FALSE
    /\ UNCHANGED <<in, inClosed, ctxDone, last, histVars>>

\* <-ctx.Done()
Finish ==
    /\ running /\ ctxDone
    /\ FinalFlush
    /\ running' = FALSE
    /\ UNCHANGED <<in, inClosed, ctxDone, last, histVars>>

(***************************************************************************)
(* The environment: whoever sends on the channel, and the signal handler.  *)
(***************************************************************************)
Sent == Len(in) + stats.Received

Send(v, s, k, q, ok) ==
    /\ ~inClosed /\ Len(in) < BufferSize /\ Sent < MaxEvents
    /\ in' = Append(in, [venue |-> v, symbol |-> s, kind |-> k, seq |-> q,
                         sound |-> ok, id |-> Sent + 1])
    /\ UNCHANGED <<runVars, last, batch, stats, sinkVars, histVars>>

CloseIn ==
    /\ ~inClosed
    /\ inClosed' = TRUE
    /\ UNCHANGED <<in, ctxDone, running, last, batch, stats, sinkVars, histVars>>

Cancel ==
    /\ ~ctxDone
    /\ ctxDone' = TRUE
    /\ UNCHANGED <<in, inClosed, running, last, batch, stats, sinkVars, histVars>>

Next ==
    \/ Receive \/ Tick \/ Drained \/ Finish
    \/ CloseIn \/ Cancel
    \/ \E v \in Venue, s \in Symbol, k \in Kind, q \in Sequence, ok \in Sound :
            Send(v, s, k, q, ok)

Spec == Init /\ [][Next]_vars

\* The runtime keeps choosing among the ready cases of the select at random, so
\* none that stays ready is passed over for ever; the ticker always gets ready
\* again.  Nothing is assumed of the environment.
Fairness == WF_vars(Receive) /\ WF_vars(Tick) /\ WF_vars(Drained) /\ WF_vars(Finish)

FairSpec == Spec /\ Fairness

(***************************************************************************)
(* Properties.                                                             *)
(***************************************************************************)
Stats == [Received : Nat, Published : Nat, Duplicates : Nat, Gaps : Nat,
          Missed : Nat, EncodeErrs : Nat, PublishFailures : Nat, Dropped : Nat]

BrokerRecord == [at : Nat, pos : Nat \ {0}, msg : Message]

\* The type invariant: what every variable of Run may hold.
TypeOK ==
    /\ in \in Seq(Event)
    /\ inClosed \in BOOLEAN /\ ctxDone \in BOOLEAN /\ running \in BOOLEAN
    /\ last \in [Key -> Nat \cup {NoLast}]
    /\ batch \in Seq(Message)
    /\ stats \in Stats
    /\ broker \subseteq BrokerRecord
    /\ calls \in Nat
    /\ framed \in Seq(Message)
    /\ discarded \subseteq Message
    /\ latest \in [Key -> Nat \cup {NoLast}]
    /\ seen \in [Key -> SUBSET Nat]

Written == {r.msg : r \in broker}

\* The counters of s account for every event received when l messages wait.
Balanced(s, l) ==
    s.Received = s.Published + s.Duplicates + s.EncodeErrs + s.Dropped + l
                 + (IF DropOnGap THEN s.Gaps ELSE 0)

\* Every event Run took from the channel is accounted for by exactly one
\* counter of Stats or is still in the batch, whatever mix of duplicates, gaps,
\* encoding errors, failed publishes and trimmed buffers it met.
Accounting == Balanced(stats, Len(batch))

\* An outage cannot grow the batch beyond the retry buffer: past a failed flush
\* it holds at most MaxPendingEvents messages, or is not yet worth a flush.
RetentionBounded == Len(batch) <= MaxPendingEvents \/ Len(batch) < BatchSize

\* A message that was framed is in Kafka, in the batch, or among the discarded
\* ones, and the discarded ones are exactly those stats.Dropped counts: no
\* failed publish, retry or trim of the buffer loses a message silently.
LossIsCounted ==
    /\ \A i \in DOMAIN framed :
            \/ framed[i] \in Written
            \/ framed[i] \in discarded
            \/ \E j \in DOMAIN batch : batch[j] = framed[i]
    /\ Cardinality(discarded) = stats.Dropped

\* b is the last part of f.
Newest(b, f) ==
    /\ Len(b) <= Len(f)
    /\ \A i \in 1 .. Len(b) : b[i] = f[Len(f) - Len(b) + i]

\* The batch is always the newest part of what was framed, in the order it was
\* framed: the buffer sheds its oldest messages, and retries reorder nothing.
BatchIsNewest == Newest(batch, framed)

\* "Partition by symbol so per-symbol ordering survives into Flink": when a
\* message is written, every earlier message of its partition has been written
\* before it or was discarded, so that a partition never skips ahead.  It holds
\* while a Publish call fits one record batch of the writer per partition.
PartitionOrder ==
    \A r \in broker : \A i, j \in DOMAIN framed :
        i < j /\ framed[j] = r.msg /\ SamePartition(framed[i], framed[j])
            => \/ framed[i] \in discarded
               \/ \E q \in broker : q.msg = framed[i] /\ Before(q, r)

\* Of two messages of a partition that have left the batch and were not
\* discarded, the earlier one is in Kafka before some record of the later one:
\* a record batch that fails while a later one is written puts the partition out
\* of order only until the retry, because the retry sends the later ones again.
RetryRestoresOrder ==
    \A i, j \in 1 .. Len(framed) - Len(batch) :
        i < j /\ SamePartition(framed[i], framed[j])
              /\ framed[i] \notin discarded /\ framed[j] \notin discarded
            => \E q, r \in broker :
                    q.msg = framed[i] /\ r.msg = framed[j] /\ Before(q, r)

\* The detector's baseline of a stream is the number of the stream's last event
\* that was not a duplicate, unless a resync made the detector forget it; without
\* resyncs nothing received since a counter reset lies ahead of it.
BaselineIsLatest ==
    \A k \in Key :
        /\ last[k] = latest[k] \/ (ResyncOnGap /\ last[k] = NoLast)
        /\ ~ResyncOnGap => \A q \in seen[k] : q <= latest[k]

\* A step in which Run handles event ev.
Receives(ev) == stats'.Received = stats.Received + 1 /\ ev = Head(in)

Queued == {in[i] : i \in 1 .. Len(in)}

AcceptsContiguous ==
    \A ev \in Queued :
        LET k == sequenceKey(ev) IN
        (Receives(ev) /\ latest[k] # NoLast /\ ev.seq = latest[k] + 1)
            => stats'.Gaps = stats.Gaps /\ stats'.Duplicates = stats.Duplicates

\* An event that directly follows the previous one of its stream is neither
\* taken for a duplicate nor reported as a gap, also right after a gap, a
\* regression or a resync.
ContiguousAccepted == [][AcceptsContiguous]_vars

ReportsLoss ==
    \A ev \in Queued :
        LET k == sequenceKey(ev) IN
        (Receives(ev) /\ latest[k] # NoLast /\ ev.seq > latest[k] + 1)
            => /\ stats'.Gaps = stats.Gaps + 1
               /\ stats'.Missed = stats.Missed + (ev.seq - latest[k] - 1)

\* "A genuine drop ... must still be caught": an event that skips numbers is
\* counted as a gap, with the number of messages that are missing.
EveryLossReported == [][ReportsLoss]_vars

DropsDuplicates ==
    \A ev \in Queued :
        LET k == sequenceKey(ev) IN
        (Receives(ev) /\ ev.seq \in seen[k] /\ latest[k] - ev.seq <= regressionTolerance)
            => stats'.Duplicates = stats.Duplicates + 1 /\ framed' = framed

\* "Duplicates are always dropped": a sequence number that was received before,
\* no further back than the tolerance, is never framed a second time.
DuplicatesDropped == [][DropsDuplicates]_vars

\* What is in the batch leaves it, to Kafka or as a counted drop, unless Run
\* returns first: a publish failure only delays, and on a quiet market the
\* ticker releases a batch that never fills up.
BatchDrains ==
    \A i \in 1 .. MaxEvents :
        (\E j \in DOMAIN batch : batch[j].id = i)
            ~> (~running \/ \A j \in DOMAIN batch : batch[j].id # i)

\* Cancelling the root context makes Run return, with a broker that is down too.
CancelStops == ctxDone ~> ~running

=============================================================================
