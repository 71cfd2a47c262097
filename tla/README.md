# Tapeline in TLA+

Tapeline ingests market data from exchanges over WebSockets, publishes it to
Kafka, processes it with Flink and serves it over gRPC. This directory holds TLA+
models of its control logic, the TLC configurations that check them and TLAPS
proofs of the properties that matter most. The models follow the source line by
line where control flow is concerned and abstract the data; `PROJECT.json` maps
every definition to the lines it stands for.

Modelled are the ingestion tier (`ingest/`, Go) from its configuration to Kafka,
of the stream tier (`stream/`, Scala on Flink) the order book and the trade
windows, and of the serving tier (`serving/`, Java) the fan-out of quotes.

## Inventory

| Part | State | Operations | Interacts with | What makes it correct |
|---|---|---|---|---|
| gap detector, `ingest/internal/gap` | last number per stream | Observe, Reset, ResetVenue | called by the pipeline's and by every runner's goroutine, under one mutex | losses are reported with their extent, retransmits recognised, nothing else is |
| pipeline, `ingest/internal/pipeline` | batch, counters | Run: event, tick, closed channel, cancellation; flush | reads the channel, calls the producer and OnResync | every event accounted for, bounded memory, order kept, no silent loss |
| Kafka producer, `ingest/internal/sink` | none of its own | Publish | kafka-go writer | what a failed Publish may have done is harmless |
| venue runner, `ingest/internal/venue/venue.go` | attempt, session | dial, subscribe, read, send, back off | shares the channel with the other runners, calls OnConnect | frames go in whole, reconnects, stops when told |
| decoders, `binance.go`, `kraken.go`, `coinbase.go`, `onchain/evm.go` | Binance's cursors, the highest block | Decode, ResetBooks | called by the runner | the number on an event means what the detector takes it for |
| ingestd, `cmd/ingestd/main.go` | wiring, how far a process has come | OnConnect, OnResync, start, shutdown | everything above, the registry, the metrics server | the parts agree on when a counter starts over; a signal ends the process wherever it is |
| configuration, `internal/config` | none | Load, Validate | read by ingestd | what passes can be started |
| schema registration, `internal/schema`, `RegisterSchemas` | registry: versions, level and ids | set compatibility, check, register | schema registry over HTTP, other ingestd processes | every record can be resolved, builds next to each other can run together |
| order book, `stream/.../book`, `BookFunction` | book per symbol, timer | apply, trim, processElement, onTimer | Kafka in, quotes out | its levels are the venue's, a quiet symbol is still served |
| trade windows, `stats/Aggregates`, `TradeWindow`, `BackfillJob` | aggregate per window | add, merge | Flink windows, Iceberg | bars follow event time; live and backfilled windows agree |
| divergence, `Divergence`, `DivergenceFunction` | last quote per venue, statistics | processElement | quotes in, alerts out | only fresh quotes are compared |
| quote fan-out, `QuoteBroadcaster`, `QuoteCache`, `QuoteConsumer`, `MarketDataService` | sets of listeners, latest quotes in Redis, last send time per stream | put, publish, offer, snapshot, subscribe, close | Kafka consumer threads, gRPC threads, other replicas | every subscriber is served, and none after it left; streams do not go back |
| authentication, `security/*` | token buckets in Redis, key cache, nonces | tryConsume, lookup, invalidate, check | gRPC interceptor | limits hold, revoked keys stop working |

The hard parts: the detector is written by two kinds of goroutine while events
wait in a channel between them; a failed publish may have written part of its
messages; sequence numbers restart with connections and with the process; a full
channel, a full retry buffer and cancellation can meet in any order; processes of
two builds start, fail and register next to each other; the order book is rebuilt
from a log with losses and repetitions, and restored in between; trades come out of
order, live by network and in a replay by file; consumer threads and gRPC threads
share sets of listeners without a common lock. `PROJECT.json` lists the hazards one
by one.

## Modules

| Module | Models |
|---|---|
| `GapDetector` | `detector.go`: the verdict, the extent of a gap, the map after Observe, Reset, ResetVenue, as functions of the map (each method holds the mutex throughout) |
| `Pipeline` | `pipeline.go` and `sink/kafka.go`: one action per iteration of Run's select loop, plus the sender, the closing of the channel and cancellation |
| `VenueRunner` | `venue.go`: one action per stretch between two points where a runner can block or sees cancellation |
| `Decoders` | the sequence numbers the four decoders put on events |
| `Ingest` | `main.go`: the runners, the decoders, the pipeline (`P == INSTANCE Pipeline` with ingestd's settings) and the venues as counters |
| `OrderBook` | `OrderBook.scala`: a book as a function from prices to sizes per side, apply and trim |
| `BookFunction` | `BookFunction.scala`: processElement, armTimer and onTimer of one key, between the log of deltas and the quotes, with checkpoints and failures |
| `Config` | `config.go` and `buildDecoders`: from the environment to a configuration that is accepted or not, and its sources |
| `SchemaRegistry` | the registry as `schema/registry.go` uses it: versions, level and ids |
| `Ingestd` | `run` in `main.go`, `RegisterSchemas`, `metrics.Serve`: processes from start to exit, over one registry and one Kafka; extends `Config` and `SchemaRegistry` |
| `TradeWindow` | `Aggregates.scala`, `TradeWindow.scala`, `TradesJob`, `BackfillJob`: the aggregate as operators, and two jobs that fold one topic into windows |
| `QuoteStream` | `QuoteConsumer`, `QuoteCache`, `QuoteBroadcaster`, `MarketDataService.streamQuotes`: one action per access to shared state |
| `PipelineProofs`, `SequenceProofs`, `DeliveryProofs` | TLAPS proofs about `Pipeline`: types and counters, the detector's verdicts, what reaches Kafka |
| `RunnerProofs`, `IngestdProofs`, `BookProofs`, `QuoteProofs` | TLAPS proofs about `VenueRunner`, `Ingestd` with `SchemaRegistry`, `BookFunction` with `OrderBook`, `QuoteStream` |
| `TradeWindowProofs` | TLAPS proofs about `TradeWindow`, its operators and its jobs |
| `MCPipeline`, `MCVenueRunner`, `MCIngest`, `MCBookFunction`, `MCIngestd`, `MCQuoteStream`, `MCTradeWindow` | small instances for TLC |

Definitions whose comment starts with "Mutant:" are faulty variants of the
definition below them. They are used by no specification; replacing the original
by one of them breaks the property that `PROJECT.json` names.

### Pipeline

`in`, `batch`, `last` and `stats` are the channel, the batch, `Detector.last` and
`Stats`. `broker` is the set of records in Kafka, each with the Publish call that
wrote it and its place in the call, so the order of a partition is the order of
these pairs. `framed`, `discarded`, `latest` and `seen` are history: the program
does not have them, and no guard reads them.

One iteration of Run is atomic although Publish blocks, because nothing the
iteration touches is visible to another goroutine, except the detector, which an
iteration uses once, before it publishes; `Ingest` interleaves ResetVenue with
whole iterations for that reason.

The Kafka writer is a library. What is assumed of it is what `kafka.go` configures
(`BatchSize`, hash balancing by key, synchronous writes): the messages of a call
are grouped by topic and partition, each group is cut into record batches of
`WriterBatchSize`, every record batch is written or not, and an error is returned
if one was not, or if its answer was lost (`PartialWrites`). Batches cut by bytes
or by the batch timeout are finer cuts of the same kind.

A message is its topic, its key and an identity. Whether an event has a payload
that can be encoded is its `sound` field.

### VenueRunner

A runner is in one of the phases start, dialing, subscribing, loop, reading,
sending, backoff, done, gaveup, or off if it is not configured. The backoff delay is a
wait that ends. The gauge starts at zero: the deferred call in `main.go` evaluates
`WithLabelValues` when it is deferred, which creates the series. That a Go channel
holds no more than its capacity is the guard of Push and not a property. `AttemptCap` bounds the counter of
failed sessions at a value from which on nothing depends on it.

### Ingest

A venue is the counter it numbers data with. Kraken's trade ids and the blocks of
a chain go on across connections; Coinbase's envelope counter and Binance's update
ids start over (`Restarting`; the comments in `main.go` and on `ResetBooks` say
so). A datum can be lost at any time (`Lose`), numbers can be used up without
data (`Quiet`), and a depth update with a malformed level is lost in the decoder,
after it has moved the cursor (`ReadBinanceMalformed`). Every event carries, as history in its id, the datum it is about,
its session, and how many data were lost before it; the properties compare what
the detector says with that.

### BookFunction

`bookState` and `lastEmitted` are the keyed state; `current`, `armTimer`,
`processElement` and `onTimer` are the code's. The flat snapshot kept in state has
the same levels as the book, so the two are one value here. A quote is its best
levels and its event time, which is the number of the change it came from; the
imbalance is left out, as it changes only with a delta. Processing time is reduced
to the grid of the emission interval: a registered timer (`armed`) and callbacks
whose time has come (`due`).

`log` is the partition as the ingestion tier fills it: the venue changes one level
at a time and never crosses its own book; a delta may be lost, and the end of the
log may be repeated, which is what the retry of a failed publish does. The log is
written before the operator starts, because the operator sees only its order.
Each record carries the venue's book after it and whether every change since the
last snapshot is in the log, as history.

Flink is external. What is assumed of it: a checkpoint holds the keyed state, the
registered timers and the position in the log, and commits the quotes written
before it (exactly-once checkpoints in `FlinkEnv`, the transactional sink in
`Connectors`); after a failure the job goes on from the last checkpoint.

### Ingestd, Config, SchemaRegistry

A process is at one point of `run` (`pc`) and has beside it the runners that have
not returned, `metrics.Serve` and the goroutine in it that calls ListenAndServe.
One step is one call to the registry, or the stretch between two places where the
process can block, fail or be cancelled. The deferred calls are the steps closing,
flushing and returned, entered at the point the error path reaches. The pipeline
and the runners, which have modules of their own, appear as what the others see of
them: a record goes to Kafka, a runner returns after cancellation.

Every call can fail (`MaxFaults`), a process can be killed at any point, and a
registration can be stored while its answer is lost. Starts are bounded by
`MaxStarts`; each start picks an environment and a build, and a build is the schema
it writes for each kind. What Avro resolution accepts is the relation `CanRead`. The
registry is external: it checks a candidate against the latest version, in one
direction for BACKWARD and in both for FULL, knows a schema it has, and numbers
schemas across subjects. `lax` is history: the subjects that some process failed to
pin.

An environment is a record with a field per variable. The text of a list is the
sequence of its parts, so that a text of blanks, which counts as unset, and a text
of commas, which is an empty list, are different.

### TradeWindow

One key. The live job reads the topic in order; the backfill reads what its query
selects, in any order, after the live job, because the lakehouse is filled by it.
A watermark is the latest time read minus the job's allowance; it can come after
any trade or be skipped, and is at its end for the bounded source. A trade whose
window has fired is dropped. Flink is external; that is all that is assumed of it. A
bar has the two sums of which its vwap is the quotient. `taken` is history.

Prices are positive and sizes not negative, which is what `ValidTradeFilter` lets
through. Both are integers, so sums do not depend on the order of addition; in
the code they are doubles, and equality holds up to rounding. The range of the
backfill is at most its allowance (24 hours), as `WindowAssumption` says: in a longer
one trades of the first hours can be late.

### QuoteStream

A partition is a symbol and has a consumer thread at the replica that owns it. The
set of listeners of a symbol and the entry of the map that leads to it are separate
(`sets`, `mapped`), because the code obtains the set in one atomic operation and
adds to it in another. A broadcast calls every listener that was in the set when it
began and did not leave; one that joined or left meanwhile may be called or not, which
is what the iterator of a concurrent set does. The three parts of a listener that other
threads can come between are Offer (read the last send time), CompareAndSet and
OnNext. Whether a client is ready is chosen at each call. A quote is its emit time.

A rebalance moves a partition and starts it again from an offset not before the last
commit. It happens between two records. A consumer that is expelled from the group for
being slow, and goes on with its batch next to its successor, is not modelled: two
threads would then handle one symbol. The cache write may fail, before or after the
hash is written (`put` sets its expiry in a second call); the record is then passed
over, as is one that cannot be decoded, which has the effect of the former. The
`JsonProcessingException` that `put` catches, after which the quote would be broadcast
without being cached, is left out: a `QuoteSnapshot` is strings, doubles and longs, whose
serialization does not raise it. `expect`, `redelivered` and the fields of `sent` other
than the time are history.

The emit times of a symbol are taken not to go back along its topic. They are the clock
of the Flink task that emits (`BookFunction`, line 122); one venue per symbol is
modelled, and the clocks of two task managers, between which a failover moves a key, are
taken to agree. The interval is `1000000 / hz`, at least 10000 for a `max_updates_hz`
below 2^31. It is taken to be zero or more, which leaves out the last 10^6 values of the
uint32, for which Java's int makes it negative.

## Runs

All passing runs are exhaustive. `CHECK_DEADLOCK FALSE` is set where the program
ends: after Run or the runners have returned nothing happens any more.

| Run | Checks |
|---|---|
| `pipeline` | 4 events; batches and the writer's record batches of 2 and a retry buffer of 3, so that, as with ingestd's 500, 500 and 100000, a retained batch is cut into several record batches. Either one stream without numbers whose events may fail to be encoded, with up to three failed publishes, a closing channel and cancellation at any point: a partial write, a later record batch written without an earlier one, a trim, a second failure on what was trimmed. Or the streams of a per-stream or of a per-connection venue, two symbols, numbers 0 to 3 and none, tolerance 1, no OnResync and DropOnGap (the configuration of the unit tests): gaps of one and two, retransmits on both sides of the tolerance, regressions. `TypeOK`, `Accounting`, `RetentionBounded`, `LossIsCounted`, `BatchIsNewest`, `RetryRestoresOrder`, `BaselineIsLatest`, `ContiguousAccepted`, `EveryLossReported`, `DuplicatesDropped`; under fairness `BatchDrains` and `CancelStops` |
| `runner` | two runners, one that never gives up and one that does after two failures, a channel of one, frames of zero, one and two events: `RTypeOK` (the gauge is 0 or 1 through every reconnect), `FrameDelivered`, `Reconnects`, `CancelStopsRunners` |
| `ingest_venues` | ingestd with one of the four venues, two sessions, four numbers (three of Coinbase's, whose frames carry up to two events): `LossReported` (a loss within a session is reported with at least its extent), `GapMeansLossOfData` (no more is reported than was lost; Kraken and Binance), `FreshKeptUnlessStale` (a fresh event is dropped as a duplicate only after a stale baseline, and never on a chain). Kraken, whose trade ids go on meanwhile, also with a restart of the process |
| `book` | four records, prices 1 to 3, one level kept per side, one fault (a lost delta, a repetition or a failure): `BookFollowsVenue` (the kept levels are the venue's, and what is missing was trimmed), `CrossedMeansMissed`, `NeverMute`, `NoRepeat`, `BTypeOK`; under fairness `BookServed` |
| `ingestd` | one process, two starts, one failure, six environments (a venue, the defaults with a number that does not parse, a list of blanks with and without the chain, a dry run that names a venue twice, one topic for both kinds), two kinds: `CleanExit`, `ITypeOK`; under fairness `SignalEnds` |
| `ingestd_deploy` | two processes, three starts, one failure, three builds of which the third is compatible in one direction only, a registry that defaults to BACKWARD: `Resolvable`, `NeighboursRead`, `RollbackAccepted` |
| `quotes` | one replica; a stream of two symbols whose quotes fall within and outside the interval, next to a request for nothing, or two streams of one symbol; one fault, two closes: `ListenersReleased`, `UpdatesSpaced`, `StreamAdvances`, `ReadYourWrites`, `QTypeOK`; under fairness `FeedConsumed` |
| `bars` | every topic of one to three trades with times 0 to 4 and three prices, one with size zero, windows of 2, an allowance of 1 live and 4 in the backfill, whose range is two of the three windows: `BarsExact`, `ReplayAgrees`, `PartsMerge` |

Gap detection and publishing meet only in what is framed, so `pipeline` takes them one at
a time (`OneStream`, `OneVenue` in `MCPipeline`); no step of Run is ruled out, only some
of what its environment does. The retry buffer of 3 is one more than a record batch, the
least at which a call is cut and the least at which a cut call can be trimmed.

Two sessions are enough because a session only meets leftovers of earlier ones,
and the detector keeps one number per stream; four numbers allow a baseline, a
loss of two and an event after it. The venues share nothing but the channel and
the map, and the map's entries are per venue, so they are checked one at a time.

Four records make a snapshot, a better level that pushes the first one out of the
book, the removal of the better one, and one more. A depth of one is the smallest
at which a trim happens; the deeper the book, the more records the same takes.
Deltas are lost, repeated and replayed independently of each other, and each fault
is followed by every continuation of the log.

Three starts are the fewest in which a build is replaced and brought back, or a
third one comes while two are up. Two processes are enough for a check that is stale
at the registration. Listeners of different symbols share only the last send time of
their stream, so the two inputs of `quotes`, two symbols of one stream and two streams
of one symbol, meet every pair of steps that can interfere. Three trades are a window
with an order inside, or two windows and a trade that comes late for one of them.

### Disagreements between code and documentation

Each of these is a run in which TLC finds the stated property violated.

| Run | What happens |
|---|---|
| `pipeline_order` | publishes fail until the retained batch no longer fits one record batch of the writer. The next call is cut in two, the second is written and the first fails: the partition has a later message of a symbol without the earlier ones, against "per-symbol ordering survives into Flink" (`pipeline.go`, line 286). The retry sends all of them again, in order (`RetryRestoresOrder`), so a reader sees the later one, then the earlier, then the later again |
| `pipeline_resync_loss` | OnResync makes the detector forget the stream after every gap, without anybody resubscribing. Of a connection's numbers 0, 2, 4 the first loss is reported; the event after a gap is accepted blindly, and the second loss is not, against "A genuine drop on a connection-scoped venue must still be caught" (`pipeline_test.go`, line 483, which installs no OnResync) |
| `quotes_orphan` | a stream obtains a symbol's set of listeners; the last other listener leaves and its close takes the empty set out of the map; the stream adds itself to a set that no broadcast finds, and gets nothing for as long as it lives |
| `quotes_replicas` | the replicas share a consumer group, so a quote reaches one of them, while a subscriber is bound to the replica it connected to: at the others it gets its snapshot and no update. The comment on `QuoteBroadcaster` (one consumer per replica) needs a group per replica; the deployment sets none |

What the same models show without a run of their own:

- After a resync a retransmit is published as well (`DuplicatesDropped` with
  ResyncOnGap).
- A failed publish that wrote one partition is retried as a whole, so Kafka holds
  those messages twice.
- `ConnectionUp` stays 1 while a venue is gone, until Run returns (`main.go`, line 152),
  although its help text says "1 when the venue WebSocket is connected, 0 otherwise"
  (`metrics.go`, line 75); the alert `VenueDisconnected` cannot fire for a venue that was
  connected once.
- What a failed final flush leaves behind is logged and counted nowhere; `Accounting`
  and `LossIsCounted` take it as still in the batch.
- An event of the old session that is handled after OnConnect sets a baseline from
  which the new session's first events are duplicates: the exception in
  `FreshKeptUnlessStale`.
- A block without a transfer of the tokens is counted as missed, and so are Coinbase's
  acks and heartbeats: `GapMeansLossOfData` is about the other venues.
- Kraken's trade snapshot after a reconnect is published again. The first event after
  a restart of the process only sets the baseline, so what the restart missed is not
  reported, although `docs/DESIGN_DECISIONS.md` (line 167) says it is.
- A level that was trimmed is not in the book when the levels above it are removed,
  although it is then the venue's best; with the configured depth it takes that many
  removals in a row.
- FULL compatibility is checked against the latest version only, so a build two
  versions back may be refused (`RollbackAccepted` is about the last two), and readers
  of a topic may meet schemas that were never compared with theirs.
- Trades of one event time: open and close depend on the order of arrival, and add and
  merge decide differently (add lets the later arrival close, merge the left operand).
  So `merge` is not commutative, as line 51 of `Aggregates.scala` demands, and a replay
  need not reconstruct a bar exactly (`BackfillJob.scala`, line 41). `ReplayAgrees`
  excludes ties within a window, `PartsMerge` equal last times of the two parts, and
  `MergeCommutative` equal first or last times.
- A quote that comes within the interval of the last one, or between the snapshot and
  the subscription, is not sent later, although `docs/API.md` (line 121) speaks of
  coalescing. The interval is kept per stream, so one symbol can take another's turn.
- A `max_updates_hz` of 2^31 or more is negative as Java's int, so `Math.min` lets it
  through and the maximum of 100 (`docs/API.md`, line 121) is not applied.

## Fairness

`Pipeline`: weak fairness of each case of the select loop. Go picks among ready
cases at random, so a case that stays ready is taken at some time; the ticker
becomes ready again and again. Nothing is assumed of the sender. `MaxFailures`
bounds the failed flushes, which stands for a broker that comes back.

`VenueRunner`: weak fairness of every runner's steps and of the consumer. Strong
fairness of Push, because Go serves goroutines blocked on a channel first in,
first out, so one is not overtaken for ever. Strong fairness of DialOk and
Subscribe: a venue that is dialled again and again is reached at some time.
`CancelStopsRunners` does not depend on these.

`Ingest` and `TradeWindow` check safety only.

`Ingestd`: weak fairness of every goroutine that can go on; ListenAndServe returns once
Shutdown was called (the HTTP library's promise), and a runner once the context is
cancelled (`CancelStopsRunners`). Nothing is assumed of signals, failures and starts.

`QuoteStream`: weak fairness of the consumer threads. Nothing obliges a client to come,
to read or to go.

`BookFunction`: weak fairness of processElement, onTimer and the passing of a grid
point: a running task processes its input and its timers, and time goes on. Nothing
is assumed of the venue, and failures are bounded by `MaxFaults`.

## Proofs

A theorem holds for every value of the constants that the named assumptions of its
module allow: sets of any size and sequences of any length. TLC evaluates the
assumptions in the runs.

| Theorems | State |
|---|---|
| `PipelineTypeOK`, `PipelineAccounting`, `PipelineRetentionBounded`, `PipelineBatchIsNewest` | `Spec => []` of the invariant |
| `PipelineBaseline` | `Spec => []BaselineIsLatest` |
| `PipelineContiguous` | `Spec => ContiguousAccepted` |
| `PipelineLossReported`, `PipelineDuplicatesDropped` | without OnResync, `Spec => EveryLossReported` and `Spec => DuplicatesDropped` |
| `PipelineLossIsCounted` | `Spec => []LossIsCounted` |
| `PipelineRetryRestoresOrder` | `Spec => []RetryRestoresOrder`, for every size of the writer's batches and of the retry buffer |
| `PipelinePartitionOrder` | `Spec => []PartitionOrder`, as long as fewer messages wait than `WriterBatchSize` |
| `RunnersTypeOK`, `RunnersFrameDelivered` | `RSpec => []RTypeOK`, `RSpec => FrameDelivered` |
| `IngestdTypeOK`, `IngestdResolvable`, `IngestdNeighboursRead`, `IngestdCleanExit` | `Spec => []` of the invariant |
| `IngestdRollbackAccepted` | `Spec => RollbackAccepted` |
| `BookTypeOK`, `BookNeverMute`, `BookNoRepeat`, `BookFollows`, `BookCrossedMeansMissed` | `BSpec => []` of the invariant |
| `QuoteTypeOK`, `QuoteListenersReleased`, `QuoteUpdatesSpaced`, `QuoteStreamAdvances`, `QuoteReadYourWrites` | `Spec => []` of the invariant |
| `WindowBarsExact`, `WindowReplayAgrees`, `WindowPartsMerge` | `Spec => []` of the invariant |
| `MergeAssociative`, `MergeCommutative`, `AddIsMerge`, `PartsStep` | laws of merge and add, for all aggregates |

The assumptions: the pipeline's batch, retry buffer and channel and the writer's batch
are at least one (`Config.Validate` and the defaults of Run see to it); frames are
sequences, and no limit of attempts lies above the cap of the counter
(`RunnerAssumption`); a build has a schema per kind, every schema can read itself
(`IngestdAssumption`, `RegistryAssumption`); prices and sizes of a book are positive,
the prices finitely many, the book it opens with not crossed, the depth at least one
(`BookAssumption`); the emit times of a symbol do not go back along its topic, the interval
is not negative and the streams are finitely many (`QuoteAssumption`); trades have
positive prices and sizes that are not negative, and the range of the backfill is at
most its allowance (`WindowAssumption`).

### Pipeline

`DeliveryInv`, the conjunction of the first four, is inductive: the other three
need only the types. Every flush is covered by two lemmas about an arbitrary batch
and arbitrary counters: `FlushFacts` (what flush takes from the batch it adds to
Published or Dropped, and what is left is a suffix within the retry buffer) and
`FlushKeeps`; the cases of `Next` apply them to the batch as it stands, or to the
batch with the new message. `CheckedBalanced` shows that counting an event leaves
the balance short by one exactly if the event is not dropped.

The verdicts need more than the type of the detector's map: `BaselineIsLatest`
ties its entry to the history (`latest`, `seen`), case by case over the verdict
(`StatusFacts`, `BaselineObserved`). The second conjunct, that nothing received
lies ahead of the baseline, is needed for the duplicates, and holds only without
resyncs.

`LossIsCounted` compares a set with a counter, so `LossInv` adds to `DeliveryInv` that
messages are framed with growing ids (no two are equal), that what no longer waits was
written or discarded, and that as many were discarded as Dropped counts. `OrderInv` adds
that a record bears the number of a call that was made, and the order itself: a message
that has another of its partition before it was written after that one, or that one was
discarded. A call that fails keeps the order because a partition then has one record
batch, which is written whole or not at all. With ingestd's values (a writer batch of
500, a retry buffer of 100000) the condition ends as soon as a full batch has been
retained, and with it the order (`pipeline_order`). What holds for all values is
`RetryRestoresOrder`, which is inductive once `RetryInv` adds `LossInv` and the numbers
of the calls: what leaves the batch otherwise than by a trim leaves with a call that wrote
all of it in order, and under a number above those of all records before.

### VenueRunner

`RunnerInv` adds to the types that a runner has events left exactly while it is sending.
So no failure, reconnect or new frame finds events of an earlier frame, and one lemma
about a step of one runner serves all of its actions.

### Ingestd

`IInv` states of every process what it has obtained at its point of run: the subjects
it is past pinning are pinned, or their failure is on record (`PinnedBy`); the encoders
it is past registering have an id that the registry resolves to its schema under its
topic (`EncodedBy`); what runs beside it (`LifeOf`). It is inductive because the
registry only grows (`Grows`): ids and versions stay and no subject is unpinned, whatever
the other processes do, so what a process knows cannot become stale. `NeighboursRead` is
kept by `Store` alone, which compares at the registration, however old the process's own
check is. `CleanExit` needs that Launch never returns early with a server behind it: an
environment that passes Validate leaves at least one source (`Validate(c)` implies
`buildDecoders(c) # {}`). `RollbackAccepted` follows from the step that sets the error,
because the schemas of the last two versions are compatible in both directions with the
latest.

### BookFunction

A restore brings back a checkpoint, so all invariants are stated of the operator and of
its checkpoint alike: `MuteInv` (a timer wherever there is a book), `RepeatInv` (the
topic ends with the last emitted quote and its quotes change), `OperatorInv`.

`BookFollowsVenue` speaks of the last record read, and is not inductive: what a delta
leaves alone depends on all before it. `BookInv` therefore describes a prefix of the log
by its last word on every price: the book has a level where the last word set one, unless
it was trimmed, and none elsewhere (`Follows`). Of the log, `GoodLog` says that records of
one number are one record, however often repeated, and that the last words up to a record
with every change since the snapshot before it make the venue's book at that time
(`Explained`). A
repetition of the end of the log changes no last word. The last words are found by
induction over positions.

### QuoteStream

`BaseInv` has the types, the stages of the consumer threads (`ThreadInv`: while a record
is handled it is in the cache), the map of listeners (`ListenInv`), the listeners a
broadcast began with (`StartInv`: they are past their snapshot, also when they have left)
and the gauge. For
`ListenersReleased` a mapped set must have somebody who keeps it: a stream in it, one that
holds it and is about to join, or a close that is about to remove it (`Keeps`); a closing
stream is only in sets it has yet to look at.

`UpdatesSpaced` is about what was sent, but a thread can win a turn and be overtaken
before it sends. `SpaceInv` therefore speaks of every turn that was won, sent or not: all
are at a distance from each other and none is later than `lastSent`, so a thread whose
compare-and-set succeeds has a quote at a distance from all of them. `ForwardInv` orders
the turns of a symbol, and relates them to the cache.

### TradeWindow

`MergeAssociative` has no condition, `MergeCommutative` excludes equal first or last
times, `AddIsMerge` and `PartsStep` a trade at the last time. `MergedAssociative`, on
which the first rests, goes field by field over the orders of three first and three last
times.

`JobsInv` ties every open aggregate, and every bar, to the trades taken (`Describes`: an
earliest opens, a latest closes, extremes and sums), and states that the watermark of a
backfill is before its range as long as it has trades to read, so that it drops none.
Two bars that describe the same trades, no two at the same time, are equal (`OneBar`).
`PartsMerge` is an induction over the second part with the choice of `add` in place of that
of `merge` (`Late`: at equal times the later arrival closes); where the parts end at
different times the two are the same.

`fold` and `Total` are recursive functions. The induction theorems of the library take an
operator as a parameter, which the provers cannot instantiate; `Induction` states it of a
set of numbers, and rests on the minimum of a well-founded relation. That the recursive
definitions have a solution, which TLA+ leaves to be proved, is shown by it as well
(`FoldUpto`, `SumUpto`).

### Only model-checked

Liveness under fairness (`BatchDrains`, `CancelStops`, `Reconnects`, `CancelStopsRunners`,
`SignalEnds`, `FeedConsumed`, `BookServed`), which is out of the prover's reach; and the
three properties of `Ingest`, the composition.

## Not modelled

Formats, JSON, ABI and Avro encoding; the durations of timers; logging, metrics other
than `ConnectionUp`; Binance trades (numbered by trade id like Kraken's); the in-memory
producer of dry runs; the order book's imbalance; in the fan-out the venue filter, the
expiry of cache entries and the unary reads.

Divergence detection is a running mean and variance in floating point with thresholds;
what is left without the numbers is a map of the last quote per venue. Authentication
and rate limiting make each decision in one Redis script or one lookup. OLAP queries are
stateless. Deployment, load tests, benchmark tools and scripts are not part of the
running system.

## Plan

Every safety property of the single components is proved. Left is the composition,
`Ingest`: `LossReported`, `GapMeansLossOfData` and `FreshKeptUnlessStale`, from an
invariant that relates the decoders' cursors, the events in the channel and the
detector's baseline to the venue's counter, session by session. The events of a session
are numbered in order, and a baseline is of the session of the last event handled, or
older.
