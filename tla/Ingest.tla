------------------------------- MODULE Ingest -------------------------------
(***************************************************************************)
(* ingestd as a whole (ingest/cmd/ingestd/main.go): the venue runners of   *)
(* VenueRunner, the decoders of Decoders and the pipeline of Pipeline with *)
(* the gap detector they share.  A runner writes to the detector too: its  *)
(* OnConnect forgets the venue while events of the previous session may    *)
(* still wait in the channel.                                              *)
(*                                                                         *)
(* The venues are outside the program.  Each is the counter it numbers its *)
(* data with, and hands over the data in order; a datum may be lost on the *)
(* way, and goes unseen while nobody is connected.                         *)
(***************************************************************************)
EXTENDS VenueRunner, Decoders, FiniteSets

CONSTANTS
    BatchSize, MaxPendingEvents, MaxFailures, regressionTolerance,
    SnapshotSize,   \* trades Kraken sends again when a client subscribes
    Deployments,    \* sets of venues ingestd may be configured with
    MaxNumber,      \* bound: how far a venue's counter goes
    MaxEnvelopes,   \* bound: how far Coinbase's counter goes
    MaxLogs,        \* bound: transfers on a chain
    MaxSessions,    \* bound: connections to one venue
    MaxRestarts     \* bound: restarts of the process that runs a venue

VARIABLES
    inClosed, last, batch, stats, broker, calls, framed, discarded, latest, seen,
    cursor,         \* the Binance decoder's cursor
    lastBlock,      \* the EVM decoder's highest block
    number,         \* venue: the last number it has given out
    snapshotDue,    \* venue: the next frame is the snapshot of a subscription
    session,        \* history: connections made to a venue
    lost,           \* history: the numbers of a venue lost since its last event
    heard,          \* history: the data the pipeline has received
    base,           \* history: the session whose event set the baseline of a key
    restarts        \* history: restarts of the process

Symbol == {"BTC-USD", "ETH-USD"}
Kind   == {"trade", "book_delta", "chain_transfer"}

\* The pipeline with the settings of ingestd.
P == INSTANCE Pipeline WITH
        ConnectionScopedVenues <- {"coinbase", "ethereum"} \cap Venue,
        Encoders        <- Kind,
        Topics          <- [k \in Kind |-> k],
        Partition       <- {0},
        PartitionOf     <- [s \in Symbol |-> 0],
        DropOnGap       <- FALSE,
        ResyncOnGap     <- TRUE,
        WriterBatchSize <- BatchSize,
        Sequence        <- {Unnumbered} \cup 0 .. MaxNumber,
        Sound           <- {TRUE},
        MaxEvents       <- MaxNumber

pipeVars  == <<inClosed, last, batch, stats, broker, calls, framed, discarded,
               latest, seen>>
feedVars  == <<cursor, lastBlock, number, snapshotDue>>
ghostVars == <<session, lost, heard, base, restarts>>
iVars     == <<allVars, pipeVars, feedVars, ghostVars>>

\* Venues whose numbers start again with every connection.
Restarting == {"coinbase", "binance"}

\* Venues whose numbers go back with a connection: they start again, or the
\* snapshot repeats earlier ones.
Rewinding == Restarting \cup {"kraken"}

\* Venues that number nothing but data.
NumbersDataOnly == {"kraken", "binance"}

Bound(v) == IF v = "coinbase" THEN MaxEnvelopes ELSE MaxNumber

IInit ==
    /\ \E configured \in Deployments : RunnerInit(configured)
    /\ P!Init
    /\ cursor = NoCursor /\ lastBlock = 0
    /\ number = [v \in Venue |-> 0]
    /\ snapshotDue = [v \in Venue |-> FALSE]
    /\ session = [v \in Venue |-> 0]
    /\ lost = [v \in Venue |-> {}]
    /\ heard = {}
    /\ base = [k \in P!Key |-> 0]
    /\ restarts = 0

(***************************************************************************)
(* A session begins.                                                       *)
(***************************************************************************)

\* The detector forgets the venue.
Forget(v) == last' = P!ResetVenue(last, v)

ResetBooks(v) == cursor' = IF v = "binance" THEN NoCursor ELSE cursor

\* The subscriptions are written and OnConnect runs.
Connect(v) ==
    /\ session[v] < MaxSessions
    /\ Subscribe(v)
    /\ Forget(v)
    /\ ResetBooks(v)
    /\ session' = [session EXCEPT ![v] = @ + 1]
    /\ number' = [number EXCEPT ![v] = IF v \in Restarting THEN 0 ELSE @]
    /\ lost' = [lost EXCEPT ![v] = IF v \in Restarting THEN {} ELSE @]
    /\ snapshotDue' = [snapshotDue EXCEPT ![v] = (v = "kraken")]
    /\ UNCHANGED <<ctxDone, in, running, inClosed, batch, stats, broker, calls,
                   framed, discarded, latest, seen, lastBlock, heard, base, restarts>>

(***************************************************************************)
(* The venues, and the frames they send.                                   *)
(***************************************************************************)

\* A datum the client never sees: produced while it is away, dropped on the
\* way, or in a frame that a decoder rejects before it touches its state.
Lose(v) ==
    /\ phase[v] # "off" /\ number[v] < Bound(v)
    /\ v \in Restarting => phase[v] = "reading"
    /\ number' = [number EXCEPT ![v] = @ + 1]
    /\ lost' = [lost EXCEPT ![v] = @ \cup {number[v] + 1}]
    /\ UNCHANGED <<allVars, pipeVars, cursor, lastBlock, snapshotDue, session,
                   heard, base, restarts>>

\* A number without data: a Coinbase ack or heartbeat, a block without a
\* transfer of the tokens the subscription is for.
Quiet(v) ==
    /\ phase[v] # "off" /\ number[v] < Bound(v)
    /\ \/ v = "coinbase" /\ phase[v] = "reading"
       \/ v = "ethereum"
    /\ number' = [number EXCEPT ![v] = @ + 1]
    /\ UNCHANGED <<allVars, pipeVars, cursor, lastBlock, snapshotDue, ghostVars>>

\* An event as the pipeline gets it.  Its id says which datum of which session
\* it carries, and how many were lost before it.
Datum(v, s, kind, seq, n, i, before) ==
    [venue |-> v, symbol |-> s, kind |-> kind, seq |-> seq, sound |-> TRUE,
     id |-> [venue |-> v, epoch |-> IF v \in Restarting THEN session[v] ELSE 0,
             number |-> n, item |-> i, session |-> session[v], lost |-> before]]

\* What an event is about, whenever and however often it is sent.
DatumOf(ev) == [venue |-> ev.id.venue, epoch |-> ev.id.epoch,
                number |-> ev.id.number, item |-> ev.id.item]

LostBefore(v, n) == Cardinality({m \in lost[v] : m < n})

\* The runner of v reads a frame with events evs; the venue's counter is at n.
Deliver(v, evs, n) ==
    /\ ReadFrame(v, evs)
    /\ number' = [number EXCEPT ![v] = n]
    /\ lost' = [lost EXCEPT ![v] =
                    IF \E i \in DOMAIN evs : evs[i].seq # Unnumbered THEN {} ELSE @]
    /\ UNCHANGED <<ctxDone, in, running, pipeVars, session, heard, base, restarts>>

\* A Coinbase envelope with one event, or with one for each symbol.
ReadCoinbase ==
    /\ "coinbase" \in Venue /\ number["coinbase"] < MaxEnvelopes
    /\ \E syms \in {<<"BTC-USD">>, <<"ETH-USD", "BTC-USD">>} :
        LET n    == number["coinbase"]
            nums == CoinbaseNumbers(Len(syms), n)
            evs  == [i \in DOMAIN syms |->
                        Datum("coinbase", syms[i], "trade", nums[i], n + 1, i,
                              IF i = 1 THEN LostBefore("coinbase", n + 1) ELSE 0)]
        IN  Deliver("coinbase", evs, n + 1)
    /\ UNCHANGED <<cursor, lastBlock, snapshotDue>>

\* The trades of a Kraken frame, each with its trade id.
KrakenTrades(first, final) ==
    [i \in 1 .. final - first + 1 |->
        Datum("kraken", "BTC-USD", "trade", first + i - 1, first + i - 1, 1,
              IF i = 1 THEN LostBefore("kraken", first) ELSE 0)]

\* The first frame of a Kraken subscription repeats the most recent trades.
ReadKrakenSnapshot ==
    /\ "kraken" \in Venue /\ snapshotDue["kraken"]
    /\ LET n == number["kraken"]
           m == IF n > SnapshotSize THEN n - SnapshotSize + 1 ELSE 1
       IN  Deliver("kraken", KrakenTrades(m, n), n)
    /\ snapshotDue' = [snapshotDue EXCEPT !["kraken"] = FALSE]
    /\ UNCHANGED <<cursor, lastBlock>>

ReadKrakenTrade ==
    /\ "kraken" \in Venue /\ ~snapshotDue["kraken"] /\ number["kraken"] < MaxNumber
    /\ LET n == number["kraken"] + 1
       IN  Deliver("kraken", KrakenTrades(n, n), n)
    /\ UNCHANGED <<cursor, lastBlock, snapshotDue>>

\* A Binance depth update that covers one update id or two.
ReadBinanceDepth ==
    /\ "binance" \in Venue
    /\ \E w \in 1 .. 2 :
        LET n == number["binance"]
        IN  /\ n + w <= MaxNumber
            /\ cursor' = denseSequence(cursor, n + 1, n + w)
            /\ Deliver("binance", <<Datum("binance", "BTC-USD", "book_delta",
                                          cursor'.dense, n + 1, 1,
                                          LostBefore("binance", n + 1))>>, n + w)
    /\ UNCHANGED <<lastBlock, snapshotDue>>

\* A depth update with a malformed level: the cursor has moved when decodeDepth
\* finds out, and one update is lost.
ReadBinanceMalformed ==
    /\ "binance" \in Venue
    /\ \E w \in 1 .. 2 :
        LET n == number["binance"]
        IN  /\ n + w <= MaxNumber
            /\ cursor' = denseSequence(cursor, n + 1, n + w)
            /\ ReadFrame("binance", <<>>)
            /\ number' = [number EXCEPT !["binance"] = n + w]
            /\ lost' = [lost EXCEPT !["binance"] = @ \cup {n + 1}]
    /\ UNCHANGED <<ctxDone, in, running, pipeVars, lastBlock, snapshotDue, session, heard,
                   base, restarts>>

\* A transfer in the current block or in the next one; its place among all the
\* transfers tells it from the others of the block.
ReadEvmLog ==
    /\ "ethereum" \in Venue /\ stats.Received + Len(in) < MaxLogs
    /\ \E b \in {number["ethereum"], number["ethereum"] + 1} \cap 1 .. MaxNumber :
        LET seq == EvmNumber(lastBlock, b)
        IN  /\ lastBlock' = EvmLastBlock(lastBlock, b)
            /\ Deliver("ethereum",
                       <<Datum("ethereum", "BTC-USD", "chain_transfer", seq, b,
                               stats.Received + Len(in),
                               IF seq = Unnumbered THEN 0 ELSE LostBefore("ethereum", b))>>,
                       b)
    /\ UNCHANGED <<cursor, snapshotDue>>

(***************************************************************************)
(* The pipeline's steps, and the process as a whole.                       *)
(***************************************************************************)
IReceive ==
    /\ P!Receive
    /\ LET ev == Head(in)
           k  == P!sequenceKey(ev)
       IN  /\ heard' = heard \cup {DatumOf(ev)}
           /\ base' = [base EXCEPT ![k] =
                        IF P!verdict(ev) \in {"duplicate", "unsequenced"}
                        THEN @ ELSE ev.id.session]
    /\ UNCHANGED <<runnerVars, feedVars, session, lost, restarts>>

ITick   == P!Tick   /\ UNCHANGED <<runnerVars, feedVars, ghostVars>>
IFinish == P!Finish /\ UNCHANGED <<runnerVars, feedVars, ghostVars>>
ICancel == P!Cancel /\ UNCHANGED <<runnerVars, feedVars, ghostVars>>

IControl(v) ==
    Control(v) /\ UNCHANGED <<ctxDone, in, running, pipeVars, feedVars, ghostVars>>

IPush(v) == Push(v) /\ UNCHANGED <<ctxDone, running, pipeVars, feedVars, ghostVars>>

\* The process dies and its pod is started again: everything in memory is gone.
Restart ==
    /\ \E v \in Venue : phase[v] # "off" /\ restarts < MaxRestarts[v]
    /\ restarts' = restarts + 1
    /\ ctxDone' = FALSE /\ in' = <<>> /\ running' = TRUE /\ inClosed' = FALSE
    /\ phase' = [v \in Venue |-> IF phase[v] = "off" THEN "off" ELSE "start"]
    /\ attempt' = [v \in Venue |-> 0]
    /\ pending' = [v \in Venue |-> <<>>]
    /\ gauge' = [v \in Venue |-> 0]
    /\ last' = [k \in P!Key |-> P!NoLast]
    /\ batch' = <<>>
    /\ stats' = [n \in DOMAIN stats |-> 0]
    /\ latest' = [k \in P!Key |-> P!NoLast]
    /\ seen' = [k \in P!Key |-> {}]
    /\ cursor' = NoCursor /\ lastBlock' = 0
    /\ UNCHANGED <<broker, calls, framed, discarded, number, snapshotDue, session,
                   lost, heard, base>>

INext ==
    \/ IReceive \/ ITick \/ IFinish \/ ICancel \/ Restart
    \/ ReadCoinbase \/ ReadKrakenSnapshot \/ ReadKrakenTrade
    \/ ReadBinanceDepth \/ ReadBinanceMalformed \/ ReadEvmLog
    \/ \E v \in Venue : Connect(v) \/ Lose(v) \/ Quiet(v) \/ IControl(v) \/ IPush(v)

ISpec == IInit /\ [][INext]_iVars

(***************************************************************************)
(* Properties.                                                             *)
(***************************************************************************)

\* A step in which the pipeline handles event ev.
Handles(ev) == stats'.Received = stats.Received + 1 /\ in # <<>> /\ ev = Head(in)

Queued == {in[i] : i \in DOMAIN in}

\* An event dropped as a duplicate had been received before (StatusDuplicate:
\* "the sequence was already seen"), with one exception: the venue's numbers went
\* back with a connection, and an event of an earlier session, still in the
\* channel when OnConnect cleared the venue, has set the baseline once more.
FreshKeptUnlessStale ==
    [][\A ev \in Queued :
        Handles(ev) /\ stats'.Duplicates > stats.Duplicates
            => \/ DatumOf(ev) \in heard
               \/ ev.venue \in Rewinding /\ base[P!sequenceKey(ev)] < ev.id.session]_iVars

\* Missing numbers stand for lost data: no event adds more to Missed than data of
\* its venue was lost since the previous event.
MissedIsReal(ev) == Handles(ev) => stats'.Missed - stats.Missed <= ev.id.lost

\* Of the venues that number nothing but data, what the detector reports as
\* missed was lost; acks, heartbeats and blocks without a transfer use up the
\* numbers of the others.
GapMeansLossOfData ==
    [][\A ev \in Queued : ev.venue \in NumbersDataOnly => MissedIsReal(ev)]_iVars

\* Data lost within a session is reported, with at least its extent, by the next
\* event that carries a number, if the detector has a baseline of that session.
LossReported ==
    [][\A ev \in Queued :
        LET k == P!sequenceKey(ev) IN
        Handles(ev) /\ ev.seq # Unnumbered /\ ev.id.lost > 0
          /\ last[k] # P!NoLast /\ base[k] = ev.id.session
            => /\ stats'.Gaps = stats.Gaps + 1
               /\ stats'.Missed - stats.Missed >= ev.id.lost]_iVars

=============================================================================
