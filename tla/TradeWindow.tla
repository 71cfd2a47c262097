---------------------------- MODULE TradeWindow -----------------------------
(***************************************************************************)
(* The bars of one venue and symbol (stream/src/main/scala/io/tapeline/    *)
(* stream: TradeAggregate, TradeWindow, TradesJob, BackfillJob).  The live *)
(* job folds the trades of the topic into tumbling event-time windows; the *)
(* backfill reads the same trades from the lakehouse, in the order of its  *)
(* files, through the same operators.                                      *)
(*                                                                         *)
(* Flink is external: a window fires when the watermark has passed its     *)
(* end, and a trade whose window has fired is dropped as late.  Prices and *)
(* sizes are integers, so that sums do not round.                          *)
(***************************************************************************)
EXTENDS Integers, Sequences

CONSTANTS
    Log,                    \* the sequences of trades a topic may hold
    windowSize,
    maxOutOfOrderness,      \* of the live job
    ReplayOutOfOrderness,   \* of the backfill
    backfillStart, backfillEnd,
    NoBar

Trade == [time : Nat, price : Nat \ {0}, size : Nat]

ASSUME WindowAssumption ==
    /\ Log \subseteq Seq(Trade)
    /\ windowSize \in Nat \ {0}
    /\ maxOutOfOrderness \in Nat
    /\ ReplayOutOfOrderness \in Nat
    /\ backfillStart \in Nat /\ backfillEnd \in Nat
    /\ backfillEnd - backfillStart \in 0 .. ReplayOutOfOrderness

----------------------------------------------------------------------------
(* TradeAggregate.                                                         *)

Least(a, b)    == IF a <= b THEN a ELSE b
Greatest(a, b) == IF a >= b THEN a ELSE b

\* Nothing but count is read of the empty aggregate.
empty == [open |-> 0, high |-> 0, low |-> 0, close |-> 0, volume |-> 0, notional |-> 0,
          count |-> 0, first |-> 0, last |-> 0]

single(t) == [open |-> t.price, high |-> t.price, low |-> t.price, close |-> t.price,
              volume |-> t.size, notional |-> t.price * t.size, count |-> 1,
              first |-> t.time, last |-> t.time]

\* Mutant: open and close follow the order of arrival.
addArrival(a, t) ==
    IF a.count = 0 THEN single(t)
    ELSE [open     |-> a.open,
          high     |-> Greatest(a.high, t.price),
          low      |-> Least(a.low, t.price),
          close    |-> t.price,
          volume   |-> a.volume + t.size,
          notional |-> a.notional + t.price * t.size,
          count    |-> a.count + 1,
          first    |-> Least(a.first, t.time),
          last     |-> Greatest(a.last, t.time)]

add(a, t) ==
    IF a.count = 0 THEN single(t)
    ELSE [open     |-> IF t.time < a.first THEN t.price ELSE a.open,
          high     |-> Greatest(a.high, t.price),
          low      |-> Least(a.low, t.price),
          close    |-> IF t.time >= a.last THEN t.price ELSE a.close,
          volume   |-> a.volume + t.size,
          notional |-> a.notional + t.price * t.size,
          count    |-> a.count + 1,
          first    |-> Least(a.first, t.time),
          last     |-> Greatest(a.last, t.time)]

Combined(a, b, open, close) ==
    [open     |-> open,
     high     |-> Greatest(a.high, b.high),
     low      |-> Least(a.low, b.low),
     close    |-> close,
     volume   |-> a.volume + b.volume,
     notional |-> a.notional + b.notional,
     count    |-> a.count + b.count,
     first    |-> Least(a.first, b.first),
     last     |-> Greatest(a.last, b.last)]

\* Mutant: the right operand is taken for the later one.
mergeInOrder(a, b) ==
    IF a.count = 0 THEN b
    ELSE IF b.count = 0 THEN a
    ELSE Combined(a, b, a.open, b.close)

merge(a, b) ==
    IF a.count = 0 THEN b
    ELSE IF b.count = 0 THEN a
    ELSE Combined(a, b, IF b.first < a.first THEN b.open ELSE a.open,
                        IF b.last > a.last THEN b.close ELSE a.close)

fold(trades) ==
    LET f[n \in 0 .. Len(trades)] == IF n = 0 THEN empty ELSE add(f[n - 1], trades[n])
    IN  f[Len(trades)]

----------------------------------------------------------------------------
(* The two jobs.                                                           *)

VARIABLES
    log,        \* the trades, in the order of the topic
    unread,     \* per job, the places of the trades it has yet to read
    acc,        \* per job, the aggregate of every window it has open
    high,       \* per job, the latest event time read, -1 for none
    watermark,  \* per job, the watermark the window operator has
    bars,       \* per job, the bar of every window that has fired
    taken       \* history: per job, the trades it did not drop as late

vars == <<log, unread, acc, high, watermark, bars, taken>>

Job == {"live", "backfill"}

WindowOf(i) == log[i].time \div windowSize

Windows == {WindowOf(i) : i \in DOMAIN log}

\* The backfill selects by event time.
Selected(j, i) ==
    j = "backfill" => backfillStart <= log[i].time /\ log[i].time < backfillEnd

\* Mutant: the backfill has the watermarks of the live job.
ToleranceLive(j) == maxOutOfOrderness

Tolerance(j) == IF j = "live" THEN maxOutOfOrderness ELSE ReplayOutOfOrderness

Init ==
    /\ log \in Log
    /\ unread = [j \in Job |-> {i \in DOMAIN log : Selected(j, i)}]
    /\ acc = [j \in Job |-> [w \in Windows |-> empty]]
    /\ high = [j \in Job |-> -1]
    /\ watermark = [j \in Job |-> -1]
    /\ bars = [j \in Job |-> [w \in Windows |-> NoBar]]
    /\ taken = [j \in Job |-> {}]

\* The watermark has reached the last instant of a window.
Past(w, mark) == mark >= (w + 1) * windowSize - 1

\* Which trade comes next: in the order of the topic, or whichever file is read;
\* the backfill is of trades the live job has seen.
NextTrade(j, i) ==
    /\ i \in unread[j]
    /\ IF j = "live" THEN \A k \in unread[j] : i <= k ELSE unread["live"] = {}

\* A trade reaches the window operator.
Read(j, i) ==
    /\ NextTrade(j, i)
    /\ unread' = [unread EXCEPT ![j] = @ \ {i}]
    /\ high' = [high EXCEPT ![j] = Greatest(@, log[i].time)]
    /\ IF Past(WindowOf(i), watermark[j])
       THEN UNCHANGED <<acc, taken>>
       ELSE /\ acc' = [acc EXCEPT ![j][WindowOf(i)] = add(@, log[i])]
            /\ taken' = [taken EXCEPT ![j] = @ \cup {i}]
    /\ UNCHANGED <<log, watermark, bars>>

\* toBar: the bar has the sums that vwap divides.
toBar(a) == [open |-> a.open, high |-> a.high, low |-> a.low, close |-> a.close,
             volume |-> a.volume, notional |-> a.notional, count |-> a.count]

\* The watermark moves on and the windows it passes fire, if they have trades.
Fire(j, mark) ==
    /\ mark > watermark[j]
    /\ watermark' = [watermark EXCEPT ![j] = mark]
    /\ bars' = [bars EXCEPT ![j] = [w \in Windows |->
                    IF Past(w, mark) /\ acc[j][w].count # 0 THEN toBar(acc[j][w]) ELSE @[w]]]
    /\ acc' = [acc EXCEPT ![j] = [w \in Windows |->
                    IF Past(w, mark) THEN empty ELSE @[w]]]
    /\ UNCHANGED <<log, unread, high, taken>>

\* The periodic watermark of what has been read so far.
Watermark(j) == high[j] >= 0 /\ Fire(j, high[j] - Tolerance(j) - 1)

\* A bounded source ends with a watermark past everything.
EndOfInput ==
    /\ unread["live"] = {} /\ unread["backfill"] = {} /\ high["backfill"] >= 0
    /\ Fire("backfill", high["backfill"] + windowSize)

Next ==
    \/ \E j \in Job : Watermark(j) \/ \E i \in DOMAIN log : Read(j, i)
    \/ EndOfInput

Spec == Init /\ [][Next]_vars

----------------------------------------------------------------------------
(* Properties.                                                             *)

\* The total of a function over a set of places.
Total(f, S) ==
    LET sum[T \in SUBSET S] ==
            IF T = {} THEN 0
            ELSE LET i == CHOOSE i \in T : TRUE IN f[i] + sum[T \ {i}]
    IN  sum[S]

TakenOf(j, w) == {i \in taken[j] : WindowOf(i) = w}

\* A bar describes the trades the job took into its window, by their event times
\* and in whatever order they came: it opens with an earliest and closes with a
\* latest one, and leaves none out of its extremes and sums (TradeAggregate.add:
\* "Open and close follow event time, not arrival order").
BarsExact ==
    \A j \in Job, w \in Windows : bars[j][w] # NoBar =>
        LET b == bars[j][w]
            S == TakenOf(j, w)
        IN  /\ \E i \in S : b.open = log[i].price /\ \A k \in S : log[i].time <= log[k].time
            /\ \E i \in S : b.close = log[i].price /\ \A k \in S : log[i].time >= log[k].time
            /\ \A i \in S : b.low <= log[i].price /\ log[i].price <= b.high
            /\ {b.low, b.high} \subseteq {log[i].price : i \in S}
            /\ b.volume = Total([i \in S |-> log[i].size], S)
            /\ b.notional = Total([i \in S |-> log[i].price * log[i].size], S)

\* The window lies in the range of the backfill, and no two of its trades have
\* the same time.
Replayable(w) ==
    /\ backfillStart <= w * windowSize /\ (w + 1) * windowSize <= backfillEnd
    /\ \A i, k \in DOMAIN log : WindowOf(i) = w /\ log[i].time = log[k].time => i = k

\* A window replayed from the lakehouse gets the bar it had, whatever the order
\* of the files, if the live job dropped none of its trades and their times
\* tell them apart (BackfillJob: replaying reconstructs the aggregates exactly).
ReplayAgrees ==
    \A w \in Windows :
        /\ Replayable(w)
        /\ bars["live"][w] # NoBar /\ bars["backfill"][w] # NoBar
        /\ \A i \in DOMAIN log : WindowOf(i) = w => i \in taken["live"]
        => bars["backfill"][w] = bars["live"][w]

\* Trades folded in two parts and merged give what folding them in one gives, if
\* the last trades of the two parts have different times (TradeAggregate.merge,
\* for parallel pre-aggregation).
PartsMerge ==
    \A n \in 1 .. Len(log) - 1 :
        LET a == fold(SubSeq(log, 1, n))
            b == fold(SubSeq(log, n + 1, Len(log)))
        IN  a.last # b.last => merge(a, b) = fold(log)

=============================================================================
