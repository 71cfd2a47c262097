--------------------------- MODULE SequenceProofs ---------------------------
(***************************************************************************)
(* Proofs about gap detection in Pipeline: what the detector's verdicts    *)
(* are worth, for every stream, tolerance and order of arrival.            *)
(***************************************************************************)
EXTENDS PipelineProofs

\* The verdict of Observe, case by case.
LEMMA StatusFacts ==
    ASSUME NEW l \in Nat \cup {-1}, NEW q \in Nat \cup {-1}
    PROVE  /\ q = -1 => Status(l, q) = "unsequenced"
           /\ q # -1 /\ l = -1 => Status(l, q) = "first"
           /\ q # -1 /\ l # -1 /\ q = l + 1 => Status(l, q) = "ok"
           /\ q # -1 /\ l # -1 /\ q > l + 1 => Status(l, q) = "gap"
           /\ q # -1 /\ l # -1 /\ q <= l /\ l - q <= regressionTolerance
                => Status(l, q) = "duplicate"
           /\ q # -1 /\ l # -1 /\ q <= l /\ ~(l - q <= regressionTolerance)
                => Status(l, q) = "regression"
<1>1. q = -1 => Status(l, q) = "unsequenced"
    BY DEF Status
<1>2. q # -1 /\ l = -1 => Status(l, q) = "first"
    BY DEF Status, NoLast
<1>3. CASE q # -1 /\ l # -1
    <2>1. ~(q < 0) /\ l # NoLast
        BY <1>3 DEF NoLast
    <2>2. Status(l, q) = CASE q = Expected(l)   -> "ok"
                           [] q > Expected(l)   -> "gap"
                           [] Retransmit(l, q)  -> "duplicate"
                           [] OTHER             -> "regression"
        BY <2>1 DEF Status
    <2>3. CASE q = l + 1
        BY <1>3, <2>2, <2>3 DEF Expected, Retransmit
    <2>4. CASE q > l + 1
        BY <1>3, <2>2, <2>4 DEF Expected, Retransmit
    <2>5. CASE q <= l /\ l - q <= regressionTolerance
        BY <1>3, <2>2, <2>5 DEF Expected, Retransmit
    <2>6. CASE q <= l /\ ~(l - q <= regressionTolerance)
        BY <1>3, <2>2, <2>6 DEF Expected, Retransmit
    <2> QED BY <1>3, <2>3, <2>4, <2>5, <2>6
<1> QED BY <1>1, <1>2, <1>3

(***************************************************************************)
(* The inductive invariant: the detector's baseline against the history.   *)
(***************************************************************************)
BaselineInv == DeliveryInv /\ BaselineIsLatest

\* Run starts without a baseline.
LEMMA BaselineInit == Init => BaselineInv
<1> SUFFICES ASSUME Init PROVE BaselineInv
    OBVIOUS
<1>1. BaselineIsLatest
    BY DEF Init, BaselineIsLatest
<1> QED BY <1>1, DeliveryInit DEF BaselineInv

\* What an event numbered q leaves of a stream's entry l in the detector's map,
\* of its last number n and of the set S of its numbers.
AfterLast(l, q) ==
    IF NeedsResync(Status(l, q)) /\ ResyncOnGap THEN NoLast ELSE NextLast(l, q)

AfterLatest(l, n, q) ==
    IF Status(l, q) \in {"duplicate", "unsequenced"} THEN n ELSE q

AfterSeen(l, S, q) ==
    IF Status(l, q) = "unsequenced" THEN S
    ELSE IF Status(l, q) = "regression" THEN {q} ELSE S \cup {q}

\* What checkSequence does to the entries of one stream, and to no other.
LEMMA CheckSequenceEntry ==
    ASSUME TypeOK, NEW ev \in Event, checkSequence(ev)
    PROVE  LET k == sequenceKey(ev)
           IN  /\ \A j \in Key \ {k} : /\ last'[j] = last[j]
                                       /\ latest'[j] = latest[j]
                                       /\ seen'[j] = seen[j]
               /\ last'[k] = AfterLast(last[k], ev.seq)
               /\ latest'[k] = AfterLatest(last[k], latest[k], ev.seq)
               /\ seen'[k] = AfterSeen(last[k], seen[k], ev.seq)
<1> DEFINE k == sequenceKey(ev)
<1>1. k \in Key
    BY KeyType
<1>2. /\ last \in [Key -> Nat \cup {NoLast}] /\ latest \in [Key -> Nat \cup {NoLast}]
      /\ seen \in [Key -> SUBSET Nat]
    BY DEF TypeOK
<1>3. /\ last' = IF NeedsResync(Status(last[k], ev.seq)) /\ ResyncOnGap
                 THEN Reset(Observe(last, k, ev.seq), k) ELSE Observe(last, k, ev.seq)
      /\ latest' = [latest EXCEPT ![k] = AfterLatest(last[k], latest[k], ev.seq)]
      /\ seen' = [seen EXCEPT ![k] = AfterSeen(last[k], seen[k], ev.seq)]
    BY DEF checkSequence, verdict, AfterLatest, AfterSeen
<1> HIDE DEF k
<1>4. /\ last'[k] = AfterLast(last[k], ev.seq)
      /\ \A j \in Key \ {k} : last'[j] = last[j]
    BY <1>1, <1>2, <1>3 DEF Reset, Observe, AfterLast
<1>5. /\ latest'[k] = AfterLatest(last[k], latest[k], ev.seq)
      /\ \A j \in Key \ {k} : latest'[j] = latest[j]
    BY <1>1, <1>2, <1>3
<1>6. /\ seen'[k] = AfterSeen(last[k], seen[k], ev.seq)
      /\ \A j \in Key \ {k} : seen'[j] = seen[j]
    BY <1>1, <1>2, <1>3
<1> QED BY <1>4, <1>5, <1>6 DEF k

\* The part of the invariant about one stream.
Baseline(l, n, S) ==
    /\ l = n \/ (ResyncOnGap /\ l = NoLast)
    /\ ~ResyncOnGap => \A q \in S : q <= n

\* Handling an event keeps its stream's baseline in line with the history.
LEMMA BaselineObserved ==
    ASSUME NEW l \in Nat \cup {-1}, NEW n \in Nat \cup {-1}, NEW S \in SUBSET Nat,
           NEW q \in Nat \cup {-1}, Baseline(l, n, S)
    PROVE  Baseline(AfterLast(l, q), AfterLatest(l, n, q), AfterSeen(l, S, q))
<1> DEFINE n1 == AfterLatest(l, n, q)
           S1 == AfterSeen(l, S, q)
<1>1. AfterLast(l, q) = n1 \/ (ResyncOnGap /\ AfterLast(l, q) = NoLast)
    BY DEF Baseline, NeedsResync, AfterLast, AfterLatest, NextLast
<1> HIDE DEF n1, S1
<1>2. ASSUME ~ResyncOnGap, NEW r \in S1 PROVE r <= n1
    <2>1. l = n /\ \A p \in S : p \in Nat /\ p <= n
        BY <1>2 DEF Baseline
    <2>2. CASE q = -1
        <3>1. Status(l, q) = "unsequenced"
            BY <2>2, StatusFacts
        <3> QED BY <1>2, <2>1, <3>1 DEF AfterLatest, AfterSeen, n1, S1
    <2>3. CASE q # -1 /\ l = -1
        <3>1. Status(l, q) = "first"
            BY <2>3, StatusFacts
        <3>2. n1 = q /\ S1 = S \cup {q}
            BY <3>1 DEF AfterLatest, AfterSeen, n1, S1
        <3> QED BY <1>2, <2>1, <2>3, <3>2
    <2>4. CASE q # -1 /\ l # -1 /\ q > l
        <3>1. Status(l, q) \in {"ok", "gap"}
            <4>1. q = l + 1 \/ q > l + 1
                BY <2>4
            <4> QED BY <2>4, <4>1, StatusFacts
        <3>2. n1 = q /\ S1 = S \cup {q}
            BY <3>1 DEF AfterLatest, AfterSeen, n1, S1
        <3> QED BY <1>2, <2>1, <2>4, <3>2
    <2>5. CASE q # -1 /\ l # -1 /\ q <= l /\ l - q <= regressionTolerance
        <3>1. Status(l, q) = "duplicate"
            BY <2>5, StatusFacts
        <3>2. n1 = n /\ S1 = S \cup {q}
            BY <3>1 DEF AfterLatest, AfterSeen, n1, S1
        <3> QED BY <1>2, <2>1, <2>5, <3>2
    <2>6. CASE q # -1 /\ l # -1 /\ q <= l /\ ~(l - q <= regressionTolerance)
        <3>1. Status(l, q) = "regression"
            BY <2>6, StatusFacts
        <3>2. n1 = q /\ S1 = {q}
            BY <3>1 DEF AfterLatest, AfterSeen, n1, S1
        <3> QED BY <1>2, <2>6, <3>2
    <2> QED BY <2>2, <2>3, <2>4, <2>5, <2>6
<1> QED BY <1>1, <1>2 DEF Baseline, n1, S1

\* Only Receive counts an event as received.
LEMMA OnlyReceive ==
    ASSUME DeliveryInv, [Next]_vars, stats'.Received = stats.Received + 1
    PROVE  Receive
<1>1. /\ stats \in Stats /\ batch \in Seq(Message) /\ broker \subseteq BrokerRecord
      /\ calls \in Nat /\ discarded \subseteq Message /\ stats.Received \in Nat
    BY StatsFields DEF DeliveryInv, TypeOK
<1>2. stats'.Received # stats.Received
    BY <1>1
<1>3. ~Tick /\ ~Drained
    <2>1. Flush(batch, stats) => stats'.Received = stats.Received
        BY <1>1, FlushFacts
    <2> QED BY <1>2, <2>1 DEF Tick, Drained
<1>4. ~Finish
    <2>1. [stats EXCEPT !.Published = @ + Len(batch)].Received = stats.Received
        BY <1>1 DEF Stats
    <2> QED BY <1>2, <2>1 DEF Finish, FinalFlush
<1>5. stats' # stats
    BY <1>2
<1>6. ~CloseIn /\ ~Cancel /\ ~UNCHANGED vars
    BY <1>5 DEF CloseIn, Cancel, vars
<1>7. ASSUME NEW v \in Venue, NEW s \in Symbol, NEW k \in Kind, NEW q \in Sequence,
             NEW ok \in Sound, Send(v, s, k, q, ok)
      PROVE  FALSE
    BY <1>5, <1>7 DEF Send
<1> QED BY <1>3, <1>4, <1>6, <1>7 DEF Next

\* Handling an event leaves the counters checkSequence has set as they are, and
\* one that is dropped is not framed.
LEMMA ReceiveCounts ==
    ASSUME DeliveryInv, Receive
    PROVE  LET ev == Head(in)
           IN  /\ ev \in Event /\ checkSequence(ev)
               /\ stats'.Gaps = Checked(ev).Gaps
               /\ stats'.Missed = Checked(ev).Missed
               /\ stats'.Duplicates = Checked(ev).Duplicates
               /\ Dropped(ev) => framed' = framed
<1> DEFINE ev == Head(in)
<1>1. TypeOK
    BY DEF DeliveryInv
<1>2. ev \in Event /\ checkSequence(ev)
    BY <1>1, ReceivedEvent DEF Receive
<1>3. Checked(ev) \in Stats
    BY <1>1, <1>2, CheckedFacts
<1>4. DropEvent(ev) \/ EncodeError(ev) \/ AppendMessage(ev)
    BY DEF Receive
<1> HIDE DEF ev
<1>5. CASE DropEvent(ev)
    BY <1>2, <1>5 DEF DropEvent, ev
<1>6. CASE EncodeError(ev)
    <2>1. stats' = [Checked(ev) EXCEPT !.EncodeErrs = @ + 1] /\ ~Dropped(ev)
        BY <1>6 DEF EncodeError
    <2>2. /\ stats'.Gaps = Checked(ev).Gaps /\ stats'.Missed = Checked(ev).Missed
          /\ stats'.Duplicates = Checked(ev).Duplicates
        BY <1>3, <2>1 DEF Stats
    <2> QED BY <1>2, <2>1, <2>2 DEF ev
<1>7. CASE AppendMessage(ev)
    <2>1. ~Dropped(ev) /\ frame(ev) \in Message
        BY <1>2, <1>7, FrameType DEF AppendMessage
    <2>2. Append(batch, frame(ev)) \in Seq(Message)
        BY <1>1, <2>1 DEF TypeOK
    <2>3. stats' = Checked(ev) \/ Flush(Append(batch, frame(ev)), Checked(ev))
        BY <1>7 DEF AppendMessage
    <2>4. /\ stats'.Gaps = Checked(ev).Gaps /\ stats'.Missed = Checked(ev).Missed
          /\ stats'.Duplicates = Checked(ev).Duplicates
        BY <1>1, <1>3, <2>2, <2>3, FlushFacts DEF TypeOK
    <2> QED BY <1>2, <2>1, <2>4 DEF ev
<1> QED BY <1>4, <1>5, <1>6, <1>7

\* Every step keeps the invariant.
LEMMA BaselineStep == BaselineInv /\ [Next]_vars => BaselineInv'
<1> SUFFICES ASSUME BaselineInv, [Next]_vars PROVE BaselineInv'
    OBVIOUS
<1>1. DeliveryInv /\ TypeOK /\ BaselineIsLatest
    BY DEF BaselineInv, DeliveryInv
<1>2. DeliveryInv'
    BY <1>1, DeliveryStep
<1>3. CASE Receive
    <2> DEFINE ev == Head(in)
               k == sequenceKey(ev)
    <2>1. ev \in Event /\ checkSequence(ev)
        BY <1>1, <1>3, ReceiveCounts
    <2>2. k \in Key /\ ev.seq \in Nat \cup {-1}
        BY <2>1, KeyType, SequenceType
    <2>3. /\ last[k] \in Nat \cup {-1} /\ latest[k] \in Nat \cup {-1}
          /\ seen[k] \in SUBSET Nat
        BY <1>1, <2>2 DEF TypeOK, NoLast
    <2>4. \A j \in Key : Baseline(last[j], latest[j], seen[j])
        BY <1>1 DEF BaselineIsLatest, Baseline
    <2>5. /\ \A j \in Key \ {k} : /\ last'[j] = last[j] /\ latest'[j] = latest[j]
                                  /\ seen'[j] = seen[j]
          /\ last'[k] = AfterLast(last[k], ev.seq)
          /\ latest'[k] = AfterLatest(last[k], latest[k], ev.seq)
          /\ seen'[k] = AfterSeen(last[k], seen[k], ev.seq)
        BY <1>1, <2>1, CheckSequenceEntry
    <2> HIDE DEF ev, k
    <2>6. Baseline(last'[k], latest'[k], seen'[k])
        BY <2>2, <2>3, <2>4, <2>5, BaselineObserved
    <2>7. \A j \in Key : Baseline(last'[j], latest'[j], seen'[j])
        BY <2>4, <2>5, <2>6
    <2>8. BaselineIsLatest'
        BY <2>7 DEF BaselineIsLatest, Baseline
    <2> QED BY <1>2, <2>8 DEF BaselineInv
<1>4. CASE ~Receive
    <2>1. UNCHANGED <<last, latest, seen>>
        BY <1>4 DEF Next, Tick, Drained, Finish, CloseIn, Cancel, Send, vars, histVars
    <2>2. BaselineIsLatest'
        BY <1>1, <2>1 DEF BaselineIsLatest
    <2> QED BY <1>2, <2>2 DEF BaselineInv
<1> QED BY <1>3, <1>4

\* The detector's baseline is the last number of the stream or forgotten.
THEOREM PipelineBaseline == Spec => []BaselineIsLatest
<1>1. BaselineInv => BaselineIsLatest
    BY DEF BaselineInv
<1> QED BY <1>1, BaselineInit, BaselineStep, PTL DEF Spec

(***************************************************************************)
(* What the verdicts are worth.                                            *)
(***************************************************************************)

\* A step that handles ev, seen from the stream of ev.
LEMMA HandledEvent ==
    ASSUME BaselineInv, [Next]_vars, NEW ev, Receives(ev)
    PROVE  LET k == sequenceKey(ev)
           IN  /\ k \in Key /\ ev.seq \in Nat \cup {-1}
               /\ last[k] \in Nat \cup {-1} /\ latest[k] \in Nat \cup {-1}
               /\ seen[k] \in SUBSET Nat
               /\ Baseline(last[k], latest[k], seen[k])
               /\ stats'.Gaps = IF NeedsResync(Status(last[k], ev.seq))
                                THEN stats.Gaps + 1 ELSE stats.Gaps
               /\ stats'.Duplicates = IF Status(last[k], ev.seq) = "duplicate"
                                      THEN stats.Duplicates + 1 ELSE stats.Duplicates
               /\ stats'.Missed = stats.Missed + Missing(last[k], ev.seq)
               /\ Status(last[k], ev.seq) = "duplicate" => framed' = framed
<1>1. DeliveryInv /\ TypeOK /\ BaselineIsLatest
    BY DEF BaselineInv, DeliveryInv
<1>2. Receive /\ ev = Head(in)
    BY <1>1, OnlyReceive DEF Receives
<1>3. /\ ev \in Event
      /\ stats'.Gaps = Checked(ev).Gaps /\ stats'.Missed = Checked(ev).Missed
      /\ stats'.Duplicates = Checked(ev).Duplicates
      /\ Dropped(ev) => framed' = framed
    BY <1>1, <1>2, ReceiveCounts
<1>4. sequenceKey(ev) \in Key /\ ev.seq \in Nat \cup {-1}
    BY <1>3, KeyType, SequenceType
<1>5. /\ last[sequenceKey(ev)] \in Nat \cup {-1}
      /\ latest[sequenceKey(ev)] \in Nat \cup {-1}
      /\ seen[sequenceKey(ev)] \in SUBSET Nat
    BY <1>1, <1>4 DEF TypeOK, NoLast
<1>6. Baseline(last[sequenceKey(ev)], latest[sequenceKey(ev)], seen[sequenceKey(ev)])
    BY <1>1, <1>4 DEF BaselineIsLatest, Baseline
<1>7. /\ stats'.Gaps = IF NeedsResync(verdict(ev)) THEN stats.Gaps + 1 ELSE stats.Gaps
      /\ stats'.Duplicates = IF verdict(ev) = "duplicate"
                             THEN stats.Duplicates + 1 ELSE stats.Duplicates
      /\ stats'.Missed = stats.Missed + Missing(last[sequenceKey(ev)], ev.seq)
    BY <1>1, <1>3, CheckedFacts
<1>8. verdict(ev) = "duplicate" => framed' = framed
    BY <1>3 DEF Dropped
<1> QED BY <1>4, <1>5, <1>6, <1>7, <1>8 DEF verdict

\* An event that continues its stream is never dropped as a duplicate and never
\* reported as a gap, with and without resyncs.
THEOREM PipelineContiguous == Spec => ContiguousAccepted
<1>1. BaselineInv /\ [Next]_vars => AcceptsContiguous
    <2> SUFFICES ASSUME BaselineInv, [Next]_vars, NEW ev \in Queued, Receives(ev),
                        latest[sequenceKey(ev)] # NoLast,
                        ev.seq = latest[sequenceKey(ev)] + 1
                 PROVE  stats'.Gaps = stats.Gaps /\ stats'.Duplicates = stats.Duplicates
        BY DEF AcceptsContiguous
    <2> DEFINE k == sequenceKey(ev)
    <2>1. /\ ev.seq \in Nat \cup {-1} /\ last[k] \in Nat \cup {-1}
          /\ latest[k] \in Nat \cup {-1}
          /\ last[k] = latest[k] \/ last[k] = -1
          /\ stats'.Gaps = IF NeedsResync(Status(last[k], ev.seq))
                           THEN stats.Gaps + 1 ELSE stats.Gaps
          /\ stats'.Duplicates = IF Status(last[k], ev.seq) = "duplicate"
                                 THEN stats.Duplicates + 1 ELSE stats.Duplicates
        BY HandledEvent DEF Baseline, NoLast
    <2>2. latest[k] # -1 /\ ev.seq = latest[k] + 1
        BY DEF NoLast
    <2> HIDE DEF k
    <2>3. ev.seq # -1
        BY <2>1, <2>2
    <2>4. Status(last[k], ev.seq) \in {"ok", "first"}
        BY <2>1, <2>2, <2>3, StatusFacts
    <2> QED BY <2>1, <2>4 DEF NeedsResync
<1> QED BY <1>1, BaselineInit, BaselineStep, PTL DEF Spec, ContiguousAccepted

\* Without an OnResync callback every loss within a stream is reported, with its
\* extent: what a resync after a gap gives up.
THEOREM PipelineLossReported == ~ResyncOnGap => (Spec => EveryLossReported)
<1> SUFFICES ASSUME ~ResyncOnGap PROVE Spec => EveryLossReported
    OBVIOUS
<1>1. BaselineInv /\ [Next]_vars => ReportsLoss
    <2> SUFFICES ASSUME BaselineInv, [Next]_vars, NEW ev \in Queued, Receives(ev),
                        latest[sequenceKey(ev)] # NoLast,
                        ev.seq > latest[sequenceKey(ev)] + 1
                 PROVE  /\ stats'.Gaps = stats.Gaps + 1
                        /\ stats'.Missed = stats.Missed
                                            + (ev.seq - latest[sequenceKey(ev)] - 1)
        BY DEF ReportsLoss
    <2> DEFINE k == sequenceKey(ev)
    <2>1. /\ ev.seq \in Nat \cup {-1} /\ last[k] \in Nat \cup {-1}
          /\ last[k] = latest[k]
          /\ stats'.Gaps = IF NeedsResync(Status(last[k], ev.seq))
                           THEN stats.Gaps + 1 ELSE stats.Gaps
          /\ stats'.Missed = stats.Missed + Missing(last[k], ev.seq)
        BY HandledEvent DEF Baseline
    <2>2. latest[k] # -1 /\ ev.seq > latest[k] + 1
        BY DEF NoLast
    <2> HIDE DEF k
    <2>3. ev.seq # -1
        BY <2>1, <2>2
    <2>4. Status(last[k], ev.seq) = "gap"
        BY <2>1, <2>2, <2>3, StatusFacts
    <2>5. Missing(last[k], ev.seq) = ev.seq - latest[k] - 1
        BY <2>1, <2>4 DEF Missing, Expected
    <2> QED BY <2>1, <2>4, <2>5 DEF NeedsResync, k
<1> QED BY <1>1, BaselineInit, BaselineStep, PTL DEF Spec, EveryLossReported

\* Without an OnResync callback every retransmit within the tolerance is dropped.
THEOREM PipelineDuplicatesDropped == ~ResyncOnGap => (Spec => DuplicatesDropped)
<1> SUFFICES ASSUME ~ResyncOnGap PROVE Spec => DuplicatesDropped
    OBVIOUS
<1>1. BaselineInv /\ [Next]_vars => DropsDuplicates
    <2> SUFFICES ASSUME BaselineInv, [Next]_vars, NEW ev \in Queued, Receives(ev),
                        ev.seq \in seen[sequenceKey(ev)],
                        latest[sequenceKey(ev)] - ev.seq <= regressionTolerance
                 PROVE  stats'.Duplicates = stats.Duplicates + 1 /\ framed' = framed
        BY DEF DropsDuplicates
    <2> DEFINE k == sequenceKey(ev)
    <2>1. /\ last[k] \in Nat \cup {-1} /\ seen[k] \in SUBSET Nat
          /\ last[k] = latest[k] /\ \A q \in seen[k] : q <= latest[k]
          /\ stats'.Duplicates = IF Status(last[k], ev.seq) = "duplicate"
                                 THEN stats.Duplicates + 1 ELSE stats.Duplicates
          /\ Status(last[k], ev.seq) = "duplicate" => framed' = framed
        BY HandledEvent DEF Baseline
    <2>2. ev.seq \in Nat /\ ev.seq <= last[k] /\ last[k] - ev.seq <= regressionTolerance
        BY <2>1
    <2> HIDE DEF k
    <2>3. last[k] # -1 /\ ev.seq # -1
        BY <2>1, <2>2
    <2>4. Status(last[k], ev.seq) = "duplicate"
        BY <2>1, <2>2, <2>3, StatusFacts
    <2> QED BY <2>1, <2>4
<1> QED BY <1>1, BaselineInit, BaselineStep, PTL DEF Spec, DuplicatesDropped
=============================================================================
