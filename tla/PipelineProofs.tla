--------------------------- MODULE PipelineProofs ---------------------------
(***************************************************************************)
(* Proofs about Pipeline, for every batch size, buffer size, set of        *)
(* venues, symbols and kinds, and for every way the broker may fail.       *)
(***************************************************************************)
EXTENDS Pipeline, TLAPS

(***************************************************************************)
(* What the operators of one event return.                                 *)
(***************************************************************************)

\* sequenceKey yields a stream key the detector's map is defined for.
LEMMA KeyType ==
    ASSUME NEW ev \in Event
    PROVE  sequenceKey(ev) \in Key
<1>1. CASE ev.venue \in ConnectionScopedVenues
    BY <1>1 DEF sequenceKey, Key
<1>2. CASE ev.venue \notin ConnectionScopedVenues
    <2>1. /\ ev.venue \in Venue \ ConnectionScopedVenues
          /\ ev.symbol \in Symbol
          /\ channelFor(ev.kind) \in {channelFor(k) : k \in Kind}
        BY <1>2 DEF Event
    <2> QED BY <1>2, <2>1 DEF sequenceKey, Key
<1> QED BY <1>1, <1>2

\* frame yields a message for a configured topic.
LEMMA FrameType ==
    ASSUME NEW ev \in Event, Framable(ev)
    PROVE  frame(ev) \in Message
BY DEF Event, Framable, frame, Message, Topic

\* Sequence numbers are naturals or the mark of an unsequenced stream.
LEMMA SequenceType ==
    ASSUME NEW ev \in Event
    PROVE  ev.seq \in Nat \cup {-1}
BY PipelineAssumption DEF Event, NoSequence

\* Observe stores naturals only.
LEMMA NextLastType ==
    ASSUME NEW l \in Nat \cup {-1}, NEW seq \in Nat \cup {-1}
    PROVE  NextLast(l, seq) \in Nat \cup {-1}
BY DEF NextLast, Status, NoLast

\* A gap misses at least one message, every other verdict none.
LEMMA MissingType ==
    ASSUME NEW l \in Nat \cup {-1}, NEW seq \in Nat \cup {-1}
    PROVE  Missing(l, seq) \in Nat
BY DEF Missing, Status, NoLast, Expected

\* The verdicts exclude each other.
LEMMA VerdictExclusive ==
    ASSUME NEW ev
    PROVE  NeedsResync(verdict(ev)) => verdict(ev) # "duplicate"
BY DEF NeedsResync

(***************************************************************************)
(* flush.                                                                  *)
(***************************************************************************)

\* A failed flush keeps a suffix of the batch of at most MaxPendingEvents
\* messages.
LEMMA RetainedFacts ==
    ASSUME NEW T, NEW b \in Seq(T)
    PROVE  /\ Excess(b) \in Nat
           /\ Excess(b) <= Len(b)
           /\ Retained(b) \in Seq(T)
           /\ Len(Retained(b)) = Len(b) - Excess(b)
           /\ Len(Retained(b)) <= MaxPendingEvents
           /\ \A i \in 1 .. Len(Retained(b)) : Retained(b)[i] = b[i + Excess(b)]
<1>1. Len(b) \in Nat /\ MaxPendingEvents \in Nat
    BY PipelineAssumption
<1>2. Excess(b) \in Nat /\ Excess(b) <= Len(b)
    BY <1>1 DEF Excess
<1>3. Retained(b) \in Seq(T) /\ Len(Retained(b)) = Len(b) - Excess(b)
    BY <1>1, <1>2 DEF Retained
<1>4. Len(b) - Excess(b) <= MaxPendingEvents
    BY <1>1 DEF Excess
<1>5. \A i \in 1 .. Len(Retained(b)) : Retained(b)[i] = b[i + Excess(b)]
    BY <1>1, <1>2, <1>3 DEF Retained
<1> QED BY <1>2, <1>3, <1>4, <1>5

\* What Publish does to the broker, whichever messages it writes.
LEMMA PublishType ==
    ASSUME NEW b \in Seq(Message), NEW S \in SUBSET DOMAIN b, Publish(b, S),
           broker \subseteq BrokerRecord, calls \in Nat
    PROVE  broker' \subseteq BrokerRecord /\ calls' \in Nat
<1>1. \A i \in S : i \in Nat \ {0} /\ b[i] \in Message
    OBVIOUS
<1>2. \A i \in S : [at |-> calls, pos |-> i, msg |-> b[i]] \in BrokerRecord
    BY <1>1 DEF BrokerRecord
<1> QED BY <1>2 DEF Publish

\* flush moves messages from the batch to Published or Dropped, and to neither
\* twice; what it leaves in the batch is a suffix of it, within the retry buffer.
LEMMA FlushFacts ==
    ASSUME NEW b \in Seq(Message), NEW s \in Stats, Flush(b, s),
           broker \subseteq BrokerRecord, calls \in Nat, discarded \subseteq Message
    PROVE  /\ batch' \in Seq(Message)
           /\ stats' \in Stats
           /\ broker' \subseteq BrokerRecord /\ calls' \in Nat
           /\ discarded' \subseteq Message
           /\ stats'.Published + stats'.Dropped + Len(batch')
                = s.Published + s.Dropped + Len(b)
           /\ stats'.Received = s.Received /\ stats'.Duplicates = s.Duplicates
           /\ stats'.Gaps = s.Gaps /\ stats'.Missed = s.Missed
           /\ stats'.EncodeErrs = s.EncodeErrs
           /\ Len(batch') <= MaxPendingEvents
           /\ Len(batch') <= Len(b)
           /\ \A i \in 1 .. Len(batch') : batch'[i] = b[Len(b) - Len(batch') + i]
<1>1. CASE FlushNothing(b, s)
    BY <1>1, PipelineAssumption DEF FlushNothing, sinkVars, Stats
<1>2. CASE FlushOk(b, s)
    <2>1. broker' \subseteq BrokerRecord /\ calls' \in Nat
        BY <1>2, PublishType DEF FlushOk
    <2>2. batch' = <<>> /\ stats' = [s EXCEPT !.Published = @ + Len(b)]
          /\ discarded' = discarded
        BY <1>2 DEF FlushOk
    <2>3. Len(b) \in Nat /\ Len(batch') = 0
        BY <2>2
    <2>4. /\ stats'.Published = s.Published + Len(b) /\ stats'.Dropped = s.Dropped
          /\ stats'.Received = s.Received /\ stats'.Duplicates = s.Duplicates
          /\ stats'.Gaps = s.Gaps /\ stats'.Missed = s.Missed
          /\ stats'.EncodeErrs = s.EncodeErrs
          /\ stats' \in Stats
        BY <2>2, <2>3 DEF Stats
    <2>5. s.Published \in Nat /\ s.Dropped \in Nat
        BY DEF Stats
    <2>6. batch' \in Seq(Message) /\ discarded' \subseteq Message
          /\ Len(batch') <= MaxPendingEvents
        BY <2>2, <2>3, PipelineAssumption
    <2> QED BY <2>1, <2>3, <2>4, <2>5, <2>6
<1>3. CASE FlushFail(b, s)
    <2>1. PICK S \in PartialWrites(b) : Publish(b, S)
        BY <1>3 DEF FlushFail
    <2>2. broker' \subseteq BrokerRecord /\ calls' \in Nat
        <3>1. S \in SUBSET DOMAIN b
            BY DEF PartialWrites
        <3> QED BY <2>1, <3>1, PublishType
    <2>3. /\ batch' = Retained(b)
          /\ stats' = [s EXCEPT !.PublishFailures = @ + 1, !.Dropped = @ + Excess(b)]
          /\ discarded' = discarded \cup {b[i] : i \in 1 .. Excess(b)}
        BY <1>3 DEF FlushFail
    <2>4. /\ Len(b) \in Nat /\ Excess(b) \in Nat /\ Excess(b) <= Len(b)
          /\ batch' \in Seq(Message)
          /\ Len(batch') = Len(b) - Excess(b)
          /\ Len(batch') <= MaxPendingEvents
          /\ \A i \in 1 .. Len(batch') : batch'[i] = b[i + Excess(b)]
        BY <2>3, RetainedFacts
    <2>5. discarded' \subseteq Message
        <3>1. \A i \in 1 .. Excess(b) : b[i] \in Message
            BY <2>4
        <3> QED BY <2>3, <3>1
    <2>6. stats' \in Stats
        <3>1. \A m, n \in Nat : [s EXCEPT !.PublishFailures = m, !.Dropped = n] \in Stats
            BY DEF Stats
        <3>2. s.PublishFailures + 1 \in Nat /\ s.Dropped + Excess(b) \in Nat
            BY <2>4 DEF Stats
        <3> QED BY <2>3, <3>1, <3>2
    <2>7. /\ stats'.Published = s.Published /\ stats'.Dropped = s.Dropped + Excess(b)
          /\ stats'.Received = s.Received /\ stats'.Duplicates = s.Duplicates
          /\ stats'.Gaps = s.Gaps /\ stats'.Missed = s.Missed
          /\ stats'.EncodeErrs = s.EncodeErrs
        BY <2>3 DEF Stats
    <2>8. s.Published \in Nat /\ s.Dropped \in Nat
        BY DEF Stats
    <2>9. \A i \in 1 .. Len(batch') : batch'[i] = b[Len(b) - Len(batch') + i]
        BY <2>4
    <2> QED BY <2>2, <2>4, <2>5, <2>6, <2>7, <2>8, <2>9
<1> QED BY <1>1, <1>2, <1>3 DEF Flush

(***************************************************************************)
(* One event.                                                              *)
(***************************************************************************)

\* Checked counts the event once, and once more as a duplicate or as a gap.
LEMMA CheckedFacts ==
    ASSUME TypeOK, NEW ev \in Event
    PROVE  /\ Checked(ev) \in Stats
           /\ Checked(ev).Received = stats.Received + 1
           /\ Checked(ev).Published = stats.Published
           /\ Checked(ev).EncodeErrs = stats.EncodeErrs
           /\ Checked(ev).Dropped = stats.Dropped
           /\ Checked(ev).Duplicates =
                IF verdict(ev) = "duplicate" THEN stats.Duplicates + 1 ELSE stats.Duplicates
           /\ Checked(ev).Gaps =
                IF NeedsResync(verdict(ev)) THEN stats.Gaps + 1 ELSE stats.Gaps
           /\ Checked(ev).Missed =
                stats.Missed + Missing(last[sequenceKey(ev)], ev.seq)
<1> DEFINE r == stats.Received + 1
           d == stats.Duplicates + (IF verdict(ev) = "duplicate" THEN 1 ELSE 0)
           g == stats.Gaps + (IF NeedsResync(verdict(ev)) THEN 1 ELSE 0)
           m == stats.Missed + Missing(last[sequenceKey(ev)], ev.seq)
<1>1. stats \in Stats
    BY DEF TypeOK
<1>2. Missing(last[sequenceKey(ev)], ev.seq) \in Nat
    <2>1. last[sequenceKey(ev)] \in Nat \cup {-1}
        BY KeyType DEF TypeOK, NoLast
    <2> QED BY <2>1, SequenceType, MissingType
<1>3. /\ stats.Received \in Nat /\ stats.Duplicates \in Nat
      /\ stats.Gaps \in Nat /\ stats.Missed \in Nat
    BY <1>1 DEF Stats
<1>4. r \in Nat /\ d \in Nat /\ g \in Nat /\ m \in Nat
    BY <1>2, <1>3
<1>5. Checked(ev) = [stats EXCEPT !.Received = r, !.Duplicates = d,
                                  !.Gaps = g, !.Missed = m]
    BY DEF Checked
<1> HIDE DEF r, d, g, m
<1>6. Checked(ev) \in Stats
    BY <1>1, <1>4, <1>5 DEF Stats
<1>7. /\ Checked(ev).Received = r /\ Checked(ev).Duplicates = d
      /\ Checked(ev).Gaps = g /\ Checked(ev).Missed = m
      /\ Checked(ev).Published = stats.Published
      /\ Checked(ev).EncodeErrs = stats.EncodeErrs
      /\ Checked(ev).Dropped = stats.Dropped
    BY <1>1, <1>5 DEF Stats
<1> QED BY <1>3, <1>6, <1>7 DEF r, d, g, m

\* checkSequence keeps the detector's map and the histories well typed.
LEMMA CheckSequenceType ==
    ASSUME TypeOK, NEW ev \in Event, checkSequence(ev)
    PROVE  /\ last' \in [Key -> Nat \cup {NoLast}]
           /\ latest' \in [Key -> Nat \cup {NoLast}]
           /\ seen' \in [Key -> SUBSET Nat]
<1> DEFINE k == sequenceKey(ev)
<1>1. k \in Key /\ ev.seq \in Nat \cup {-1}
    BY KeyType, SequenceType
<1>2. last[k] \in Nat \cup {-1}
    BY <1>1 DEF TypeOK, NoLast
<1>3. Observe(last, k, ev.seq) \in [Key -> Nat \cup {NoLast}]
    BY <1>1, <1>2, NextLastType DEF Observe, TypeOK, NoLast
<1>4. last' \in [Key -> Nat \cup {NoLast}]
    BY <1>1, <1>3 DEF checkSequence, Reset
<1>5. verdict(ev) # "unsequenced" => ev.seq \in Nat
    BY <1>1 DEF verdict, Status
<1>6. latest' \in [Key -> Nat \cup {NoLast}]
    BY <1>1, <1>5 DEF checkSequence, TypeOK
<1>7. seen' \in [Key -> SUBSET Nat]
    BY <1>1, <1>5 DEF checkSequence, TypeOK
<1> QED BY <1>4, <1>6, <1>7

(***************************************************************************)
(* The inductive invariant of delivery.  Each part needs TypeOK; with it   *)
(* they are inductive together.                                            *)
(***************************************************************************)
DeliveryInv == TypeOK /\ Accounting /\ RetentionBounded /\ BatchIsNewest

\* What one event does to the parts of the state that only Receive changes.
LEMMA ReceivedEvent ==
    ASSUME TypeOK, in # <<>>
    PROVE  Head(in) \in Event /\ Tail(in) \in Seq(Event)
BY DEF TypeOK

\* The counters are naturals.
LEMMA StatsFields ==
    ASSUME NEW s \in Stats
    PROVE  /\ s.Received \in Nat /\ s.Published \in Nat /\ s.Duplicates \in Nat
           /\ s.Gaps \in Nat /\ s.Missed \in Nat /\ s.EncodeErrs \in Nat
           /\ s.PublishFailures \in Nat /\ s.Dropped \in Nat
BY DEF Stats

\* The invariant holds when Run starts.
LEMMA DeliveryInit == Init => DeliveryInv
<1> SUFFICES ASSUME Init PROVE DeliveryInv
    OBVIOUS
<1>1. stats \in Stats
    BY DEF Init, Stats
<1>2. last \in [Key -> Nat \cup {NoLast}] /\ latest \in [Key -> Nat \cup {NoLast}]
      /\ seen \in [Key -> SUBSET Nat]
    BY DEF Init
<1>3. TypeOK
    <2>1. in \in Seq(Event) /\ batch \in Seq(Message) /\ framed \in Seq(Message)
        BY DEF Init
    <2>2. broker \subseteq BrokerRecord /\ discarded \subseteq Message /\ calls \in Nat
        BY DEF Init
    <2>3. inClosed \in BOOLEAN /\ ctxDone \in BOOLEAN /\ running \in BOOLEAN
        BY DEF Init
    <2> QED BY <1>1, <1>2, <2>1, <2>2, <2>3 DEF TypeOK
<1>4. Accounting
    BY DEF Init, Accounting, Balanced
<1>5. RetentionBounded /\ BatchIsNewest
    BY PipelineAssumption DEF Init, RetentionBounded, BatchIsNewest, Newest
<1> QED BY <1>3, <1>4, <1>5 DEF DeliveryInv

\* The balance is kept when messages move between the batch, Published and Dropped.
LEMMA BalancedFlush ==
    ASSUME NEW s \in Stats, NEW t \in Stats, NEW l \in Nat, NEW m \in Nat,
           Balanced(s, l),
           t.Received = s.Received /\ t.Duplicates = s.Duplicates,
           t.Gaps = s.Gaps /\ t.EncodeErrs = s.EncodeErrs,
           t.Published + t.Dropped + m = s.Published + s.Dropped + l
    PROVE  Balanced(t, m)
<1> DEFINE g == IF DropOnGap THEN s.Gaps ELSE 0
<1>1. /\ s.Published \in Nat /\ s.Dropped \in Nat /\ s.Gaps \in Nat
      /\ s.Duplicates \in Nat /\ s.EncodeErrs \in Nat
      /\ t.Published \in Nat /\ t.Dropped \in Nat
    BY StatsFields
<1>2. g \in Nat
    BY <1>1
<1>3. s.Received = s.Published + s.Duplicates + s.EncodeErrs + s.Dropped + l + g
    BY DEF Balanced
<1> HIDE DEF g
<1>4. t.Received = t.Published + t.Duplicates + t.EncodeErrs + t.Dropped + m + g
    BY <1>1, <1>2, <1>3
<1> QED BY <1>4 DEF Balanced, g

\* A flush called with balanced counters and the newest messages leaves such.
LEMMA FlushKeeps ==
    ASSUME NEW b \in Seq(Message), NEW s \in Stats, NEW f \in Seq(Message), Flush(b, s),
           broker \subseteq BrokerRecord, calls \in Nat, discarded \subseteq Message,
           Balanced(s, Len(b)), Newest(b, f)
    PROVE  /\ Balanced(stats', Len(batch'))
           /\ Newest(batch', f)
<1>1. /\ batch' \in Seq(Message) /\ stats' \in Stats
      /\ stats'.Received = s.Received /\ stats'.Duplicates = s.Duplicates
      /\ stats'.Gaps = s.Gaps /\ stats'.EncodeErrs = s.EncodeErrs
    BY FlushFacts
<1>2. stats'.Published + stats'.Dropped + Len(batch') = s.Published + s.Dropped + Len(b)
    BY FlushFacts
<1>3. /\ Len(batch') <= Len(b)
      /\ \A i \in 1 .. Len(batch') : batch'[i] = b[Len(b) - Len(batch') + i]
    BY FlushFacts
<1>4. Len(b) \in Nat /\ Len(batch') \in Nat /\ Len(f) \in Nat
    BY <1>1
<1>5. Balanced(stats', Len(batch'))
    BY <1>1, <1>2, <1>4, BalancedFlush
<1>6. Newest(batch', f)
    <2>1. Len(b) <= Len(f) /\ \A i \in 1 .. Len(b) : b[i] = f[Len(f) - Len(b) + i]
        BY DEF Newest
    <2>2. Len(batch') <= Len(f)
        BY <1>3, <1>4, <2>1
    <2>3. ASSUME NEW i \in 1 .. Len(batch')
          PROVE  batch'[i] = f[Len(f) - Len(batch') + i]
        <3>1. batch'[i] = b[Len(b) - Len(batch') + i]
            BY <1>3
        <3>2. Len(b) - Len(batch') + i \in 1 .. Len(b)
            BY <1>3, <1>4
        <3>3. b[Len(b) - Len(batch') + i] = f[Len(f) - Len(b) + (Len(b) - Len(batch') + i)]
            BY <2>1, <3>2
        <3> QED BY <1>4, <3>1, <3>3
    <2> QED BY <2>2, <2>3 DEF Newest
<1> QED BY <1>5, <1>6

\* A flush of the batch as it stands (the ticker, a closed channel).
LEMMA FlushStep ==
    ASSUME DeliveryInv, Flush(batch, stats),
           UNCHANGED <<in, inClosed, ctxDone, last, framed, latest, seen>>,
           running' \in BOOLEAN
    PROVE  DeliveryInv'
<1>1. TypeOK /\ Balanced(stats, Len(batch)) /\ Newest(batch, framed)
    BY DEF DeliveryInv, Accounting, BatchIsNewest
<1>2. /\ batch \in Seq(Message) /\ stats \in Stats /\ broker \subseteq BrokerRecord
      /\ calls \in Nat /\ discarded \subseteq Message /\ framed \in Seq(Message)
    BY <1>1 DEF TypeOK
<1>3. /\ batch' \in Seq(Message) /\ stats' \in Stats
      /\ broker' \subseteq BrokerRecord /\ calls' \in Nat /\ discarded' \subseteq Message
      /\ Len(batch') <= MaxPendingEvents
    BY <1>2, FlushFacts
<1>4. Balanced(stats', Len(batch')) /\ Newest(batch', framed)
    BY <1>1, <1>2, FlushKeeps
<1>5. TypeOK'
    BY <1>1, <1>3 DEF TypeOK
<1>6. RetentionBounded'
    BY <1>3 DEF RetentionBounded
<1> QED BY <1>4, <1>5, <1>6 DEF DeliveryInv, Accounting, BatchIsNewest

\* Counting an event that is dropped keeps the balance; counting one that is not
\* leaves it one message short, which is the one that joins the batch or fails to
\* be encoded.
LEMMA CheckedBalanced ==
    ASSUME TypeOK, NEW ev \in Event, NEW l \in Nat, Balanced(stats, l)
    PROVE  /\ Dropped(ev) => Balanced(Checked(ev), l)
           /\ ~Dropped(ev) => Balanced(Checked(ev), l + 1)
<1> DEFINE s == Checked(ev)
           g == IF DropOnGap THEN stats.Gaps ELSE 0
           h == IF DropOnGap THEN s.Gaps ELSE 0
<1>1. /\ s.Received = stats.Received + 1
      /\ s.Published = stats.Published
      /\ s.EncodeErrs = stats.EncodeErrs
      /\ s.Dropped = stats.Dropped
      /\ s.Duplicates =
            IF verdict(ev) = "duplicate" THEN stats.Duplicates + 1 ELSE stats.Duplicates
      /\ s.Gaps = IF NeedsResync(verdict(ev)) THEN stats.Gaps + 1 ELSE stats.Gaps
    BY CheckedFacts
<1>2. /\ stats.Published \in Nat /\ stats.Dropped \in Nat /\ stats.Gaps \in Nat
      /\ stats.Duplicates \in Nat /\ stats.EncodeErrs \in Nat
    BY StatsFields DEF TypeOK
<1>3. stats.Received = stats.Published + stats.Duplicates + stats.EncodeErrs
                       + stats.Dropped + l + g
    BY DEF Balanced
<1>4. verdict(ev) = "duplicate" => ~NeedsResync(verdict(ev))
    BY VerdictExclusive
<1>5. g \in Nat
    BY <1>2
<1> HIDE DEF s
<1>6. CASE verdict(ev) = "duplicate"
    <2>1. Dropped(ev) /\ h = g /\ s.Duplicates = stats.Duplicates + 1
        BY <1>1, <1>4, <1>6 DEF Dropped
    <2> HIDE DEF g, h
    <2>2. s.Received = s.Published + s.Duplicates + s.EncodeErrs + s.Dropped + l + h
        BY <1>1, <1>2, <1>3, <1>5, <2>1
    <2> QED BY <2>1, <2>2 DEF Balanced, h, s
<1>7. CASE NeedsResync(verdict(ev)) /\ DropOnGap
    <2>1. Dropped(ev) /\ h = g + 1 /\ s.Duplicates = stats.Duplicates
        BY <1>1, <1>4, <1>7 DEF Dropped
    <2> HIDE DEF g, h
    <2>2. s.Received = s.Published + s.Duplicates + s.EncodeErrs + s.Dropped + l + h
        BY <1>1, <1>2, <1>3, <1>5, <2>1
    <2> QED BY <2>1, <2>2 DEF Balanced, h, s
<1>8. CASE verdict(ev) # "duplicate" /\ ~(NeedsResync(verdict(ev)) /\ DropOnGap)
    <2>1. ~Dropped(ev) /\ h = g /\ s.Duplicates = stats.Duplicates
        BY <1>1, <1>8 DEF Dropped
    <2> HIDE DEF g, h
    <2>2. s.Received = s.Published + s.Duplicates + s.EncodeErrs + s.Dropped + (l + 1) + h
        BY <1>1, <1>2, <1>3, <1>5, <2>1
    <2> QED BY <2>1, <2>2 DEF Balanced, h, s
<1> QED BY <1>6, <1>7, <1>8

\* An event that cannot be encoded is the one missing from the balance.
LEMMA EncodeErrBalanced ==
    ASSUME NEW s \in Stats, NEW l \in Nat, Balanced(s, l + 1)
    PROVE  /\ [s EXCEPT !.EncodeErrs = @ + 1] \in Stats
           /\ Balanced([s EXCEPT !.EncodeErrs = @ + 1], l)
<1> DEFINE t == [s EXCEPT !.EncodeErrs = @ + 1]
           g == IF DropOnGap THEN s.Gaps ELSE 0
<1>1. /\ s.Published \in Nat /\ s.Dropped \in Nat /\ s.Gaps \in Nat
      /\ s.Duplicates \in Nat /\ s.EncodeErrs \in Nat
    BY StatsFields
<1>2. t \in Stats
    BY DEF Stats
<1>3. /\ t.Received = s.Received /\ t.Published = s.Published
      /\ t.Duplicates = s.Duplicates /\ t.Gaps = s.Gaps /\ t.Dropped = s.Dropped
      /\ t.EncodeErrs = s.EncodeErrs + 1
    BY DEF Stats
<1>4. g \in Nat
    BY <1>1
<1>5. s.Received = s.Published + s.Duplicates + s.EncodeErrs + s.Dropped + (l + 1) + g
    BY DEF Balanced
<1>6. (IF DropOnGap THEN t.Gaps ELSE 0) = g
    BY <1>3
<1> HIDE DEF t, g
<1>7. t.Received = t.Published + t.Duplicates + t.EncodeErrs + t.Dropped + l + g
    BY <1>1, <1>3, <1>4, <1>5
<1>8. Balanced(t, l)
    BY <1>6, <1>7 DEF Balanced
<1> QED BY <1>2, <1>8 DEF t

\* A message that joins both the batch and the history keeps the one the newest
\* part of the other.
LEMMA AppendNewest ==
    ASSUME NEW b \in Seq(Message), NEW f \in Seq(Message), NEW m \in Message, Newest(b, f)
    PROVE  /\ Append(b, m) \in Seq(Message) /\ Append(f, m) \in Seq(Message)
           /\ Len(Append(b, m)) = Len(b) + 1
           /\ Newest(Append(b, m), Append(f, m))
<1>1. /\ Append(b, m) \in Seq(Message) /\ Append(f, m) \in Seq(Message)
      /\ Len(Append(b, m)) = Len(b) + 1 /\ Len(Append(f, m)) = Len(f) + 1
      /\ Len(b) \in Nat /\ Len(f) \in Nat
    OBVIOUS
<1>2. Len(b) <= Len(f) /\ \A i \in 1 .. Len(b) : b[i] = f[Len(f) - Len(b) + i]
    BY DEF Newest
<1>3. ASSUME NEW i \in 1 .. Len(b) + 1
      PROVE  Append(b, m)[i] = Append(f, m)[(Len(f) + 1) - (Len(b) + 1) + i]
    <2>1. CASE i = Len(b) + 1
        <3>1. Append(b, m)[Len(b) + 1] = m /\ Append(f, m)[Len(f) + 1] = m
            OBVIOUS
        <3>2. (Len(f) + 1) - (Len(b) + 1) + i = Len(f) + 1
            BY <1>1, <2>1
        <3> QED BY <2>1, <3>1, <3>2
    <2>2. CASE i \in 1 .. Len(b)
        <3>1. Len(f) - Len(b) + i \in 1 .. Len(f)
            BY <1>1, <1>2, <2>2
        <3>2. Append(b, m)[i] = b[i]
            BY <2>2
        <3>3. \A j \in 1 .. Len(f) : Append(f, m)[j] = f[j]
            OBVIOUS
        <3>4. (Len(f) + 1) - (Len(b) + 1) + i = Len(f) - Len(b) + i
            BY <1>1
        <3> QED BY <1>2, <2>2, <3>1, <3>2, <3>3, <3>4
    <2>3. i = Len(b) + 1 \/ i \in 1 .. Len(b)
        BY <1>1
    <2> QED BY <2>1, <2>2, <2>3
<1> QED BY <1>1, <1>2, <1>3 DEF Newest

\* An event from the channel: dropped, not encodable, or put in the batch.
LEMMA ReceiveStep ==
    ASSUME DeliveryInv, Receive
    PROVE  DeliveryInv'
<1> DEFINE ev == Head(in)
<1>1. TypeOK /\ Balanced(stats, Len(batch)) /\ Newest(batch, framed) /\ RetentionBounded
    BY DEF DeliveryInv, Accounting, BatchIsNewest
<1>2. /\ batch \in Seq(Message) /\ stats \in Stats /\ broker \subseteq BrokerRecord
      /\ calls \in Nat /\ discarded \subseteq Message /\ framed \in Seq(Message)
      /\ inClosed \in BOOLEAN /\ ctxDone \in BOOLEAN /\ running \in BOOLEAN
      /\ Len(batch) \in Nat
    BY <1>1 DEF TypeOK
<1>3. ev \in Event /\ in' \in Seq(Event) /\ checkSequence(ev)
      /\ inClosed' = inClosed /\ ctxDone' = ctxDone /\ running' = running
    BY <1>1, ReceivedEvent DEF Receive, runVars
<1>4. /\ last' \in [Key -> Nat \cup {NoLast}]
      /\ latest' \in [Key -> Nat \cup {NoLast}]
      /\ seen' \in [Key -> SUBSET Nat]
    BY <1>1, <1>3, CheckSequenceType
<1>5. /\ Checked(ev) \in Stats
      /\ Dropped(ev) => Balanced(Checked(ev), Len(batch))
      /\ ~Dropped(ev) => Balanced(Checked(ev), Len(batch) + 1)
    BY <1>1, <1>2, <1>3, CheckedFacts, CheckedBalanced
<1> HIDE DEF ev
<1>6. CASE DropEvent(ev)
    <2>1. /\ stats' = Checked(ev) /\ Dropped(ev)
          /\ UNCHANGED <<batch, broker, calls, framed, discarded>>
        BY <1>6 DEF DropEvent, sinkVars
    <2>2. TypeOK'
        BY <1>2, <1>3, <1>4, <1>5, <2>1 DEF TypeOK
    <2> QED BY <1>1, <1>5, <2>1, <2>2
            DEF DeliveryInv, Accounting, BatchIsNewest, RetentionBounded
<1>7. CASE EncodeError(ev)
    <2>1. /\ stats' = [Checked(ev) EXCEPT !.EncodeErrs = @ + 1] /\ ~Dropped(ev)
          /\ UNCHANGED <<batch, broker, calls, framed, discarded>>
        BY <1>7 DEF EncodeError, sinkVars
    <2>2. stats' \in Stats /\ Balanced(stats', Len(batch))
        BY <1>2, <1>5, <2>1, EncodeErrBalanced
    <2>3. TypeOK'
        BY <1>2, <1>3, <1>4, <2>1, <2>2 DEF TypeOK
    <2> QED BY <1>1, <2>1, <2>2, <2>3
            DEF DeliveryInv, Accounting, BatchIsNewest, RetentionBounded
<1>8. CASE AppendMessage(ev)
    <2> DEFINE m == frame(ev)
               b == Append(batch, m)
    <2>1. m \in Message /\ ~Dropped(ev) /\ framed' = Append(framed, m)
        BY <1>3, <1>8, FrameType DEF AppendMessage
    <2>2. /\ b \in Seq(Message) /\ framed' \in Seq(Message)
          /\ Len(b) = Len(batch) + 1 /\ Newest(b, framed')
        BY <1>1, <1>2, <2>1, AppendNewest
    <2>3. Balanced(Checked(ev), Len(b))
        BY <1>5, <2>1, <2>2
    <2> HIDE DEF m
    <2>4. CASE Len(b) < BatchSize /\ batch' = b /\ stats' = Checked(ev)
               /\ UNCHANGED <<sinkVars, discarded>>
        <3>1. TypeOK'
            BY <1>2, <1>3, <1>4, <1>5, <2>2, <2>4 DEF TypeOK, sinkVars
        <3> QED BY <2>2, <2>3, <2>4, <3>1
                DEF DeliveryInv, Accounting, BatchIsNewest, RetentionBounded
    <2>5. CASE Flush(b, Checked(ev))
        <3> HIDE DEF b
        <3>1. /\ batch' \in Seq(Message) /\ stats' \in Stats
              /\ broker' \subseteq BrokerRecord /\ calls' \in Nat
              /\ discarded' \subseteq Message
              /\ Len(batch') <= MaxPendingEvents
            BY <1>2, <1>5, <2>2, <2>5, FlushFacts
        <3>2. Balanced(stats', Len(batch')) /\ Newest(batch', framed')
            BY <1>2, <1>5, <2>2, <2>3, <2>5, FlushKeeps
        <3>3. TypeOK'
            BY <1>2, <1>3, <1>4, <2>2, <3>1 DEF TypeOK
        <3> QED BY <3>1, <3>2, <3>3
                DEF DeliveryInv, Accounting, BatchIsNewest, RetentionBounded
    <2> QED BY <1>8, <2>4, <2>5 DEF AppendMessage, m
<1> QED BY <1>6, <1>7, <1>8 DEF Receive, ev

\* Shutdown: the final flush takes the whole batch or leaves it as it is.
LEMMA FinishStep ==
    ASSUME DeliveryInv, Finish
    PROVE  DeliveryInv'
<1>1. TypeOK /\ Balanced(stats, Len(batch)) /\ Newest(batch, framed) /\ RetentionBounded
    BY DEF DeliveryInv, Accounting, BatchIsNewest
<1>2. /\ batch \in Seq(Message) /\ stats \in Stats /\ broker \subseteq BrokerRecord
      /\ calls \in Nat /\ framed \in Seq(Message) /\ Len(batch) \in Nat
      /\ Len(framed) \in Nat
    BY <1>1 DEF TypeOK
<1>3. /\ UNCHANGED <<in, inClosed, ctxDone, last, framed, discarded, latest, seen>>
      /\ running' = FALSE
    BY DEF Finish, histVars
<1>4. CASE /\ Publish(batch, DOMAIN batch)
           /\ batch' = <<>>
           /\ stats' = [stats EXCEPT !.Published = @ + Len(batch)]
    <2>1. broker' \subseteq BrokerRecord /\ calls' \in Nat
        BY <1>2, <1>4, PublishType
    <2>2. batch' \in Seq(Message) /\ Len(batch') = 0
        BY <1>4
    <2>3. stats.Published + Len(batch) \in Nat
        BY <1>2, StatsFields
    <2>4. /\ stats' \in Stats /\ stats'.Published = stats.Published + Len(batch)
          /\ stats'.Dropped = stats.Dropped
          /\ stats'.Received = stats.Received /\ stats'.Duplicates = stats.Duplicates
          /\ stats'.Gaps = stats.Gaps /\ stats'.EncodeErrs = stats.EncodeErrs
        BY <1>2, <1>4, <2>3 DEF Stats
    <2>5. stats'.Published + stats'.Dropped + 0
            = stats.Published + stats.Dropped + Len(batch)
        BY <1>2, <2>4, StatsFields
    <2>6. Balanced(stats', 0)
        BY <1>1, <1>2, <2>4, <2>5, BalancedFlush
    <2>7. TypeOK'
        BY <1>1, <1>3, <2>1, <2>2, <2>4 DEF TypeOK
    <2>8. RetentionBounded' /\ BatchIsNewest'
        BY <1>2, <1>3, <2>2, PipelineAssumption DEF RetentionBounded, BatchIsNewest, Newest
    <2> QED BY <2>2, <2>6, <2>7, <2>8 DEF DeliveryInv, Accounting
<1>5. CASE /\ \E S \in PartialWrites(batch) : Publish(batch, S)
           /\ UNCHANGED <<batch, stats>>
    <2>1. PICK S \in PartialWrites(batch) : Publish(batch, S)
        BY <1>5
    <2>2. S \in SUBSET DOMAIN batch
        BY DEF PartialWrites
    <2>3. broker' \subseteq BrokerRecord /\ calls' \in Nat
        BY <1>2, <2>1, <2>2, PublishType
    <2>4. TypeOK'
        BY <1>1, <1>3, <1>5, <2>3 DEF TypeOK
    <2> QED BY <1>1, <1>3, <1>5, <2>4
            DEF DeliveryInv, Accounting, RetentionBounded, BatchIsNewest
<1> QED BY <1>4, <1>5 DEF Finish, FinalFlush

\* The environment: a new event, the end of the channel, cancellation.
LEMMA EnvironmentStep ==
    ASSUME DeliveryInv,
           \/ CloseIn \/ Cancel \/ UNCHANGED vars
           \/ \E v \in Venue, s \in Symbol, k \in Kind, q \in Sequence, ok \in Sound :
                    Send(v, s, k, q, ok)
    PROVE  DeliveryInv'
<1>1. TypeOK
    BY DEF DeliveryInv
<1>2. CASE CloseIn \/ Cancel \/ UNCHANGED vars
    <2>1. TypeOK'
        BY <1>1, <1>2 DEF TypeOK, CloseIn, Cancel, vars, runVars, sinkVars, histVars
    <2> QED BY <1>2, <2>1 DEF DeliveryInv, Accounting, RetentionBounded, BatchIsNewest,
                              CloseIn, Cancel, vars, runVars, sinkVars, histVars
<1>3. ASSUME NEW v \in Venue, NEW s \in Symbol, NEW k \in Kind, NEW q \in Sequence,
             NEW ok \in Sound, Send(v, s, k, q, ok)
      PROVE  DeliveryInv'
    <2>1. Sent \in Nat
        BY <1>1, StatsFields DEF TypeOK, Sent
    <2>2. [venue |-> v, symbol |-> s, kind |-> k, seq |-> q, sound |-> ok,
           id |-> Sent + 1] \in Event
        BY <2>1 DEF Event
    <2>3. in' \in Seq(Event)
        BY <1>1, <1>3, <2>2 DEF Send, TypeOK
    <2>4. UNCHANGED <<inClosed, ctxDone, running, last, batch, stats, broker, calls,
                      framed, discarded, latest, seen>>
        BY <1>3 DEF Send, runVars, sinkVars, histVars
    <2>5. TypeOK'
        BY <1>1, <2>3, <2>4 DEF TypeOK
    <2> QED BY <2>4, <2>5
            DEF DeliveryInv, Accounting, RetentionBounded, BatchIsNewest
<1> QED BY <1>2, <1>3

\* Every step keeps the invariant.
LEMMA DeliveryStep == DeliveryInv /\ [Next]_vars => DeliveryInv'
<1> SUFFICES ASSUME DeliveryInv, [Next]_vars PROVE DeliveryInv'
    OBVIOUS
<1>1. CASE Receive
    BY <1>1, ReceiveStep
<1>2. CASE Tick
    <2>1. running \in BOOLEAN
        BY DEF DeliveryInv, TypeOK
    <2> QED BY <1>2, <2>1, FlushStep DEF Tick, runVars
<1>3. CASE Drained
    BY <1>3, FlushStep DEF Drained
<1>4. CASE Finish
    BY <1>4, FinishStep
<1>5. CASE \/ CloseIn \/ Cancel \/ UNCHANGED vars
           \/ \E v \in Venue, s \in Symbol, k \in Kind, q \in Sequence, ok \in Sound :
                    Send(v, s, k, q, ok)
    BY <1>5, EnvironmentStep
<1> QED BY <1>1, <1>2, <1>3, <1>4, <1>5 DEF Next

\* Run keeps its variables well typed.
THEOREM PipelineTypeOK == Spec => []TypeOK
<1>1. DeliveryInv => TypeOK
    BY DEF DeliveryInv
<1> QED BY <1>1, DeliveryInit, DeliveryStep, PTL DEF Spec

\* Every event received is published, counted as dropped, a duplicate, a dropped
\* gap or an encoding error, or is waiting, and is counted once.
THEOREM PipelineAccounting == Spec => []Accounting
<1>1. DeliveryInv => Accounting
    BY DEF DeliveryInv
<1> QED BY <1>1, DeliveryInit, DeliveryStep, PTL DEF Spec

\* However long the broker is down, the batch stays within the larger of the
\* retry buffer and an unfilled batch.
THEOREM PipelineRetentionBounded == Spec => []RetentionBounded
<1>1. DeliveryInv => RetentionBounded
    BY DEF DeliveryInv
<1> QED BY <1>1, DeliveryInit, DeliveryStep, PTL DEF Spec

\* Retries and trims keep the batch the newest messages, in order.
THEOREM PipelineBatchIsNewest == Spec => []BatchIsNewest
<1>1. DeliveryInv => BatchIsNewest
    BY DEF DeliveryInv
<1> QED BY <1>1, DeliveryInit, DeliveryStep, PTL DEF Spec
=============================================================================
