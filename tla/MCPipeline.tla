----------------------------- MODULE MCPipeline -----------------------------
(***************************************************************************)
(* Small instances of Pipeline.                                            *)
(***************************************************************************)
EXTENDS Pipeline

CONSTANTS btc, eth          \* symbols
CONSTANTS kraken, coinbase  \* a venue that counts per stream, one per connection

\* Every kind has the topic ingestd configures for it.
MCTopics == [k \in {"trade", "book_delta", "chain_transfer"} \cap Kind |->
                CASE k = "trade"      -> "md.trades.v1"
                  [] k = "book_delta" -> "md.book.v1"
                  [] OTHER            -> "md.chain.v1"]

PartitionEach == [s \in Symbol |-> IF s = btc THEN 0 ELSE 1]

\* The events of a stream without sequence numbers.
Unsequenced == {NoSequence}

\* Enough numbers for a gap of two, a retransmit and, with a tolerance of one, a
\* counter reset.
SmallSequence == 0 .. 3

\* Room for a first event, a gap and a second gap.
TwoGapSequence == 0 .. 4

SmallSequenceOrNone == SmallSequence \cup {NoSequence}

(***************************************************************************)
(* Gap detection and publishing meet only in what is framed, so the run    *)
(* that passes takes them one at a time: a stream without numbers while    *)
(* encodings and publishes fail and Run is stopped, or the numbered        *)
(* streams of one venue while nothing of that happens.  No step of Run is  *)
(* ruled out, only some of what its environment does.                      *)
(***************************************************************************)
OneStream ==
    /\ \A k \in Key : latest[k] = NoLast
    /\ \A i \in DOMAIN framed : framed[i].key = btc
    /\ \A ev \in Queued : ev.seq = NoSequence /\ ev.venue = kraken /\ ev.symbol = btc

OneVenue ==
    /\ ~ctxDone /\ ~inClosed /\ stats.PublishFailures = 0
    /\ \A ev \in Queued : ev.sound
    /\ \E v \in Venue : /\ \A k \in Key : latest[k] # NoLast => k.venue = v
                       /\ \A ev \in Queued : ev.venue = v

MCNext == Next /\ (OneStream \/ OneVenue)'

MCSpec == Init /\ [][MCNext]_vars /\ Fairness

=============================================================================
