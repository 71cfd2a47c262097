------------------------------ MODULE Decoders ------------------------------
(***************************************************************************)
(* How the venue decoders put sequence numbers on the events of a frame    *)
(* (ingest/internal/venue/binance.go, kraken.go, coinbase.go and           *)
(* ingest/internal/onchain/evm.go).  A decoder turns a frame into a        *)
(* sequence of events; what the pipeline makes of them depends on the      *)
(* number each of them carries, which is all that is kept here.  (A Kraken *)
(* trade carries its trade id and a Kraken book nothing, so that decoder   *)
(* needs no operator.)                                                     *)
(***************************************************************************)
EXTENDS Integers, Sequences

\* model.NoSequence.
Unnumbered == -1

(***************************************************************************)
(* Coinbase: one counter per connection, on the envelope.  Of the events   *)
(* of a frame the first carries it; a frame may have none (an ack, a       *)
(* heartbeat, a level2 event without updates).                             *)
(***************************************************************************)

\* Mutant: every event of the frame carries the number of the envelope.
CoinbaseNumbersAll(n, sequenceNum) == [i \in 1 .. n |-> sequenceNum]

CoinbaseNumbers(n, sequenceNum) ==
    [i \in 1 .. n |-> IF i = 1 THEN sequenceNum ELSE Unnumbered]

(***************************************************************************)
(* An EVM chain: the first log of a block that is later than every block   *)
(* seen before carries the block number.                                   *)
(***************************************************************************)

EvmNumber(lastBlock, block) == IF block > lastBlock THEN block ELSE Unnumbered

EvmLastBlock(lastBlock, block) == IF block > lastBlock THEN block ELSE lastBlock

(***************************************************************************)
(* Binance depth: an update carries the range of update ids it covers, and *)
(* the decoder keeps a cursor per symbol that turns ranges into a dense    *)
(* counter.                                                                *)
(***************************************************************************)
NoCursor == [initialized |-> FALSE, lastFinalUpdateID |-> 0, dense |-> 0]

AtLeastOne(n) == IF n < 1 THEN 1 ELSE n

\* Mutant: a hole in the update ids counts as one.
DenseStepConstant(lastFinal, firstUpdateID) ==
    IF firstUpdateID = lastFinal + 1 THEN 1 ELSE 2

\* How far the dense counter moves for an update that starts after the last one.
DenseStep(lastFinal, firstUpdateID) ==
    IF firstUpdateID = lastFinal + 1 THEN 1
    ELSE AtLeastOne(firstUpdateID - lastFinal - 1) + 1

Overlaps(cur, firstUpdateID) ==
    cur.initialized /\ firstUpdateID <= cur.lastFinalUpdateID

\* Mutant: the final update id is the sequence number.
denseSequenceFinal(cur, firstUpdateID, finalUpdateID) ==
    [initialized |-> TRUE, lastFinalUpdateID |-> finalUpdateID, dense |-> finalUpdateID]

\* denseSequence: the cursor after an update; the event carries its dense.
denseSequence(cur, firstUpdateID, finalUpdateID) ==
    IF ~cur.initialized
    THEN [initialized |-> TRUE, lastFinalUpdateID |-> finalUpdateID, dense |-> 0]
    ELSE IF Overlaps(cur, firstUpdateID)
    THEN [cur EXCEPT !.lastFinalUpdateID =
                        IF finalUpdateID > @ THEN finalUpdateID ELSE @]
    ELSE [cur EXCEPT !.lastFinalUpdateID = finalUpdateID,
                     !.dense = @ + DenseStep(cur.lastFinalUpdateID, firstUpdateID)]

=============================================================================
