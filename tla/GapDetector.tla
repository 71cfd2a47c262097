----------------------------- MODULE GapDetector -----------------------------
(***************************************************************************)
(* The sequence-gap detector of the ingestion tier                         *)
(* (ingest/internal/gap/detector.go).  A Detector is one map from stream   *)
(* keys to the last sequence number recorded for the stream; every method  *)
(* holds its mutex from the first read of the map to the last write, so    *)
(* each of them is one atomic function of the map.  The map is represented *)
(* as a total function in which NoLast stands for a key that is absent.    *)
(***************************************************************************)
EXTENDS Integers

CONSTANT regressionTolerance   \* how far back a sequence is still a duplicate

ASSUME ToleranceAssumption == regressionTolerance \in Nat

\* model.NoSequence: what a decoder puts on an event of an unsequenced stream.
NoSequence == -1

\* No entry in the map.  Observe never stores a negative number, so -1 is free.
NoLast == -1

(***************************************************************************)
(* Observe(k, seq), split into what it returns (Status, Missing) and what  *)
(* it stores for the key (NextLast); l is the entry it finds.              *)
(***************************************************************************)

\* Mutant: the number after the next one is taken for the next one.
ExpectedLate(l) == l + 2

Expected(l) == l + 1

\* Mutant: the very last number, sent again, is not recognised.
RetransmitStrict(l, seq) == seq < l /\ l - seq <= regressionTolerance

\* Already seen: at or behind the baseline, by no more than the tolerance.
Retransmit(l, seq) == seq <= l /\ l - seq <= regressionTolerance

Status(l, seq) ==
    IF seq < 0 THEN "unsequenced"
    ELSE IF l = NoLast THEN "first"
    ELSE CASE seq = Expected(l)   -> "ok"
           [] seq > Expected(l)   -> "gap"
           [] Retransmit(l, seq)  -> "duplicate"
           [] OTHER               -> "regression"

\* Mutant: the distance is taken for every discontinuity, forwards or backwards.
MissingSigned(l, seq) ==
    IF Status(l, seq) \in {"gap", "regression"} THEN seq - Expected(l) ELSE 0

\* Mutant: the distance to the last number instead of the expected one.
MissingInclusive(l, seq) == IF Status(l, seq) = "gap" THEN seq - l ELSE 0

\* Result.Missing: how many numbers a gap skipped, zero for every other verdict.
Missing(l, seq) == IF Status(l, seq) = "gap" THEN seq - Expected(l) ELSE 0

\* Result.NeedsResync.
NeedsResync(status) == status \in {"gap", "regression"}

\* Mutant: a retransmit moves the baseline backwards.
NextLastMoves(l, seq) == IF seq < 0 THEN l ELSE seq

\* The entry after Observe: a duplicate and an unsequenced event leave it alone.
NextLast(l, seq) ==
    IF Status(l, seq) \in {"unsequenced", "duplicate"} THEN l ELSE seq

(***************************************************************************)
(* The methods, as functions of the map.                                   *)
(***************************************************************************)
Observe(last, k, seq) == [last EXCEPT ![k] = NextLast(last[k], seq)]

Reset(last, k) == [last EXCEPT ![k] = NoLast]

ResetVenue(last, v) ==
    [k \in DOMAIN last |-> IF k.venue = v THEN NoLast ELSE last[k]]

=============================================================================
