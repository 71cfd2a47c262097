------------------------------ MODULE MCIngest ------------------------------
(***************************************************************************)
(* Small instances of Ingest.                                              *)
(***************************************************************************)
EXTENDS Ingest

\* Frames come from the venues of Ingest.
NoFrames == {}

\* ingestd sets no limit on the attempts of its runners.
Unlimited == [v \in Venue |-> 0]

\* A restart matters to a venue whose counter goes on without ingestd.
OfKraken == [v \in Venue |-> IF v = "kraken" THEN 1 ELSE 0]

NoRestarts == [v \in Venue |-> 0]

=============================================================================
