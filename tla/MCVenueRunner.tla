--------------------------- MODULE MCVenueRunner ---------------------------
(***************************************************************************)
(* Small instances of VenueRunner.                                         *)
(***************************************************************************)
EXTENDS VenueRunner

CONSTANTS kraken, coinbase, e1, e2

\* A frame without events, with one and with two.
MCFrames == {<<>>, <<e1>>, <<e1, e2>>}

\* One runner that never gives up, one that does after two failures.
MCMaxAttempts == [v \in Venue |-> IF v = coinbase THEN 2 ELSE 0]

=============================================================================
