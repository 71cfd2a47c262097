--------------------------- MODULE MCBookFunction ---------------------------
(***************************************************************************)
(* Small instances of BookFunction.                                        *)
(***************************************************************************)
EXTENDS BookFunction

\* Room for two bids below an ask, or two asks above a bid.
FewPrices == 1 .. 3

\* One level on each side.
NarrowBook == [s \in Side |-> IF s = "bid" THEN [p \in {2} |-> 1] ELSE [p \in {3} |-> 1]]

=============================================================================
