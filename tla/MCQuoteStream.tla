--------------------------- MODULE MCQuoteStream ----------------------------
(***************************************************************************)
(* Small instances of QuoteStream.                                         *)
(***************************************************************************)
EXTENDS QuoteStream, TLC

CONSTANTS c1, c2, btc, eth, r1, r2

Asks(w1, w2) == c1 :> w1 @@ c2 :> w2
Holds(q1, q2) == btc :> q1 @@ eth :> q2

\* One stream of two symbols, whose quotes fall within one interval and outside
\* it, next to a request for nothing; or two streams of one symbol.
MCInput ==
    {[wanted |-> Asks(<<btc, eth>>, <<>>), feed |-> Holds(<<2, 4>>, <<3>>)],
     [wanted |-> Asks(<<btc>>, <<btc>>), feed |-> Holds(<<2>>, <<>>)]}

\* Two streams of one symbol with a single quote.
OneQuote == {[wanted |-> Asks(<<btc>>, <<btc>>), feed |-> Holds(<<2>>, <<>>)]}

=============================================================================
