--------------------------- MODULE MCTradeWindow ----------------------------
(***************************************************************************)
(* Small instances of TradeWindow.                                         *)
(***************************************************************************)
EXTENDS TradeWindow

CONSTANTS MaxTime, MaxTrades

\* Three prices, with a size each, so that sums tell which trades are in them; the
\* highest is of a trade of size zero, which moves no volume and still sets a bar.
Trades == {[time |-> t, price |-> p, size |-> 3 - p] : t \in 0 .. MaxTime, p \in 1 .. 3}

MCLog == UNION {[1 .. n -> Trades] : n \in 1 .. MaxTrades}

=============================================================================
