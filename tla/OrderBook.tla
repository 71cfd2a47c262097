----------------------------- MODULE OrderBook -----------------------------
(***************************************************************************)
(* The L2 order book of one venue and symbol as a value                    *)
(* (stream/.../book/OrderBook.scala).  A side is a function from the       *)
(* prices of its levels to their sizes; a delta says for each side which   *)
(* prices change to which size, zero for a level that is gone.             *)
(***************************************************************************)
EXTENDS Integers, FiniteSets

Side == {"bid", "ask"}

EmptyBook == [s \in Side |-> <<>>]

\* The orderings of the two sides: p is nearer to the touch than q.
Nearer(s, p, q) == IF s = "bid" THEN p > q ELSE p < q

\* Mutant: a level of size zero stays where it is.
patchSideKeeps(side, levels) ==
    [p \in DOMAIN side \cup {q \in DOMAIN levels : levels[q] > 0} |->
        IF p \in DOMAIN levels /\ levels[p] > 0 THEN levels[p] ELSE side[p]]

patchSide(side, levels) ==
    [p \in (DOMAIN side \ DOMAIN levels) \cup {q \in DOMAIN levels : levels[q] > 0} |->
        IF p \in DOMAIN levels THEN levels[p] ELSE side[p]]

buildSide(levels) == [p \in {q \in DOMAIN levels : levels[q] > 0} |-> levels[p]]

\* Mutant: a snapshot is applied like any other delta.
applyMerges(book, delta) == [s \in Side |-> patchSide(book[s], delta.levels[s])]

\* OrderBook.apply.
apply(book, delta) ==
    [s \in Side |-> IF delta.isSnapshot THEN buildSide(delta.levels[s])
                    ELSE patchSide(book[s], delta.levels[s])]

\* The prices of the n levels of side s that are nearest to the touch.
Top(book, s, n) ==
    {p \in DOMAIN book[s] : Cardinality({q \in DOMAIN book[s] : Nearer(s, q, p)}) < n}

\* Mutant: no level is dropped.
trimNever(book, maxDepth) == book

trim(book, maxDepth) ==
    [s \in Side |-> [p \in Top(book, s, maxDepth) |-> book[s][p]]]

isEmpty(book) == \E s \in Side : DOMAIN book[s] = {}

best(book, s) ==
    CHOOSE p \in DOMAIN book[s] : \A q \in DOMAIN book[s] \ {p} : Nearer(s, p, q)

isCrossed(book) == ~isEmpty(book) /\ best(book, "bid") >= best(book, "ask")

=============================================================================
