----------------------------- MODULE MCIngestd ------------------------------
(***************************************************************************)
(* Small instances of Ingestd.                                             *)
(***************************************************************************)
EXTENDS Ingestd

CONSTANTS p1, p2        \* processes
CONSTANTS t1, t2, t3    \* the trade schema and its successors
CONSTANTS d1            \* the book delta schema

Trade(s) == [k \in Kind |-> IF k = "trade" THEN s ELSE d1]

\* t2 changes t1 in a way both sides survive, t3 only in a way new readers do.
MCCanRead == {<<s, s>> : s \in Schema} \cup {<<t1, t2>>, <<t2, t1>>, <<t3, t2>>, <<t3, t1>>}

MCBuild == {Trade(s) : s \in {t1, t2, t3}}

AllUnset == [f \in DOMAIN Defaults |-> Unset]

\* One venue; the default list, with a number that does not parse; a list of
\* blanks, without and with the chain (and tracing); a dry run that names a venue
\* twice; one topic for both kinds.
MCEnv ==
    {[AllUnset EXCEPT !.venues = <<"kraken">>],
     [AllUnset EXCEPT !.venues = <<"">>, !.batchSize = Bad],
     [AllUnset EXCEPT !.venues = <<"", "">>],
     [AllUnset EXCEPT !.venues = <<"", "">>, !.onchainEnabled = TRUE, !.onchainWSURL = "ws",
                      !.otlpEndpoint = "otel"],
     [AllUnset EXCEPT !.venues = <<"kraken", "kraken">>, !.dryRun = TRUE],
     [AllUnset EXCEPT !.venues = <<"kraken">>, !.topicBook = "md.trades.v1"]}

\* One environment, for the runs with two processes.
OneEnv == {[AllUnset EXCEPT !.venues = <<"kraken">>]}

=============================================================================
