------------------------------- MODULE Config -------------------------------
(***************************************************************************)
(* How ingestd reads its configuration (ingest/internal/config/config.go)  *)
(* and which sources it builds from it (buildDecoders,                     *)
(* ingest/cmd/ingestd/main.go).                                            *)
(*                                                                         *)
(* An environment is a record with one field per variable.  A list holds   *)
(* the parts of the variable's text between commas, trimmed, "" for a      *)
(* blank part; a number is an integer or Bad, text that does not parse.    *)
(* The sampling ratio is in hundredths and a duration in milliseconds.     *)
(* Variables that only name an address or a log level are left out.        *)
(***************************************************************************)
EXTENDS Integers, Sequences

CONSTANTS
    Unset,      \* the variable is not set, or is empty
    Bad,        \* the variable holds text that does not parse
    Canonical   \* the symbols written BASE-QUOTE

Known == {"coinbase", "kraken", "binance"}

\* The variables whose text must parse for Load to succeed.
Parsed == {"bufferSize", "batchSize", "flushInterval", "krakenDepth",
           "binanceDepthMS", "traceSampleRatio"}

Defaults ==
    [venues           |-> <<"coinbase", "kraken", "binance">>,
     symbols          |-> <<"BTC-USD", "ETH-USD", "SOL-USD">>,
     kafkaBrokers     |-> <<"localhost:9092">>,
     topicTrades      |-> "md.trades.v1",
     topicBook        |-> "md.book.v1",
     topicChain       |-> "md.chain.v1",
     dryRun           |-> FALSE,
     bufferSize       |-> 16384,
     batchSize        |-> 500,
     flushInterval    |-> 10,
     krakenDepth      |-> 10,
     binanceDepthMS   |-> 100,
     onchainEnabled   |-> FALSE,
     onchainWSURL     |-> "",
     otlpEndpoint     |-> "",
     traceSampleRatio |-> 1]

NotBlank(part) == part # ""

\* A text of blanks counts as unset, a text of commas as an empty list.
envList(v, def) ==
    IF v = Unset THEN def
    ELSE IF v = <<"">> THEN def ELSE SelectSeq(v, NotBlank)

\* Text that is no boolean is ignored.
envBool(v, def) == IF v \in {Unset, Bad} THEN def ELSE v

envOr(v, def) == IF v = Unset THEN def ELSE v

\* The configuration an environment gives, when every number parses.
Load(env) ==
    [f \in DOMAIN Defaults |->
        IF f \in {"venues", "symbols", "kafkaBrokers"} THEN envList(env[f], Defaults[f])
        ELSE IF f \in {"dryRun", "onchainEnabled"} THEN envBool(env[f], Defaults[f])
        ELSE envOr(env[f], Defaults[f])]

Parses(env) == \A f \in Parsed : env[f] # Bad

\* Mutant: a list without venues is not looked at.
ValidateAnyVenues(c) ==
    /\ c.symbols # <<>>
    /\ \A i \in DOMAIN c.symbols : c.symbols[i] \in Canonical
    /\ \A i \in DOMAIN c.venues : c.venues[i] \in Known
    /\ c.onchainEnabled => c.onchainWSURL # ""

\* Validate rejects configurations that would fail later.
Validate(c) ==
    /\ c.symbols # <<>>
    /\ \A i \in DOMAIN c.symbols : c.symbols[i] \in Canonical
    /\ c.venues # <<>> \/ c.onchainEnabled
    /\ \A i \in DOMAIN c.venues : c.venues[i] \in Known
    /\ c.dryRun \/ c.kafkaBrokers # <<>>
    /\ c.onchainEnabled => c.onchainWSURL # ""
    /\ c.bufferSize >= 1
    /\ c.batchSize >= 1
    /\ c.traceSampleRatio \in 0 .. 100
    /\ c.binanceDepthMS \in {100, 1000}

\* The sources of a configuration: a venue is named by its place in the list,
\* which may name it twice, and the chain by zero.
buildDecoders(c) ==
    {i \in DOMAIN c.venues : c.venues[i] \in Known}
        \cup (IF c.onchainEnabled THEN {0} ELSE {})

=============================================================================
