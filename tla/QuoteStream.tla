---------------------------- MODULE QuoteStream -----------------------------
(***************************************************************************)
(* The fan-out of quotes in the serving tier                               *)
(* (serving/src/main/java/io/tapeline/serving): QuoteConsumer takes quotes *)
(* from Kafka, writes them to QuoteCache (Redis) and hands them to         *)
(* QuoteBroadcaster, which calls the listeners that                        *)
(* MarketDataService.streamQuotes has registered for a symbol.             *)
(*                                                                         *)
(* Three kinds of thread interleave: one consumer thread per partition,    *)
(* here per symbol; the gRPC thread that opens a stream; the gRPC thread   *)
(* that runs its close handler.  All replicas consume under one group id,  *)
(* so a partition is consumed by one of them; a batch that could not be    *)
(* committed is delivered again.  Quotes are known by their emit time;     *)
(* every quote is of one venue, which every stream asks for, and the cache *)
(* is read before an entry expires.                                        *)
(***************************************************************************)
EXTENDS Integers, Sequences, FiniteSets

CONSTANTS
    Replica,
    Symbol,
    Client,         \* gRPC clients, each of which opens one stream
    Input,          \* what may be asked for and what may be in the topic
    minInterval,    \* least distance of two updates of a stream
    MaxFaults,      \* bound on redeliveries and failed writes
    MaxCloses,      \* bound on streams that end
    None

\* The quotes of a symbol do not go back in time: the clock of the Flink job that
\* stamps them is taken to go forward, from one task manager to the next as well.
\* minInterval is 1000000 / hz; max_updates_hz is a uint32 that Java reads as an
\* int, and below 2^32 - 10^6 the quotient is not negative.
ASSUME QuoteAssumption ==
    /\ Input \subseteq [wanted : [Client -> Seq(Symbol)], feed : [Symbol -> Seq(Nat \ {0})]]
    /\ \A n \in Input, s \in Symbol : \A i, j \in DOMAIN n.feed[s] :
            i < j => n.feed[s][i] <= n.feed[s][j]
    /\ minInterval \in Nat /\ IsFiniteSet(Client)

VARIABLES
    input,      \* the symbols each stream asks for, in the order of its request,
                \* and per symbol the emit times of its quotes in the topic
    owner,      \* the replica that consumes each symbol's partition
    pos,        \* offset of the next record of each partition
    committed,  \* offset the last rebalance started from
    redelivered,\* history: the symbols whose partition was delivered again
    step,       \* where each partition's consumer thread is
    found,      \* the set of listeners a broadcast walks, zero for none
    start,      \* the listeners in it when the broadcast began
    expect,     \* history: the streams that were open at that time
    seen,       \* the listeners it has called
    call,       \* the call it is in: client, the time read, before or after the swap
    cache,      \* Redis: per symbol the time of its quote, zero for none
    mapped,     \* listenersBySymbol: which of sets it holds, zero for none
    sets,       \* per replica and symbol, every set of listeners ever made
    at,         \* the replica of each client
    pc,         \* where each stream is
    todo,       \* the symbols its present loop has yet to handle
    held,       \* the set of listeners its current symbol is between two steps on
    lastSent,   \* lastSentUs
    sent,       \* what it was sent
    subscriberCount,
    closes,
    faults

topicVars  == <<owner, pos, committed, redelivered>>
threadVars == <<step, found, start, expect, seen, call>>
mapVars    == <<mapped, sets, subscriberCount>>
streamVars == <<at, pc, todo, held, lastSent, sent>>
vars       == <<input, topicVars, threadVars, cache, mapVars, streamVars, closes, faults>>

Init ==
    /\ input \in Input
    /\ owner \in [Symbol -> Replica]
    /\ pos = [s \in Symbol |-> 1]
    /\ committed = [s \in Symbol |-> 1]
    /\ redelivered = {}
    /\ step = [s \in Symbol |-> "poll"]
    /\ found = [s \in Symbol |-> 0]
    /\ start = [s \in Symbol |-> {}]
    /\ expect = [s \in Symbol |-> {}]
    /\ seen = [s \in Symbol |-> {}]
    /\ call = [s \in Symbol |-> None]
    /\ cache = [s \in Symbol |-> 0]
    /\ mapped = [r \in Replica |-> [s \in Symbol |-> 0]]
    /\ sets = [r \in Replica |-> [s \in Symbol |-> <<>>]]
    /\ subscriberCount = [r \in Replica |-> 0]
    /\ at \in [Client -> Replica]
    /\ pc = [c \in Client |-> IF input.wanted[c] = <<>> THEN "rejected" ELSE "snapshot"]
    /\ todo = [c \in Client |-> input.wanted[c]]
    /\ held = [c \in Client |-> 0]
    /\ lastSent = [c \in Client |-> 0]
    /\ sent = [c \in Client |-> <<>>]
    /\ closes = 0
    /\ faults = 0

Fault == /\ faults < MaxFaults
         /\ faults' = faults + 1

Quote(s) == input.feed[s][pos[s]]

Wants(c, s) == \E i \in DOMAIN input.wanted[c] : input.wanted[c][i] = s

\* The members of a set of listeners.
Members(r, s, g) == IF g = 0 THEN {} ELSE sets[r][s][g]

----------------------------------------------------------------------------
(* QuoteConsumer.handle, per partition.                                    *)

\* The record is done with, for good or ill.
Advance(s) ==
    /\ step' = [step EXCEPT ![s] = "poll"]
    /\ pos' = [pos EXCEPT ![s] = @ + 1]
    /\ UNCHANGED <<owner, committed, redelivered>>

\* Mutant: a field that is in the hash is not overwritten.
PutIfAbsent(s) ==
    /\ step[s] = "poll" /\ pos[s] <= Len(input.feed[s])
    /\ cache' = [cache EXCEPT ![s] = IF @ = 0 THEN Quote(s) ELSE @]
    /\ step' = [step EXCEPT ![s] = "put"]
    /\ UNCHANGED <<topicVars, found, start, expect, seen, call, mapVars, streamVars, closes, faults>>

\* Mutant: an exception leaves the record where it is.
PutStops(s) ==
    /\ step[s] = "poll" /\ pos[s] <= Len(input.feed[s])
    /\ \/ /\ cache' = [cache EXCEPT ![s] = Quote(s)]
          /\ step' = [step EXCEPT ![s] = "put"]
          /\ UNCHANGED faults
       \/ /\ Fault
          /\ step' = [step EXCEPT ![s] = "failed"]
          /\ UNCHANGED cache
    /\ UNCHANGED <<topicVars, found, start, expect, seen, call, mapVars, streamVars, closes>>

\* cache.put writes the hash and then sets its expiry.  When either throws, the
\* record is counted as failed and passed over, with the hash written or not.
\* (The JsonProcessingException that put catches is left out: a record of
\* strings, doubles and longs does not raise it.)
Put(s) ==
    /\ step[s] = "poll" /\ pos[s] <= Len(input.feed[s])
    /\ \/ /\ cache' = [cache EXCEPT ![s] = Quote(s)]
          /\ step' = [step EXCEPT ![s] = "put"]
          /\ UNCHANGED <<topicVars, faults>>
       \/ /\ Fault
          /\ Advance(s)
          /\ cache' \in {cache, [cache EXCEPT ![s] = Quote(s)]}
    /\ UNCHANGED <<found, start, expect, seen, call, mapVars, streamVars, closes>>

\* QuoteBroadcaster.publish finds the symbol's set of listeners.  Those in it
\* now are called unless they leave; those that leave or come later may be.
Publish(s) ==
    /\ step[s] = "put"
    /\ step' = [step EXCEPT ![s] = "publish"]
    /\ found' = [found EXCEPT ![s] = mapped[owner[s]][s]]
    /\ start' = [start EXCEPT ![s] = Members(owner[s], s, mapped[owner[s]][s])]
    /\ expect' = [expect EXCEPT ![s] = {c \in Client : pc[c] = "live" /\ Wants(c, s)}]
    /\ UNCHANGED <<topicVars, seen, call, cache, mapVars, streamVars, closes, faults>>

\* Mutant: the distance is measured without its sign.
OfferAbs(s, c) ==
    /\ step[s] = "publish" /\ call[s] = None
    /\ c \in (start[s] \cup Members(owner[s], s, found[s])) \ seen[s]
    /\ seen' = [seen EXCEPT ![s] = @ \cup {c}]
    /\ call' = IF Quote(s) - lastSent[c] \notin 1 - minInterval .. minInterval - 1
               THEN [call EXCEPT ![s] = [client |-> c, previous |-> lastSent[c], won |-> FALSE]]
               ELSE call
    /\ UNCHANGED <<topicVars, step, found, start, expect, cache, mapVars, streamVars, closes, faults>>

\* A listener is called: one in the set, or one that the iterator of the set had
\* come to before it left.  It drops the quote when the client is not ready or
\* the last update is too recent, and otherwise goes on to claim its turn.
Offer(s, c) ==
    /\ step[s] = "publish" /\ call[s] = None
    /\ c \in (start[s] \cup Members(owner[s], s, found[s])) \ seen[s]
    /\ seen' = [seen EXCEPT ![s] = @ \cup {c}]
    /\ \E isReady \in BOOLEAN :
        call' = IF isReady /\ Quote(s) - lastSent[c] >= minInterval
                THEN [call EXCEPT ![s] = [client |-> c, previous |-> lastSent[c], won |-> FALSE]]
                ELSE call
    /\ UNCHANGED <<topicVars, step, found, start, expect, cache, mapVars, streamVars, closes, faults>>

\* Mutant: the time is set whatever another thread has done to it.
SetLastSent(s) ==
    /\ call[s] # None
    /\ ~call[s].won
    /\ lastSent' = [lastSent EXCEPT ![call[s].client] = Quote(s)]
    /\ call' = [call EXCEPT ![s].won = TRUE]
    /\ UNCHANGED <<topicVars, step, found, start, expect, seen, cache, mapVars, at, pc, todo, held, sent,
                   closes, faults>>

\* lastSentUs.compareAndSet: the loser drops its quote.
CompareAndSet(s) ==
    /\ call[s] # None
    /\ ~call[s].won
    /\ IF lastSent[call[s].client] = call[s].previous
       THEN /\ lastSent' = [lastSent EXCEPT ![call[s].client] = Quote(s)]
            /\ call' = [call EXCEPT ![s].won = TRUE]
       ELSE /\ call' = [call EXCEPT ![s] = None]
            /\ UNCHANGED lastSent
    /\ UNCHANGED <<topicVars, step, found, start, expect, seen, cache, mapVars, at, pc, todo, held, sent,
                   closes, faults>>

\* What a stream is sent: an update or a part of the snapshot.
Sending(s, t, update) ==
    [symbol |-> s, time |-> t, update |-> update, again |-> s \in redelivered]

\* call.onNext; a stream that is closed takes nothing.
OnNext(s) ==
    /\ call[s] # None
    /\ call[s].won
    /\ LET c == call[s].client
       IN  sent' = IF pc[c] = "closed" THEN sent
                   ELSE [sent EXCEPT ![c] = Append(@, Sending(s, Quote(s), TRUE))]
    /\ call' = [call EXCEPT ![s] = None]
    /\ UNCHANGED <<topicVars, step, found, start, expect, seen, cache, mapVars, at, pc, todo, held,
                   lastSent, closes, faults>>

\* The broadcast ends once no listener it must call is left.
Published(s) ==
    /\ step[s] = "publish" /\ call[s] = None
    /\ start[s] \cap Members(owner[s], s, found[s]) \subseteq seen[s]
    /\ Advance(s)
    /\ found' = [found EXCEPT ![s] = 0]
    /\ start' = [start EXCEPT ![s] = {}]
    /\ expect' = [expect EXCEPT ![s] = {}]
    /\ seen' = [seen EXCEPT ![s] = {}]
    /\ UNCHANGED <<call, cache, mapVars, streamVars, closes, faults>>

\* The group rebalances: the partition may move to another replica, and what
\* had not been committed by then is handled again.  The consumer that gives it
\* up is between two records; one that is expelled from the group in the middle
\* of a batch, and works on it next to its successor, is left out.
Rebalance(s, r) ==
    /\ step[s] = "poll" /\ Fault
    /\ \E o \in committed[s] .. pos[s] :
        /\ committed' = [committed EXCEPT ![s] = o]
        /\ pos' = [pos EXCEPT ![s] = o]
        /\ redelivered' = IF o = pos[s] THEN redelivered ELSE redelivered \cup {s}
    /\ owner' = [owner EXCEPT ![s] = r]
    /\ UNCHANGED <<threadVars, cache, mapVars, streamVars, closes>>

----------------------------------------------------------------------------
(* MarketDataService.streamQuotes and the subscription's close.            *)

Goto(c, p, rest) ==
    /\ pc' = [pc EXCEPT ![c] = p]
    /\ todo' = [todo EXCEPT ![c] = rest]

\* The snapshot of one symbol, sent if there is one and the client is ready.
Snapshot(c) ==
    LET s == Head(todo[c])
    IN
    /\ pc[c] = "snapshot"
    /\ IF Len(todo[c]) = 1 THEN Goto(c, "subscribing", input.wanted[c])
                           ELSE Goto(c, "snapshot", Tail(todo[c]))
    /\ \E isReady \in BOOLEAN :
        sent' = IF isReady /\ cache[s] # 0
                THEN [sent EXCEPT ![c] = Append(@, Sending(s, cache[s], FALSE))] ELSE sent
    /\ UNCHANGED <<topicVars, threadVars, cache, mapVars, at, held, lastSent, closes, faults>>

\* computeIfAbsent: take the symbol's set of listeners, or make one.
Obtain(c) ==
    LET r == at[c]
        s == Head(todo[c])
    IN  /\ pc[c] = "subscribing" /\ held[c] = 0
        /\ IF mapped[r][s] = 0
           THEN /\ sets' = [sets EXCEPT ![r][s] = Append(@, {})]
                /\ mapped' = [mapped EXCEPT ![r][s] = Len(sets[r][s]) + 1]
           ELSE UNCHANGED <<sets, mapped>>
        /\ held' = [held EXCEPT ![c] = mapped'[r][s]]
        /\ UNCHANGED <<topicVars, threadVars, cache, subscriberCount, at, pc, todo, lastSent, sent,
                       closes, faults>>

\* add, to the set obtained before.  After the last symbol the stream is
\* subscribed and the handlers that close it are in place.
Add(c) ==
    LET r == at[c]
        s == Head(todo[c])
    IN  /\ pc[c] = "subscribing" /\ held[c] # 0
        /\ sets' = [sets EXCEPT ![r][s][held[c]] = @ \cup {c}]
        /\ held' = [held EXCEPT ![c] = 0]
        /\ IF Len(todo[c]) = 1
           THEN /\ Goto(c, "live", <<>>)
                /\ subscriberCount' = [subscriberCount EXCEPT ![r] = @ + 1]
           ELSE /\ Goto(c, "subscribing", Tail(todo[c]))
                /\ UNCHANGED subscriberCount
        /\ UNCHANGED <<topicVars, threadVars, cache, mapped, at, lastSent, sent, closes, faults>>

\* Mutant: both handlers close the subscription.
CancelAgain(c) ==
    /\ pc[c] \in {"live", "closed"} /\ closes < MaxCloses
    /\ closes' = closes + 1
    /\ Goto(c, "closing", input.wanted[c])
    /\ UNCHANGED <<topicVars, threadVars, cache, mapVars, at, held, lastSent, sent, faults>>

\* The client cancels or the call ends; the handler closes the subscription.
Cancel(c) ==
    /\ pc[c] = "live" /\ closes < MaxCloses
    /\ closes' = closes + 1
    /\ Goto(c, "closing", input.wanted[c])
    /\ UNCHANGED <<topicVars, threadVars, cache, mapVars, at, held, lastSent, sent, faults>>

\* One symbol of close is done.
CloseNext(c) ==
    IF Len(todo[c]) = 1
    THEN /\ Goto(c, "closed", <<>>)
         /\ subscriberCount' = [subscriberCount EXCEPT ![at[c]] = @ - 1]
    ELSE Goto(c, "closing", Tail(todo[c])) /\ UNCHANGED subscriberCount

\* get and remove; a symbol without a set is passed over.  (A set that is
\* replaced between the two was empty, so that nothing is lost in one step.)
Remove(c) ==
    LET r == at[c]
        s == Head(todo[c])
    IN  /\ pc[c] = "closing" /\ held[c] = 0
        /\ IF mapped[r][s] = 0
           THEN CloseNext(c) /\ UNCHANGED <<sets, held>>
           ELSE /\ sets' = [sets EXCEPT ![r][s][mapped[r][s]] = @ \ {c}]
                /\ held' = [held EXCEPT ![c] = mapped[r][s]]
                /\ UNCHANGED <<pc, todo, subscriberCount>>
        /\ UNCHANGED <<topicVars, threadVars, cache, mapped, at, lastSent, sent, closes, faults>>

\* Mutant: sets stay in the map when they are empty.
PruneNever(c) ==
    /\ pc[c] = "closing" /\ held[c] # 0
    /\ held' = [held EXCEPT ![c] = 0]
    /\ CloseNext(c)
    /\ UNCHANGED <<topicVars, threadVars, cache, mapped, sets, at, lastSent, sent, closes, faults>>

\* computeIfPresent: a set that is empty now is taken out of the map.
Prune(c) ==
    LET r == at[c]
        s == Head(todo[c])
    IN  /\ pc[c] = "closing" /\ held[c] # 0
        /\ mapped' = IF Members(r, s, mapped[r][s]) = {}
                     THEN [mapped EXCEPT ![r][s] = 0] ELSE mapped
        /\ held' = [held EXCEPT ![c] = 0]
        /\ CloseNext(c)
        /\ UNCHANGED <<topicVars, threadVars, cache, sets, at, lastSent, sent, closes, faults>>

----------------------------------------------------------------------------

Thread(s) ==
    /\ UNCHANGED input
    /\ \/ Put(s)
       \/ Publish(s)
       \/ \E c \in Client : Offer(s, c)
       \/ CompareAndSet(s)
       \/ OnNext(s)
       \/ Published(s)

Stream(c) ==
    /\ UNCHANGED input
    /\ \/ Snapshot(c)
       \/ Obtain(c)
       \/ Add(c)
       \/ Cancel(c)
       \/ Remove(c)
       \/ Prune(c)

Next ==
    \/ \E s \in Symbol : Thread(s)
    \/ \E s \in Symbol, r \in Replica : Rebalance(s, r) /\ UNCHANGED input
    \/ \E c \in Client : Stream(c)

Spec == Init /\ [][Next]_vars

\* The consumer threads go on; nothing obliges a client to come or to go.
FairSpec == Spec /\ \A s \in Symbol : WF_vars(Thread(s))

----------------------------------------------------------------------------
(* Properties.                                                             *)

\* The variables of the fan-out keep their types.
QTypeOK ==
    /\ pos \in [Symbol -> Nat \ {0}]
    /\ committed \in [Symbol -> Nat \ {0}]
    /\ step \in [Symbol -> {"poll", "put", "publish"}]
    /\ cache \in [Symbol -> Nat]
    /\ pc \in [Client -> {"snapshot", "subscribing", "live", "closing", "closed", "rejected"}]
    /\ todo \in [Client -> Seq(Symbol)]
    /\ lastSent \in [Client -> Nat]
    /\ subscriberCount \in [Replica -> 0 .. Cardinality(Client)]

\* The listeners a symbol's map entry leads to.
Reachable(r, s) == Members(r, s, mapped[r][s])

\* No broadcast that begins calls a stream that has been closed, which keeps
\* nothing alive, and when all are closed the map is empty again, in whatever order streams opened
\* and closed (QuoteBroadcaster.subscribe: no entry per symbol ever subscribed).
ListenersReleased ==
    /\ \A r \in Replica, s \in Symbol : \A c \in Reachable(r, s) : pc[c] # "closed"
    /\ (\A c \in Client : pc[c] \in {"closed", "rejected"}) =>
            \A r \in Replica, s \in Symbol : mapped[r][s] = 0

Updates(c) == {i \in DOMAIN sent[c] : sent[c][i].update}

\* The updates of a stream keep their distance, although the threads of its
\* symbols send to it at the same time (streamQuotes: max_updates_hz).
UpdatesSpaced ==
    \A c \in Client : \A i, j \in Updates(c) :
        i < j => sent[c][i].time - sent[c][j].time \notin 1 - minInterval .. minInterval - 1

\* What a stream is sent of a symbol only moves forward: no update is older than
\* an update before it, even when the topic is delivered again, nor older than
\* the snapshot, unless it is a repetition (streamQuotes).
StreamAdvances ==
    \A c \in Client : \A i, j \in DOMAIN sent[c] :
        i < j /\ sent[c][i].symbol = sent[c][j].symbol =>
            \/ sent[c][i].time <= sent[c][j].time
            \/ sent[c][j].again /\ ~sent[c][i].update

\* A client that reads a quote back after it was sent one gets no older one,
\* unless the partition was delivered again (QuoteConsumer: the cache write
\* comes before the broadcast).
ReadYourWrites ==
    \A c \in Client : \A i \in Updates(c) :
        LET s == sent[c][i].symbol
        IN  s \in redelivered \/ cache[s] >= sent[c][i].time

\* The consumer gets to the end of its partitions, past records it could not
\* handle and clients that do not read (handle: a poison record must not stop
\* the partition).
FeedConsumed == \A s \in Symbol : <>[](pos[s] = Len(input.feed[s]) + 1)

\* A broadcast reaches every stream that was subscribed to the symbol when it
\* began and still is (publish: delivers a quote to every subscriber).
SubscriberServed ==
    [][\A s \in Symbol :
        step[s] = "publish" /\ step'[s] = "poll" =>
            \A c \in expect[s] : pc[c] = "live" => c \in seen[s]]_vars

=============================================================================
