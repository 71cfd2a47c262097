---------------------------- MODULE QuoteProofs -----------------------------
(***************************************************************************)
(* Proofs about QuoteStream, for any number of replicas, symbols and       *)
(* streams and topics of any length: a stream that is closed is let go,    *)
(* the updates of a stream keep their distance and its symbols move        *)
(* forward, and what a stream was sent can be read back.                   *)
(***************************************************************************)
EXTENDS QuoteStream, FiniteSetTheorems, SequenceTheorems, TLAPS

Stage == {"snapshot", "subscribing", "live", "closing", "closed", "rejected"}

Message == [symbol : Symbol, time : Nat, update : BOOLEAN, again : BOOLEAN]

Call == [client : Client, previous : Nat, won : BOOLEAN]

\* The types of all variables that the proofs speak of.
Types ==
    /\ input \in Input
    /\ owner \in [Symbol -> Replica]
    /\ pos \in [Symbol -> Nat \ {0}] /\ committed \in [Symbol -> Nat \ {0}]
    /\ step \in [Symbol -> {"poll", "put", "publish"}]
    /\ found \in [Symbol -> Nat]
    /\ call \in [Symbol -> Call \cup {None}]
    /\ cache \in [Symbol -> Nat]
    /\ mapped \in [Replica -> [Symbol -> Nat]]
    /\ sets \in [Replica -> [Symbol -> Seq(SUBSET Client)]]
    /\ at \in [Client -> Replica] /\ pc \in [Client -> Stage]
    /\ todo \in [Client -> Seq(Symbol)] /\ held \in [Client -> Nat]
    /\ lastSent \in [Client -> Nat] /\ sent \in [Client -> Seq(Message)]

----------------------------------------------------------------------------
(* The partitions' threads.                                                *)

\* While a record is handled it stays where it is and is in the cache, and a
\* listener is called only within a broadcast.
Handled(s) ==
    /\ step[s] # "poll" => pos[s] <= Len(input.feed[s]) /\ cache[s] = Quote(s)
    /\ call[s] # None => step[s] = "publish"

\* Unless the partition was delivered again, nothing to come is older than what
\* is in the cache.
Newest(s) ==
    s \notin redelivered =>
        \A k \in pos[s] .. Len(input.feed[s]) : cache[s] <= input.feed[s][k]

ThreadInv == \A s \in Symbol : Handled(s) /\ Newest(s)

----------------------------------------------------------------------------
(* The map of listeners.                                                   *)

Of(seq) == {seq[i] : i \in DOMAIN seq}

\* Where a stream is in its loops.
Loop(c) ==
    /\ Of(todo[c]) \subseteq Of(input.wanted[c])
    /\ pc[c] \in {"snapshot", "subscribing", "closing"} => todo[c] # <<>>
    /\ pc[c] \notin {"subscribing", "closing"} => held[c] = 0
    /\ pc[c] \notin {"snapshot", "rejected"} => input.wanted[c] # <<>>
    /\ pc[c] = "subscribing" => held[c] <= Len(sets[at[c]][Head(todo[c])])

\* A listener is where its stream put it, which has come that far.
Listening(r, s, g, c) ==
    at[c] = r /\ s \in Of(input.wanted[c]) /\ pc[c] \notin {"snapshot", "rejected"}

\* The symbols that the close handler of c has yet to look at.
Left(c) == Of(IF held[c] = 0 THEN todo[c] ELSE Tail(todo[c]))

\* A stream keeps the entry of a symbol: it is in its set, about to be, or about
\* to remove the entry.
Keeps(c, r, s) ==
    \/ c \in Reachable(r, s)
    \/ /\ at[c] = r /\ pc[c] = "subscribing" /\ Head(todo[c]) = s
       /\ held[c] = mapped[r][s]
    \/ at[c] = r /\ pc[c] = "closing" /\ Head(todo[c]) = s /\ held[c] # 0

ListenInv ==
    /\ \A c \in Client : Loop(c)
    /\ \A s \in Symbol : step[s] = "publish" => found[s] <= Len(sets[owner[s]][s])
    /\ \A r \in Replica, s \in Symbol :
        /\ mapped[r][s] <= Len(sets[r][s])
        /\ \A g \in 1 .. Len(sets[r][s]) : \A c \in sets[r][s][g] : Listening(r, s, g, c)
        /\ \A c \in Reachable(r, s) :
            pc[c] # "closed" /\ (pc[c] = "closing" => s \in Left(c))
        /\ mapped[r][s] # 0 => \E c \in Client : Keeps(c, r, s)

\* The listeners that a broadcast began with are of streams that have come so far
\* as to have any, wherever they are by now.
Early(c) == pc[c] \in {"snapshot", "rejected"}

StartInv == start \in [Symbol -> SUBSET {c \in Client : ~Early(c)}]

\* The streams of a replica that are subscribed, and the gauge counts them.
Open(r) == {c \in Client : at[c] = r /\ pc[c] \in {"live", "closing"}}

CountInv == subscriberCount = [r \in Replica |-> Cardinality(Open(r))]

----------------------------------------------------------------------------
(* What a stream is sent.                                                  *)

Apart(t, u) == t - u >= minInterval \/ u - t >= minInterval

\* The thread of s has won its turn with c.
Won(s, c) == call[s] # None /\ call[s].client = c /\ call[s].won

\* Every turn that was won, sent or not, is at a distance from every other, and
\* the last of them is lastSent.
Turns(c) ==
    /\ \A i \in Updates(c) : sent[c][i].time <= lastSent[c]
    /\ \A s \in Symbol : Won(s, c) => Quote(s) <= lastSent[c]
    /\ \A i, j \in Updates(c) : i # j => Apart(sent[c][i].time, sent[c][j].time)
    /\ \A i \in Updates(c), s \in Symbol : Won(s, c) => Apart(sent[c][i].time, Quote(s))
    /\ \A s, t \in Symbol : Won(s, c) /\ Won(t, c) /\ s # t => Apart(Quote(s), Quote(t))

SpaceInv ==
    /\ \A s \in Symbol : call[s] # None => Quote(s) - call[s].previous >= minInterval
    /\ \A c \in Client : Turns(c)

\* A turn that was won is newer than the updates of its symbol, a stream that is
\* still in its snapshot has not had any, and what it was sent is not newer than
\* the cache.
Forward(c) ==
    /\ \A i \in Updates(c), s \in Symbol :
        Won(s, c) /\ sent[c][i].symbol = s => sent[c][i].time <= Quote(s)
    /\ pc[c] \in {"snapshot", "rejected"} =>
        Updates(c) = {} /\ \A s \in Symbol : call[s] # None => call[s].client # c
    /\ \A i \in DOMAIN sent[c] :
        sent[c][i].symbol \notin redelivered => sent[c][i].time <= cache[sent[c][i].symbol]

ForwardInv == StreamAdvances /\ \A c \in Client : Forward(c)

----------------------------------------------------------------------------
(* Sequences, inputs and sets of listeners.                                *)

\* A loop over a sequence looks at its head and goes on with its tail.
LEMMA OfTail ==
    ASSUME NEW S, NEW q \in Seq(S), q # <<>>
    PROVE  /\ Of(q) = {Head(q)} \cup Of(Tail(q)) /\ Head(q) \in S
           /\ Tail(q) \in Seq(S) /\ Len(q) \in Nat
           /\ Len(q) = 1 => Of(Tail(q)) = {}
           /\ Len(q) # 1 => Tail(q) # <<>>
<1>1. /\ Len(q) \in Nat /\ Len(q) >= 1 /\ Head(q) = q[1] /\ Head(q) \in S
      /\ Tail(q) \in Seq(S) /\ Len(Tail(q)) = Len(q) - 1
      /\ \A i \in 1 .. Len(q) - 1 : Tail(q)[i] = q[i + 1]
      /\ DOMAIN q = 1 .. Len(q) /\ DOMAIN Tail(q) = 1 .. Len(q) - 1
  <2>1. Len(q) >= 1
    BY EmptySeq
  <2>2. Tail(q) \in Seq(S) /\ Len(Tail(q)) = Len(q) - 1
    BY HeadTailProperties
  <2> QED
    BY <2>1, <2>2, HeadTailProperties
<1>2. Of(q) \subseteq {Head(q)} \cup Of(Tail(q))
  <2> SUFFICES ASSUME NEW i \in 1 .. Len(q), q[i] # Head(q) PROVE q[i] \in Of(Tail(q))
    BY <1>1 DEF Of
  <2>1. i - 1 \in 1 .. Len(q) - 1 /\ (i - 1) + 1 = i
    BY <1>1
  <2>2. Tail(q)[i - 1] = q[i]
    BY <2>1, <1>1
  <2> QED
    BY <2>1, <2>2, <1>1 DEF Of
<1>3. Head(q) \in Of(q)
  BY <1>1 DEF Of
<1>4. Of(Tail(q)) \subseteq Of(q)
  <2> SUFFICES ASSUME NEW i \in 1 .. Len(q) - 1 PROVE Tail(q)[i] \in Of(q)
    BY <1>1 DEF Of
  <2>1. i + 1 \in 1 .. Len(q)
    BY <1>1
  <2> QED
    BY <2>1, <1>1 DEF Of
<1>5. Len(q) = 1 => Of(Tail(q)) = {}
  BY <1>1 DEF Of
<1>6. Len(q) # 1 => Tail(q) # <<>>
  <2>1. Len(q) # 1 => Len(Tail(q)) # 0
    BY <1>1
  <2> QED
    BY <2>1
<1> QED
  BY <1>1, <1>2, <1>3, <1>4, <1>5, <1>6

\* What was asked for and what is in the topic.
LEMMA InputIs ==
    ASSUME NEW n \in Input
    PROVE  /\ n.wanted \in [Client -> Seq(Symbol)]
           /\ n.feed \in [Symbol -> Seq(Nat \ {0})]
           /\ \A s \in Symbol : \A i, j \in 1 .. Len(n.feed[s]) :
                i <= j => n.feed[s][i] <= n.feed[s][j]
<1>1. /\ n.wanted \in [Client -> Seq(Symbol)] /\ n.feed \in [Symbol -> Seq(Nat \ {0})]
      /\ \A s \in Symbol : \A i, j \in DOMAIN n.feed[s] :
                i < j => n.feed[s][i] <= n.feed[s][j]
  BY QuoteAssumption
<1>2. ASSUME NEW s \in Symbol, NEW i \in 1 .. Len(n.feed[s]), NEW j \in 1 .. Len(n.feed[s]),
             i <= j
      PROVE  n.feed[s][i] <= n.feed[s][j]
  <2>1. n.feed[s] \in Seq(Nat \ {0})
    BY <1>1
  <2>2. n.feed[s][i] \in Nat /\ n.feed[s][j] \in Nat /\ DOMAIN n.feed[s] = 1 .. Len(n.feed[s])
    BY <2>1
  <2>3. i < j => n.feed[s][i] <= n.feed[s][j]
    BY <1>1, <2>2
  <2> QED
    BY <2>2, <2>3, <1>2
<1> QED
  BY <1>1, <1>2

LEMMA QuoteIs ==
    ASSUME Types, NEW s \in Symbol, pos[s] <= Len(input.feed[s])
    PROVE  Quote(s) \in Nat /\ Quote(s) # 0 /\ pos[s] \in 1 .. Len(input.feed[s])
<1>1. input.feed[s] \in Seq(Nat \ {0}) /\ pos[s] \in Nat \ {0}
  BY InputIs DEF Types
<1>2. pos[s] \in 1 .. Len(input.feed[s])
  BY <1>1
<1> QED
  BY <1>1, <1>2 DEF Quote

\* One set of listeners changes.
LEMMA SetsPut ==
    ASSUME NEW S \in [Replica -> [Symbol -> Seq(SUBSET Client)]], NEW r \in Replica,
           NEW s \in Symbol, NEW g \in 1 .. Len(S[r][s]), NEW X \in SUBSET Client,
           NEW T, T = [S EXCEPT ![r][s][g] = X]
    PROVE  /\ T \in [Replica -> [Symbol -> Seq(SUBSET Client)]]
           /\ \A q \in Replica, t \in Symbol : Len(T[q][t]) = Len(S[q][t])
           /\ \A q \in Replica, t \in Symbol : \A h \in 1 .. Len(S[q][t]) :
                T[q][t][h] = IF q = r /\ t = s /\ h = g THEN X ELSE S[q][t][h]
<1> DEFINE L == [S[r][s] EXCEPT ![g] = X]
<1>1. S[r][s] \in Seq(SUBSET Client)
  OBVIOUS
<1>2. /\ L \in Seq(SUBSET Client) /\ Len(L) = Len(S[r][s])
      /\ \A h \in 1 .. Len(S[r][s]) : L[h] = IF h = g THEN X ELSE S[r][s][h]
  BY <1>1, ExceptSeq
<1>3. T = [S EXCEPT ![r] = [S[r] EXCEPT ![s] = L]]
  OBVIOUS
<1> HIDE DEF L
<1>4. \A q \in Replica, t \in Symbol : T[q][t] = IF q = r /\ t = s THEN L ELSE S[q][t]
  BY <1>3
<1>5. T \in [Replica -> [Symbol -> Seq(SUBSET Client)]]
  BY <1>2, <1>3
<1> QED
  BY <1>2, <1>4, <1>5

\* A set of listeners is made, without any yet.
LEMMA SetsMake ==
    ASSUME NEW S \in [Replica -> [Symbol -> Seq(SUBSET Client)]], NEW r \in Replica,
           NEW s \in Symbol, NEW T, T = [S EXCEPT ![r][s] = Append(S[r][s], {})]
    PROVE  /\ T \in [Replica -> [Symbol -> Seq(SUBSET Client)]]
           /\ \A q \in Replica, t \in Symbol :
                Len(T[q][t]) = IF q = r /\ t = s THEN Len(S[r][s]) + 1 ELSE Len(S[q][t])
           /\ \A q \in Replica, t \in Symbol : \A h \in 1 .. Len(S[q][t]) :
                T[q][t][h] = S[q][t][h]
           /\ T[r][s][Len(S[r][s]) + 1] = {}
<1> DEFINE L == Append(S[r][s], {})
<1>1. S[r][s] \in Seq(SUBSET Client)
  OBVIOUS
<1>2. /\ L \in Seq(SUBSET Client) /\ Len(L) = Len(S[r][s]) + 1 /\ L[Len(S[r][s]) + 1] = {}
      /\ \A h \in 1 .. Len(S[r][s]) : L[h] = S[r][s][h]
  BY <1>1
<1>3. T = [S EXCEPT ![r] = [S[r] EXCEPT ![s] = L]]
  OBVIOUS
<1> HIDE DEF L
<1>4. \A q \in Replica, t \in Symbol : T[q][t] = IF q = r /\ t = s THEN L ELSE S[q][t]
  <2>1. \A q \in Replica : T[q] = IF q = r THEN [S[r] EXCEPT ![s] = L] ELSE S[q]
    BY <1>3
  <2>2. \A t \in Symbol : [S[r] EXCEPT ![s] = L][t] = IF t = s THEN L ELSE S[r][t]
    OBVIOUS
  <2> QED
    BY <2>1, <2>2
<1>5. T \in [Replica -> [Symbol -> Seq(SUBSET Client)]]
  BY <1>2, <1>3
<1> QED
  BY <1>2, <1>4, <1>5

----------------------------------------------------------------------------
(* Types.                                                                  *)

LEMMA TypesInit == Init => Types
<1> SUFFICES ASSUME Init PROVE Types
  OBVIOUS
<1>1. /\ input \in Input /\ owner \in [Symbol -> Replica] /\ at \in [Client -> Replica]
      /\ todo = [c \in Client |-> input.wanted[c]]
  BY DEF Init
<1>2. todo \in [Client -> Seq(Symbol)]
  BY <1>1, InputIs
<1>3. pc \in [Client -> Stage] /\ step \in [Symbol -> {"poll", "put", "publish"}]
  BY DEF Init, Stage
<1>4. /\ pos \in [Symbol -> Nat \ {0}] /\ committed \in [Symbol -> Nat \ {0}]
      /\ found \in [Symbol -> Nat] /\ cache \in [Symbol -> Nat]
      /\ held \in [Client -> Nat] /\ lastSent \in [Client -> Nat]
      /\ mapped \in [Replica -> [Symbol -> Nat]]
  BY DEF Init
<1>5. call \in [Symbol -> Call \cup {None}]
  BY DEF Init
<1>6. /\ sent \in [Client -> Seq(Message)]
      /\ sets \in [Replica -> [Symbol -> Seq(SUBSET Client)]]
  BY DEF Init
<1> QED
  BY <1>1, <1>2, <1>3, <1>4, <1>5, <1>6 DEF Types

\* What a stream is sent is appended.
LEMMA SentType ==
    ASSUME Types, NEW s \in Symbol, NEW c \in Client, NEW t \in Nat, NEW u \in BOOLEAN,
           sent' = [sent EXCEPT ![c] = Append(@, Sending(s, t, u))]
    PROVE  sent' \in [Client -> Seq(Message)]
<1>1. Sending(s, t, u) \in Message
  BY DEF Sending, Message
<1>2. sent[c] \in Seq(Message)
  BY DEF Types
<1>3. Append(sent[c], Sending(s, t, u)) \in Seq(Message)
  BY <1>1, <1>2
<1> QED
  BY <1>3 DEF Types

LEMMA AdvanceTypes ==
    ASSUME Types, NEW s \in Symbol, Advance(s)
    PROVE  /\ step' \in [Symbol -> {"poll", "put", "publish"}]
           /\ pos' \in [Symbol -> Nat \ {0}]
           /\ owner' = owner /\ committed' = committed /\ redelivered' = redelivered
<1>1. pos[s] + 1 \in Nat \ {0}
  BY DEF Types
<1> QED
  BY <1>1 DEF Advance, Types

LEMMA TypesThread ==
    ASSUME Types, ThreadInv, NEW s \in Symbol, Thread(s)
    PROVE  Types'
<1>0. input' = input
  BY DEF Thread
<1>1. CASE Put(s)
  <2>0. UNCHANGED <<found, call, mapped, sets, at, pc, todo, held, lastSent, sent>>
    BY <1>1 DEF Put, mapVars, streamVars
  <2>1. CASE /\ cache' = [cache EXCEPT ![s] = Quote(s)]
             /\ step' = [step EXCEPT ![s] = "put"] /\ UNCHANGED topicVars
    <3>1. Quote(s) \in Nat
      BY <1>1, QuoteIs DEF Put
    <3>2. cache' \in [Symbol -> Nat] /\ step' \in [Symbol -> {"poll", "put", "publish"}]
      BY <3>1, <2>1 DEF Types
    <3> QED
      BY <2>0, <2>1, <3>2, <1>0 DEF Types, topicVars
  <2>2. CASE Advance(s) /\ cache' \in {cache, [cache EXCEPT ![s] = Quote(s)]}
    <3>1. Quote(s) \in Nat
      BY <1>1, QuoteIs DEF Put
    <3>2. cache' \in [Symbol -> Nat]
      BY <3>1, <2>2 DEF Types
    <3> QED
      BY <2>0, <2>2, <3>2, <1>0, AdvanceTypes DEF Types
  <2> QED
    BY <1>1, <2>1, <2>2 DEF Put
<1>2. CASE Publish(s)
  <2>0. UNCHANGED <<topicVars, call, cache, mapped, sets, at, pc, todo, held, lastSent, sent>>
    BY <1>2 DEF Publish, mapVars, streamVars
  <2>1. mapped[owner[s]][s] \in Nat
    BY DEF Types
  <2>2. found' \in [Symbol -> Nat] /\ step' \in [Symbol -> {"poll", "put", "publish"}]
    BY <2>1, <1>2 DEF Types, Publish
  <2> QED
    BY <2>0, <2>2, <1>0 DEF Types, topicVars
<1>3. ASSUME NEW c \in Client, Offer(s, c) PROVE Types'
  <2>0. UNCHANGED <<topicVars, step, found, cache, mapped, sets, at, pc, todo, held, lastSent,
                    sent>>
    BY <1>3 DEF Offer, mapVars, streamVars
  <2>1. [client |-> c, previous |-> lastSent[c], won |-> FALSE] \in Call
    BY DEF Call, Types
  <2>2. \/ call' = call
        \/ call' = [call EXCEPT ![s] = [client |-> c, previous |-> lastSent[c], won |-> FALSE]]
    BY <1>3 DEF Offer
  <2>3. call' \in [Symbol -> Call \cup {None}]
    BY <2>1, <2>2 DEF Types
  <2> QED
    BY <2>0, <2>3, <1>0 DEF Types, topicVars
<1>4. CASE CompareAndSet(s)
  <2>0. UNCHANGED <<topicVars, step, found, cache, mapped, sets, at, pc, todo, held, sent>>
    BY <1>4 DEF CompareAndSet, mapVars
  <2>1. call[s] # None /\ call[s] \in Call
    BY <1>4 DEF CompareAndSet, Types
  <2>2. Quote(s) \in Nat
    <3>1. pos[s] <= Len(input.feed[s])
      BY <2>1 DEF ThreadInv, Handled
    <3> QED
      BY <3>1, QuoteIs
  <2>3. call[s].client \in Client
    BY <2>1 DEF Call
  <2>4. lastSent' \in [Client -> Nat]
    BY <2>2, <2>3, <1>4 DEF CompareAndSet, Types
  <2>5. [call[s] EXCEPT !.won = TRUE] \in Call
    BY <2>1 DEF Call
  <2>6. call' \in [Symbol -> Call \cup {None}]
    <3>1. \/ call' = [call EXCEPT ![s] = [call[s] EXCEPT !.won = TRUE]]
          \/ call' = [call EXCEPT ![s] = None]
      BY <1>4 DEF CompareAndSet
    <3> QED
      BY <3>1, <2>5 DEF Types
  <2> QED
    BY <2>0, <2>4, <2>6, <1>0 DEF Types, topicVars
<1>5. CASE OnNext(s)
  <2>0. UNCHANGED <<topicVars, step, found, cache, mapped, sets, at, pc, todo, held, lastSent>>
    BY <1>5 DEF OnNext, mapVars
  <2>1. call[s] # None /\ call[s] \in Call
    BY <1>5 DEF OnNext, Types
  <2>2. Quote(s) \in Nat
    <3>1. pos[s] <= Len(input.feed[s])
      BY <2>1 DEF ThreadInv, Handled
    <3> QED
      BY <3>1, QuoteIs
  <2>3. call[s].client \in Client
    BY <2>1 DEF Call
  <2>4. sent' \in [Client -> Seq(Message)]
    <3>1. CASE sent' = sent
      BY <3>1 DEF Types
    <3>2. CASE sent' = [sent EXCEPT ![call[s].client] = Append(@, Sending(s, Quote(s), TRUE))]
      BY <3>2, <2>2, <2>3, SentType
    <3> QED
      BY <3>1, <3>2, <1>5 DEF OnNext
  <2>5. call' \in [Symbol -> Call \cup {None}]
    BY <1>5 DEF OnNext, Types
  <2> QED
    BY <2>0, <2>4, <2>5, <1>0 DEF Types, topicVars
<1>6. CASE Published(s)
  <2>0. UNCHANGED <<call, cache, mapped, sets, at, pc, todo, held, lastSent, sent>>
    BY <1>6 DEF Published, mapVars, streamVars
  <2>1. found' \in [Symbol -> Nat] /\ Advance(s)
    BY <1>6 DEF Published, Types
  <2> QED
    BY <2>0, <2>1, <1>0, AdvanceTypes DEF Types
<1> QED
  BY <1>1, <1>2, <1>3, <1>4, <1>5, <1>6 DEF Thread

LEMMA TypesRebalance ==
    ASSUME Types, NEW s \in Symbol, NEW r \in Replica, Rebalance(s, r), UNCHANGED input
    PROVE  Types'
<1>0. UNCHANGED <<step, found, call, cache, mapped, sets, at, pc, todo, held, lastSent, sent>>
  BY DEF Rebalance, threadVars, mapVars, streamVars
<1>1. PICK o \in committed[s] .. pos[s] :
        committed' = [committed EXCEPT ![s] = o] /\ pos' = [pos EXCEPT ![s] = o]
  BY DEF Rebalance
<1>2. o \in Nat \ {0}
  <2>1. committed[s] \in Nat \ {0} /\ pos[s] \in Nat \ {0}
    BY DEF Types
  <2> QED
    BY <2>1
<1>3. pos' \in [Symbol -> Nat \ {0}] /\ committed' \in [Symbol -> Nat \ {0}]
  BY <1>1, <1>2 DEF Types
<1>4. owner' \in [Symbol -> Replica]
  BY DEF Rebalance, Types
<1> QED
  BY <1>0, <1>3, <1>4 DEF Types

LEMMA GotoIs ==
    ASSUME Types, NEW c \in Client, NEW p \in Stage, NEW q \in Seq(Symbol), Goto(c, p, q)
    PROVE  /\ pc' \in [Client -> Stage] /\ todo' \in [Client -> Seq(Symbol)]
           /\ pc'[c] = p /\ todo'[c] = q
           /\ \A d \in Client : d # c => pc'[d] = pc[d] /\ todo'[d] = todo[d]
BY DEF Goto, Types

\* A loop that is not at its end.
LEMMA LoopIs ==
    ASSUME Types, ListenInv, NEW c \in Client,
           pc[c] \in {"snapshot", "subscribing", "closing"}
    PROVE  /\ todo[c] \in Seq(Symbol) /\ todo[c] # <<>>
           /\ Head(todo[c]) \in Symbol /\ Tail(todo[c]) \in Seq(Symbol)
           /\ input.wanted[c] \in Seq(Symbol)
           /\ Of(todo[c]) = {Head(todo[c])} \cup Of(Tail(todo[c]))
           /\ Len(todo[c]) = 1 => Of(Tail(todo[c])) = {}
           /\ Len(todo[c]) # 1 => Tail(todo[c]) # <<>>
           /\ at[c] \in Replica
<1>1. todo[c] \in Seq(Symbol) /\ todo[c] # <<>> /\ at[c] \in Replica
  BY DEF Types, ListenInv, Loop
<1>2. input.wanted[c] \in Seq(Symbol)
  BY InputIs DEF Types
<1> QED
  BY <1>1, <1>2, OfTail

\* The end of a loop of close, or its next symbol.
LEMMA CloseNextIs ==
    ASSUME Types, ListenInv, NEW c \in Client, pc[c] = "closing", CloseNext(c)
    PROVE  /\ pc' \in [Client -> Stage] /\ todo' \in [Client -> Seq(Symbol)]
           /\ \A d \in Client : d # c => pc'[d] = pc[d] /\ todo'[d] = todo[d]
           /\ \/ /\ Len(todo[c]) = 1 /\ pc'[c] = "closed" /\ todo'[c] = <<>>
                 /\ subscriberCount' = [subscriberCount EXCEPT ![at[c]] = @ - 1]
              \/ /\ Len(todo[c]) # 1 /\ pc'[c] = "closing" /\ todo'[c] = Tail(todo[c])
                 /\ subscriberCount' = subscriberCount
<1>1. "closed" \in Stage /\ "closing" \in Stage /\ <<>> \in Seq(Symbol)
  BY DEF Stage
<1>2. Tail(todo[c]) \in Seq(Symbol)
  BY LoopIs
<1>3. CASE Len(todo[c]) = 1
  <2>1. /\ Goto(c, "closed", <<>>)
        /\ subscriberCount' = [subscriberCount EXCEPT ![at[c]] = @ - 1]
    BY <1>3 DEF CloseNext
  <2> QED
    BY <2>1, <1>1, <1>3, GotoIs
<1>4. CASE Len(todo[c]) # 1
  <2>1. Goto(c, "closing", Tail(todo[c])) /\ subscriberCount' = subscriberCount
    BY <1>4 DEF CloseNext
  <2> QED
    BY <2>1, <1>1, <1>2, <1>4, GotoIs
<1> QED
  BY <1>3, <1>4

\* The set of listeners that a stream adds itself to.
LEMMA HeldIs ==
    ASSUME Types, ListenInv, NEW c \in Client, pc[c] = "subscribing", held[c] # 0
    PROVE  held[c] \in 1 .. Len(sets[at[c]][Head(todo[c])])
<1>1. held[c] \in Nat /\ held[c] <= Len(sets[at[c]][Head(todo[c])])
  BY DEF Types, ListenInv, Loop
<1>2. Head(todo[c]) \in Symbol /\ at[c] \in Replica
  BY LoopIs
<1>3. Len(sets[at[c]][Head(todo[c])]) \in Nat
  BY <1>2 DEF Types
<1> QED
  BY <1>1, <1>3

\* The set of listeners in the map.
LEMMA MappedIs ==
    ASSUME Types, ListenInv, NEW r \in Replica, NEW s \in Symbol
    PROVE  /\ Len(sets[r][s]) \in Nat /\ mapped[r][s] \in Nat
           /\ mapped[r][s] # 0 => mapped[r][s] \in 1 .. Len(sets[r][s])
           /\ \A g \in 1 .. Len(sets[r][s]) : sets[r][s][g] \in SUBSET Client
           /\ Reachable(r, s) \subseteq Client
<1>1. sets[r][s] \in Seq(SUBSET Client) /\ mapped[r][s] \in Nat
  BY DEF Types
<1>2. mapped[r][s] <= Len(sets[r][s]) /\ Len(sets[r][s]) \in Nat
  BY <1>1 DEF ListenInv
<1>3. mapped[r][s] # 0 => mapped[r][s] \in 1 .. Len(sets[r][s])
  BY <1>1, <1>2
<1>4. \A g \in 1 .. Len(sets[r][s]) : sets[r][s][g] \in SUBSET Client
  BY <1>1
<1> QED
  BY <1>1, <1>2, <1>3, <1>4 DEF Reachable, Members

LEMMA TypesStream ==
    ASSUME Types, ListenInv, NEW c \in Client, Stream(c)
    PROVE  Types'
<1>0. input' = input
  BY DEF Stream
<1> DEFINE r == at[c]
           s == Head(todo[c])
<1>a. "live" \in Stage /\ "subscribing" \in Stage /\ "snapshot" \in Stage
      /\ "closing" \in Stage /\ <<>> \in Seq(Symbol)
  BY DEF Stage
<1>1. CASE Snapshot(c)
  <2>0. UNCHANGED <<topicVars, step, found, call, cache, mapped, sets, at, held, lastSent>>
    BY <1>1 DEF Snapshot, threadVars, mapVars
  <2>1. pc[c] = "snapshot"
    BY <1>1 DEF Snapshot
  <2>2. s \in Symbol /\ input.wanted[c] \in Seq(Symbol) /\ Tail(todo[c]) \in Seq(Symbol)
    BY <2>1, LoopIs
  <2>3. Goto(c, "subscribing", input.wanted[c]) \/ Goto(c, "snapshot", Tail(todo[c]))
    BY <1>1 DEF Snapshot
  <2>4. pc' \in [Client -> Stage] /\ todo' \in [Client -> Seq(Symbol)]
    BY <2>2, <2>3, <1>a, GotoIs
  <2>5. \/ sent' = sent
        \/ sent' = [sent EXCEPT ![c] = Append(@, Sending(s, cache[s], FALSE))]
    BY <1>1 DEF Snapshot
  <2>6. cache[s] \in Nat
    BY <2>2 DEF Types
  <2>7. sent' \in [Client -> Seq(Message)]
    <3>1. CASE sent' = sent
      BY <3>1 DEF Types
    <3>2. CASE sent' = [sent EXCEPT ![c] = Append(@, Sending(s, cache[s], FALSE))]
      BY <3>2, <2>2, <2>6, SentType
    <3> QED
      BY <3>1, <3>2, <2>5
  <2> QED
    BY <2>0, <2>4, <2>7, <1>0 DEF Types, topicVars
<1>2. CASE Obtain(c)
  <2>0. UNCHANGED <<topicVars, step, found, call, cache, at, pc, todo, lastSent, sent>>
    BY <1>2 DEF Obtain, threadVars
  <2>1. r \in Replica /\ s \in Symbol
    BY <1>2, LoopIs DEF Obtain
  <2>2. mapped' \in [Replica -> [Symbol -> Nat]]
        /\ sets' \in [Replica -> [Symbol -> Seq(SUBSET Client)]]
    <3>1. CASE mapped[r][s] = 0
      <4>1. /\ sets' = [sets EXCEPT ![r][s] = Append(sets[r][s], {})]
            /\ mapped' = [mapped EXCEPT ![r][s] = Len(sets[r][s]) + 1]
        BY <1>2, <3>1 DEF Obtain
      <4>2. Len(sets[r][s]) + 1 \in Nat
        BY <2>1, MappedIs
      <4> HIDE DEF r, s
      <4>3. sets' \in [Replica -> [Symbol -> Seq(SUBSET Client)]]
        BY <4>1, <2>1, SetsMake DEF Types
      <4>4. mapped' \in [Replica -> [Symbol -> Nat]]
        BY <4>1, <4>2, <2>1 DEF Types
      <4> QED
        BY <4>3, <4>4
    <3>2. CASE mapped[r][s] # 0
      BY <1>2, <3>2 DEF Obtain, Types
    <3> QED
      BY <3>1, <3>2
  <2>3. held' \in [Client -> Nat]
    <3>1. held' = [held EXCEPT ![c] = mapped'[r][s]]
      BY <1>2 DEF Obtain
    <3>2. mapped'[r][s] \in Nat
      BY <2>1, <2>2
    <3> HIDE DEF r, s
    <3> QED
      BY <3>1, <3>2 DEF Types
  <2> QED
    BY <2>0, <2>2, <2>3, <1>0 DEF Types, topicVars
<1>3. CASE Add(c)
  <2>0. UNCHANGED <<topicVars, step, found, call, cache, mapped, at, lastSent, sent>>
    BY <1>3 DEF Add, threadVars
  <2>1. pc[c] = "subscribing" /\ held[c] # 0
    BY <1>3 DEF Add
  <2>2. r \in Replica /\ s \in Symbol /\ Tail(todo[c]) \in Seq(Symbol)
    BY <2>1, LoopIs
  <2>3. held[c] \in 1 .. Len(sets[r][s])
    BY <2>1, HeldIs
  <2>4. sets' = [sets EXCEPT ![r][s][held[c]] = sets[r][s][held[c]] \cup {c}]
    BY <1>3 DEF Add
  <2>5. Goto(c, "live", <<>>) \/ Goto(c, "subscribing", Tail(todo[c]))
    BY <1>3 DEF Add
  <2>6. pc' \in [Client -> Stage] /\ todo' \in [Client -> Seq(Symbol)]
    BY <2>2, <2>5, <1>a, GotoIs
  <2>7. held' \in [Client -> Nat]
    BY <1>3 DEF Add, Types
  <2> HIDE DEF r, s
  <2>8. sets[r][s][held[c]] \cup {c} \in SUBSET Client
    BY <2>2, <2>3, MappedIs
  <2>9. sets' \in [Replica -> [Symbol -> Seq(SUBSET Client)]]
    <3> DEFINE X == sets[r][s][held[c]] \cup {c}
               g == held[c]
    <3>1. /\ X \in SUBSET Client /\ g \in 1 .. Len(sets[r][s])
          /\ sets' = [sets EXCEPT ![r][s][g] = X]
          /\ sets \in [Replica -> [Symbol -> Seq(SUBSET Client)]]
      BY <2>3, <2>4, <2>8 DEF Types
    <3> HIDE DEF X, g
    <3> QED
      BY <3>1, <2>2, SetsPut
  <2> QED
    BY <2>0, <2>6, <2>7, <2>9, <1>0 DEF Types, topicVars
<1>4. CASE Cancel(c)
  <2>0. UNCHANGED <<topicVars, step, found, call, cache, mapped, sets, at, held, lastSent, sent>>
    BY <1>4 DEF Cancel, threadVars, mapVars
  <2>1. input.wanted[c] \in Seq(Symbol)
    BY InputIs DEF Types
  <2>2. pc' \in [Client -> Stage] /\ todo' \in [Client -> Seq(Symbol)]
    BY <2>1, <1>4, <1>a, GotoIs DEF Cancel
  <2> QED
    BY <2>0, <2>2, <1>0 DEF Types, topicVars
<1>5. CASE Remove(c)
  <2>0. UNCHANGED <<topicVars, step, found, call, cache, mapped, at, lastSent, sent>>
    BY <1>5 DEF Remove, threadVars
  <2>1. pc[c] = "closing" /\ r \in Replica /\ s \in Symbol
    BY <1>5, LoopIs DEF Remove
  <2>2. CASE mapped[r][s] = 0
    <3>1. CloseNext(c) /\ UNCHANGED <<sets, held>>
      BY <2>2, <1>5 DEF Remove
    <3>2. pc' \in [Client -> Stage] /\ todo' \in [Client -> Seq(Symbol)]
      BY <2>1, <3>1, CloseNextIs
    <3> QED
      BY <2>0, <3>1, <3>2, <1>0 DEF Types, topicVars
  <2>3. CASE mapped[r][s] # 0
    <3>1. /\ sets' = [sets EXCEPT ![r][s][mapped[r][s]] = sets[r][s][mapped[r][s]] \ {c}]
          /\ held' = [held EXCEPT ![c] = mapped[r][s]]
          /\ UNCHANGED <<pc, todo>>
      BY <2>3, <1>5 DEF Remove
    <3> HIDE DEF r, s
    <3>2. /\ mapped[r][s] \in 1 .. Len(sets[r][s]) /\ mapped[r][s] \in Nat
          /\ sets[r][s][mapped[r][s]] \ {c} \in SUBSET Client
      BY <2>1, <2>3, MappedIs
    <3>3. held' \in [Client -> Nat]
      BY <3>1, <3>2 DEF Types
    <3>4. sets' \in [Replica -> [Symbol -> Seq(SUBSET Client)]]
      BY <2>1, <3>1, <3>2, SetsPut DEF Types
    <3> QED
      BY <2>0, <3>1, <3>3, <3>4, <1>0 DEF Types, topicVars
  <2> QED
    BY <2>2, <2>3
<1>6. CASE Prune(c)
  <2>0. UNCHANGED <<topicVars, step, found, call, cache, sets, at, lastSent, sent>>
    BY <1>6 DEF Prune, threadVars
  <2>1. pc[c] = "closing" /\ r \in Replica /\ s \in Symbol
    BY <1>6, LoopIs DEF Prune
  <2>2. mapped' = mapped \/ mapped' = [mapped EXCEPT ![r][s] = 0]
    BY <1>6 DEF Prune
  <2>3. held' \in [Client -> Nat]
    BY <1>6 DEF Prune, Types
  <2>4. pc' \in [Client -> Stage] /\ todo' \in [Client -> Seq(Symbol)]
    BY <2>1, <1>6, CloseNextIs DEF Prune
  <2> HIDE DEF r, s
  <2>5. mapped' \in [Replica -> [Symbol -> Nat]]
    <3>1. mapped \in [Replica -> [Symbol -> Nat]] /\ [mapped[r] EXCEPT ![s] = 0] \in [Symbol -> Nat]
      BY <2>1 DEF Types
    <3>2. \/ mapped' = mapped
          \/ mapped' = [mapped EXCEPT ![r] = [mapped[r] EXCEPT ![s] = 0]]
      BY <2>2
    <3> QED
      BY <3>1, <3>2
  <2> QED
    BY <2>0, <2>3, <2>4, <2>5, <1>0 DEF Types, topicVars
<1> QED
  BY <1>1, <1>2, <1>3, <1>4, <1>5, <1>6 DEF Stream

----------------------------------------------------------------------------
(* The partitions' threads.                                                *)

LEMMA ThreadsInit == Init => ThreadInv
<1> SUFFICES ASSUME Init, NEW s \in Symbol PROVE Handled(s) /\ Newest(s)
  BY DEF ThreadInv
<1>1. step[s] = "poll" /\ call[s] = None /\ cache[s] = 0 /\ pos[s] = 1 /\ input \in Input
  BY DEF Init
<1>2. input.feed[s] \in Seq(Nat \ {0})
  BY <1>1, InputIs
<1>3. \A k \in 1 .. Len(input.feed[s]) : 0 <= input.feed[s][k]
  BY <1>2
<1> QED
  BY <1>1, <1>3 DEF Handled, Newest

\* A thread changes what is its symbol's.
LEMMA ThreadOne ==
    ASSUME ThreadInv, NEW s \in Symbol, input' = input,
           \A t \in Symbol : t # s =>
                /\ step'[t] = step[t] /\ pos'[t] = pos[t] /\ cache'[t] = cache[t]
                /\ call'[t] = call[t] /\ (t \in redelivered' <=> t \in redelivered),
           Handled(s)', Newest(s)'
    PROVE  ThreadInv'
<1> SUFFICES ASSUME NEW t \in Symbol PROVE Handled(t)' /\ Newest(t)'
  BY DEF ThreadInv
<1>1. CASE t # s
  <2>1. /\ step'[t] = step[t] /\ pos'[t] = pos[t] /\ cache'[t] = cache[t]
        /\ call'[t] = call[t] /\ (t \in redelivered' <=> t \in redelivered)
    BY <1>1
  <2>2. Handled(t) /\ Newest(t)
    BY DEF ThreadInv
  <2>3. Handled(t)'
    BY <2>1, <2>2 DEF Handled, Quote
  <2>4. Newest(t)'
    BY <2>1, <2>2 DEF Newest
  <2> QED
    BY <2>3, <2>4
<1> QED
  BY <1>1

\* What is to come is not older than the record at hand.
LEMMA QuoteOldest ==
    ASSUME Types, NEW s \in Symbol, pos[s] <= Len(input.feed[s])
    PROVE  \A k \in pos[s] .. Len(input.feed[s]) : Quote(s) <= input.feed[s][k]
<1> SUFFICES ASSUME NEW k \in pos[s] .. Len(input.feed[s])
             PROVE  Quote(s) <= input.feed[s][k]
  OBVIOUS
<1>1. pos[s] \in 1 .. Len(input.feed[s])
  BY QuoteIs
<1>2. k \in 1 .. Len(input.feed[s]) /\ pos[s] <= k
  BY <1>1
<1> QED
  BY <1>1, <1>2, InputIs DEF Types, Quote

\* The record is done with, in the cache or not: what is to come is not older.
LEMMA AdvanceThread ==
    ASSUME Types, ThreadInv, NEW s \in Symbol, input' = input, Advance(s), call[s] = None,
           call' = call,
           \/ cache' = cache
           \/ pos[s] <= Len(input.feed[s]) /\ cache' = [cache EXCEPT ![s] = Quote(s)]
    PROVE  ThreadInv'
<1>0. /\ \A t \in Symbol : t # s => cache'[t] = cache[t]
      /\ \/ cache'[s] = cache[s]
         \/ pos[s] <= Len(input.feed[s]) /\ cache'[s] = Quote(s)
  BY DEF Types
<1>1. /\ step'[s] = "poll" /\ pos'[s] = pos[s] + 1 /\ redelivered' = redelivered
      /\ \A t \in Symbol : t # s => step'[t] = step[t] /\ pos'[t] = pos[t]
  BY DEF Advance, Types
<1>2. Handled(s)'
  BY <1>1 DEF Handled
<1>3. Newest(s)'
  <2>1. pos[s] \in Nat /\ Len(input.feed[s]) \in Nat
    BY InputIs DEF Types
  <2>2. \A k \in pos[s] + 1 .. Len(input.feed[s]) : k \in pos[s] .. Len(input.feed[s])
    BY <2>1
  <2>3. CASE cache'[s] = cache[s]
    BY <2>2, <2>3, <1>1 DEF Newest, ThreadInv
  <2>4. CASE pos[s] <= Len(input.feed[s]) /\ cache'[s] = Quote(s)
    <3>1. \A k \in pos[s] .. Len(input.feed[s]) : cache'[s] <= input.feed[s][k]
      BY <2>4, QuoteOldest
    <3> QED
      BY <3>1, <2>2, <1>1 DEF Newest
  <2> QED
    BY <2>3, <2>4, <1>0
<1> QED
  BY <1>0, <1>1, <1>2, <1>3, ThreadOne

LEMMA ThreadsThread ==
    ASSUME Types, ThreadInv, NEW s \in Symbol, Thread(s)
    PROVE  ThreadInv'
<1>0. input' = input /\ Handled(s) /\ Newest(s)
  BY DEF Thread, ThreadInv
<1>1. CASE Put(s)
  <2>0. step[s] = "poll" /\ pos[s] <= Len(input.feed[s]) /\ call' = call
    BY <1>1 DEF Put
  <2>a. call[s] = None
    BY <2>0, <1>0 DEF Handled
  <2>1. CASE /\ cache' = [cache EXCEPT ![s] = Quote(s)]
             /\ step' = [step EXCEPT ![s] = "put"] /\ UNCHANGED topicVars
    <3>1. /\ cache'[s] = Quote(s) /\ step'[s] = "put" /\ pos' = pos
          /\ redelivered' = redelivered
          /\ \A t \in Symbol : t # s => step'[t] = step[t] /\ cache'[t] = cache[t]
      BY <2>1 DEF Types, topicVars
    <3>2. Handled(s)'
      BY <3>1, <2>0, <2>a, <1>0 DEF Handled, Quote
    <3>3. Newest(s)'
      <4>1. \A k \in pos[s] .. Len(input.feed[s]) : Quote(s) <= input.feed[s][k]
        BY <2>0, QuoteOldest
      <4> QED
        BY <4>1, <3>1, <1>0 DEF Newest
    <3> QED
      BY <3>1, <3>2, <3>3, <2>0, <1>0, ThreadOne
  <2>2. CASE Advance(s) /\ cache' \in {cache, [cache EXCEPT ![s] = Quote(s)]}
    BY <2>0, <2>a, <2>2, <1>0, AdvanceThread
  <2> QED
    BY <1>1, <2>1, <2>2 DEF Put
<1>2. CASE Publish(s)
  <2>1. /\ step[s] = "put" /\ step'[s] = "publish" /\ call' = call /\ cache' = cache
        /\ pos' = pos /\ redelivered' = redelivered
        /\ \A t \in Symbol : t # s => step'[t] = step[t]
    BY <1>2 DEF Publish, topicVars, Types
  <2>2. Handled(s)'
    BY <2>1, <1>0 DEF Handled, Quote
  <2>3. Newest(s)'
    BY <2>1, <1>0 DEF Newest
  <2> QED
    BY <2>1, <2>2, <2>3, <1>0, ThreadOne
<1>3. CASE /\ UNCHANGED <<step, topicVars, cache>> /\ step[s] = "publish"
           /\ \A t \in Symbol : t # s => call'[t] = call[t]
  <2>1. pos' = pos /\ redelivered' = redelivered /\ step' = step /\ cache' = cache
    BY <1>3 DEF topicVars
  <2>2. Handled(s)'
    BY <2>1, <1>0, <1>3 DEF Handled, Quote
  <2>3. Newest(s)'
    BY <2>1, <1>0 DEF Newest
  <2> QED
    BY <2>1, <2>2, <2>3, <1>0, <1>3, ThreadOne
<1>4. ASSUME NEW c \in Client, Offer(s, c) PROVE ThreadInv'
  <2>1. UNCHANGED <<step, topicVars, cache>> /\ step[s] = "publish"
    BY <1>4 DEF Offer
  <2>2. \A t \in Symbol : t # s => call'[t] = call[t]
    BY <1>4 DEF Offer, Types
  <2> QED
    BY <2>1, <2>2, <1>3
<1>5. CASE CompareAndSet(s) \/ OnNext(s)
  <2>1. UNCHANGED <<step, topicVars, cache>> /\ call[s] # None
    BY <1>5 DEF CompareAndSet, OnNext
  <2>2. \A t \in Symbol : t # s => call'[t] = call[t]
    BY <1>5 DEF CompareAndSet, OnNext, Types
  <2> QED
    BY <2>1, <2>2, <1>0, <1>3 DEF Handled
<1>6. CASE Published(s)
  BY <1>0, <1>6, AdvanceThread DEF Published
<1> QED
  BY <1>1, <1>2, <1>4, <1>5, <1>6 DEF Thread

LEMMA ThreadsRebalance ==
    ASSUME Types, ThreadInv, NEW s \in Symbol, NEW r \in Replica, Rebalance(s, r),
           UNCHANGED input
    PROVE  ThreadInv'
<1>0. step[s] = "poll" /\ UNCHANGED <<step, call, cache>> /\ Handled(s) /\ Newest(s)
  BY DEF Rebalance, threadVars, ThreadInv
<1>1. PICK o \in committed[s] .. pos[s] :
        /\ pos' = [pos EXCEPT ![s] = o]
        /\ redelivered' = IF o = pos[s] THEN redelivered ELSE redelivered \cup {s}
  BY DEF Rebalance
<1>2. pos'[s] = o /\ \A t \in Symbol : t # s => pos'[t] = pos[t]
  BY <1>1 DEF Types
<1>3. Handled(s)'
  BY <1>0 DEF Handled
<1>4. Newest(s)'
  BY <1>0, <1>1, <1>2 DEF Newest
<1>5. \A t \in Symbol : t # s => (t \in redelivered' <=> t \in redelivered)
  BY <1>1
<1> QED
  BY <1>0, <1>2, <1>3, <1>4, <1>5, ThreadOne

LEMMA ThreadsStream ==
    ASSUME ThreadInv, NEW c \in Client, Stream(c)
    PROVE  ThreadInv'
<1>1. UNCHANGED <<input, pos, redelivered, step, call, cache>>
  BY DEF Stream, Snapshot, Obtain, Add, Cancel, Remove, Prune, topicVars, threadVars
<1> QED
  BY <1>1 DEF ThreadInv, Handled, Newest, Quote

----------------------------------------------------------------------------
(* The map of listeners.                                                   *)

\* The parts of ListenInv.
FoundOK == \A s \in Symbol : step[s] = "publish" => found[s] <= Len(sets[owner[s]][s])

EntryOK(r, s) ==
    /\ mapped[r][s] <= Len(sets[r][s])
    /\ \A g \in 1 .. Len(sets[r][s]) : \A c \in sets[r][s][g] : Listening(r, s, g, c)
    /\ \A c \in Reachable(r, s) :
        pc[c] # "closed" /\ (pc[c] = "closing" => s \in Left(c))
    /\ mapped[r][s] # 0 => \E c \in Client : Keeps(c, r, s)

LEMMA ListenParts ==
    ListenInv <=> /\ \A c \in Client : Loop(c)
                  /\ FoundOK
                  /\ \A r \in Replica, s \in Symbol : EntryOK(r, s)
BY DEF ListenInv, FoundOK, EntryOK

LEMMA ListenInit == Init => ListenInv
<1> SUFFICES ASSUME Init PROVE ListenInv
  OBVIOUS
<1>1. input \in Input /\ at \in [Client -> Replica]
  BY DEF Init
<1>2. ASSUME NEW c \in Client PROVE Loop(c)
  <2>1. /\ todo[c] = input.wanted[c] /\ held[c] = 0
        /\ pc[c] = IF input.wanted[c] = <<>> THEN "rejected" ELSE "snapshot"
    BY DEF Init
  <2> QED
    BY <2>1 DEF Loop
<1>3. FoundOK
  BY DEF Init, FoundOK
<1>4. ASSUME NEW r \in Replica, NEW s \in Symbol PROVE EntryOK(r, s)
  <2>1. mapped[r][s] = 0 /\ sets[r][s] = <<>>
    BY DEF Init
  <2>2. Len(sets[r][s]) = 0
    BY <2>1
  <2> QED
    BY <2>1, <2>2 DEF EntryOK, Reachable, Members
<1> QED
  BY <1>2, <1>3, <1>4, ListenParts

\* The steps that leave the streams and the map alone.
LEMMA ListenFrame ==
    ASSUME ListenInv, UNCHANGED <<input, at, pc, todo, held, mapped, sets>>, FoundOK'
    PROVE  ListenInv'
BY DEF ListenInv, FoundOK, Loop, Listening, Left, Keeps, Reachable, Members

LEMMA ListenThread ==
    ASSUME Types, ListenInv, NEW s \in Symbol, Thread(s)
    PROVE  ListenInv'
<1>0. FoundOK /\ input' = input
  BY ListenParts DEF Thread
<1>1. UNCHANGED <<at, pc, todo, held, mapped, sets>>
  BY DEF Thread, Put, Publish, Offer, CompareAndSet, OnNext, Published, mapVars, streamVars
<1>2. CASE UNCHANGED <<owner, step, found>>
  <2>1. FoundOK'
    BY <1>0, <1>1, <1>2 DEF FoundOK
  <2> QED
    BY <2>1, <1>0, <1>1, ListenFrame
<1>3. ASSUME UNCHANGED owner,
             \A t \in Symbol : t # s => step'[t] = step[t] /\ found'[t] = found[t],
             step'[s] = "publish" => found'[s] <= Len(sets[owner[s]][s])
      PROVE  ListenInv'
  <2>1. FoundOK'
    BY <1>0, <1>1, <1>3 DEF FoundOK
  <2> QED
    BY <2>1, <1>0, <1>1, ListenFrame
<1>4. CASE Put(s)
  <2>1. owner' = owner /\ found' = found
    BY <1>4 DEF Put, topicVars, Advance
  <2>2. step'[s] # "publish" /\ \A t \in Symbol : t # s => step'[t] = step[t]
    BY <1>4 DEF Put, Advance, Types
  <2> QED
    BY <2>1, <2>2, <1>3
<1>5. CASE Publish(s)
  <2>1. /\ owner' = owner /\ found'[s] = mapped[owner[s]][s]
        /\ \A t \in Symbol : t # s => step'[t] = step[t] /\ found'[t] = found[t]
    BY <1>5 DEF Publish, topicVars, Types
  <2>2. owner[s] \in Replica
    BY DEF Types
  <2>3. mapped[owner[s]][s] <= Len(sets[owner[s]][s])
    BY <2>2 DEF ListenInv
  <2> QED
    BY <2>1, <2>3, <1>3
<1>6. CASE Published(s)
  <2>1. /\ owner' = owner /\ step'[s] = "poll"
        /\ \A t \in Symbol : t # s => step'[t] = step[t] /\ found'[t] = found[t]
    BY <1>6 DEF Published, Advance, Types
  <2> QED
    BY <2>1, <1>3
<1> QED
  BY <1>2, <1>4, <1>5, <1>6 DEF Thread, Offer, CompareAndSet, OnNext, topicVars

LEMMA ListenRebalance ==
    ASSUME Types, ListenInv, NEW s \in Symbol, NEW r \in Replica, Rebalance(s, r),
           UNCHANGED input
    PROVE  ListenInv'
<1>1. UNCHANGED <<step, found, mapped, sets, at, pc, todo, held>> /\ step[s] = "poll"
  BY DEF Rebalance, threadVars, mapVars, streamVars
<1>2. \A t \in Symbol : t # s => owner'[t] = owner[t]
  BY DEF Rebalance, Types
<1>3. FoundOK
  BY ListenParts
<1>4. FoundOK'
  BY <1>1, <1>2, <1>3 DEF FoundOK
<1> QED
  BY <1>1, <1>4, ListenFrame

\* A stream's step: the other streams stay where they are, the sets only grow in
\* number, and what is left is to look at the stream itself and the entries.
LEMMA StreamStep ==
    ASSUME Types, ListenInv, NEW c \in Client,
           UNCHANGED <<input, at, step, found, owner>>,
           \A d \in Client : d # c =>
                pc'[d] = pc[d] /\ todo'[d] = todo[d] /\ held'[d] = held[d],
           \A r \in Replica, s \in Symbol :
                Len(sets'[r][s]) \in Nat /\ Len(sets[r][s]) <= Len(sets'[r][s]),
           Loop(c)', \A r \in Replica, s \in Symbol : EntryOK(r, s)'
    PROVE  ListenInv'
<1>1. \A r \in Replica, s \in Symbol : Len(sets[r][s]) \in Nat
  BY DEF Types
<1>2. ASSUME NEW d \in Client, d # c PROVE Loop(d)'
  <2>1. Loop(d) /\ pc'[d] = pc[d] /\ todo'[d] = todo[d] /\ held'[d] = held[d]
    BY <1>2, ListenParts
  <2>2. pc[d] = "subscribing" => held[d] <= Len(sets'[at[d]][Head(todo[d])])
    <3> SUFFICES ASSUME pc[d] = "subscribing"
                 PROVE  held[d] <= Len(sets'[at[d]][Head(todo[d])])
      OBVIOUS
    <3>1. at[d] \in Replica /\ Head(todo[d]) \in Symbol
      BY LoopIs
    <3>2. held[d] \in Nat /\ held[d] <= Len(sets[at[d]][Head(todo[d])])
      BY <2>1 DEF Loop, Types
    <3>3. /\ Len(sets[at[d]][Head(todo[d])]) \in Nat
          /\ Len(sets'[at[d]][Head(todo[d])]) \in Nat
          /\ Len(sets[at[d]][Head(todo[d])]) <= Len(sets'[at[d]][Head(todo[d])])
      BY <3>1, <1>1
    <3>4. \A i, j, k \in Nat : i <= j /\ j <= k => i <= k
      OBVIOUS
    <3> QED
      BY <3>2, <3>3, <3>4
  <2> QED
    BY <2>1, <2>2 DEF Loop
<1>3. FoundOK'
  <2> SUFFICES ASSUME NEW s \in Symbol, step[s] = "publish"
               PROVE  found[s] <= Len(sets'[owner[s]][s])
    BY DEF FoundOK
  <2>1. owner[s] \in Replica /\ found[s] \in Nat
    BY DEF Types
  <2>2. found[s] <= Len(sets[owner[s]][s])
    BY ListenParts DEF FoundOK
  <2>3. /\ Len(sets[owner[s]][s]) \in Nat /\ Len(sets'[owner[s]][s]) \in Nat
        /\ Len(sets[owner[s]][s]) <= Len(sets'[owner[s]][s])
    BY <2>1, <1>1
  <2> QED
    BY <2>1, <2>2, <2>3
<1> QED
  BY <1>2, <1>3, ListenParts DEF ListenInv, FoundOK, EntryOK

\* Snapshots go on, or the stream begins to subscribe; it is in no set yet.
LEMMA ListenSnapshot ==
    ASSUME Types, ListenInv, NEW c \in Client, Snapshot(c), input' = input
    PROVE  ListenInv'
<1>1. /\ pc[c] = "snapshot" /\ UNCHANGED <<at, step, found, owner, held, mapped, sets>>
      /\ \/ Goto(c, "subscribing", input.wanted[c])
         \/ Goto(c, "snapshot", Tail(todo[c])) /\ Len(todo[c]) # 1
  BY DEF Snapshot, topicVars, threadVars, mapVars
<1>2. Loop(c) /\ \A r \in Replica, s \in Symbol : EntryOK(r, s)
  BY ListenParts
<1>3. /\ input.wanted[c] \in Seq(Symbol) /\ Tail(todo[c]) \in Seq(Symbol)
      /\ Of(Tail(todo[c])) \subseteq Of(todo[c])
      /\ Len(todo[c]) # 1 => Tail(todo[c]) # <<>>
      /\ at[c] \in Replica /\ todo[c] # <<>> /\ Head(input.wanted[c]) \in Symbol
      /\ input.wanted[c] # <<>> /\ Of(todo[c]) \subseteq Of(input.wanted[c])
  <2>1. /\ input.wanted[c] \in Seq(Symbol) /\ Tail(todo[c]) \in Seq(Symbol)
        /\ Of(Tail(todo[c])) \subseteq Of(todo[c])
        /\ Len(todo[c]) # 1 => Tail(todo[c]) # <<>>
        /\ at[c] \in Replica /\ todo[c] # <<>> /\ Head(todo[c]) \in Of(todo[c])
    BY <1>1, LoopIs
  <2>2. Of(todo[c]) \subseteq Of(input.wanted[c])
    BY <1>2 DEF Loop
  <2>3. input.wanted[c] # <<>>
    <3>1. Of(<<>>) = {}
      BY DEF Of
    <3> QED
      BY <3>1, <2>1, <2>2
  <2>4. Head(input.wanted[c]) \in Symbol
    BY <2>1, <2>3, OfTail
  <2> QED
    BY <2>1, <2>2, <2>3, <2>4
<1>4. /\ \A d \in Client : d # c => pc'[d] = pc[d] /\ todo'[d] = todo[d]
      /\ \/ pc'[c] = "subscribing" /\ todo'[c] = input.wanted[c]
         \/ pc'[c] = "snapshot" /\ todo'[c] = Tail(todo[c]) /\ Len(todo[c]) # 1
  <2>1. "subscribing" \in Stage /\ "snapshot" \in Stage
    BY DEF Stage
  <2> QED
    BY <2>1, <1>1, <1>3, GotoIs
<1>5. held[c] = 0
  BY <1>1, <1>2 DEF Loop
<1>6. \A s \in Symbol : Len(sets[at[c]][s]) >= 0
  BY <1>3 DEF Types
<1>7. Loop(c)'
  <2>1. CASE pc'[c] = "subscribing" /\ todo'[c] = input.wanted[c]
    BY <2>1, <1>1, <1>3, <1>5, <1>6 DEF Loop
  <2>2. CASE pc'[c] = "snapshot" /\ todo'[c] = Tail(todo[c]) /\ Len(todo[c]) # 1
    BY <2>2, <1>1, <1>3, <1>5 DEF Loop
  <2> QED
    BY <2>1, <2>2, <1>4
<1>8. ASSUME NEW r \in Replica, NEW s \in Symbol PROVE EntryOK(r, s)'
  <2>0. EntryOK(r, s)
    BY <1>2
  <2>1. \A g \in 1 .. Len(sets[r][s]) : c \notin sets[r][s][g]
    BY <2>0, <1>1 DEF EntryOK, Listening
  <2>2. c \notin Reachable(r, s) /\ Reachable(r, s)' = Reachable(r, s)
        /\ Reachable(r, s) \subseteq Client
    BY <2>1, <1>1, MappedIs DEF Reachable, Members
  <2>3. \A g \in 1 .. Len(sets[r][s]) : sets[r][s][g] \subseteq Client
    BY MappedIs
  <2>4. \A g \in 1 .. Len(sets[r][s]) : \A d \in sets[r][s][g] : Listening(r, s, g, d)'
    BY <2>0, <2>1, <2>3, <1>1, <1>4 DEF EntryOK, Listening
  <2>5. \A d \in Reachable(r, s) : pc'[d] # "closed" /\ (pc'[d] = "closing" => s \in Left(d)')
    BY <2>0, <2>2, <1>1, <1>4 DEF EntryOK, Left
  <2>6. ASSUME mapped[r][s] # 0 PROVE \E d \in Client : Keeps(d, r, s)'
    <3>1. PICK d \in Client : Keeps(d, r, s)
      BY <2>0, <2>6 DEF EntryOK
    <3>2. d # c
      BY <3>1, <2>2, <1>1 DEF Keeps
    <3>3. Keeps(d, r, s)'
      BY <3>1, <3>2, <2>2, <1>1, <1>4 DEF Keeps
    <3> QED
      BY <3>3
  <2>7. mapped[r][s] <= Len(sets[r][s])
    BY <2>0 DEF EntryOK
  <2> QED
    BY <2>2, <2>4, <2>5, <2>6, <2>7, <1>1 DEF EntryOK
<1>9. \A r \in Replica, s \in Symbol : Len(sets[r][s]) \in Nat
  BY MappedIs
<1>10. \A r \in Replica, s \in Symbol :
        Len(sets'[r][s]) \in Nat /\ Len(sets[r][s]) <= Len(sets'[r][s])
  BY <1>9, <1>1
<1> QED
  BY <1>1, <1>4, <1>7, <1>8, <1>10, StreamStep

\* computeIfAbsent.
LEMMA ListenObtain ==
    ASSUME Types, ListenInv, NEW c \in Client, Obtain(c), input' = input
    PROVE  ListenInv'
<1> DEFINE R == at[c]
           S == Head(todo[c])
<1>1. /\ pc[c] = "subscribing" /\ held[c] = 0
      /\ UNCHANGED <<at, step, found, owner, pc, todo>>
      /\ held' = [held EXCEPT ![c] = mapped'[R][S]]
      /\ \/ /\ mapped[R][S] = 0
            /\ sets' = [sets EXCEPT ![R][S] = Append(sets[R][S], {})]
            /\ mapped' = [mapped EXCEPT ![R][S] = Len(sets[R][S]) + 1]
         \/ mapped[R][S] # 0 /\ UNCHANGED <<sets, mapped>>
  BY DEF Obtain, topicVars, threadVars
<1>2. R \in Replica /\ S \in Symbol
  BY <1>1, LoopIs
<1>3. Loop(c) /\ \A r \in Replica, s \in Symbol : EntryOK(r, s)
  BY ListenParts
<1>4. held'[c] = mapped'[R][S] /\ \A d \in Client : d # c => held'[d] = held[d]
  BY <1>1 DEF Types
<1>5. /\ todo'[c] = todo[c] /\ Head(todo'[c]) = S /\ at'[c] = R /\ pc'[c] = "subscribing"
  BY <1>1
<1> HIDE DEF R, S
<1>6. \A r \in Replica, s \in Symbol :
        /\ Len(sets[r][s]) \in Nat /\ mapped[r][s] \in Nat
        /\ mapped[r][s] <= Len(sets[r][s])
        /\ Reachable(r, s) \subseteq Client
        /\ mapped[r][s] # 0 => mapped[r][s] \in 1 .. Len(sets[r][s])
        /\ \A g \in 1 .. Len(sets[r][s]) : sets[r][s][g] \in SUBSET Client
  BY MappedIs, <1>3 DEF EntryOK
\* The step as seen by one entry.
<1>7. ASSUME NEW r \in Replica, NEW s \in Symbol
      PROVE  /\ \A g \in 1 .. Len(sets[r][s]) : sets'[r][s][g] = sets[r][s][g]
             /\ \/ /\ mapped'[r][s] = mapped[r][s] /\ Len(sets'[r][s]) = Len(sets[r][s])
                   /\ r = R /\ s = S => mapped[r][s] # 0
                \/ /\ r = R /\ s = S /\ mapped[r][s] = 0
                   /\ mapped'[r][s] = Len(sets[r][s]) + 1
                   /\ Len(sets'[r][s]) = Len(sets[r][s]) + 1
                   /\ sets'[r][s][Len(sets[r][s]) + 1] = {}
  <2>1. CASE mapped[R][S] # 0 /\ UNCHANGED <<sets, mapped>>
    BY <2>1
  <2>2. CASE /\ mapped[R][S] = 0
             /\ sets' = [sets EXCEPT ![R][S] = Append(sets[R][S], {})]
             /\ mapped' = [mapped EXCEPT ![R][S] = Len(sets[R][S]) + 1]
    <3>1. /\ Len(sets'[r][s]) = IF r = R /\ s = S THEN Len(sets[R][S]) + 1 ELSE Len(sets[r][s])
          /\ \A h \in 1 .. Len(sets[r][s]) : sets'[r][s][h] = sets[r][s][h]
          /\ sets'[R][S][Len(sets[R][S]) + 1] = {}
      <4>1. sets \in [Replica -> [Symbol -> Seq(SUBSET Client)]]
        BY DEF Types
      <4> QED
        BY <4>1, <2>2, <1>2, SetsMake
    <3>2. mapped'[r][s] = IF r = R /\ s = S THEN Len(sets[R][S]) + 1 ELSE mapped[r][s]
      BY <2>2, <1>2 DEF Types
    <3> QED
      BY <3>1, <3>2, <2>2
  <2> QED
    BY <2>1, <2>2, <1>1
<1>8. \A r \in Replica, s \in Symbol :
        Len(sets'[r][s]) \in Nat /\ Len(sets[r][s]) <= Len(sets'[r][s])
  <2> SUFFICES ASSUME NEW r \in Replica, NEW s \in Symbol
               PROVE  Len(sets'[r][s]) \in Nat /\ Len(sets[r][s]) <= Len(sets'[r][s])
    OBVIOUS
  <2>1. Len(sets'[r][s]) = Len(sets[r][s]) \/ Len(sets'[r][s]) = Len(sets[r][s]) + 1
    BY <1>7
  <2>2. Len(sets[r][s]) \in Nat
    BY <1>6
  <2> QED
    BY <2>1, <2>2
<1>9. mapped'[R][S] <= Len(sets'[R][S])
  <2>1. \/ mapped'[R][S] = mapped[R][S] /\ Len(sets'[R][S]) = Len(sets[R][S])
        \/ mapped'[R][S] = Len(sets[R][S]) + 1 /\ Len(sets'[R][S]) = Len(sets[R][S]) + 1
    BY <1>7, <1>2
  <2>2. Len(sets[R][S]) \in Nat /\ mapped[R][S] <= Len(sets[R][S])
    BY <1>6, <1>2
  <2> QED
    BY <2>1, <2>2
<1>10. Loop(c)'
  BY <1>1, <1>3, <1>4, <1>5, <1>9 DEF Loop
<1>11. ASSUME NEW r \in Replica, NEW s \in Symbol PROVE EntryOK(r, s)'
  <2>0. EntryOK(r, s)
    BY <1>3
  <2>a. /\ Len(sets[r][s]) \in Nat /\ mapped[r][s] \in Nat
        /\ mapped[r][s] # 0 => mapped[r][s] \in 1 .. Len(sets[r][s])
        /\ Reachable(r, s) \subseteq Client /\ mapped[r][s] <= Len(sets[r][s])
    BY <1>6
  <2>1. CASE /\ mapped'[r][s] = mapped[r][s] /\ Len(sets'[r][s]) = Len(sets[r][s])
             /\ r = R /\ s = S => mapped[r][s] # 0
    <3>1. Reachable(r, s)' = Reachable(r, s)
      BY <2>1, <2>a, <1>7 DEF Reachable, Members
    <3>2. \A g \in 1 .. Len(sets'[r][s]) : \A d \in sets'[r][s][g] : Listening(r, s, g, d)'
      BY <2>0, <2>1, <1>1, <1>7 DEF EntryOK, Listening
    <3>3. \A d \in Reachable(r, s) : pc[d] # "closed" /\ (pc[d] = "closing" => s \in Left(d)')
      <4> SUFFICES ASSUME NEW d \in Reachable(r, s), pc[d] = "closing" PROVE s \in Left(d)'
        BY <2>0 DEF EntryOK
      <4>1. d # c /\ d \in Client
        BY <1>1, <2>a
      <4>2. s \in Left(d)
        BY <2>0 DEF EntryOK
      <4> QED
        BY <4>1, <4>2, <1>1, <1>4 DEF Left
    <3>4. ASSUME mapped[r][s] # 0 PROVE \E d \in Client : Keeps(d, r, s)'
      <4>1. PICK d \in Client : Keeps(d, r, s)
        BY <2>0, <3>4 DEF EntryOK
      <4>2. CASE d # c
        BY <4>1, <4>2, <3>1, <2>1, <1>1, <1>4 DEF Keeps
      <4>3. CASE d = c
        <5>1. c \in Reachable(r, s)
          BY <4>1, <4>3, <3>4, <1>1 DEF Keeps
        <5> QED
          BY <5>1, <3>1 DEF Keeps
      <4> QED
        BY <4>2, <4>3
    <3>5. mapped'[r][s] <= Len(sets'[r][s])
      BY <2>1, <2>a
    <3> QED
      BY <2>1, <3>1, <3>2, <3>3, <3>4, <3>5, <1>1 DEF EntryOK
  <2>2. CASE /\ r = R /\ s = S /\ mapped[r][s] = 0
             /\ mapped'[r][s] = Len(sets[r][s]) + 1
             /\ Len(sets'[r][s]) = Len(sets[r][s]) + 1
             /\ sets'[r][s][Len(sets[r][s]) + 1] = {}
    <3>1. Reachable(r, s)' = {}
      BY <2>2, <2>a DEF Reachable, Members
    <3>2. \A g \in 1 .. Len(sets'[r][s]) : \A d \in sets'[r][s][g] : Listening(r, s, g, d)'
      <4> SUFFICES ASSUME NEW g \in 1 .. Len(sets'[r][s]), NEW d \in sets'[r][s][g]
                   PROVE  Listening(r, s, g, d)'
        OBVIOUS
      <4>1. g \in 1 .. Len(sets[r][s]) \/ g = Len(sets[r][s]) + 1
        BY <2>2, <2>a
      <4>2. g \in 1 .. Len(sets[r][s]) /\ d \in sets[r][s][g]
        BY <4>1, <2>2, <1>7
      <4> QED
        BY <4>2, <2>0, <1>1 DEF EntryOK, Listening
    <3>3. Keeps(c, r, s)'
      BY <2>2, <1>4, <1>5 DEF Keeps
    <3>4. mapped'[r][s] <= Len(sets'[r][s])
      BY <2>2, <2>a
    <3> QED
      BY <3>1, <3>2, <3>3, <3>4 DEF EntryOK
  <2> QED
    BY <2>1, <2>2, <1>7
<1> QED
  BY <1>1, <1>4, <1>8, <1>10, <1>11, StreamStep

\* What is known of an entry before a step.
LEMMA EntryIs ==
    ASSUME Types, ListenInv, NEW r \in Replica, NEW s \in Symbol
    PROVE  /\ Len(sets[r][s]) \in Nat /\ mapped[r][s] \in Nat
           /\ mapped[r][s] <= Len(sets[r][s])
           /\ mapped[r][s] # 0 => mapped[r][s] \in 1 .. Len(sets[r][s])
           /\ Reachable(r, s) \subseteq Client
           /\ \A g \in 1 .. Len(sets[r][s]) : sets[r][s][g] \subseteq Client
           /\ EntryOK(r, s)
           /\ \A d \in Reachable(r, s) : at[d] = r /\ s \in Of(input.wanted[d])
<1>1. EntryOK(r, s)
  BY ListenParts
<1>2. mapped[r][s] # 0 => mapped[r][s] \in 1 .. Len(sets[r][s])
  BY MappedIs
<1>3. \A d \in Reachable(r, s) : at[d] = r /\ s \in Of(input.wanted[d])
  BY <1>1, <1>2 DEF EntryOK, Reachable, Members, Listening
<1> QED
  BY <1>1, <1>2, <1>3, MappedIs DEF EntryOK

\* add: the stream is in the set it took, whether the map still has it or not.
LEMMA ListenAdd ==
    ASSUME Types, ListenInv, NEW c \in Client, Add(c), input' = input
    PROVE  ListenInv'
<1> DEFINE R == at[c]
           S == Head(todo[c])
           G == held[c]
           X == sets[R][S][G] \cup {c}
<1>1. /\ pc[c] = "subscribing" /\ G # 0
      /\ UNCHANGED <<at, step, found, owner, mapped>>
      /\ sets' = [sets EXCEPT ![R][S][G] = X]
      /\ held' = [held EXCEPT ![c] = 0]
      /\ \/ Goto(c, "live", <<>>)
         \/ Goto(c, "subscribing", Tail(todo[c])) /\ Len(todo[c]) # 1
  BY DEF Add, topicVars, threadVars
<1>2. /\ R \in Replica /\ S \in Symbol /\ Tail(todo[c]) \in Seq(Symbol)
      /\ Of(Tail(todo[c])) \subseteq Of(todo[c]) /\ S \in Of(todo[c])
      /\ Len(todo[c]) # 1 => Tail(todo[c]) # <<>>
  BY <1>1, LoopIs
<1>3. G \in 1 .. Len(sets[R][S])
  BY <1>1, HeldIs
<1>4. held'[c] = 0 /\ \A d \in Client : d # c => held'[d] = held[d]
  BY <1>1 DEF Types
<1>5. /\ \A d \in Client : d # c => pc'[d] = pc[d] /\ todo'[d] = todo[d]
      /\ \/ pc'[c] = "live" /\ todo'[c] = <<>>
         \/ pc'[c] = "subscribing" /\ todo'[c] = Tail(todo[c]) /\ Len(todo[c]) # 1
  <2>1. "subscribing" \in Stage /\ "live" \in Stage /\ <<>> \in Seq(Symbol)
    BY DEF Stage
  <2> QED
    BY <2>1, <1>1, <1>2, GotoIs
<1>6. Loop(c) /\ Of(todo[c]) \subseteq Of(input.wanted[c])
  BY ListenParts DEF Loop
<1>7. X \in SUBSET Client
  <2> HIDE DEF R, S, G
  <2> QED
    BY <1>2, <1>3, MappedIs
<1>8. sets \in [Replica -> [Symbol -> Seq(SUBSET Client)]]
  BY DEF Types
<1>a. \A r, s : at[c] = r /\ Head(todo[c]) = s /\ held[c] = mapped[r][s] =>
        r = R /\ s = S /\ G = mapped[r][s]
  OBVIOUS
<1>x. X = sets[R][S][G] \cup {c}
  OBVIOUS
<1>r. at[c] = R
  OBVIOUS
<1> HIDE DEF R, S, G, X
<1>9. /\ sets' \in [Replica -> [Symbol -> Seq(SUBSET Client)]]
      /\ \A r \in Replica, s \in Symbol : Len(sets'[r][s]) = Len(sets[r][s])
      /\ \A r \in Replica, s \in Symbol : \A h \in 1 .. Len(sets[r][s]) :
            sets'[r][s][h] = IF r = R /\ s = S /\ h = G THEN X ELSE sets[r][s][h]
  BY <1>1, <1>2, <1>3, <1>7, <1>8, SetsPut
<1>10. \A r \in Replica, s \in Symbol :
        Len(sets'[r][s]) \in Nat /\ Len(sets[r][s]) <= Len(sets'[r][s])
  BY <1>9, EntryIs
<1>11. Loop(c)'
  <2>1. Of(<<>>) = {}
    BY DEF Of
  <2>2. pc'[c] = "subscribing" => held'[c] <= Len(sets'[at[c]][Head(todo'[c])])
    <3> SUFFICES ASSUME pc'[c] = "subscribing"
                 PROVE  0 <= Len(sets'[at[c]][Head(todo'[c])])
      BY <1>4
    <3>1. todo'[c] = Tail(todo[c]) /\ Tail(todo[c]) # <<>>
      BY <1>2, <1>5
    <3>2. Head(todo'[c]) \in Symbol
      BY <3>1, <1>2, OfTail
    <3>3. Len(sets'[at[c]][Head(todo'[c])]) \in Nat
      BY <3>2, <1>10, <1>2, <1>r
    <3> QED
      BY <3>3
  <2>3. Of(todo'[c]) \subseteq Of(input.wanted[c])
    BY <2>1, <1>2, <1>5, <1>6
  <2> QED
    BY <2>2, <2>3, <1>1, <1>2, <1>4, <1>5, <1>6 DEF Loop
<1>12. ASSUME NEW r \in Replica, NEW s \in Symbol PROVE EntryOK(r, s)'
  <2>0. /\ Len(sets[r][s]) \in Nat /\ mapped[r][s] \in Nat
        /\ mapped[r][s] <= Len(sets[r][s])
        /\ mapped[r][s] # 0 => mapped[r][s] \in 1 .. Len(sets[r][s])
        /\ Reachable(r, s) \subseteq Client
        /\ \A g \in 1 .. Len(sets[r][s]) : sets[r][s][g] \subseteq Client
        /\ EntryOK(r, s)
    BY EntryIs
  <2>1. mapped'[r][s] = mapped[r][s] /\ Len(sets'[r][s]) = Len(sets[r][s])
    BY <1>1, <1>9
  <2>2. /\ Reachable(r, s) \subseteq Reachable(r, s)'
        /\ Reachable(r, s)' \subseteq Reachable(r, s) \cup {c}
    <3>1. CASE mapped[r][s] = 0
      BY <3>1, <2>1 DEF Reachable, Members
    <3>2. CASE mapped[r][s] # 0
      <4>1. sets[r][s][mapped[r][s]] \subseteq sets'[r][s][mapped[r][s]]
            /\ sets'[r][s][mapped[r][s]] \subseteq sets[r][s][mapped[r][s]] \cup {c}
        BY <3>2, <2>0, <1>9, <1>x
      <4> QED
        BY <4>1, <3>2, <2>1 DEF Reachable, Members
    <3> QED
      BY <3>1, <3>2
  <2>3. ASSUME NEW g \in 1 .. Len(sets'[r][s]), NEW d \in sets'[r][s][g]
        PROVE  Listening(r, s, g, d)'
    <3>1. g \in 1 .. Len(sets[r][s])
      BY <2>1
    <3>2. CASE d # c
      <4>1. d \in sets[r][s][g] /\ d \in Client
        BY <3>1, <3>2, <2>0, <1>9, <1>x
      <4> QED
        BY <4>1, <3>1, <3>2, <2>0, <1>1, <1>5 DEF EntryOK, Listening
    <3>3. CASE d = c
      <4>1. d \in sets[r][s][g] \/ (r = R /\ s = S)
        BY <3>1, <1>9
      <4>2. pc'[c] \notin {"snapshot", "rejected"}
        BY <1>5
      <4>3. CASE r = R /\ s = S
        BY <4>2, <4>3, <3>3, <1>1, <1>2, <1>6, <1>r DEF Listening
      <4>4. CASE d \in sets[r][s][g]
        BY <4>2, <4>4, <3>1, <3>3, <2>0, <1>1 DEF EntryOK, Listening
      <4> QED
        BY <4>1, <4>3, <4>4
    <3> QED
      BY <3>2, <3>3
  <2>4. ASSUME NEW d \in Reachable(r, s)'
        PROVE  pc'[d] # "closed" /\ (pc'[d] = "closing" => s \in Left(d)')
    <3>1. CASE d = c
      BY <3>1, <1>5
    <3>2. CASE d # c
      <4>1. d \in Reachable(r, s) /\ d \in Client
        BY <3>2, <2>0, <2>2
      <4> QED
        BY <4>1, <3>2, <2>0, <1>4, <1>5 DEF EntryOK, Left
    <3> QED
      BY <3>1, <3>2
  <2>5. ASSUME mapped[r][s] # 0 PROVE \E d \in Client : Keeps(d, r, s)'
    <3>1. PICK d \in Client : Keeps(d, r, s)
      BY <2>0, <2>5 DEF EntryOK
    <3>2. CASE d \in Reachable(r, s)
      BY <3>2, <2>2 DEF Keeps
    <3>3. CASE d # c /\ d \notin Reachable(r, s)
      <4>1. Keeps(d, r, s)'
        BY <3>1, <3>3, <2>1, <1>1, <1>4, <1>5 DEF Keeps
      <4> QED
        BY <4>1
    <3>4. CASE d = c /\ c \notin Reachable(r, s)
      <4>1. at[c] = r /\ Head(todo[c]) = s /\ held[c] = mapped[r][s]
        BY <3>1, <3>4, <1>1 DEF Keeps
      <4>2. r = R /\ s = S /\ G = mapped[r][s]
        BY <4>1, <1>a
      <4>3. c \in sets'[r][s][mapped[r][s]]
        BY <4>2, <2>0, <2>5, <1>9, <1>x
      <4>4. c \in Reachable(r, s)'
        BY <4>3, <2>1, <2>5 DEF Reachable, Members
      <4> QED
        BY <4>4 DEF Keeps
    <3> QED
      BY <3>2, <3>3, <3>4
  <2> QED
    BY <2>0, <2>1, <2>3, <2>4, <2>5 DEF EntryOK
<1> QED
  BY <1>1, <1>4, <1>5, <1>10, <1>11, <1>12, StreamStep

\* The close handler begins with everything that was asked for.
LEMMA ListenCancel ==
    ASSUME Types, ListenInv, NEW c \in Client, Cancel(c), input' = input
    PROVE  ListenInv'
<1>1. /\ pc[c] = "live" /\ Goto(c, "closing", input.wanted[c])
      /\ UNCHANGED <<at, step, found, owner, mapped, sets, held>>
  BY DEF Cancel, topicVars, threadVars, mapVars
<1>2. Loop(c) /\ held[c] = 0 /\ input.wanted[c] # <<>>
  BY <1>1, ListenParts DEF Loop
<1>3. /\ \A d \in Client : d # c => pc'[d] = pc[d] /\ todo'[d] = todo[d]
      /\ pc'[c] = "closing" /\ todo'[c] = input.wanted[c]
  <2>1. "closing" \in Stage /\ input.wanted[c] \in Seq(Symbol)
    BY InputIs DEF Stage, Types
  <2> QED
    BY <2>1, <1>1, GotoIs
<1>4. Loop(c)'
  BY <1>1, <1>2, <1>3 DEF Loop
<1>5. ASSUME NEW r \in Replica, NEW s \in Symbol PROVE EntryOK(r, s)'
  <2>0. /\ EntryOK(r, s) /\ Reachable(r, s) \subseteq Client
        /\ \A g \in 1 .. Len(sets[r][s]) : sets[r][s][g] \subseteq Client
        /\ \A d \in Reachable(r, s) : at[d] = r /\ s \in Of(input.wanted[d])
    BY EntryIs
  <2>1. Reachable(r, s)' = Reachable(r, s)
    BY <1>1 DEF Reachable, Members
  <2>2. \A g \in 1 .. Len(sets[r][s]) : \A d \in sets[r][s][g] : Listening(r, s, g, d)'
    BY <2>0, <1>1, <1>3 DEF EntryOK, Listening
  <2>3. ASSUME NEW d \in Reachable(r, s)
        PROVE  pc'[d] # "closed" /\ (pc'[d] = "closing" => s \in Left(d)')
    <3>1. CASE d = c
      BY <3>1, <2>0, <1>1, <1>2, <1>3 DEF Left
    <3>2. CASE d # c
      BY <3>2, <2>0, <1>1, <1>3 DEF EntryOK, Left
    <3> QED
      BY <3>1, <3>2
  <2>4. ASSUME mapped[r][s] # 0 PROVE \E d \in Client : Keeps(d, r, s)'
    <3>1. PICK d \in Client : Keeps(d, r, s)
      BY <2>0, <2>4 DEF EntryOK
    <3>2. Keeps(d, r, s)'
      BY <3>1, <2>1, <1>1, <1>3 DEF Keeps
    <3> QED
      BY <3>2
  <2> QED
    BY <2>0, <2>1, <2>2, <2>3, <2>4, <1>1 DEF EntryOK
<1>6. \A r \in Replica, s \in Symbol :
        Len(sets'[r][s]) \in Nat /\ Len(sets[r][s]) <= Len(sets'[r][s])
  BY <1>1, EntryIs
<1> QED
  BY <1>1, <1>3, <1>4, <1>5, <1>6, StreamStep

\* One symbol of close is done: the loop goes on with the others.
LEMMA LoopClosed ==
    ASSUME Types, ListenInv, NEW c \in Client, pc[c] = "closing", CloseNext(c), held'[c] = 0,
           UNCHANGED <<input, at>>
    PROVE  /\ Loop(c)'
           /\ pc'[c] \in {"closed", "closing"}
           /\ pc'[c] = "closed" => Of(Tail(todo[c])) = {}
           /\ pc'[c] = "closing" => Left(c)' = Of(Tail(todo[c]))
<1>1. /\ Of(Tail(todo[c])) \subseteq Of(todo[c])
      /\ Len(todo[c]) = 1 => Of(Tail(todo[c])) = {}
      /\ Len(todo[c]) # 1 => Tail(todo[c]) # <<>>
  BY LoopIs
<1>2. Of(todo[c]) \subseteq Of(input.wanted[c]) /\ input.wanted[c] # <<>>
  BY ListenParts DEF Loop
<1>3. \/ Len(todo[c]) = 1 /\ pc'[c] = "closed" /\ todo'[c] = <<>>
      \/ Len(todo[c]) # 1 /\ pc'[c] = "closing" /\ todo'[c] = Tail(todo[c])
  BY CloseNextIs
<1>4. CASE Len(todo[c]) = 1 /\ pc'[c] = "closed" /\ todo'[c] = <<>>
  <2>1. Of(<<>>) = {}
    BY DEF Of
  <2> QED
    BY <2>1, <1>1, <1>2, <1>4 DEF Loop
<1>5. CASE Len(todo[c]) # 1 /\ pc'[c] = "closing" /\ todo'[c] = Tail(todo[c])
  <2>1. Left(c)' = Of(Tail(todo[c]))
    BY <1>5 DEF Left
  <2> QED
    BY <2>1, <1>1, <1>2, <1>5 DEF Loop
<1> QED
  BY <1>3, <1>4, <1>5

\* remove, or a symbol that has no entry.
LEMMA ListenRemove ==
    ASSUME Types, ListenInv, NEW c \in Client, Remove(c), input' = input
    PROVE  ListenInv'
<1> DEFINE R == at[c]
           S == Head(todo[c])
           G == mapped[R][S]
           X == sets[R][S][G] \ {c}
<1>1. /\ pc[c] = "closing" /\ held[c] = 0
      /\ UNCHANGED <<at, step, found, owner, mapped>>
      /\ \/ G = 0 /\ CloseNext(c) /\ UNCHANGED <<sets, held>>
         \/ /\ G # 0 /\ sets' = [sets EXCEPT ![R][S][G] = X]
            /\ held' = [held EXCEPT ![c] = G] /\ UNCHANGED <<pc, todo>>
  BY DEF Remove, topicVars, threadVars
<1>2. /\ R \in Replica /\ S \in Symbol /\ Of(todo[c]) = {S} \cup Of(Tail(todo[c]))
  BY <1>1, LoopIs
<1>3. Loop(c)
  BY ListenParts
<1>4. Left(c) = Of(todo[c])
  BY <1>1 DEF Left
<1>r. at[c] = R /\ Head(todo[c]) = S
  OBVIOUS
<1>5. CASE G = 0 /\ CloseNext(c) /\ UNCHANGED <<sets, held>>
  <2>1. /\ Loop(c)' /\ pc'[c] \in {"closed", "closing"}
        /\ pc'[c] = "closed" => Of(Tail(todo[c])) = {}
        /\ pc'[c] = "closing" => Left(c)' = Of(Tail(todo[c]))
    BY <1>1, <1>5, LoopClosed
  <2>2. \A d \in Client : d # c => pc'[d] = pc[d] /\ todo'[d] = todo[d]
    BY <1>1, <1>5, CloseNextIs
  <2>e. Reachable(R, S) = {}
    BY <1>5 DEF Reachable, Members
  <2> HIDE DEF R, S, G, X
  <2>3. ASSUME NEW r \in Replica, NEW s \in Symbol PROVE EntryOK(r, s)'
    <3>0. /\ EntryOK(r, s) /\ Reachable(r, s) \subseteq Client
          /\ \A g \in 1 .. Len(sets[r][s]) : sets[r][s][g] \subseteq Client
          /\ \A d \in Reachable(r, s) : at[d] = r
      BY EntryIs
    <3>1. Reachable(r, s)' = Reachable(r, s)
      BY <1>1, <1>5 DEF Reachable, Members
    <3>2. \A g \in 1 .. Len(sets[r][s]) : \A d \in sets[r][s][g] : Listening(r, s, g, d)'
      BY <3>0, <2>1, <2>2, <1>1 DEF EntryOK, Listening
    <3>3. ASSUME NEW d \in Reachable(r, s)
          PROVE  pc'[d] # "closed" /\ (pc'[d] = "closing" => s \in Left(d)')
      <4>1. CASE d = c
        <5>1. r = R /\ s \in Of(todo[c])
          BY <4>1, <3>0, <1>1, <1>4, <1>r DEF EntryOK
        <5>2. s # S
          BY <5>1, <2>e
        <5>3. s \in Of(Tail(todo[c]))
          BY <5>1, <5>2, <1>2
        <5> QED
          BY <5>3, <4>1, <2>1
      <4>2. CASE d # c
        BY <4>2, <3>0, <2>2, <1>5 DEF EntryOK, Left
      <4> QED
        BY <4>1, <4>2
    <3>4. ASSUME mapped[r][s] # 0 PROVE \E d \in Client : Keeps(d, r, s)'
      <4>1. PICK d \in Client : Keeps(d, r, s)
        BY <3>0, <3>4 DEF EntryOK
      <4>2. CASE d # c
        BY <4>1, <4>2, <3>1, <2>2, <1>1, <1>5 DEF Keeps
      <4>3. CASE d = c
        <5>1. c \in Reachable(r, s)
          BY <4>1, <4>3, <1>1 DEF Keeps
        <5> QED
          BY <5>1, <3>1 DEF Keeps
      <4> QED
        BY <4>2, <4>3
    <3> QED
      BY <3>0, <3>1, <3>2, <3>3, <3>4, <1>1, <1>5 DEF EntryOK
  <2>4. \A r \in Replica, s \in Symbol :
          Len(sets'[r][s]) \in Nat /\ Len(sets[r][s]) <= Len(sets'[r][s])
    BY <1>5, EntryIs
  <2> QED
    BY <2>1, <2>2, <2>3, <2>4, <1>1, <1>5, StreamStep
<1>6. CASE /\ G # 0 /\ sets' = [sets EXCEPT ![R][S][G] = X]
           /\ held' = [held EXCEPT ![c] = G] /\ UNCHANGED <<pc, todo>>
  <2>1. held'[c] = G /\ \A d \in Client : d # c => held'[d] = held[d]
    BY <1>6 DEF Types
  <2>2. Loop(c)'
    BY <1>1, <1>3, <1>6 DEF Loop
  <2>3. G \in 1 .. Len(sets[R][S]) /\ X \in SUBSET Client
    <3> HIDE DEF R, S
    <3>1. G \in 1 .. Len(sets[R][S]) /\ \A g \in 1 .. Len(sets[R][S]) : sets[R][S][g] \subseteq Client
      BY <1>2, <1>6, EntryIs
    <3> QED
      BY <3>1
  <2>4. sets \in [Replica -> [Symbol -> Seq(SUBSET Client)]]
    BY DEF Types
  <2>5. Left(c)' = Of(Tail(todo[c]))
    BY <2>1, <1>6 DEF Left
  <2>x. X = sets[R][S][G] \ {c} /\ mapped[R][S] = G
    OBVIOUS
  <2> HIDE DEF R, S, G, X
  <2>6. /\ sets' \in [Replica -> [Symbol -> Seq(SUBSET Client)]]
        /\ \A r \in Replica, s \in Symbol : Len(sets'[r][s]) = Len(sets[r][s])
        /\ \A r \in Replica, s \in Symbol : \A h \in 1 .. Len(sets[r][s]) :
              sets'[r][s][h] = IF r = R /\ s = S /\ h = G THEN X ELSE sets[r][s][h]
    BY <1>2, <1>6, <2>3, <2>4, SetsPut
  <2>7. \A r \in Replica, s \in Symbol :
          Len(sets'[r][s]) \in Nat /\ Len(sets[r][s]) <= Len(sets'[r][s])
    BY <2>6, EntryIs
  <2>8. ASSUME NEW r \in Replica, NEW s \in Symbol PROVE EntryOK(r, s)'
    <3>0. /\ EntryOK(r, s) /\ Reachable(r, s) \subseteq Client
          /\ mapped[r][s] <= Len(sets[r][s])
          /\ mapped[r][s] # 0 => mapped[r][s] \in 1 .. Len(sets[r][s])
          /\ \A g \in 1 .. Len(sets[r][s]) : sets[r][s][g] \subseteq Client
          /\ \A d \in Reachable(r, s) : at[d] = r
      BY EntryIs
    <3>1. mapped'[r][s] = mapped[r][s] /\ Len(sets'[r][s]) = Len(sets[r][s])
      BY <1>1, <2>6
    <3>2. Reachable(r, s)' = IF r = R /\ s = S THEN Reachable(r, s) \ {c} ELSE Reachable(r, s)
      <4>1. CASE mapped[r][s] = 0
        BY <4>1, <3>1 DEF Reachable, Members
      <4>2. CASE mapped[r][s] # 0
        <5>1. sets'[r][s][mapped[r][s]] = IF r = R /\ s = S THEN sets[r][s][mapped[r][s]] \ {c}
                                          ELSE sets[r][s][mapped[r][s]]
          BY <4>2, <3>0, <2>6, <2>x
        <5> QED
          BY <5>1, <4>2, <3>1 DEF Reachable, Members
      <4> QED
        BY <4>1, <4>2
    <3>3. ASSUME NEW g \in 1 .. Len(sets'[r][s]), NEW d \in sets'[r][s][g]
          PROVE  Listening(r, s, g, d)'
      <4>1. g \in 1 .. Len(sets[r][s]) /\ d \in sets[r][s][g]
        BY <3>1, <2>6, <2>x
      <4> QED
        BY <4>1, <3>0, <1>1, <1>6 DEF EntryOK, Listening
    <3>4. ASSUME NEW d \in Reachable(r, s)'
          PROVE  pc[d] # "closed" /\ (pc[d] = "closing" => s \in Left(d)')
      <4>0. d \in Reachable(r, s) /\ d \in Client
        BY <3>0, <3>2
      <4>1. CASE d = c
        <5>1. r = R /\ s \in Of(todo[c])
          BY <4>0, <4>1, <3>0, <1>1, <1>4, <1>r DEF EntryOK
        <5>2. s # S
          BY <5>1, <4>1, <3>2
        <5>3. s \in Of(Tail(todo[c]))
          BY <5>1, <5>2, <1>2
        <5> QED
          BY <5>3, <4>1, <2>5, <1>1
      <4>2. CASE d # c
        BY <4>0, <4>2, <3>0, <2>1, <1>6 DEF EntryOK, Left
      <4> QED
        BY <4>1, <4>2
    <3>5. ASSUME mapped[r][s] # 0 PROVE \E d \in Client : Keeps(d, r, s)'
      <4>1. PICK d \in Client : Keeps(d, r, s)
        BY <3>0, <3>5 DEF EntryOK
      <4>2. CASE d # c
        BY <4>1, <4>2, <3>1, <3>2, <2>1, <1>1, <1>6 DEF Keeps
      <4>3. CASE d = c
        <5>1. c \in Reachable(r, s)
          BY <4>1, <4>3, <1>1 DEF Keeps
        <5>2. CASE c \in Reachable(r, s)'
          BY <5>2 DEF Keeps
        <5>3. CASE c \notin Reachable(r, s)'
          <6>1. r = R /\ s = S
            BY <5>1, <5>3, <3>2
          <6>2. /\ at'[c] = r /\ pc'[c] = "closing" /\ Head(todo'[c]) = s
                /\ held'[c] # 0
            BY <6>1, <2>1, <1>1, <1>6, <1>r
          <6> QED
            BY <6>2 DEF Keeps
        <5> QED
          BY <5>2, <5>3
      <4> QED
        BY <4>2, <4>3
    <3> QED
      BY <3>0, <3>1, <3>3, <3>4, <3>5, <1>6 DEF EntryOK
  <2> QED
    BY <2>1, <2>2, <2>7, <2>8, <1>1, <1>6, StreamStep
<1> QED
  BY <1>1, <1>5, <1>6

\* computeIfPresent: an entry that stays has a listener.
LEMMA ListenPrune ==
    ASSUME Types, ListenInv, NEW c \in Client, Prune(c), input' = input
    PROVE  ListenInv'
<1> DEFINE R == at[c]
           S == Head(todo[c])
<1>1. /\ pc[c] = "closing" /\ held[c] # 0 /\ CloseNext(c)
      /\ UNCHANGED <<at, step, found, owner, sets>>
      /\ held' = [held EXCEPT ![c] = 0]
      /\ mapped' = IF Reachable(R, S) = {} THEN [mapped EXCEPT ![R][S] = 0] ELSE mapped
  BY DEF Prune, topicVars, threadVars, Reachable
<1>2. R \in Replica /\ S \in Symbol
  BY <1>1, LoopIs
<1>3. Left(c) = Of(Tail(todo[c]))
  BY <1>1 DEF Left
<1>4. held'[c] = 0 /\ \A d \in Client : d # c => held'[d] = held[d]
  BY <1>1 DEF Types
<1>5. /\ Loop(c)' /\ pc'[c] \in {"closed", "closing"}
      /\ pc'[c] = "closed" => Of(Tail(todo[c])) = {}
      /\ pc'[c] = "closing" => Left(c)' = Of(Tail(todo[c]))
  BY <1>1, <1>4, LoopClosed
<1>6. \A d \in Client : d # c => pc'[d] = pc[d] /\ todo'[d] = todo[d]
  BY <1>1, CloseNextIs
<1>r. at[c] = R /\ Head(todo[c]) = S
  OBVIOUS
<1> HIDE DEF R, S
<1>7. ASSUME NEW r \in Replica, NEW s \in Symbol
      PROVE  mapped'[r][s] = IF r = R /\ s = S /\ Reachable(R, S) = {} THEN 0 ELSE mapped[r][s]
  <2>1. CASE Reachable(R, S) = {}
    <3>1. /\ mapped' = [mapped EXCEPT ![R] = [mapped[R] EXCEPT ![S] = 0]]
          /\ mapped \in [Replica -> [Symbol -> Nat]]
      BY <2>1, <1>1 DEF Types
    <3> QED
      BY <3>1, <2>1, <1>2
  <2>2. CASE Reachable(R, S) # {}
    BY <2>2, <1>1
  <2> QED
    BY <2>1, <2>2
<1>8. ASSUME NEW r \in Replica, NEW s \in Symbol PROVE EntryOK(r, s)'
  <2>0. /\ EntryOK(r, s) /\ Reachable(r, s) \subseteq Client
        /\ Len(sets[r][s]) \in Nat /\ mapped[r][s] <= Len(sets[r][s])
        /\ \A g \in 1 .. Len(sets[r][s]) : sets[r][s][g] \subseteq Client
        /\ \A d \in Reachable(r, s) : at[d] = r
    BY EntryIs
  <2>1. Reachable(r, s)' = Reachable(r, s)
    <3>1. CASE mapped'[r][s] = mapped[r][s]
      BY <3>1, <1>1 DEF Reachable, Members
    <3>2. CASE Reachable(r, s) = {} /\ mapped'[r][s] = 0
      BY <3>2 DEF Reachable, Members
    <3> QED
      BY <3>1, <3>2, <1>7
  <2>2. \A g \in 1 .. Len(sets[r][s]) : \A d \in sets[r][s][g] : Listening(r, s, g, d)'
    BY <2>0, <1>1, <1>5, <1>6 DEF EntryOK, Listening
  <2>3. ASSUME NEW d \in Reachable(r, s)
        PROVE  pc'[d] # "closed" /\ (pc'[d] = "closing" => s \in Left(d)')
    <3>1. CASE d = c
      <4>1. s \in Of(Tail(todo[c]))
        BY <3>1, <2>0, <1>1, <1>3 DEF EntryOK
      <4> QED
        BY <4>1, <3>1, <1>5
    <3>2. CASE d # c
      BY <3>2, <2>0, <1>4, <1>6 DEF EntryOK, Left
    <3> QED
      BY <3>1, <3>2
  <2>4. ASSUME mapped'[r][s] # 0 PROVE \E d \in Client : Keeps(d, r, s)'
    <3>0. mapped'[r][s] = mapped[r][s]
      BY <2>4, <1>7
    <3>1. PICK d \in Client : Keeps(d, r, s)
      BY <2>0, <2>4, <3>0 DEF EntryOK
    <3>2. CASE d # c
      BY <3>0, <3>1, <3>2, <2>1, <1>1, <1>4, <1>6 DEF Keeps
    <3>3. CASE c \in Reachable(r, s)
      BY <3>3, <2>1 DEF Keeps
    <3>4. CASE d = c /\ c \notin Reachable(r, s)
      <4>1. r = R /\ s = S
        BY <3>1, <3>4, <1>1, <1>r DEF Keeps
      <4>2. Reachable(r, s) # {}
        BY <4>1, <2>4, <1>7
      <4>3. PICK e \in Reachable(r, s) : TRUE
        BY <4>2
      <4> QED
        BY <4>3, <2>0, <2>1 DEF Keeps
    <3> QED
      BY <3>2, <3>3, <3>4
  <2>5. mapped'[r][s] <= Len(sets[r][s])
    BY <2>0, <1>7
  <2> QED
    BY <2>1, <2>2, <2>3, <2>4, <2>5, <1>1 DEF EntryOK
<1>9. \A r \in Replica, s \in Symbol :
        Len(sets'[r][s]) \in Nat /\ Len(sets[r][s]) <= Len(sets'[r][s])
  BY <1>1, EntryIs
<1> QED
  BY <1>1, <1>4, <1>5, <1>6, <1>8, <1>9, StreamStep

LEMMA ListenStream ==
    ASSUME Types, ListenInv, NEW c \in Client, Stream(c)
    PROVE  ListenInv'
BY ListenSnapshot, ListenObtain, ListenAdd, ListenCancel, ListenRemove, ListenPrune
   DEF Stream

----------------------------------------------------------------------------
(* The gauge of subscribers.                                               *)

LEMMA CountInit == Init => CountInv
<1> SUFFICES ASSUME Init PROVE CountInv
  OBVIOUS
<1>1. \A c \in Client : pc[c] \notin {"live", "closing"}
  BY DEF Init
<1>2. \A r \in Replica : Open(r) = {}
  BY <1>1 DEF Open
<1>3. subscriberCount = [r \in Replica |-> 0]
  BY DEF Init
<1> QED
  BY <1>2, <1>3, FS_EmptySet DEF CountInv

LEMMA OpenFinite == \A r : IsFiniteSet(Open(r)) /\ Cardinality(Open(r)) \in 0 .. Cardinality(Client)
<1> SUFFICES ASSUME NEW r
             PROVE  IsFiniteSet(Open(r)) /\ Cardinality(Open(r)) \in 0 .. Cardinality(Client)
  OBVIOUS
<1>1. Open(r) \subseteq Client /\ IsFiniteSet(Client)
  BY QuoteAssumption DEF Open
<1>2. IsFiniteSet(Open(r)) /\ Cardinality(Open(r)) <= Cardinality(Client)
  BY <1>1, FS_Subset
<1>3. Cardinality(Open(r)) \in Nat /\ Cardinality(Client) \in Nat
  BY <1>1, <1>2, FS_CardinalityType
<1> QED
  BY <1>2, <1>3

\* A step that opens and closes no stream.
LEMMA CountSame ==
    ASSUME CountInv, subscriberCount' = subscriberCount, at' = at,
           \A d \in Client : pc'[d] \in {"live", "closing"} <=> pc[d] \in {"live", "closing"}
    PROVE  CountInv'
<1>1. \A r \in Replica : Open(r)' = Open(r)
  BY DEF Open
<1> QED
  BY <1>1 DEF CountInv

\* A step that opens or closes stream c.
LEMMA CountOne ==
    ASSUME CountInv, NEW c \in Client, NEW R \in Replica, R = at[c], at' = at,
           \A d \in Client : d # c => pc'[d] = pc[d],
           \/ /\ pc[c] \notin {"live", "closing"} /\ pc'[c] \in {"live", "closing"}
              /\ subscriberCount' = [subscriberCount EXCEPT ![R] = @ + 1]
           \/ /\ pc[c] \in {"live", "closing"} /\ pc'[c] \notin {"live", "closing"}
              /\ subscriberCount' = [subscriberCount EXCEPT ![R] = @ - 1]
    PROVE  CountInv'
<1>1. \A r \in Replica : r # R => Open(r)' = Open(r)
  BY DEF Open
<1>2. \A r \in Replica : subscriberCount[r] = Cardinality(Open(r))
  BY DEF CountInv
<1>3. IsFiniteSet(Open(R)) /\ Cardinality(Open(R)) \in Nat
  BY OpenFinite, FS_CardinalityType
<1>4. subscriberCount'[R] = Cardinality(Open(R)')
  <2>1. CASE /\ pc[c] \notin {"live", "closing"} /\ pc'[c] \in {"live", "closing"}
             /\ subscriberCount' = [subscriberCount EXCEPT ![R] = @ + 1]
    <3>1. Open(R)' = Open(R) \cup {c} /\ c \notin Open(R)
      BY <2>1 DEF Open
    <3>2. Cardinality(Open(R)') = Cardinality(Open(R)) + 1
      BY <3>1, <1>3, FS_AddElement
    <3> QED
      BY <3>2, <2>1, <1>2 DEF CountInv
  <2>2. CASE /\ pc[c] \in {"live", "closing"} /\ pc'[c] \notin {"live", "closing"}
             /\ subscriberCount' = [subscriberCount EXCEPT ![R] = @ - 1]
    <3>1. Open(R)' = Open(R) \ {c} /\ c \in Open(R)
      BY <2>2 DEF Open
    <3>2. Cardinality(Open(R)') = Cardinality(Open(R)) - 1
      BY <3>1, <1>3, FS_RemoveElement
    <3> QED
      BY <3>2, <2>2, <1>2 DEF CountInv
  <2> QED
    BY <2>1, <2>2
<1>5. \A r \in Replica : r # R => subscriberCount'[r] = subscriberCount[r]
  BY DEF CountInv
<1>6. DOMAIN subscriberCount' = Replica /\ subscriberCount' = [r \in Replica |-> subscriberCount'[r]]
  BY DEF CountInv
<1>7. \A r \in Replica : subscriberCount'[r] = Cardinality(Open(r)')
  BY <1>1, <1>2, <1>4, <1>5
<1> QED
  BY <1>6, <1>7 DEF CountInv

LEMMA CountStream ==
    ASSUME Types, ListenInv, CountInv, NEW c \in Client, Stream(c)
    PROVE  CountInv'
<1>0. at' = at /\ at[c] \in Replica
  BY DEF Stream, Snapshot, Obtain, Add, Cancel, Remove, Prune, Types
<1>a. /\ "live" \in Stage /\ "subscribing" \in Stage /\ "snapshot" \in Stage
      /\ "closing" \in Stage /\ <<>> \in Seq(Symbol) /\ input.wanted[c] \in Seq(Symbol)
  BY InputIs DEF Stage, Types
<1>1. CASE Snapshot(c)
  <2>1. /\ pc[c] = "snapshot" /\ subscriberCount' = subscriberCount
        /\ Goto(c, "subscribing", input.wanted[c]) \/ Goto(c, "snapshot", Tail(todo[c]))
    BY <1>1 DEF Snapshot, mapVars
  <2>2. Tail(todo[c]) \in Seq(Symbol)
    BY <2>1, LoopIs
  <2>3. pc'[c] \in {"subscribing", "snapshot"} /\ \A d \in Client : d # c => pc'[d] = pc[d]
    BY <2>1, <2>2, <1>a, GotoIs
  <2> QED
    BY <2>1, <2>3, <1>0, CountSame
<1>2. CASE Obtain(c)
  BY <1>0, <1>2, CountSame DEF Obtain
<1>3. CASE Add(c)
  <2>1. pc[c] = "subscribing"
    BY <1>3 DEF Add
  <2>2. Tail(todo[c]) \in Seq(Symbol)
    BY <2>1, LoopIs
  <2>3. CASE /\ Goto(c, "live", <<>>)
             /\ subscriberCount' = [subscriberCount EXCEPT ![at[c]] = @ + 1]
    <3>1. pc'[c] = "live" /\ \A d \in Client : d # c => pc'[d] = pc[d]
      BY <2>3, <1>a, GotoIs
    <3> QED
      BY <3>1, <2>1, <2>3, <1>0, CountOne
  <2>4. CASE Goto(c, "subscribing", Tail(todo[c])) /\ UNCHANGED subscriberCount
    <3>1. pc'[c] = "subscribing" /\ \A d \in Client : d # c => pc'[d] = pc[d]
      BY <2>2, <2>4, <1>a, GotoIs
    <3> QED
      BY <3>1, <2>1, <2>4, <1>0, CountSame
  <2> QED
    BY <2>3, <2>4, <1>3 DEF Add
<1>4. CASE Cancel(c)
  <2>1. /\ pc[c] = "live" /\ subscriberCount' = subscriberCount
        /\ Goto(c, "closing", input.wanted[c])
    BY <1>4 DEF Cancel, mapVars
  <2>2. pc'[c] = "closing" /\ \A d \in Client : d # c => pc'[d] = pc[d]
    BY <2>1, <1>a, GotoIs
  <2> QED
    BY <2>1, <2>2, <1>0, CountSame
<1>5. ASSUME pc[c] = "closing", CloseNext(c) PROVE CountInv'
  <2>1. /\ \A d \in Client : d # c => pc'[d] = pc[d]
        /\ \/ /\ pc'[c] = "closed"
              /\ subscriberCount' = [subscriberCount EXCEPT ![at[c]] = @ - 1]
           \/ pc'[c] = "closing" /\ subscriberCount' = subscriberCount
    BY <1>5, CloseNextIs
  <2>2. CASE /\ pc'[c] = "closed"
             /\ subscriberCount' = [subscriberCount EXCEPT ![at[c]] = @ - 1]
    BY <2>1, <2>2, <1>0, <1>5, CountOne
  <2>3. CASE pc'[c] = "closing" /\ subscriberCount' = subscriberCount
    BY <2>1, <2>3, <1>0, <1>5, CountSame
  <2> QED
    BY <2>1, <2>2, <2>3
<1>6. CASE Remove(c)
  <2>1. CASE UNCHANGED <<pc, subscriberCount>>
    BY <2>1, <1>0, CountSame
  <2> QED
    BY <2>1, <1>5, <1>6 DEF Remove
<1>7. CASE Prune(c)
  BY <1>5, <1>7 DEF Prune
<1> QED
  BY <1>1, <1>2, <1>3, <1>4, <1>6, <1>7 DEF Stream

\* The threads and rebalances leave the gauge and the streams alone.
LEMMA CountThread ==
    ASSUME CountInv, UNCHANGED <<subscriberCount, at, pc>>
    PROVE  CountInv'
BY CountSame

----------------------------------------------------------------------------
(* The listeners a broadcast begins with.                                  *)

\* A stream goes on from its snapshot and never back to it.
LEMMA EarlyKept ==
    ASSUME Types, ListenInv, NEW c \in Client, Stream(c)
    PROVE  \A d \in Client : Early(d)' => Early(d)
<1>0. /\ "live" \in Stage /\ "subscribing" \in Stage /\ "snapshot" \in Stage
      /\ "closing" \in Stage /\ <<>> \in Seq(Symbol) /\ input.wanted[c] \in Seq(Symbol)
  BY InputIs DEF Stage, Types
<1>1. CASE Snapshot(c)
  <2>1. Tail(todo[c]) \in Seq(Symbol) /\ pc[c] = "snapshot"
    BY <1>1, LoopIs DEF Snapshot
  <2>2. Goto(c, "subscribing", input.wanted[c]) \/ Goto(c, "snapshot", Tail(todo[c]))
    BY <1>1 DEF Snapshot
  <2>3. \A d \in Client : d # c => pc'[d] = pc[d]
    BY <2>1, <2>2, <1>0, GotoIs
  <2> QED
    BY <2>1, <2>3 DEF Early
<1>2. CASE Obtain(c)
  BY <1>2 DEF Obtain, Early
<1>3. CASE Add(c)
  <2>1. Tail(todo[c]) \in Seq(Symbol)
    BY <1>3, LoopIs DEF Add
  <2>2. Goto(c, "live", <<>>) \/ Goto(c, "subscribing", Tail(todo[c]))
    BY <1>3 DEF Add
  <2>3. pc'[c] \in {"live", "subscribing"} /\ \A d \in Client : d # c => pc'[d] = pc[d]
    BY <2>1, <2>2, <1>0, GotoIs
  <2> QED
    BY <2>3 DEF Early
<1>4. CASE Cancel(c)
  <2>1. Goto(c, "closing", input.wanted[c])
    BY <1>4 DEF Cancel
  <2>2. pc'[c] = "closing" /\ \A d \in Client : d # c => pc'[d] = pc[d]
    BY <2>1, <1>0, GotoIs
  <2> QED
    BY <2>2 DEF Early
<1>5. CASE Remove(c) \/ Prune(c)
  <2>1. pc[c] = "closing" /\ (pc' = pc \/ CloseNext(c))
    BY <1>5 DEF Remove, Prune
  <2>2. CASE CloseNext(c)
    <3>1. /\ pc'[c] \in {"closed", "closing"}
          /\ \A d \in Client : d # c => pc'[d] = pc[d]
      BY <2>1, <2>2, CloseNextIs
    <3> QED
      BY <3>1 DEF Early
  <2> QED
    BY <2>1, <2>2 DEF Early
<1> QED
  BY <1>1, <1>2, <1>3, <1>4, <1>5 DEF Stream

LEMMA StartInit == Init => StartInv
BY DEF Init, StartInv

\* The streams of a set of listeners are past their snapshot.
LEMMA MembersPast ==
    ASSUME Types, ListenInv, NEW r \in Replica, NEW s \in Symbol,
           NEW g \in Nat, g <= Len(sets[r][s])
    PROVE  Members(r, s, g) \in SUBSET {c \in Client : ~Early(c)}
<1>1. CASE g = 0
  BY <1>1 DEF Members
<1>2. CASE g # 0
  <2>1. sets[r][s] \in Seq(SUBSET Client)
    BY DEF Types
  <2>2. g \in 1 .. Len(sets[r][s])
    BY <2>1, <1>2
  <2>3. sets[r][s][g] \in SUBSET Client
    BY <2>1, <2>2
  <2>4. \A c \in sets[r][s][g] : ~Early(c)
    BY <2>2 DEF ListenInv, Listening, Early
  <2> QED
    BY <2>3, <2>4, <1>2 DEF Members
<1> QED
  BY <1>1, <1>2

LEMMA StartFrame ==
    ASSUME StartInv, start' = start, \A c \in Client : Early(c)' => Early(c)
    PROVE  StartInv'
BY DEF StartInv

LEMMA StartThread ==
    ASSUME Types, ListenInv, StartInv, NEW s \in Symbol, Thread(s)
    PROVE  StartInv'
<1>1. pc' = pc
  BY DEF Thread, Put, Publish, Offer, CompareAndSet, OnNext, Published, streamVars
<1>2. \A c \in Client : Early(c)' = Early(c)
  BY <1>1 DEF Early
<1>3. CASE Publish(s)
  <2>1. owner[s] \in Replica /\ mapped[owner[s]][s] \in Nat
    BY DEF Types
  <2>2. mapped[owner[s]][s] <= Len(sets[owner[s]][s])
    BY <2>1 DEF ListenInv
  <2>3. PICK X : X = Members(owner[s], s, mapped[owner[s]][s])
    OBVIOUS
  <2>4. X \in SUBSET {c \in Client : ~Early(c)} /\ start' = [start EXCEPT ![s] = X]
    BY <2>1, <2>2, <2>3, <1>3, MembersPast DEF Publish
  <2> QED
    BY <2>4, <1>2 DEF StartInv
<1>4. CASE Published(s)
  <2>1. start' = [start EXCEPT ![s] = {}]
    BY <1>4 DEF Published
  <2> QED
    BY <2>1, <1>2 DEF StartInv
<1>5. CASE start' = start
  BY <1>2, <1>5, StartFrame
<1> QED
  BY <1>3, <1>4, <1>5 DEF Thread, Put, Offer, CompareAndSet, OnNext

LEMMA StartStream ==
    ASSUME Types, ListenInv, StartInv, NEW c \in Client, Stream(c)
    PROVE  StartInv'
<1>1. start' = start
  BY DEF Stream, Snapshot, Obtain, Add, Cancel, Remove, Prune, threadVars
<1> QED
  BY <1>1, EarlyKept, StartFrame

----------------------------------------------------------------------------

BaseInv == Types /\ ThreadInv /\ ListenInv /\ StartInv /\ CountInv

LEMMA BaseStep ==
    ASSUME BaseInv, [Next]_vars
    PROVE  BaseInv'
<1>0. Types /\ ThreadInv /\ ListenInv /\ StartInv /\ CountInv
  BY DEF BaseInv
<1>1. ASSUME NEW s \in Symbol, Thread(s) PROVE BaseInv'
  <2>1. UNCHANGED <<subscriberCount, at, pc>>
    BY <1>1 DEF Thread, Put, Publish, Offer, CompareAndSet, OnNext, Published, mapVars,
       streamVars
  <2> QED
    BY <2>1, <1>0, <1>1, TypesThread, ThreadsThread, ListenThread, StartThread, CountThread
       DEF BaseInv
<1>2. ASSUME NEW s \in Symbol, NEW r \in Replica, Rebalance(s, r), UNCHANGED input
      PROVE  BaseInv'
  <2>1. UNCHANGED <<subscriberCount, at, pc, start>>
    BY <1>2 DEF Rebalance, mapVars, streamVars, threadVars
  <2>2. StartInv'
    BY <2>1, <1>0, StartFrame DEF Early
  <2> QED
    BY <2>1, <2>2, <1>0, <1>2, TypesRebalance, ThreadsRebalance, ListenRebalance, CountThread
       DEF BaseInv
<1>3. ASSUME NEW c \in Client, Stream(c) PROVE BaseInv'
  BY <1>0, <1>3, TypesStream, ThreadsStream, ListenStream, StartStream, CountStream
     DEF BaseInv
<1>4. CASE UNCHANGED vars
  <2>1. UNCHANGED <<input, owner, pos, committed, redelivered, step, found, call, cache, mapped,
                    sets, subscriberCount, at, pc, todo, held, lastSent, sent, start>>
    BY <1>4 DEF vars, topicVars, threadVars, mapVars, streamVars
  <2>2. Types'
    BY <2>1, <1>0 DEF Types
  <2>3. ThreadInv'
    BY <2>1, <1>0 DEF ThreadInv, Handled, Newest, Quote
  <2>4. ListenInv'
    <3>1. FoundOK'
      BY <2>1, <1>0, ListenParts DEF FoundOK
    <3> QED
      BY <3>1, <2>1, <1>0, ListenFrame
  <2>5. CountInv' /\ StartInv'
    BY <2>1, <1>0, CountThread, StartFrame DEF Early
  <2> QED
    BY <2>2, <2>3, <2>4, <2>5 DEF BaseInv
<1> QED
  BY <1>1, <1>2, <1>3, <1>4 DEF Next

LEMMA BaseInvariant == Spec => []BaseInv
<1>1. Init => BaseInv
  BY TypesInit, ThreadsInit, ListenInit, StartInit, CountInit DEF BaseInv
<1>2. BaseInv /\ [Next]_vars => BaseInv'
  BY BaseStep
<1> QED
  BY <1>1, <1>2, PTL DEF Spec

\* The types of the fan-out's variables; the gauge of subscribers counts the
\* streams that are open, so that it never goes below zero or above their number.
THEOREM QuoteTypeOK == Spec => []QTypeOK
<1>1. BaseInv => QTypeOK
  <2> SUFFICES ASSUME BaseInv PROVE QTypeOK
    OBVIOUS
  <2>1. Types /\ CountInv
    BY DEF BaseInv
  <2>2. subscriberCount \in [Replica -> 0 .. Cardinality(Client)]
    BY <2>1, OpenFinite DEF CountInv
  <2> QED
    BY <2>1, <2>2 DEF QTypeOK, Types, Stage
<1> QED
  BY <1>1, BaseInvariant, PTL

\* No broadcast that begins calls a stream that has been closed, which keeps
\* nothing alive, and when all are closed the map is empty again, in whatever order streams open and
\* close while others take, fill and prune the sets of their symbols.
THEOREM QuoteListenersReleased == Spec => []ListenersReleased
<1>1. BaseInv => ListenersReleased
  <2> SUFFICES ASSUME BaseInv PROVE ListenersReleased
    OBVIOUS
  <2>1. Types /\ ListenInv
    BY DEF BaseInv
  <2>2. \A r \in Replica, s \in Symbol : \A c \in Reachable(r, s) : pc[c] # "closed"
    BY <2>1 DEF ListenInv
  <2>3. ASSUME \A c \in Client : pc[c] \in {"closed", "rejected"},
               NEW r \in Replica, NEW s \in Symbol
        PROVE  mapped[r][s] = 0
    <3> SUFFICES ASSUME mapped[r][s] # 0 PROVE FALSE
      OBVIOUS
    <3>1. PICK c \in Client : Keeps(c, r, s)
      BY <2>1 DEF ListenInv
    <3>2. c \in Reachable(r, s)
      BY <3>1, <2>3 DEF Keeps
    <3>3. mapped[r][s] \in 1 .. Len(sets[r][s]) /\ c \in sets[r][s][mapped[r][s]]
      BY <3>2, <2>1, MappedIs DEF Reachable, Members
    <3>4. pc[c] # "rejected"
      BY <3>3, <2>1 DEF ListenInv, Listening
    <3> QED
      BY <3>2, <3>4, <2>2, <2>3
  <2> QED
    BY <2>2, <2>3 DEF ListenersReleased
<1> QED
  BY <1>1, BaseInvariant, PTL

----------------------------------------------------------------------------
(* The distance of updates.                                                *)

\* While a listener is called, the record it is called with stays.
LEMMA QuoteKept ==
    ASSUME Types, ThreadInv, Next
    PROVE  input' = input /\ \A t \in Symbol : call[t] # None => Quote(t)' = Quote(t)
<1>0. \A t \in Symbol : call[t] # None => step[t] = "publish"
  BY DEF ThreadInv, Handled
<1>1. ASSUME UNCHANGED <<input, pos>>
      PROVE  input' = input /\ \A t \in Symbol : call[t] # None => Quote(t)' = Quote(t)
  BY <1>1 DEF Quote
<1>2. ASSUME NEW s \in Symbol, NEW o, call[s] = None, pos' = [pos EXCEPT ![s] = o], input' = input
      PROVE  input' = input /\ \A t \in Symbol : call[t] # None => Quote(t)' = Quote(t)
  <2>1. \A t \in Symbol : t # s => pos'[t] = pos[t]
    BY <1>2 DEF Types
  <2> QED
    BY <2>1, <1>2 DEF Quote
<1>3. ASSUME NEW s \in Symbol, Thread(s)
      PROVE  input' = input /\ \A t \in Symbol : call[t] # None => Quote(t)' = Quote(t)
  <2>0. input' = input
    BY <1>3 DEF Thread
  <2>1. CASE Put(s)
    <3>1. call[s] = None
      BY <2>1, <1>0 DEF Put
    <3>2. pos' = pos \/ pos' = [pos EXCEPT ![s] = pos[s] + 1]
      BY <2>1 DEF Put, Advance, topicVars
    <3> QED
      BY <3>1, <3>2, <2>0, <1>1, <1>2
  <2>2. CASE Published(s)
    <3>1. call[s] = None /\ pos' = [pos EXCEPT ![s] = pos[s] + 1]
      BY <2>2 DEF Published, Advance
    <3> QED
      BY <3>1, <2>0, <1>2
  <2>3. CASE Publish(s) \/ (\E c \in Client : Offer(s, c)) \/ CompareAndSet(s) \/ OnNext(s)
    <3>1. pos' = pos
      BY <2>3 DEF Publish, Offer, CompareAndSet, OnNext, topicVars
    <3> QED
      BY <3>1, <2>0, <1>1
  <2> QED
    BY <2>1, <2>2, <2>3, <1>3 DEF Thread
<1>4. ASSUME NEW s \in Symbol, NEW r \in Replica, Rebalance(s, r), UNCHANGED input
      PROVE  input' = input /\ \A t \in Symbol : call[t] # None => Quote(t)' = Quote(t)
  <2>1. call[s] = None
    BY <1>0, <1>4 DEF Rebalance
  <2>2. PICK o \in committed[s] .. pos[s] : pos' = [pos EXCEPT ![s] = o]
    BY <1>4 DEF Rebalance
  <2> QED
    BY <2>1, <2>2, <1>2, <1>4
<1>5. ASSUME NEW c \in Client, Stream(c)
      PROVE  input' = input /\ \A t \in Symbol : call[t] # None => Quote(t)' = Quote(t)
  <2>1. UNCHANGED <<input, pos>>
    BY <1>5 DEF Stream, Snapshot, Obtain, Add, Cancel, Remove, Prune, topicVars
  <2> QED
    BY <2>1, <1>1
<1> QED
  BY <1>3, <1>4, <1>5 DEF Next

\* What is called with a record has a record.
LEMMA CallIs ==
    ASSUME Types, ThreadInv, NEW s \in Symbol, call[s] # None
    PROVE  /\ Quote(s) \in Nat /\ call[s].client \in Client /\ call[s].previous \in Nat
           /\ call[s] \in Call /\ cache[s] = Quote(s)
<1>1. call[s] \in Call
  BY DEF Types
<1>2. pos[s] <= Len(input.feed[s]) /\ cache[s] = Quote(s)
  BY DEF ThreadInv, Handled
<1> QED
  BY <1>1, <1>2, QuoteIs DEF Call

\* What was sent to a stream.
LEMMA SentIs ==
    ASSUME Types, NEW c \in Client
    PROVE  /\ Len(sent[c]) \in Nat /\ DOMAIN sent[c] = 1 .. Len(sent[c])
           /\ \A i \in DOMAIN sent[c] :
                sent[c][i].symbol \in Symbol /\ sent[c][i].time \in Nat
           /\ Updates(c) \subseteq DOMAIN sent[c]
<1>1. sent[c] \in Seq(Message)
  BY DEF Types
<1>2. \A i \in DOMAIN sent[c] : sent[c][i] \in Message
  BY <1>1
<1> QED
  BY <1>1, <1>2 DEF Updates, Message

\* Message m is sent to c, as the n-th.
Sends(c, m, n) ==
    /\ n \notin DOMAIN sent[c] /\ DOMAIN sent'[c] = DOMAIN sent[c] \cup {n}
    /\ \A i \in DOMAIN sent[c] : sent'[c][i] = sent[c][i] /\ i < n
    /\ sent'[c][n] = m
    /\ Updates(c)' = Updates(c) \cup (IF m.update THEN {n} ELSE {})
    /\ \A d \in Client : d # c => sent'[d] = sent[d]

LEMMA SentMore ==
    ASSUME Types, NEW c \in Client, NEW m \in Message,
           sent' = [sent EXCEPT ![c] = Append(sent[c], m)]
    PROVE  \E n \in Nat : Sends(c, m, n)
<1>1. PICK n \in Nat : n = Len(sent[c]) + 1
  BY SentIs
<1>2. /\ sent[c] \in Seq(Message) /\ sent'[c] = Append(sent[c], m)
      /\ \A d \in Client : d # c => sent'[d] = sent[d]
  BY DEF Types
<1>3. /\ DOMAIN sent[c] = 1 .. Len(sent[c]) /\ Len(sent[c]) \in Nat
      /\ DOMAIN sent'[c] = 1 .. n /\ sent'[c][n] = m
      /\ \A i \in 1 .. Len(sent[c]) : sent'[c][i] = sent[c][i]
  BY <1>1, <1>2
<1>4. /\ DOMAIN sent'[c] = DOMAIN sent[c] \cup {n} /\ n \notin DOMAIN sent[c]
      /\ \A i \in DOMAIN sent[c] : i < n
  BY <1>1, <1>3
<1>5. Updates(c)' = Updates(c) \cup (IF m.update THEN {n} ELSE {})
  BY <1>3, <1>4 DEF Updates
<1> QED
  BY <1>2, <1>3, <1>4, <1>5 DEF Sends

\* A step that sends no update and leaves the turns alone.
LEMMA SpaceFrame ==
    ASSUME SpaceInv, UNCHANGED <<call, lastSent>>,
           \A s \in Symbol : call[s] # None => Quote(s)' = Quote(s),
           \A c \in Client : /\ Updates(c)' = Updates(c)
                             /\ \A i \in Updates(c) : sent'[c][i].time = sent[c][i].time
    PROVE  SpaceInv'
<1>1. \A s \in Symbol : call'[s] # None => (Quote(s)' - call'[s].previous) >= minInterval
  BY DEF SpaceInv
<1>2. ASSUME NEW c \in Client PROVE Turns(c)'
  <2>1. /\ Turns(c) /\ Updates(c)' = Updates(c) /\ lastSent'[c] = lastSent[c]
        /\ \A i \in Updates(c) : sent'[c][i].time = sent[c][i].time
    BY DEF SpaceInv
  <2>2. \A s \in Symbol : Won(s, c)' <=> Won(s, c)
    BY DEF Won
  <2>3. \A s \in Symbol : Won(s, c) => Quote(s)' = Quote(s)
    BY DEF Won
  <2>4. \A i \in Updates(c)' : sent'[c][i].time <= lastSent'[c]
    BY <2>1 DEF Turns
  <2>5. \A s \in Symbol : Won(s, c)' => Quote(s)' <= lastSent'[c]
    BY <2>1, <2>2, <2>3 DEF Turns
  <2>6. \A i, j \in Updates(c)' : i # j => Apart(sent'[c][i].time, sent'[c][j].time)
    BY <2>1 DEF Turns
  <2>7. \A i \in Updates(c)', s \in Symbol : Won(s, c)' => Apart(sent'[c][i].time, Quote(s)')
    BY <2>1, <2>2, <2>3 DEF Turns
  <2>8. \A s, t \in Symbol : Won(s, c)' /\ Won(t, c)' /\ s # t => Apart(Quote(s)', Quote(t)')
    BY <2>1, <2>2, <2>3 DEF Turns
  <2> QED
    BY <2>4, <2>5, <2>6, <2>7, <2>8 DEF Turns
<1> QED
  BY <1>1, <1>2 DEF SpaceInv


\* A thread that has not won a turn takes part in none.
LEMMA SpaceCall ==
    ASSUME SpaceInv, NEW s \in Symbol, UNCHANGED <<lastSent, sent, input, pos>>,
           \A t \in Symbol : t # s => call'[t] = call[t],
           call'[s] = None \/ (~call'[s].won /\ Quote(s) - call'[s].previous >= minInterval)
    PROVE  SpaceInv'
<1>0. \A t \in Symbol : Quote(t)' = Quote(t)
  BY DEF Quote
<1>1. \A t \in Symbol : call'[t] # None => (Quote(t)' - call'[t].previous) >= minInterval
  BY <1>0 DEF SpaceInv
<1>2. ASSUME NEW c \in Client PROVE Turns(c)'
  <2>1. Turns(c) /\ Updates(c)' = Updates(c)
    BY DEF SpaceInv, Updates
  <2>2. \A t \in Symbol : Won(t, c)' => Won(t, c)
    BY DEF Won
  <2> QED
    BY <2>1, <2>2, <1>0 DEF Turns
<1> QED
  BY <1>1, <1>2 DEF SpaceInv

LEMMA SpaceOffer ==
    ASSUME Types, SpaceInv, NEW s \in Symbol, NEW c \in Client, Offer(s, c), input' = input
    PROVE  SpaceInv'
<1>1. UNCHANGED <<lastSent, sent, input, pos>> /\ call[s] = None
  BY DEF Offer, topicVars, streamVars
<1>2. \/ call' = call
      \/ /\ call' = [call EXCEPT ![s] = [client |-> c, previous |-> lastSent[c], won |-> FALSE]]
         /\ Quote(s) - lastSent[c] >= minInterval
  BY DEF Offer
<1>3. \A t \in Symbol : t # s => call'[t] = call[t]
  BY <1>2 DEF Types
<1>4. call'[s] = None \/ (~call'[s].won /\ Quote(s) - call'[s].previous >= minInterval)
  BY <1>1, <1>2 DEF Types
<1> QED
  BY <1>1, <1>3, <1>4, SpaceCall

\* The winner of the swap is at a distance from all turns before it.
LEMMA SpaceSwap ==
    ASSUME Types, ThreadInv, SpaceInv, NEW s \in Symbol, CompareAndSet(s), input' = input
    PROVE  SpaceInv'
<1>1. /\ UNCHANGED <<sent, input, pos>> /\ call[s] # None /\ ~call[s].won
      /\ \A t \in Symbol : Quote(t)' = Quote(t)
  BY DEF CompareAndSet, topicVars, Quote
<1>0. PICK c \in Client : c = call[s].client
  BY <1>1, CallIs
<1>2. /\ Quote(s) \in Nat /\ c = call[s].client /\ call[s] \in Call
      /\ call[s].previous \in Nat
  BY <1>0, <1>1, CallIs
<1>3. CASE lastSent[c] # call[s].previous
  <2>1. call' = [call EXCEPT ![s] = None] /\ lastSent' = lastSent
    BY <1>0, <1>3 DEF CompareAndSet
  <2>2. call'[s] = None /\ \A t \in Symbol : t # s => call'[t] = call[t]
    BY <2>1 DEF Types
  <2> QED
    BY <2>1, <2>2, <1>1, SpaceCall
<1>4. CASE lastSent[c] = call[s].previous
  <2>1. /\ lastSent' = [lastSent EXCEPT ![c] = Quote(s)]
        /\ call' = [call EXCEPT ![s] = [call[s] EXCEPT !.won = TRUE]]
    BY <1>0, <1>4 DEF CompareAndSet
  <2>2. /\ lastSent'[c] = Quote(s) /\ \A d \in Client : d # c => lastSent'[d] = lastSent[d]
        /\ \A t \in Symbol : t # s => call'[t] = call[t]
        /\ call'[s] = [call[s] EXCEPT !.won = TRUE]
    BY <2>1, <1>2 DEF Types
  <2>3. call'[s].client = c /\ call'[s].previous = call[s].previous
    BY <2>2, <1>2 DEF Call
  <2>4. Quote(s) - lastSent[c] >= minInterval /\ Quote(s) - call'[s].previous >= minInterval
    BY <2>3, <1>1, <1>4 DEF SpaceInv
  <2>5. lastSent[c] \in Nat /\ minInterval \in Nat
    BY <1>2, QuoteAssumption DEF Types
  <2>6. \A t \in Symbol : call'[t] # None => (Quote(t)' - call'[t].previous) >= minInterval
    BY <2>2, <2>4, <1>1 DEF SpaceInv
  <2>7. ASSUME NEW d \in Client, d # c PROVE Turns(d)'
    <3>1. Turns(d) /\ Updates(d)' = Updates(d) /\ lastSent'[d] = lastSent[d]
      BY <2>2, <2>7, <1>1 DEF SpaceInv, Updates
    <3>2. \A t \in Symbol : Won(t, d)' => Won(t, d)
      BY <2>2, <2>3, <2>7 DEF Won
    <3> QED
      BY <3>1, <3>2, <1>1 DEF Turns
  <2>8. Turns(c)'
    <3>1. Turns(c) /\ Updates(c)' = Updates(c)
      BY <1>1, <1>2 DEF SpaceInv, Updates
    <3>2. \A t \in Symbol : t # s /\ Won(t, c)' => Won(t, c)
      BY <2>2 DEF Won
    <3>3. \A i \in Updates(c) : sent[c][i].time \in Nat /\ sent[c][i].time <= lastSent[c]
      BY <3>1, <1>2, SentIs DEF Turns
    <3>4. \A t \in Symbol : Won(t, c) => Quote(t) \in Nat /\ Quote(t) <= lastSent[c]
      BY <3>1, CallIs DEF Turns, Won
    <3>5. \A u \in Nat : u <= lastSent[c] =>
            u <= Quote(s) /\ Apart(u, Quote(s)) /\ Apart(Quote(s), u)
      BY <2>4, <2>5, <1>2 DEF Apart
    <3>6. \A i \in Updates(c)' : sent'[c][i].time <= lastSent'[c]
      BY <3>1, <3>3, <3>5, <2>2, <1>1
    <3>7. \A t \in Symbol : Won(t, c)' => Quote(t)' <= lastSent'[c]
      <4> SUFFICES ASSUME NEW t \in Symbol, Won(t, c)' PROVE Quote(t) <= Quote(s)
        BY <2>2, <1>1
      <4>1. CASE t # s
        BY <4>1, <3>2, <3>4, <3>5
      <4>2. CASE t = s
        BY <4>2, <1>2
      <4> QED
        BY <4>1, <4>2
    <3>8. \A i, j \in Updates(c)' : i # j => Apart(sent'[c][i].time, sent'[c][j].time)
      BY <3>1, <1>1 DEF Turns
    <3>9. \A i \in Updates(c)', t \in Symbol : Won(t, c)' => Apart(sent'[c][i].time, Quote(t)')
      <4> SUFFICES ASSUME NEW i \in Updates(c), NEW t \in Symbol, Won(t, c)'
                   PROVE  Apart(sent[c][i].time, Quote(t))
        BY <3>1, <1>1
      <4>1. CASE t # s
        BY <4>1, <3>1, <3>2 DEF Turns
      <4>2. CASE t = s
        BY <4>2, <3>3, <3>5
      <4> QED
        BY <4>1, <4>2
    <3>10. \A t, u \in Symbol : Won(t, c)' /\ Won(u, c)' /\ t # u => Apart(Quote(t)', Quote(u)')
      <4> SUFFICES ASSUME NEW t \in Symbol, NEW u \in Symbol, Won(t, c)', Won(u, c)', t # u
                   PROVE  Apart(Quote(t), Quote(u))
        BY <1>1
      <4>1. CASE t # s /\ u # s
        BY <4>1, <3>1, <3>2 DEF Turns
      <4>2. CASE t = s
        BY <4>2, <3>2, <3>4, <3>5
      <4>3. CASE u = s
        BY <4>3, <3>2, <3>4, <3>5
      <4> QED
        BY <4>1, <4>2, <4>3
    <3> QED
      BY <3>6, <3>7, <3>8, <3>9, <3>10 DEF Turns
  <2> QED
    BY <2>6, <2>7, <2>8 DEF SpaceInv
<1> QED
  BY <1>3, <1>4

LEMMA ApartSym ==
    ASSUME NEW t \in Nat, NEW u \in Nat
    PROVE  Apart(t, u) <=> Apart(u, t)
BY QuoteAssumption DEF Apart

\* What was won is sent, or dropped when the stream is closed.
LEMMA SpaceOnNext ==
    ASSUME Types, ThreadInv, SpaceInv, NEW s \in Symbol, OnNext(s), input' = input
    PROVE  SpaceInv'
<1>1. /\ UNCHANGED <<lastSent, input, pos>> /\ call[s] # None /\ call[s].won
      /\ \A t \in Symbol : Quote(t)' = Quote(t)
      /\ call' = [call EXCEPT ![s] = None]
  BY DEF OnNext, topicVars, Quote
<1>2. Quote(s) \in Nat
  BY <1>1, CallIs
<1>0. PICK c \in Client : c = call[s].client
  BY <1>1, CallIs
<1>3. call'[s] = None /\ \A t \in Symbol : t # s => call'[t] = call[t]
  BY <1>1 DEF Types
<1>4. CASE sent' = sent
  BY <1>1, <1>3, <1>4, SpaceCall
<1>5. CASE sent' = [sent EXCEPT ![c] = Append(@, Sending(s, Quote(s), TRUE))]
  <2>0. Won(s, c)
    BY <1>0, <1>1 DEF Won
  <2>a. PICK m : m = Sending(s, Quote(s), TRUE)
    OBVIOUS
  <2>m. m \in Message /\ m.time = Quote(s) /\ m.update = TRUE
    BY <2>a, <1>2 DEF Sending, Message
  <2>n. PICK n \in Nat : Sends(c, m, n)
    BY <2>a, <2>m, <1>5, SentMore
  <2>1. /\ \A i \in DOMAIN sent[c] : sent'[c][i] = sent[c][i]
        /\ sent'[c][n].time = Quote(s)
        /\ Updates(c)' = Updates(c) \cup {n} /\ n \notin DOMAIN sent[c]
        /\ \A d \in Client : d # c => sent'[d] = sent[d]
    BY <2>m, <2>n DEF Sends
  <2>2. \A t \in Symbol : call'[t] # None => (Quote(t)' - call'[t].previous) >= minInterval
    BY <1>1, <1>3 DEF SpaceInv
  <2>3. \A t \in Symbol, d \in Client : Won(t, d)' => Won(t, d) /\ t # s
    BY <1>3 DEF Won
  <2>4. ASSUME NEW d \in Client, d # c PROVE Turns(d)'
    <3>1. Turns(d) /\ Updates(d)' = Updates(d) /\ sent'[d] = sent[d]
      BY <2>1, <2>4 DEF SpaceInv, Updates
    <3> QED
      BY <3>1, <2>3, <1>1 DEF Turns
  <2>5. Turns(c)'
    <3>1. Turns(c) /\ Updates(c) \subseteq DOMAIN sent[c] /\ n \notin Updates(c)
      BY <1>2, <2>1, SentIs DEF SpaceInv
    <3>2. \A i \in Updates(c) : sent'[c][i].time = sent[c][i].time
      BY <2>1, <3>1
    <3>3. \A i \in Updates(c)' : i # n => i \in Updates(c)
      BY <2>1
    <3>4. \A i \in Updates(c) : sent[c][i].time \in Nat
      BY <1>2, SentIs
    <3>5. \A i \in Updates(c) : Apart(sent[c][i].time, Quote(s)) /\ Apart(Quote(s), sent[c][i].time)
      BY <3>1, <3>4, <2>0, <1>2, ApartSym DEF Turns
    <3>6. \A i \in Updates(c)' : sent'[c][i].time <= lastSent'[c]
      BY <3>1, <3>2, <3>3, <2>0, <2>1, <1>1 DEF Turns
    <3>7. \A t \in Symbol : Won(t, c)' => Quote(t)' <= lastSent'[c]
      BY <3>1, <2>3, <1>1, <1>2 DEF Turns
    <3>8. ASSUME NEW i \in Updates(c)', NEW j \in Updates(c)', i # j
          PROVE  Apart(sent'[c][i].time, sent'[c][j].time)
      <4>1. CASE i = n
        BY <4>1, <3>2, <3>3, <3>5, <3>8, <2>1
      <4>2. CASE j = n
        BY <4>2, <3>2, <3>3, <3>5, <3>8, <2>1
      <4>3. CASE i # n /\ j # n
        BY <4>3, <3>1, <3>2, <3>3, <3>8 DEF Turns
      <4> QED
        BY <4>1, <4>2, <4>3
    <3>9. ASSUME NEW i \in Updates(c)', NEW t \in Symbol, Won(t, c)'
          PROVE  Apart(sent'[c][i].time, Quote(t)')
      <4>0. Won(t, c) /\ t # s
        BY <2>3, <3>9, <1>2
      <4>1. CASE i = n
        BY <4>0, <4>1, <3>1, <2>0, <2>1, <1>1 DEF Turns
      <4>2. CASE i # n
        BY <4>0, <4>2, <3>1, <3>2, <3>3, <1>1 DEF Turns
      <4> QED
        BY <4>1, <4>2
    <3>10. \A t, u \in Symbol : Won(t, c)' /\ Won(u, c)' /\ t # u => Apart(Quote(t)', Quote(u)')
      BY <3>1, <2>3, <1>1, <1>2 DEF Turns
    <3> QED
      BY <3>6, <3>7, <3>8, <3>9, <3>10 DEF Turns
  <2> QED
    BY <2>2, <2>4, <2>5 DEF SpaceInv
<1> QED
  BY <1>0, <1>4, <1>5 DEF OnNext


LEMMA SpaceStream ==
    ASSUME Types, ThreadInv, ListenInv, SpaceInv, Next, NEW c \in Client, Stream(c)
    PROVE  SpaceInv'
<1>1. \A s \in Symbol : call[s] # None => Quote(s)' = Quote(s)
  BY QuoteKept
<1>2. UNCHANGED <<call, lastSent>>
  BY DEF Stream, Snapshot, Obtain, Add, Cancel, Remove, Prune, threadVars
<1>3. CASE sent' = sent
  <2>1. \A d \in Client : /\ Updates(d)' = Updates(d)
                          /\ \A i \in Updates(d) : sent'[d][i].time = sent[d][i].time
    BY <1>3 DEF Updates
  <2> QED
    BY <2>1, <1>1, <1>2, SpaceFrame
<1>4. CASE Snapshot(c) /\ sent' # sent
  <2>0. PICK s \in Symbol : s = Head(todo[c])
    BY <1>4, LoopIs DEF Snapshot
  <2>1. sent' = [sent EXCEPT ![c] = Append(@, Sending(s, cache[s], FALSE))]
    BY <2>0, <1>4 DEF Snapshot
  <2>2. cache[s] \in Nat
    BY DEF Types
  <2>a. PICK m : m = Sending(s, cache[s], FALSE)
    OBVIOUS
  <2>3. m \in Message /\ m.update = FALSE
    BY <2>a, <2>2 DEF Sending, Message
  <2>4. PICK n \in Nat : Sends(c, m, n)
    BY <2>a, <2>1, <2>3, SentMore
  <2>5. /\ \A i \in DOMAIN sent[c] : sent'[c][i] = sent[c][i]
        /\ Updates(c)' = Updates(c)
        /\ \A d \in Client : d # c => sent'[d] = sent[d]
    BY <2>3, <2>4 DEF Sends
  <2>6. ASSUME NEW d \in Client
        PROVE  /\ Updates(d)' = Updates(d)
               /\ \A i \in Updates(d) : sent'[d][i].time = sent[d][i].time
    <3>1. CASE d = c
      BY <3>1, <2>5, SentIs
    <3>2. CASE d # c
      BY <3>2, <2>5 DEF Updates
    <3> QED
      BY <3>1, <3>2
  <2> QED
    BY <2>6, <1>1, <1>2, SpaceFrame
<1>5. Snapshot(c) \/ sent' = sent
  BY DEF Stream, Obtain, Add, Cancel, Remove, Prune
<1> QED
  BY <1>3, <1>4, <1>5

LEMMA SpaceStep ==
    ASSUME BaseInv, SpaceInv, [Next]_vars
    PROVE  SpaceInv'
<1>0. Types /\ ThreadInv /\ ListenInv
  BY DEF BaseInv
<1>1. ASSUME UNCHANGED <<call, lastSent, sent>>,
             \A s \in Symbol : call[s] # None => Quote(s)' = Quote(s)
      PROVE  SpaceInv'
  <2>1. \A d \in Client : /\ Updates(d)' = Updates(d)
                          /\ \A i \in Updates(d) : sent'[d][i].time = sent[d][i].time
    BY <1>1 DEF Updates
  <2> QED
    BY <2>1, <1>1, SpaceFrame
<1>2. ASSUME NEW s \in Symbol, Thread(s), Next PROVE SpaceInv'
  <2>1. CASE Put(s) \/ Publish(s) \/ Published(s)
    <3>1. UNCHANGED <<call, lastSent, sent>>
      BY <2>1 DEF Put, Publish, Published, streamVars
    <3> QED
      BY <3>1, <1>0, <1>1, <1>2, QuoteKept
  <2>2. input' = input
    BY <1>2 DEF Thread
  <2> QED
    BY <2>1, <2>2, <1>0, <1>2, SpaceOffer, SpaceSwap, SpaceOnNext DEF Thread
<1>3. ASSUME NEW s \in Symbol, NEW r \in Replica, Rebalance(s, r), Next PROVE SpaceInv'
  <2>1. UNCHANGED <<call, lastSent, sent>>
    BY <1>3 DEF Rebalance, threadVars, streamVars
  <2> QED
    BY <2>1, <1>0, <1>1, <1>3, QuoteKept
<1>4. CASE UNCHANGED vars
  <2>1. UNCHANGED <<call, lastSent, sent, input, pos>>
    BY <1>4 DEF vars, threadVars, streamVars, topicVars
  <2> QED
    BY <2>1, <1>1 DEF Quote
<1> QED
  BY <1>0, <1>2, <1>3, <1>4, SpaceStream DEF Next

LEMMA SpaceInit == Init => SpaceInv
<1> SUFFICES ASSUME Init PROVE SpaceInv
  OBVIOUS
<1>1. \A s \in Symbol : call[s] = None
  BY DEF Init
<1>2. \A c \in Client : Updates(c) = {}
  BY DEF Init, Updates
<1>3. \A c \in Client : Turns(c)
  BY <1>1, <1>2 DEF Turns, Won
<1> QED
  BY <1>1, <1>3 DEF SpaceInv

LEMMA SpaceInvariant == Spec => [](BaseInv /\ SpaceInv)
<1>1. Init => SpaceInv
  BY SpaceInit
<1>2. BaseInv /\ SpaceInv /\ [Next]_vars => SpaceInv'
  BY SpaceStep
<1> QED
  BY <1>1, <1>2, BaseInvariant, PTL DEF Spec

\* The updates of a stream keep the distance that its max_updates_hz asks for,
\* although the threads of its symbols read, swap and send at the same time and
\* partitions are delivered again: a turn is won against the last time another
\* thread won, and all turns that were won, sent or not, are apart.
THEOREM QuoteUpdatesSpaced == Spec => []UpdatesSpaced
<1>1. BaseInv /\ SpaceInv => UpdatesSpaced
  <2> SUFFICES ASSUME BaseInv, SpaceInv, NEW c \in Client, NEW i \in Updates(c),
                      NEW j \in Updates(c), i < j
               PROVE  sent[c][i].time - sent[c][j].time \notin 1 - minInterval .. minInterval - 1
    BY DEF UpdatesSpaced
  <2>1. Types
    BY DEF BaseInv
  <2>2. i \in Nat /\ j \in Nat /\ sent[c][i].time \in Nat /\ sent[c][j].time \in Nat
    BY <2>1, SentIs
  <2>3. Apart(sent[c][i].time, sent[c][j].time)
    BY <2>2 DEF SpaceInv, Turns
  <2>4. \A t, u \in Nat : Apart(t, u) => t - u \notin 1 - minInterval .. minInterval - 1
    BY QuoteAssumption DEF Apart
  <2> QED
    BY <2>2, <2>3, <2>4
<1> QED
  BY <1>1, SpaceInvariant, PTL


----------------------------------------------------------------------------
(* The order of what a stream is sent.                                     *)

\* What a stream is sent of a symbol moves forward.
Advances(c) ==
    \A i, j \in DOMAIN sent[c] :
        i < j /\ sent[c][i].symbol = sent[c][j].symbol =>
            \/ sent[c][i].time <= sent[c][j].time
            \/ sent[c][j].again /\ ~sent[c][i].update

\* A step that sends nothing: the cache moves forward where no partition was
\* delivered again, and a turn that is won is newer than what was sent.
LEMMA ForwardFrame ==
    ASSUME Types, ForwardInv, sent' = sent, redelivered \subseteq redelivered',
           cache' \in [Symbol -> Nat],
           \A s \in Symbol : s \notin redelivered' => cache[s] <= cache'[s],
           \A c \in Client : Early(c)' => Early(c),
           \A s \in Symbol, c \in Client : Won(s, c)' =>
                \/ Won(s, c) /\ Quote(s)' = Quote(s)
                \/ \A i \in Updates(c) : sent[c][i].time <= Quote(s)',
           \A s \in Symbol, c \in Client : call'[s] # None /\ call'[s].client = c =>
                \/ call[s] # None /\ call[s].client = c
                \/ ~Early(c)
    PROVE  ForwardInv'
<1>1. StreamAdvances'
  BY DEF ForwardInv, StreamAdvances
<1>2. ASSUME NEW c \in Client PROVE Forward(c)'
  <2>0. Forward(c) /\ Updates(c)' = Updates(c)
    BY DEF ForwardInv, Updates
  <2>1. ASSUME NEW i \in Updates(c), NEW s \in Symbol, Won(s, c)', sent[c][i].symbol = s
        PROVE  sent[c][i].time <= Quote(s)'
    <3>1. CASE Won(s, c) /\ Quote(s)' = Quote(s)
      BY <3>1, <2>0, <2>1 DEF Forward
    <3>2. CASE \A k \in Updates(c) : sent[c][k].time <= Quote(s)'
      BY <3>2
    <3> QED
      BY <3>1, <3>2, <2>1
  <2>2. ASSUME Early(c)'
        PROVE  Updates(c) = {} /\ \A s \in Symbol : call'[s] # None => call'[s].client # c
    <3>1. /\ Early(c) /\ Updates(c) = {}
          /\ \A s \in Symbol : call[s] # None => call[s].client # c
      BY <2>0, <2>2 DEF Forward, Early
    <3> QED
      BY <3>1
  <2>3. ASSUME NEW i \in DOMAIN sent[c], sent[c][i].symbol \notin redelivered'
        PROVE  sent[c][i].time <= cache'[sent[c][i].symbol]
    <3>1. PICK s \in Symbol : s = sent[c][i].symbol
      BY SentIs
    <3>2. sent[c][i].time \in Nat /\ cache[s] \in Nat /\ cache'[s] \in Nat
      BY SentIs DEF Types
    <3>3. s \notin redelivered /\ cache[s] <= cache'[s]
      BY <3>1, <2>3
    <3>4. sent[c][i].time <= cache[s]
      BY <3>1, <3>3, <2>0 DEF Forward
    <3> QED
      BY <3>1, <3>2, <3>3, <3>4
  <2> QED
    BY <2>0, <2>1, <2>2, <2>3 DEF Forward, Early
<1> QED
  BY <1>1, <1>2 DEF ForwardInv

\* A step that sends a message to c.
LEMMA ForwardMore ==
    ASSUME Types, ForwardInv, NEW c \in Client, NEW m \in Message, NEW n \in Nat,
           Sends(c, m, n),
           UNCHANGED <<redelivered, cache>>,
           \A i \in DOMAIN sent[c] : sent[c][i].symbol = m.symbol =>
                sent[c][i].time <= m.time \/ (m.again /\ ~sent[c][i].update),
           m.symbol \notin redelivered => m.time <= cache[m.symbol],
           m.update => ~Early(c) /\ ~Won(m.symbol, c)',
           \A d \in Client : Early(d)' => Early(d),
           \A s \in Symbol, d \in Client : Won(s, d)' => Won(s, d) /\ Quote(s)' = Quote(s),
           \A s \in Symbol : call'[s] # None => call[s] # None /\ call'[s].client = call[s].client
    PROVE  ForwardInv'
<1>2. \A i \in DOMAIN sent[c] : sent'[c][i] = sent[c][i] /\ i < n
  BY DEF Sends
<1>3. sent'[c][n] = m
  BY DEF Sends
<1>4. n \notin DOMAIN sent[c] /\ DOMAIN sent'[c] = DOMAIN sent[c] \cup {n}
  BY DEF Sends
<1>5. Updates(c)' = Updates(c) \cup (IF m.update THEN {n} ELSE {})
  BY DEF Sends
<1>6. \A d \in Client : d # c => sent'[d] = sent[d]
  BY DEF Sends
<1>7. /\ DOMAIN sent[c] \subseteq Nat /\ Updates(c) \subseteq DOMAIN sent[c]
      /\ Forward(c) /\ Advances(c)
  BY SentIs DEF ForwardInv, StreamAdvances, Advances
<1>8. ASSUME NEW d \in Client PROVE Advances(d)'
  <2>1. CASE d # c
    <3>1. sent'[d] = sent[d] /\ Advances(d)
      BY <2>1, <1>6 DEF ForwardInv, StreamAdvances, Advances
    <3> QED
      BY <3>1 DEF Advances
  <2>2. ASSUME NEW i \in DOMAIN sent'[c], NEW j \in DOMAIN sent'[c], i < j,
               sent'[c][i].symbol = sent'[c][j].symbol
        PROVE  \/ sent'[c][i].time <= sent'[c][j].time
               \/ sent'[c][j].again /\ ~sent'[c][i].update
    <3>1. CASE j = n
      <4>1. i \in DOMAIN sent[c]
        BY <3>1, <2>2, <1>4, <1>7
      <4> QED
        BY <4>1, <3>1, <2>2, <1>2, <1>3
    <3>2. CASE j # n
      <4>1. j \in DOMAIN sent[c] /\ i # n
        BY <3>2, <2>2, <1>2, <1>4, <1>7
      <4>2. i \in DOMAIN sent[c]
        BY <4>1, <1>4
      <4> QED
        BY <4>1, <4>2, <2>2, <1>2, <1>7 DEF Advances
    <3> QED
      BY <3>1, <3>2
  <2> QED
    BY <2>1, <2>2 DEF Advances
<1>9. ASSUME NEW d \in Client PROVE Forward(d)'
  <2>1. CASE d # c
    <3>1. Forward(d) /\ Updates(d)' = Updates(d) /\ sent'[d] = sent[d]
      BY <2>1, <1>6 DEF ForwardInv, Updates
    <3>2. \A i \in Updates(d)', s \in Symbol :
            Won(s, d)' /\ sent'[d][i].symbol = s => sent'[d][i].time <= Quote(s)'
      BY <3>1 DEF Forward
    <3>3. Early(d)' =>
            Updates(d)' = {} /\ \A s \in Symbol : call'[s] # None => call'[s].client # d
      BY <3>1 DEF Forward, Early
    <3>4. \A i \in DOMAIN sent'[d] : sent'[d][i].symbol \notin redelivered' =>
            sent'[d][i].time <= cache'[sent'[d][i].symbol]
      BY <3>1 DEF Forward
    <3> QED
      BY <3>2, <3>3, <3>4 DEF Forward, Early
  <2>2. ASSUME NEW i \in Updates(c)', NEW s \in Symbol, Won(s, c)', sent'[c][i].symbol = s
        PROVE  sent'[c][i].time <= Quote(s)'
    <3>0. Won(s, c) /\ Quote(s)' = Quote(s)
      BY <2>2
    <3>1. i # n
      BY <2>2, <1>3, <1>4, <1>5, <1>7
    <3>2. i \in Updates(c) /\ sent'[c][i] = sent[c][i]
      BY <3>1, <1>2, <1>5, <1>7
    <3> QED
      BY <3>0, <3>2, <2>2, <1>7 DEF Forward
  <2>3. ASSUME Early(c)'
        PROVE  Updates(c)' = {} /\ \A s \in Symbol : call'[s] # None => call'[s].client # c
    <3>1. Early(c)
      BY <2>3
    <3> QED
      BY <3>1, <1>5, <1>7 DEF Forward, Early
  <2>4. ASSUME NEW i \in DOMAIN sent'[c], sent'[c][i].symbol \notin redelivered
        PROVE  sent'[c][i].time <= cache[sent'[c][i].symbol]
    <3>1. CASE i = n
      BY <3>1, <2>4, <1>3
    <3>2. CASE i # n
      <4>1. i \in DOMAIN sent[c] /\ sent'[c][i] = sent[c][i]
        BY <3>2, <1>2, <1>4
      <4> QED
        BY <4>1, <2>4, <1>7 DEF Forward
    <3> QED
      BY <3>1, <3>2
  <2>5. Forward(c)'
    BY <2>2, <2>3, <2>4 DEF Forward, Early
  <2> QED
    BY <2>1, <2>5
<1> QED
  BY <1>8, <1>9 DEF ForwardInv, StreamAdvances, Advances


LEMMA ForwardThread ==
    ASSUME Types, ThreadInv, ListenInv, StartInv, SpaceInv, ForwardInv, Next,
           NEW s \in Symbol, Thread(s)
    PROVE  ForwardInv'
<1>0. /\ input' = input /\ pc' = pc /\ Handled(s) /\ Newest(s)
      /\ \A t \in Symbol : call[t] # None => Quote(t)' = Quote(t)
      /\ cache \in [Symbol -> Nat] /\ \A t \in Symbol : cache[t] <= cache[t]
  <2>1. cache \in [Symbol -> Nat]
    BY DEF Types
  <2>2. \A t \in Symbol : cache[t] <= cache[t]
    BY <2>1
  <2> QED
    BY <2>1, <2>2, QuoteKept DEF Thread, Put, Publish, Offer, CompareAndSet, OnNext, Published,
       streamVars, ThreadInv
<1>1. \A c \in Client : Early(c)' => Early(c)
  BY <1>0 DEF Early
<1>2. ASSUME call' = call
      PROVE  /\ \A t \in Symbol, c \in Client : Won(t, c)' => Won(t, c) /\ Quote(t)' = Quote(t)
             /\ \A t \in Symbol, c \in Client : call'[t] # None /\ call'[t].client = c =>
                    call[t] # None /\ call[t].client = c
  BY <1>0, <1>2 DEF Won
<1>3. CASE Put(s)
  <2>1. UNCHANGED <<sent, call, redelivered>> /\ step[s] = "poll" /\ pos[s] <= Len(input.feed[s])
    BY <1>3 DEF Put, Advance, topicVars, streamVars
  <2>2. Quote(s) \in Nat /\ pos[s] \in 1 .. Len(input.feed[s])
    BY <2>1, QuoteIs
  <2>3. s \notin redelivered => cache[s] <= Quote(s)
    <3>1. input.feed[s] \in Seq(Nat \ {0})
      BY InputIs DEF Types
    <3>2. pos[s] \in pos[s] .. Len(input.feed[s])
      BY <3>1, <2>2
    <3> QED
      BY <3>2, <1>0 DEF Newest, Quote
  <2>4. cache' = cache \/ cache' = [cache EXCEPT ![s] = Quote(s)]
    BY <1>3 DEF Put
  <2>5. cache' \in [Symbol -> Nat] /\ \A t \in Symbol : t \notin redelivered => cache[t] <= cache'[t]
    BY <2>2, <2>3, <2>4, <1>0
  <2> QED
    BY <2>1, <2>5, <1>1, <1>2, ForwardFrame
<1>4. CASE Publish(s) \/ Published(s)
  <2>1. UNCHANGED <<sent, call, redelivered, cache>>
    BY <1>4 DEF Publish, Published, Advance, topicVars, streamVars
  <2> QED
    BY <2>1, <1>0, <1>1, <1>2, ForwardFrame
<1>5. ASSUME NEW c \in Client, Offer(s, c) PROVE ForwardInv'
  <2>1. UNCHANGED <<sent, redelivered, cache>> /\ call[s] = None /\ step[s] = "publish"
    BY <1>5 DEF Offer, topicVars, streamVars
  <2>2. c \in start[s] \cup Members(owner[s], s, found[s])
    BY <1>5 DEF Offer
  <2>3. ~Early(c)
    <3>1. owner[s] \in Replica /\ found[s] \in Nat
      BY DEF Types
    <3>2. found[s] <= Len(sets[owner[s]][s])
      BY <3>1, <2>1 DEF ListenInv
    <3>3. Members(owner[s], s, found[s]) \in SUBSET {d \in Client : ~Early(d)}
      BY <3>1, <3>2, MembersPast
    <3>4. start[s] \in SUBSET {d \in Client : ~Early(d)}
      BY DEF StartInv
    <3> QED
      BY <3>3, <3>4, <2>2
  <2>4. \/ call' = call
        \/ call' = [call EXCEPT ![s] = [client |-> c, previous |-> lastSent[c], won |-> FALSE]]
    BY <1>5 DEF Offer
  <2>5. /\ \A t \in Symbol : t # s => call'[t] = call[t]
        /\ call'[s] # None => call'[s].client = c /\ ~call'[s].won
    BY <2>1, <2>4 DEF Types
  <2>6. \A t \in Symbol, d \in Client : Won(t, d)' => Won(t, d) /\ Quote(t)' = Quote(t)
    BY <2>5, <1>0 DEF Won
  <2>7. \A t \in Symbol, d \in Client : call'[t] # None /\ call'[t].client = d =>
            \/ call[t] # None /\ call[t].client = d
            \/ ~Early(d)
    BY <2>3, <2>5
  <2> QED
    BY <2>1, <2>6, <2>7, <1>0, <1>1, ForwardFrame
<1>6. CASE CompareAndSet(s)
  <2>1. /\ UNCHANGED <<sent, redelivered, cache>> /\ call[s] # None
        /\ \/ /\ lastSent[call[s].client] = call[s].previous
              /\ call' = [call EXCEPT ![s] = [call[s] EXCEPT !.won = TRUE]]
           \/ call' = [call EXCEPT ![s] = None]
    BY <1>6 DEF CompareAndSet, topicVars
  <2>2. /\ Quote(s) \in Nat /\ call[s] \in Call /\ call[s].client \in Client
        /\ call[s].previous \in Nat /\ Quote(s)' = Quote(s)
    BY <2>1, <1>0, CallIs
  <2>3. PICK c \in Client : c = call[s].client
    BY <2>2
  <2>4. \A t \in Symbol : t # s => call'[t] = call[t]
    BY <2>1 DEF Types
  <2>5. call'[s] # None => call'[s].client = c /\ lastSent[c] = call[s].previous
    BY <2>1, <2>2, <2>3 DEF Types, Call
  <2>6. lastSent[c] = call[s].previous => \A i \in Updates(c) : sent[c][i].time <= Quote(s)'
    <3> SUFFICES ASSUME lastSent[c] = call[s].previous, NEW i \in Updates(c)
                 PROVE  sent[c][i].time <= Quote(s)
      BY <2>2
    <3>1. Quote(s) - lastSent[c] >= minInterval /\ sent[c][i].time <= lastSent[c]
      BY <2>1 DEF SpaceInv, Turns
    <3>2. sent[c][i].time \in Nat /\ lastSent[c] \in Nat /\ minInterval \in Nat
      BY SentIs, QuoteAssumption DEF Types
    <3> QED
      BY <3>1, <3>2, <2>2
  <2>7. ASSUME NEW t \in Symbol, NEW d \in Client, Won(t, d)'
        PROVE  \/ Won(t, d) /\ Quote(t)' = Quote(t)
               \/ \A i \in Updates(d) : sent[d][i].time <= Quote(t)'
    <3>1. CASE t = s
      BY <3>1, <2>5, <2>6, <2>7 DEF Won
    <3>2. CASE t # s
      BY <3>2, <2>4, <2>7, <1>0 DEF Won
    <3> QED
      BY <3>1, <3>2
  <2>8. \A t \in Symbol, d \in Client : call'[t] # None /\ call'[t].client = d =>
            call[t] # None /\ call[t].client = d
    BY <2>1, <2>3, <2>4, <2>5
  <2> QED
    BY <2>1, <2>7, <2>8, <1>0, <1>1, ForwardFrame
<1>7. CASE OnNext(s)
  <2>1. /\ UNCHANGED <<redelivered, cache>> /\ call[s] # None /\ call[s].won
        /\ call' = [call EXCEPT ![s] = None]
    BY <1>7 DEF OnNext, topicVars
  <2>2. Quote(s) \in Nat /\ call[s].client \in Client /\ cache[s] = Quote(s)
    BY <2>1, CallIs
  <2>3. PICK c \in Client : c = call[s].client
    BY <2>2
  <2>4. call'[s] = None /\ \A t \in Symbol : t # s => call'[t] = call[t]
    BY <2>1 DEF Types
  <2>5. \A t \in Symbol, d \in Client : Won(t, d)' => Won(t, d) /\ Quote(t)' = Quote(t)
    BY <2>4, <1>0 DEF Won
  <2>6. \A t \in Symbol : call'[t] # None =>
            call[t] # None /\ call'[t].client = call[t].client
    BY <2>4
  <2>7. CASE sent' = sent
    BY <2>1, <2>5, <2>6, <2>7, <1>0, <1>1, ForwardFrame
  <2>8. CASE sent' = [sent EXCEPT ![c] = Append(@, Sending(s, Quote(s), TRUE))]
    <3>1. PICK m : m = Sending(s, Quote(s), TRUE)
      OBVIOUS
    <3>2. /\ m \in Message /\ m.symbol = s /\ m.time = Quote(s) /\ m.update = TRUE
          /\ m.again = (s \in redelivered)
      BY <3>1, <2>2 DEF Sending, Message
    <3>3. PICK n \in Nat : Sends(c, m, n)
      BY <3>1, <3>2, <2>8, SentMore
    <3>4. Won(s, c) /\ Forward(c)
      BY <2>1, <2>3 DEF Won, ForwardInv
    <3>5. ~Early(c)
      BY <3>4, <2>1, <2>3 DEF Forward, Early
    <3>6. ~Won(m.symbol, c)'
      BY <3>2, <2>4 DEF Won
    <3>7. ASSUME NEW i \in DOMAIN sent[c], sent[c][i].symbol = s
          PROVE  sent[c][i].time <= Quote(s) \/ (s \in redelivered /\ ~sent[c][i].update)
      <4>1. CASE sent[c][i].update
        BY <4>1, <3>4, <3>7 DEF Forward, Updates
      <4>2. CASE s \notin redelivered
        BY <4>2, <3>4, <3>7, <2>2 DEF Forward
      <4> QED
        BY <4>1, <4>2
    <3>8. \A i \in DOMAIN sent[c] : sent[c][i].symbol = m.symbol =>
                sent[c][i].time <= m.time \/ (m.again /\ ~sent[c][i].update)
      BY <3>2, <3>7
    <3>9. m.symbol \notin redelivered => m.time <= cache[m.symbol]
      BY <3>2, <2>2
    <3> QED
      BY <3>2, <3>3, <3>5, <3>6, <3>8, <3>9, <2>1, <2>5, <2>6, <1>1, ForwardMore
  <2> QED
    BY <2>3, <2>7, <2>8, <1>7 DEF OnNext
<1> QED
  BY <1>3, <1>4, <1>5, <1>6, <1>7 DEF Thread


LEMMA ForwardRebalance ==
    ASSUME Types, ThreadInv, ForwardInv, Next, NEW s \in Symbol, NEW r \in Replica,
           Rebalance(s, r)
    PROVE  ForwardInv'
<1>1. UNCHANGED <<sent, call, cache, pc>> /\ redelivered \subseteq redelivered'
  BY DEF Rebalance, threadVars, streamVars
<1>2. cache' \in [Symbol -> Nat] /\ \A t \in Symbol : cache[t] <= cache'[t]
  <2>1. cache \in [Symbol -> Nat]
    BY DEF Types
  <2> QED
    BY <2>1, <1>1
<1>3. \A c \in Client : Early(c)' => Early(c)
  BY <1>1 DEF Early
<1>4. \A t \in Symbol, c \in Client : Won(t, c)' => Won(t, c) /\ Quote(t)' = Quote(t)
  BY <1>1, QuoteKept DEF Won
<1> QED
  BY <1>1, <1>2, <1>3, <1>4, ForwardFrame

LEMMA ForwardStream ==
    ASSUME Types, ThreadInv, ListenInv, ForwardInv, Next, NEW c \in Client, Stream(c)
    PROVE  ForwardInv'
<1>1. UNCHANGED <<call, cache, redelivered>>
  BY DEF Stream, Snapshot, Obtain, Add, Cancel, Remove, Prune, threadVars, topicVars
<1>2. cache' \in [Symbol -> Nat] /\ \A t \in Symbol : cache[t] <= cache'[t]
  <2>1. cache \in [Symbol -> Nat]
    BY DEF Types
  <2> QED
    BY <2>1, <1>1
<1>3. \A t \in Symbol, d \in Client : Won(t, d)' => Won(t, d) /\ Quote(t)' = Quote(t)
  BY <1>1, QuoteKept DEF Won
<1>4. \A d \in Client : Early(d)' => Early(d)
  BY EarlyKept
<1>5. CASE sent' = sent
  BY <1>1, <1>2, <1>3, <1>4, <1>5, ForwardFrame
<1>6. CASE Snapshot(c) /\ sent' # sent
  <2>0. PICK s \in Symbol : s = Head(todo[c])
    BY <1>6, LoopIs DEF Snapshot
  <2>1. sent' = [sent EXCEPT ![c] = Append(@, Sending(s, cache[s], FALSE))]
    BY <2>0, <1>6 DEF Snapshot
  <2>2. PICK m : m = Sending(s, cache[s], FALSE)
    OBVIOUS
  <2>3. cache[s] \in Nat
    BY DEF Types
  <2>4. /\ m \in Message /\ m.symbol = s /\ m.time = cache[s] /\ m.update = FALSE
        /\ m.again = (s \in redelivered)
    BY <2>2, <2>3 DEF Sending, Message
  <2>5. PICK n \in Nat : Sends(c, m, n)
    BY <2>1, <2>2, <2>4, SentMore
  <2>6. Forward(c) /\ Updates(c) = {}
    BY <1>6 DEF ForwardInv, Forward, Snapshot
  <2>7. ASSUME NEW i \in DOMAIN sent[c], sent[c][i].symbol = s
        PROVE  sent[c][i].time <= cache[s] \/ (s \in redelivered /\ ~sent[c][i].update)
    <3>1. ~sent[c][i].update
      BY <2>6 DEF Updates
    <3>2. CASE s \notin redelivered
      BY <3>2, <2>6, <2>7 DEF Forward
    <3> QED
      BY <3>1, <3>2
  <2>8. \A i \in DOMAIN sent[c] : sent[c][i].symbol = m.symbol =>
            sent[c][i].time <= m.time \/ (m.again /\ ~sent[c][i].update)
    BY <2>4, <2>7
  <2>9. m.symbol \notin redelivered => m.time <= cache[m.symbol]
    BY <2>3, <2>4
  <2>10. \A t \in Symbol : call'[t] # None =>
            call[t] # None /\ call'[t].client = call[t].client
    BY <1>1
  <2> QED
    BY <2>4, <2>5, <2>8, <2>9, <2>10, <1>1, <1>3, <1>4, ForwardMore
<1>7. Snapshot(c) \/ sent' = sent
  BY DEF Stream, Obtain, Add, Cancel, Remove, Prune
<1> QED
  BY <1>5, <1>6, <1>7

LEMMA ForwardStep ==
    ASSUME BaseInv, SpaceInv, ForwardInv, [Next]_vars
    PROVE  ForwardInv'
<1>0. Types /\ ThreadInv /\ ListenInv /\ StartInv
  BY DEF BaseInv
<1>1. CASE UNCHANGED vars
  <2>1. UNCHANGED <<sent, call, cache, redelivered, pc, input, pos>>
    BY <1>1 DEF vars, topicVars, threadVars, streamVars
  <2>2. StreamAdvances'
    BY <2>1 DEF ForwardInv, StreamAdvances
  <2>3. \A c \in Client : Forward(c)'
    BY <2>1 DEF ForwardInv, Forward, Updates, Won, Quote
  <2> QED
    BY <2>2, <2>3 DEF ForwardInv
<1> QED
  BY <1>0, <1>1, ForwardThread, ForwardRebalance, ForwardStream DEF Next

LEMMA ForwardInit == Init => ForwardInv
<1> SUFFICES ASSUME Init PROVE ForwardInv
  OBVIOUS
<1>1. \A c \in Client : sent[c] = <<>>
  BY DEF Init
<1>2. \A s \in Symbol : call[s] = None
  BY DEF Init
<1>3. \A c \in Client : Updates(c) = {} /\ DOMAIN sent[c] = {}
  BY <1>1 DEF Updates
<1> QED
  BY <1>2, <1>3 DEF ForwardInv, StreamAdvances, Forward, Won

LEMMA QuoteInvariant == Spec => [](BaseInv /\ SpaceInv /\ ForwardInv)
<1>1. Init => ForwardInv
  BY ForwardInit
<1>2. BaseInv /\ SpaceInv /\ ForwardInv /\ [Next]_vars => ForwardInv'
  BY ForwardStep
<1> QED
  BY <1>1, <1>2, SpaceInvariant, PTL DEF Spec

\* What a stream is sent of a symbol only moves forward: no update is older than
\* an update before it, even when the topic is delivered again, nor older than
\* the snapshot, unless it is a repetition.
THEOREM QuoteStreamAdvances == Spec => []StreamAdvances
<1>1. ForwardInv => StreamAdvances
  BY DEF ForwardInv
<1> QED
  BY <1>1, QuoteInvariant, PTL

\* A client that reads a quote back after it was sent one gets no older one,
\* unless the partition was delivered again: the cache is written before the
\* broadcast begins and moves forward from there.
THEOREM QuoteReadYourWrites == Spec => []ReadYourWrites
<1>1. BaseInv /\ ForwardInv => ReadYourWrites
  <2> SUFFICES ASSUME BaseInv, ForwardInv, NEW c \in Client, NEW i \in Updates(c),
                      sent[c][i].symbol \notin redelivered
               PROVE  cache[sent[c][i].symbol] >= sent[c][i].time
    BY DEF ReadYourWrites
  <2>1. Types
    BY DEF BaseInv
  <2>2. /\ i \in DOMAIN sent[c] /\ sent[c][i].time \in Nat
        /\ sent[c][i].symbol \in Symbol
    BY <2>1, SentIs
  <2>3. cache[sent[c][i].symbol] \in Nat
    BY <2>1, <2>2 DEF Types
  <2>4. sent[c][i].time <= cache[sent[c][i].symbol]
    BY <2>2 DEF ForwardInv, Forward
  <2> QED
    BY <2>2, <2>3, <2>4
<1> QED
  BY <1>1, QuoteInvariant, PTL

=============================================================================
