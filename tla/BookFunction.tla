---------------------------- MODULE BookFunction ----------------------------
(***************************************************************************)
(* The Flink operator that keeps the order book of one venue and symbol    *)
(* and emits its quotes (stream/.../functions/BookFunction.scala, wired in *)
(* jobs/BookJob.scala), between the log of book deltas in Kafka and the    *)
(* transactional sink of quotes.                                           *)
(*                                                                         *)
(* The log holds what the ingestion tier publishes: a delta may have been  *)
(* lost before it got there, and a failed publish repeats the end of the   *)
(* log.  It is written ahead of the operator, which sees the order of the  *)
(* records and not when they were written.  The operator may fail at any   *)
(* time and goes on from its last checkpoint, which also aborts the quotes *)
(* written since.                                                          *)
(*                                                                         *)
(* Processing time matters only through the grid of emitIntervalMs: a      *)
(* timer is registered for the next grid point (armed), or its grid point  *)
(* has passed and its callback waits to be run (due).                      *)
(***************************************************************************)
EXTENDS OrderBook, Sequences

CONSTANTS
    None,           \* no value in keyed state
    Price, Size,    \* prices and sizes of levels
    OpeningBook,    \* the venue's book when the log begins
    maxDepth,       \* levels of a side that are kept
    MaxLog,         \* bound: records in the log
    MaxFaults,      \* bound: deltas lost, repetitions and failures
    MaxLag          \* bound: callbacks waiting to be run

\* What a side may be: a level for some prices, each with something from S.
Levels(S) == UNION {[P -> S] : P \in SUBSET Price}

Book == [Side -> Levels(Size)]

ASSUME BookAssumption ==
    /\ Price \subseteq Nat \ {0} /\ IsFiniteSet(Price) /\ Size \subseteq Nat \ {0}
    /\ OpeningBook \in Book /\ ~isCrossed(OpeningBook) /\ None \notin Book
    /\ maxDepth \in Nat \ {0}
    /\ MaxLog \in Nat /\ MaxFaults \in Nat /\ MaxLag \in Nat \ {0}

VARIABLES
    venue,          \* the venue's own book
    number,         \* changes of it so far
    synced,         \* history: every change since the last snapshot is in the log
    log,            \* the topic of book deltas
    faults,         \* history: deltas lost, repetitions and failures so far
    pos,            \* records of the log processed
    bookState, lastEmitted, armed, due,
    out,            \* the quotes written to the sink
    trimmed,        \* history: per side, prices trimmed since the last snapshot
    checkpoint      \* what the last checkpoint saved

feedVars == <<venue, number, synced, log>>
taskVars == <<pos, bookState, lastEmitted, armed, due, out, trimmed>>
bvars    == <<feedVars, taskVars, faults, checkpoint>>

\* bookState.value, or the empty book before the first delta.
current == IF bookState = None THEN EmptyBook ELSE bookState

Start == [pos |-> 0, bookState |-> None, lastEmitted |-> None, armed |-> FALSE,
          due |-> 0, out |-> <<>>, trimmed |-> [s \in Side |-> {}]]

BInit ==
    /\ venue = OpeningBook /\ number = 0 /\ synced = FALSE
    /\ log = <<>> /\ faults = 0
    /\ pos = 0 /\ bookState = None /\ lastEmitted = None
    /\ armed = FALSE /\ due = 0 /\ out = <<>> /\ trimmed = [s \in Side |-> {}]
    /\ checkpoint = Start

(***************************************************************************)
(* The log.                                                                *)
(***************************************************************************)

\* A record of the log; the fields after levels are history: the number of the
\* change, the venue's book after it, and whether the log is complete up to it.
Record(isSnapshot, levels, n, book, complete) ==
    [isSnapshot |-> isSnapshot, levels |-> levels,
     number |-> n, book |-> book, complete |-> complete]

\* The operator is at the beginning of the log.
Ahead == pos = 0

\* The venue's side with z at price p.
WithLevel(side, p, z) ==
    [q \in (DOMAIN side \ {p}) \cup (IF z = 0 THEN {} ELSE {p}) |->
        IF q = p THEN z ELSE side[q]]

\* The venue changes one level, without crossing its book, and the delta reaches
\* the log or is lost.
VenueChange ==
    /\ Ahead /\ Len(log) < MaxLog
    /\ \E s \in Side, p \in Price, z \in Size \cup {0} :
        LET levels == [t \in Side |-> IF t = s THEN [q \in {p} |-> z] ELSE <<>>]
            book   == [venue EXCEPT ![s] = WithLevel(@, p, z)]
        IN  /\ book # venue /\ ~isCrossed(book)
            /\ venue' = book
            /\ \/ /\ log' = Append(log, Record(FALSE, levels, number + 1, book, synced))
                  /\ UNCHANGED <<synced, faults>>
               \/ /\ faults < MaxFaults
                  /\ faults' = faults + 1
                  /\ synced' = FALSE
                  /\ UNCHANGED log
    /\ number' = number + 1
    /\ UNCHANGED <<checkpoint, taskVars>>

\* The venue sends its whole book; one without any level does not pass the
\* filter before the operator.
VenueSnapshot ==
    /\ Ahead /\ Len(log) < MaxLog /\ venue # EmptyBook
    /\ log' = Append(log, Record(TRUE, venue, number + 1, venue, TRUE))
    /\ synced' = TRUE
    /\ number' = number + 1
    /\ UNCHANGED <<venue, faults, checkpoint, taskVars>>

\* A publish that failed after it had written is repeated.
RepeatPublish ==
    /\ Ahead /\ faults < MaxFaults
    /\ \E j \in 1 .. Len(log) :
        /\ Len(log) + j <= MaxLog
        /\ log' = log \o SubSeq(log, Len(log) - j + 1, Len(log))
    /\ faults' = faults + 1
    /\ UNCHANGED <<venue, number, synced, checkpoint, taskVars>>

(***************************************************************************)
(* The operator.                                                           *)
(***************************************************************************)

\* Mutant: the first timer is never registered.
armTimerNever == UNCHANGED armed

\* The timer of the next grid point is registered, if it is not already.
armTimer == armed' = TRUE

\* processElement: the delta is applied, the book trimmed and kept.
processElement ==
    /\ pos < Len(log)
    /\ LET delta   == log[pos + 1]
           applied == apply(current, delta)
       IN  /\ bookState' = trim(applied, maxDepth)
           /\ trimmed' = [s \in Side |->
                            (IF delta.isSnapshot THEN {} ELSE trimmed[s])
                            \cup (DOMAIN applied[s] \ DOMAIN bookState'[s])]
    /\ pos' = pos + 1
    /\ armTimer
    /\ UNCHANGED <<lastEmitted, due, out, feedVars, faults, checkpoint>>

\* The quote of a book with two sides, without the time of its emission.  The
\* imbalance is left out: it changes with a delta, and so with the event time.
toQuote(book, time) ==
    [bid |-> best(book, "bid"), bidSize |-> book["bid"][best(book, "bid")],
     ask |-> best(book, "ask"), askSize |-> book["ask"][best(book, "ask")],
     eventTime |-> time]

\* The event time of the book is that of the last delta applied.
Quote == toQuote(bookState, log[pos].number)

Servable == bookState # None /\ ~isEmpty(bookState) /\ ~isCrossed(bookState)

\* Mutant: the quote is emitted whether it changed or not.
EmitAlways ==
    \/ ~Servable /\ UNCHANGED <<lastEmitted, out>>
    \/ Servable /\ lastEmitted' = Quote /\ out' = Append(out, Quote)

\* The quote is emitted if the book has one and it is not the one emitted last.
Emit ==
    \/ ~Servable /\ UNCHANGED <<lastEmitted, out>>
    \/ Servable /\ lastEmitted = Quote /\ UNCHANGED <<lastEmitted, out>>
    \/ /\ Servable /\ lastEmitted # Quote
       /\ lastEmitted' = Quote
       /\ out' = Append(out, Quote)

\* Mutant: a book that cannot be served returns before the timer is registered.
onTimerReturnsEarly ==
    /\ due > 0
    /\ due' = due - 1
    /\ (Servable /\ armTimer) \/ (~Servable /\ UNCHANGED armed)
    /\ Emit
    /\ UNCHANGED <<pos, bookState, trimmed, feedVars, faults, checkpoint>>

onTimer ==
    /\ due > 0
    /\ due' = due - 1
    /\ armTimer
    /\ Emit
    /\ UNCHANGED <<pos, bookState, trimmed, feedVars, faults, checkpoint>>

\* Processing time passes a grid point.
GridPoint ==
    /\ armed /\ due < MaxLag
    /\ armed' = FALSE
    /\ due' = due + 1
    /\ UNCHANGED <<pos, bookState, lastEmitted, out, trimmed, feedVars, faults,
                   checkpoint>>

\* A checkpoint: Flink saves the keyed state, the timers and the position in the
\* log, and the sink commits what was written.  Only checkpoints that a failure
\* can follow matter.
Checkpoint ==
    /\ faults < MaxFaults
    /\ checkpoint' = [pos |-> pos, bookState |-> bookState, lastEmitted |-> lastEmitted,
                      armed |-> armed, due |-> due, out |-> out, trimmed |-> trimmed]
    /\ checkpoint' # checkpoint
    /\ UNCHANGED <<feedVars, taskVars, faults>>

\* The job fails and goes on from the last checkpoint; the open transaction of
\* the sink is aborted.
Restore ==
    /\ pos > 0 /\ faults < MaxFaults
    /\ faults' = faults + 1
    /\ pos' = checkpoint.pos
    /\ bookState' = checkpoint.bookState
    /\ lastEmitted' = checkpoint.lastEmitted
    /\ armed' = checkpoint.armed
    /\ due' = checkpoint.due
    /\ out' = checkpoint.out
    /\ trimmed' = checkpoint.trimmed
    /\ UNCHANGED <<feedVars, checkpoint>>

BNext ==
    \/ VenueChange \/ VenueSnapshot \/ RepeatPublish
    \/ processElement \/ onTimer \/ GridPoint \/ Checkpoint \/ Restore

\* The task processes its input, time passes, and callbacks are run.
BSpec ==
    /\ BInit /\ [][BNext]_bvars
    /\ WF_bvars(processElement) /\ WF_bvars(onTimer) /\ WF_bvars(GridPoint)

(***************************************************************************)
(* Properties.                                                             *)
(***************************************************************************)

\* The type invariant of the operator's state.
BTypeOK ==
    /\ pos \in 0 .. Len(log)
    /\ bookState # None =>
        \A s \in Side : /\ DOMAIN bookState[s] \subseteq Price
                        /\ \A p \in DOMAIN bookState[s] : bookState[s][p] \in Size
                        /\ Cardinality(DOMAIN bookState[s]) <= maxDepth
    /\ armed \in BOOLEAN /\ due \in 0 .. MaxLag

\* The operator has applied a log that is complete up to the newest change in it:
\* no delta was lost since a snapshot, and it is not inside a repetition.
CaughtUp ==
    /\ pos > 0 /\ log[pos].complete
    /\ \A i \in 1 .. pos : log[i].number <= log[pos].number

\* Through trims, repeated deltas and restores, every level of the book is one of
\* the venue's with its size, and a level of the venue that is missing was
\* trimmed.
BookFollowsVenue ==
    CaughtUp => \A s \in Side :
        /\ \A p \in DOMAIN bookState[s] :
            p \in DOMAIN log[pos].book[s] /\ bookState[s][p] = log[pos].book[s][p]
        /\ DOMAIN log[pos].book[s] \subseteq DOMAIN bookState[s] \cup trimmed[s]

\* "A crossed book (best bid >= best ask) means the deltas were applied out of
\* order or a resync was missed."
CrossedMeansMissed == bookState # None /\ isCrossed(bookState) => ~CaughtUp

\* "Always re-arm": a key that has a book never falls silent; there is a timer
\* that will call it back, after a restore too.
NeverMute == bookState # None => armed \/ due > 0

\* "Only emit on change": no quote in the topic repeats the one before it, across
\* failures too.
NoRepeat == \A i \in 1 .. Len(out) - 1 : out[i] # out[i + 1]

\* A book that stays is served: its quote becomes the last one emitted, without
\* another delta to wake the operator up.
BookServed == Servable ~> (~Servable \/ lastEmitted = Quote)

=============================================================================
