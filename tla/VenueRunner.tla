---------------------------- MODULE VenueRunner ----------------------------
(***************************************************************************)
(* The goroutines that own the venue sockets (Runner.Run and               *)
(* Runner.session, ingest/internal/venue/venue.go, as ingestd starts them  *)
(* in ingest/cmd/ingestd/main.go): one per venue, each dialling,           *)
(* subscribing and pumping decoded events into the channel they share, and *)
(* coming back after a failure until the root context is cancelled.        *)
(*                                                                         *)
(* One action is one stretch of code between two points where a runner can *)
(* block or observe cancellation.  ReadMessage does not observe it: only a *)
(* frame, an error or the read deadline ends it.                           *)
(***************************************************************************)
EXTENDS Integers, Sequences

CONSTANTS
    Venue,
    BufferSize,     \* capacity of the channel
    MaxAttempts,    \* per runner, failed sessions until it gives up, zero for never
    AttemptCap,     \* bound: past it the backoff delay no longer changes
    Frames          \* the event sequences a frame may decode to

\* The events that frames may hold.
FrameEvent == UNION {{evs[i] : i \in DOMAIN evs} : evs \in Frames}

ASSUME RunnerAssumption ==
    /\ BufferSize \in Nat \ {0}
    /\ Frames \subseteq Seq(FrameEvent)
    /\ MaxAttempts \in [Venue -> Nat]
    /\ AttemptCap \in Nat \ {0}
    /\ \A v \in Venue : MaxAttempts[v] <= AttemptCap

VARIABLES
    ctxDone,    \* the root context has been cancelled
    in,         \* the channel of decoded events
    running,    \* the pipeline is still taking events from it
    phase,      \* where each runner is
    attempt,    \* failed sessions of each runner so far
    pending,    \* events of the frame being sent
    gauge       \* metrics.ConnectionUp

runnerVars == <<phase, attempt, pending, gauge>>
allVars    == <<ctxDone, in, running, runnerVars>>

\* Run has returned.
Final == {"done", "gaveup"}
Stopped(v) == phase[v] \in Final

\* ingestd starts a runner for each venue it is configured with.
RunnerInit(configured) ==
    /\ phase = [v \in Venue |-> IF v \in configured THEN "start" ELSE "off"]
    /\ attempt = [v \in Venue |-> 0]
    /\ pending = [v \in Venue |-> <<>>]
    /\ gauge = [v \in Venue |-> 0]

Goto(v, p) == phase' = [phase EXCEPT ![v] = p]

\* Run returns; the goroutine's deferred call lowers the gauge.
Return(v, p) ==
    /\ Goto(v, p)
    /\ gauge' = [gauge EXCEPT ![v] = 0]
    /\ pending' = [pending EXCEPT ![v] = <<>>]
    /\ UNCHANGED attempt

\* n failed sessions are as many as the runner is given.
Limit(v, n) == MaxAttempts[v] > 0 /\ n >= MaxAttempts[v]

\* A session ended with an error other than cancellation.
Fail(v) ==
    LET n == IF attempt[v] < AttemptCap THEN attempt[v] + 1 ELSE AttemptCap
    IN  /\ attempt' = [attempt EXCEPT ![v] = n]
        /\ \/ /\ Limit(v, n)
              /\ Goto(v, "gaveup")
              /\ gauge' = [gauge EXCEPT ![v] = 0]
           \/ /\ ~Limit(v, n)
              /\ Goto(v, "backoff")
              /\ UNCHANGED gauge
        /\ UNCHANGED pending

(***************************************************************************)
(* Run and session.                                                        *)
(***************************************************************************)

\* The test of ctx.Err at the head of Run's loop.
Start(v) ==
    /\ phase[v] = "start"
    /\ \/ ctxDone /\ Return(v, "done")
       \/ ~ctxDone /\ Goto(v, "dialing") /\ UNCHANGED <<attempt, pending, gauge>>

DialOk(v) ==
    /\ phase[v] = "dialing"
    /\ Goto(v, "subscribing")
    /\ UNCHANGED <<attempt, pending, gauge>>

\* Dialling observes the context, and its error then is context.Canceled.
DialFail(v) ==
    /\ phase[v] = "dialing"
    /\ \/ Fail(v)
       \/ ctxDone /\ Return(v, "done")

\* Mutant: OnConnect increments the gauge instead of setting it.
SubscribeInc(v) ==
    /\ phase[v] = "subscribing"
    /\ Goto(v, "loop")
    /\ gauge' = [gauge EXCEPT ![v] = @ + 1]
    /\ UNCHANGED <<attempt, pending>>

\* Every subscription is written and OnConnect raises the gauge.
Subscribe(v) ==
    /\ phase[v] = "subscribing"
    /\ Goto(v, "loop")
    /\ gauge' = [gauge EXCEPT ![v] = 1]
    /\ UNCHANGED <<attempt, pending>>

SubscribeFail(v) == phase[v] = "subscribing" /\ Fail(v)

\* The test of ctx.Err at the head of session's loop; the read deadline is set,
\* or that fails.
Loop(v) ==
    /\ phase[v] = "loop"
    /\ \/ ctxDone /\ Return(v, "done")
       \/ ~ctxDone /\ Goto(v, "reading") /\ UNCHANGED <<attempt, pending, gauge>>
       \/ ~ctxDone /\ Fail(v)

\* ReadMessage returns a frame that decodes to evs; a frame that cannot be
\* decoded is skipped, like one without events.
ReadFrame(v, evs) ==
    /\ phase[v] = "reading"
    /\ pending' = [pending EXCEPT ![v] = evs]
    /\ Goto(v, IF evs = <<>> THEN "loop" ELSE "sending")
    /\ UNCHANGED <<attempt, gauge>>

\* The socket failed or was silent until the read deadline.
ReadFail(v) == phase[v] = "reading" /\ Fail(v)

\* Mutant: the send has a default case, which skips an event of the frame.
PushOrSkip(v) ==
    /\ phase[v] = "sending"
    /\ in' = IF Len(in) < BufferSize THEN Append(in, Head(pending[v])) ELSE in
    /\ pending' = [pending EXCEPT ![v] = Tail(@)]
    /\ Goto(v, IF Len(pending[v]) = 1 THEN "loop" ELSE "sending")
    /\ UNCHANGED <<attempt, gauge>>

\* The next event of the frame goes into the channel.
Push(v) ==
    /\ phase[v] = "sending" /\ Len(in) < BufferSize
    /\ in' = Append(in, Head(pending[v]))
    /\ pending' = [pending EXCEPT ![v] = Tail(@)]
    /\ Goto(v, IF Len(pending[v]) = 1 THEN "loop" ELSE "sending")
    /\ UNCHANGED <<attempt, gauge>>

\* Mutant: a plain send on the channel, blind to cancellation.
PushCancelledNever(v) == FALSE /\ phase[v] = "sending" /\ Return(v, "done")

\* Cancellation ends the send, and with it the session and Run.
PushCancelled(v) == phase[v] = "sending" /\ ctxDone /\ Return(v, "done")

\* Mutant: nothing but cancellation ends the wait.
BackoffStuck(v) == phase[v] = "backoff" /\ ctxDone /\ Return(v, "done")

Backoff(v) ==
    /\ phase[v] = "backoff"
    /\ \/ ctxDone /\ Return(v, "done")
       \/ Goto(v, "start") /\ UNCHANGED <<attempt, pending, gauge>>

\* The steps of v that leave the channel alone, reading a frame excepted.
Control(v) ==
    \/ Start(v) \/ DialOk(v) \/ DialFail(v) \/ SubscribeFail(v)
    \/ Loop(v) \/ ReadFail(v) \/ PushCancelled(v) \/ Backoff(v)

(***************************************************************************)
(* The runners with a consumer that only takes events and stops some time  *)
(* after cancellation, which is what a runner knows of the pipeline.       *)
(***************************************************************************)
RInit == RunnerInit(Venue) /\ ctxDone = FALSE /\ in = <<>> /\ running = TRUE

Cancel == ~ctxDone /\ ctxDone' = TRUE /\ UNCHANGED <<in, running, runnerVars>>

Take ==
    /\ running /\ in # <<>>
    /\ in' = Tail(in)
    /\ UNCHANGED <<ctxDone, running, runnerVars>>

StopTaking ==
    /\ running /\ ctxDone
    /\ running' = FALSE
    /\ UNCHANGED <<ctxDone, in, runnerVars>>

RunnerStep(v) ==
    \/ (Control(v) \/ Subscribe(v) \/ \E evs \in Frames : ReadFrame(v, evs))
       /\ UNCHANGED <<ctxDone, in, running>>
    \/ Push(v) /\ UNCHANGED <<ctxDone, running>>

RNext == Cancel \/ Take \/ StopTaking \/ \E v \in Venue : RunnerStep(v)

\* A runner keeps running: dialling and reading end by themselves (handshake
\* timeout, read deadline), so no step of a runner waits for ever except the
\* send on a full channel, and there Go serves the blocked senders in the order
\* they came.  A venue that keeps being dialled is reached at some time, and its
\* sockets accept the subscriptions at some time.
RFairness ==
    /\ WF_allVars(Take)
    /\ \A v \in Venue :
        /\ WF_allVars(RunnerStep(v))
        /\ WF_allVars(PushCancelled(v) /\ UNCHANGED <<ctxDone, in, running>>)
        /\ SF_allVars(Push(v) /\ UNCHANGED <<ctxDone, running>>)
        /\ SF_allVars(DialOk(v) /\ UNCHANGED <<ctxDone, in, running>>)
        /\ SF_allVars(Subscribe(v) /\ UNCHANGED <<ctxDone, in, running>>)

RSpec == RInit /\ [][RNext]_allVars /\ RFairness

(***************************************************************************)
(* Properties.                                                             *)
(***************************************************************************)

\* The type invariant of the runners; the gauge is 0 or 1 however often a runner
\* connects anew.
RTypeOK ==
    /\ phase \in [Venue -> {"start", "dialing", "subscribing", "loop", "reading",
                            "sending", "backoff", "off"} \cup Final]
    /\ attempt \in [Venue -> 0 .. AttemptCap]
    /\ gauge \in [Venue -> {0, 1}]
    /\ in \in Seq(FrameEvent)
    /\ pending \in [Venue -> Seq(FrameEvent)]

\* A frame that was decoded is delivered to the channel as a whole before its
\* runner reads again, fails or reconnects; only cancellation cuts it short.
FrameDelivered ==
    [][\A v \in Venue :
        (pending[v] # <<>> /\ pending'[v] # pending[v])
            => ctxDone \/ (pending'[v] = Tail(pending[v])
                           /\ in' = Append(in, Head(pending[v])))]_allVars

\* After cancellation every runner returns, also one that is blocked on a
\* channel nobody reads any more: ingestd's wg.Wait ends.
CancelStopsRunners == \A v \in Venue : ctxDone ~> Stopped(v)

\* A runner that lost its venue is connected again, unless it has a limit on its
\* attempts or ingestd is stopped.
Reconnects ==
    \A v \in Venue : MaxAttempts[v] = 0 =>
        ((phase[v] = "backoff") ~> (phase[v] = "loop" \/ ctxDone))

=============================================================================
