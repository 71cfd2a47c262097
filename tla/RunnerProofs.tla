---------------------------- MODULE RunnerProofs ----------------------------
(***************************************************************************)
(* Proofs about VenueRunner, for every set of venues, channel capacity,    *)
(* limit of attempts and set of frames: the types, and that a frame goes   *)
(* in whole.                                                               *)
(***************************************************************************)
EXTENDS VenueRunner, SequenceTheorems, TLAPS

(***************************************************************************)
(* The action property rests on where events may wait: a runner has some   *)
(* exactly while it is sending, so no failure, reconnect or new frame      *)
(* finds any left over.                                                    *)
(***************************************************************************)
Phase == {"start", "dialing", "subscribing", "loop", "reading", "sending", "backoff",
          "off"} \cup Final

Waiting == \A v \in Venue : pending[v] # <<>> <=> phase[v] = "sending"

RunnerInv == RTypeOK /\ Waiting

\* Runners start with nothing to send on an empty channel.
LEMMA RunnerInvInit == RInit => RunnerInv
BY RunnerAssumption DEF RInit, RunnerInit, RunnerInv, RTypeOK, Waiting, Final

\* A step of one runner keeps the invariant if it leaves the types alone and the
\* events it has left match its phase.
LEMMA OneRunner ==
    ASSUME RunnerInv, NEW v \in Venue,
           phase' = [phase EXCEPT ![v] = phase'[v]], phase'[v] \in Phase,
           pending' = [pending EXCEPT ![v] = pending'[v]],
           pending'[v] \in Seq(FrameEvent), pending'[v] # <<>> <=> phase'[v] = "sending",
           attempt' \in [Venue -> 0 .. AttemptCap], gauge' \in [Venue -> {0, 1}],
           in' \in Seq(FrameEvent)
    PROVE  RunnerInv'
<1>1. RTypeOK'
    BY DEF RunnerInv, RTypeOK, Phase
<1>2. Waiting'
    BY DEF RunnerInv, RTypeOK, Waiting
<1> QED
    BY <1>1, <1>2 DEF RunnerInv

\* The types, for one runner.
LEMMA RunnerTypes ==
    ASSUME RunnerInv, NEW v \in Venue
    PROVE  /\ phase \in [Venue -> Phase] /\ pending \in [Venue -> Seq(FrameEvent)]
           /\ pending = [pending EXCEPT ![v] = pending[v]]
           /\ pending[v] # <<>> <=> phase[v] = "sending"
           /\ attempt \in [Venue -> 0 .. AttemptCap] /\ gauge \in [Venue -> {0, 1}]
           /\ in \in Seq(FrameEvent)
BY DEF RunnerInv, RTypeOK, Waiting, Phase

\* Run returns from any phase.
LEMMA ReturnKeeps ==
    ASSUME RunnerInv, NEW v \in Venue, Return(v, "done"), UNCHANGED in
    PROVE  RunnerInv'
<1>1. /\ phase' = [phase EXCEPT ![v] = "done"] /\ pending' = [pending EXCEPT ![v] = <<>>]
      /\ gauge' = [gauge EXCEPT ![v] = 0] /\ attempt' = attempt
    BY DEF Return, Goto
<1>2. phase'[v] = "done" /\ pending'[v] = <<>> /\ gauge' \in [Venue -> {0, 1}]
    BY <1>1, RunnerTypes
<1>3. phase'[v] \in Phase /\ (pending'[v] # <<>> <=> phase'[v] = "sending")
    BY <1>2 DEF Phase, Final
<1>4. /\ phase' = [phase EXCEPT ![v] = phase'[v]]
      /\ pending' = [pending EXCEPT ![v] = pending'[v]]
    BY <1>1, <1>2
<1>5. pending'[v] \in Seq(FrameEvent)
    BY <1>2, EmptySeq
<1>6. /\ attempt' \in [Venue -> 0 .. AttemptCap]
      /\ in' \in Seq(FrameEvent)
    BY <1>1, RunnerTypes
<1> QED
    BY <1>2, <1>3, <1>4, <1>5, <1>6, OneRunner

\* A runner goes on to another phase with nothing to send.
LEMMA GotoKeeps ==
    ASSUME RunnerInv, NEW v \in Venue, NEW p \in Phase \ {"sending"}, phase[v] # "sending",
           Goto(v, p), UNCHANGED <<pending, in>>,
           attempt' \in [Venue -> 0 .. AttemptCap], gauge' \in [Venue -> {0, 1}]
    PROVE  RunnerInv'
<1>1. phase' = [phase EXCEPT ![v] = p] /\ phase'[v] = p
    BY RunnerTypes DEF Goto
<1>2. pending'[v] = <<>> /\ pending' = [pending EXCEPT ![v] = pending'[v]]
    BY RunnerTypes
<1> QED
    BY <1>1, <1>2, RunnerTypes, OneRunner

\* A session that has nothing to send fails.
LEMMA FailKeeps ==
    ASSUME RunnerInv, NEW v \in Venue, Fail(v), phase[v] # "sending", UNCHANGED in
    PROVE  RunnerInv'
<1> DEFINE n == IF attempt[v] < AttemptCap THEN attempt[v] + 1 ELSE AttemptCap
<1>1. n \in 0 .. AttemptCap
    BY RunnerAssumption, RunnerTypes
<1>2. attempt' = [attempt EXCEPT ![v] = n] /\ UNCHANGED pending
    BY DEF Fail
<1>3. attempt' \in [Venue -> 0 .. AttemptCap]
    <2> HIDE DEF n
    <2> QED BY <1>1, <1>2, RunnerTypes
<1>4. \/ Goto(v, "gaveup") /\ gauge' = [gauge EXCEPT ![v] = 0]
      \/ Goto(v, "backoff") /\ UNCHANGED gauge
    BY DEF Fail
<1>5. gauge' \in [Venue -> {0, 1}]
    BY <1>4, RunnerTypes
<1>6. {"gaveup", "backoff"} \subseteq Phase \ {"sending"}
    BY DEF Phase, Final
<1> QED
    BY <1>2, <1>3, <1>4, <1>5, <1>6, GotoKeeps

\* One event of the frame goes into the channel, which has room for it.
LEMMA PushKeeps ==
    ASSUME RunnerInv, NEW v \in Venue, Push(v)
    PROVE  RunnerInv'
<1>1. /\ phase[v] = "sending" /\ Len(in) < BufferSize
      /\ in' = Append(in, Head(pending[v]))
      /\ pending' = [pending EXCEPT ![v] = Tail(pending[v])]
      /\ phase' = [phase EXCEPT ![v] = IF Len(pending[v]) = 1 THEN "loop" ELSE "sending"]
      /\ UNCHANGED <<attempt, gauge>>
    BY DEF Push, Goto
<1>2. pending[v] \in Seq(FrameEvent) /\ pending[v] # <<>>
    BY <1>1, RunnerTypes
<1>3. Tail(pending[v]) \in Seq(FrameEvent) /\ Head(pending[v]) \in FrameEvent
    BY <1>2
<1>4. in' \in Seq(FrameEvent)
    BY <1>1, <1>3, RunnerAssumption, RunnerTypes
<1>5. phase'[v] = (IF Len(pending[v]) = 1 THEN "loop" ELSE "sending")
      /\ pending'[v] = Tail(pending[v])
    BY <1>1, RunnerTypes
<1>6. pending'[v] # <<>> <=> phase'[v] = "sending"
    <2>1. Len(Tail(pending[v])) = Len(pending[v]) - 1
        BY <1>2
    <2>2. Tail(pending[v]) = <<>> <=> Len(Tail(pending[v])) = 0
        BY <1>3, EmptySeq
    <2>3. Tail(pending[v]) = <<>> <=> Len(pending[v]) = 1
        BY <1>2, <2>1, <2>2
    <2>4. phase'[v] = "sending" <=> Len(pending[v]) # 1
        BY <1>5
    <2> QED
        BY <1>5, <2>3, <2>4
<1>7. phase'[v] \in Phase
    BY <1>5 DEF Phase
<1> QED
    BY <1>1, <1>3, <1>4, <1>5, <1>6, <1>7, RunnerTypes, OneRunner

\* A frame is decoded; what it holds is to be sent next.
LEMMA ReadKeeps ==
    ASSUME RunnerInv, NEW v \in Venue, NEW evs \in Frames, ReadFrame(v, evs), UNCHANGED in
    PROVE  RunnerInv'
<1>1. evs \in Seq(FrameEvent)
    BY RunnerAssumption
<1>2. /\ phase' = [phase EXCEPT ![v] = IF evs = <<>> THEN "loop" ELSE "sending"]
      /\ pending' = [pending EXCEPT ![v] = evs]
      /\ UNCHANGED <<attempt, gauge>>
    BY DEF ReadFrame, Goto
<1>3. /\ phase'[v] = (IF evs = <<>> THEN "loop" ELSE "sending")
      /\ pending'[v] = evs
    BY <1>2, RunnerTypes
<1>4. phase'[v] \in Phase /\ (pending'[v] # <<>> <=> phase'[v] = "sending")
    BY <1>3 DEF Phase
<1> QED
    BY <1>1, <1>2, <1>3, <1>4, RunnerTypes, OneRunner

\* Whatever a runner does on its own keeps the invariant.
LEMMA RunnerStepKeeps ==
    ASSUME RunnerInv, NEW v \in Venue, RunnerStep(v)
    PROVE  RunnerInv'
<1>1. {"start", "dialing", "subscribing", "loop", "reading"} \subseteq Phase \ {"sending"}
    BY DEF Phase
<1>2. CASE Control(v) /\ UNCHANGED in
    <2>1. CASE Fail(v) /\ phase[v] # "sending"
        BY <1>2, <2>1, FailKeeps
    <2>2. CASE Return(v, "done")
        BY <1>2, <2>2, ReturnKeeps
    <2>3. CASE /\ phase[v] # "sending" /\ UNCHANGED <<attempt, pending, gauge>>
               /\ \E p \in {"start", "dialing", "subscribing", "reading"} : Goto(v, p)
        <3>1. PICK p \in {"start", "dialing", "subscribing", "reading"} : Goto(v, p)
            BY <2>3
        <3>2. p \in Phase \ {"sending"}
            BY <1>1
        <3>3. attempt' \in [Venue -> 0 .. AttemptCap] /\ gauge' \in [Venue -> {0, 1}]
            BY <2>3, RunnerTypes
        <3> QED
            BY <1>2, <2>3, <3>1, <3>2, <3>3, GotoKeeps
    <2> QED
        BY <1>2, <2>1, <2>2, <2>3
           DEF Control, Start, DialOk, DialFail, SubscribeFail, Loop, ReadFail,
               PushCancelled, Backoff
<1>3. CASE Subscribe(v) /\ UNCHANGED in
    <2>1. /\ phase[v] = "subscribing" /\ Goto(v, "loop") /\ UNCHANGED <<attempt, pending>>
          /\ gauge' \in [Venue -> {0, 1}]
        BY <1>3, RunnerTypes DEF Subscribe
    <2>2. attempt' \in [Venue -> 0 .. AttemptCap] /\ phase[v] # "sending"
        BY <2>1, RunnerTypes
    <2>3. "loop" \in Phase \ {"sending"}
        BY <1>1
    <2> QED
        BY <1>3, <2>1, <2>2, <2>3, GotoKeeps
<1>4. CASE UNCHANGED in /\ \E evs \in Frames : ReadFrame(v, evs)
    BY <1>4, ReadKeeps
<1>5. CASE Push(v)
    BY <1>5, PushKeeps
<1> QED
    BY <1>2, <1>3, <1>4, <1>5 DEF RunnerStep

\* The invariant is inductive.
LEMMA RunnerInvStep ==
    ASSUME RunnerInv, [RNext]_allVars
    PROVE  RunnerInv'
<1>1. CASE UNCHANGED <<in, runnerVars>>
    BY <1>1 DEF RunnerInv, RTypeOK, Waiting, runnerVars
<1>2. CASE Take
    <2>1. in' \in Seq(FrameEvent)
        BY <1>2, RunnerAssumption DEF Take, RunnerInv, RTypeOK, Waiting
    <2>2. UNCHANGED <<phase, attempt, pending, gauge>>
        BY <1>2 DEF Take, runnerVars
    <2> QED
        BY <2>1, <2>2 DEF RunnerInv, RTypeOK, Waiting
<1> QED
    BY <1>1, <1>2, RunnerStepKeeps DEF RNext, Cancel, StopTaking, allVars

\* The runners' state keeps its types: the gauge is 0 or 1 through any number of
\* reconnects, and only events of frames are on their way to the pipeline.
THEOREM RunnersTypeOK == RSpec => []RTypeOK
<1>1. RInit => RunnerInv
    BY RunnerInvInit
<1>2. RunnerInv /\ [RNext]_allVars => RunnerInv'
    BY RunnerInvStep
<1>3. RunnerInv => RTypeOK
    BY DEF RunnerInv
<1> QED
    BY <1>1, <1>2, <1>3, PTL DEF RSpec

\* What one step may do to the events a runner has yet to send.
Delivers ==
    \A v \in Venue :
        (pending[v] # <<>> /\ pending'[v] # pending[v])
            => ctxDone \/ (pending'[v] = Tail(pending[v])
                           /\ in' = Append(in, Head(pending[v])))

\* A step of another runner leaves the events of v alone, and one of v that finds
\* it sending is Push or cancellation.
LEMMA StepDelivers ==
    ASSUME RunnerInv, [RNext]_allVars
    PROVE  Delivers
<1> SUFFICES ASSUME NEW v \in Venue, pending[v] # <<>>, pending'[v] # pending[v]
             PROVE  ctxDone \/ (pending'[v] = Tail(pending[v])
                                /\ in' = Append(in, Head(pending[v])))
    BY DEF Delivers
<1>1. phase[v] = "sending" /\ pending \in [Venue -> Seq(FrameEvent)]
    BY DEF RunnerInv, RTypeOK, Waiting
<1>2. PICK w \in Venue : RunnerStep(w)
    BY DEF RNext, Cancel, Take, StopTaking, allVars, runnerVars
<1>3. \/ pending' = pending
      \/ \E evs : pending' = [pending EXCEPT ![w] = evs]
    BY <1>2 DEF RunnerStep, Control, Start, DialOk, DialFail, SubscribeFail, Loop, ReadFail,
                PushCancelled, Backoff, Subscribe, ReadFrame, Push, Fail, Return
<1>4. w = v
    BY <1>1, <1>3
<1>5. CASE Push(v)
    BY <1>1, <1>5 DEF Push
<1>6. CASE ~Push(v)
    BY <1>1, <1>2, <1>4, <1>6
       DEF RunnerStep, Control, Start, DialOk, DialFail, SubscribeFail, Loop, ReadFail,
           PushCancelled, Backoff, Subscribe, ReadFrame
<1> QED
    BY <1>5, <1>6

\* A decoded frame reaches the channel as a whole before its runner does anything
\* else; only cancellation cuts it short.
THEOREM RunnersFrameDelivered == RSpec => FrameDelivered
<1>1. RInit => RunnerInv
    BY RunnerInvInit
<1>2. RunnerInv /\ [RNext]_allVars => RunnerInv'
    BY RunnerInvStep
<1>3. RunnerInv /\ [RNext]_allVars => [Delivers]_allVars
    BY StepDelivers
<1>4. [][Delivers]_allVars => FrameDelivered
    BY PTL DEF FrameDelivered, Delivers
<1> QED
    BY <1>1, <1>2, <1>3, <1>4, PTL DEF RSpec

=============================================================================
