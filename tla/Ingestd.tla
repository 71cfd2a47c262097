------------------------------ MODULE Ingestd -------------------------------
(***************************************************************************)
(* The life of ingestd processes (run, ingest/cmd/ingestd/main.go), from   *)
(* reading the configuration through pinning and registering the schemas   *)
(* (RegisterSchemas, ingest/internal/pipeline/pipeline.go) to publishing,  *)
(* and down again through cancellation, the WaitGroup and the deferred     *)
(* calls.  Processes share the schema registry and Kafka; several may be   *)
(* up at once, each with a build of its own, and each may be killed at any *)
(* point and started again.                                                *)
(*                                                                         *)
(* The pipeline and the runners have modules of their own; here a pipeline *)
(* publishes whatever it can frame and a runner does nothing but return.   *)
(***************************************************************************)
EXTENDS Config, SchemaRegistry, FiniteSets

CONSTANTS
    Proc,
    Build,          \* a build is the schema it writes for each kind (Current)
    Kind,
    Env,            \* the environments a process is started in
    MaxStarts,      \* bound on the process starts
    MaxFaults,      \* bound on failed calls and failed components
    NoError

\* The topic that a configuration names for a kind of event.
topicFor(c, k) ==
    CASE k = "trade"      -> c.topicTrades
      [] k = "book_delta" -> c.topicBook
      [] OTHER            -> c.topicChain

\* The configurations a process may hold, before it has read one included.
Conf == {Load(env) : env \in Env} \cup {Defaults}

\* The names of all sources, over the configurations.
Source == UNION {buildDecoders(c) : c \in Conf}

ASSUME IngestdAssumption ==
    /\ Build # {} /\ Build \subseteq [Kind -> Schema]
    /\ \A c \in Conf : /\ c.venues \in Seq(STRING)
                       /\ \A k \in Kind : topicFor(c, k) \in Topic
    /\ NoError \notin {"config", "tracing", "registry", "incompatible", "conflict",
                       "sources"}

VARIABLES
    pc,         \* how far run has come in each process
    why,        \* the error a process returns
    conf,       \* its configuration
    build,      \* its build
    todo,       \* the kinds its present loop has yet to handle
    checked,    \* the kind found compatible that is about to be registered
    enc,        \* the schema id its encoder of each kind frames with, 0 for none
    ctxDone,    \* its root context is cancelled
    running,    \* its runners that have not returned
    serve,      \* metrics.Serve
    listen,     \* the goroutine inside it that calls ListenAndServe
    producer,   \* its producer
    log,        \* the distinct records in Kafka: topic, schema id, writer's schema
    starts,
    faults

runVars  == <<ctxDone, running, serve, listen, producer>>
procVars == <<pc, why, conf, build, todo, checked, enc, runVars>>
vars     == <<registryVars, procVars, log, starts, faults>>

Startup == {"tracing", "pinning", "registering", "producer"}

Alive(p) == pc[p] # "off"

topics(p) == [k \in Kind |-> topicFor(conf[p], k)]

SomeBuild == CHOOSE b \in Build : TRUE

Init ==
    /\ RegistryInit
    /\ pc = [p \in Proc |-> "off"]
    /\ why = [p \in Proc |-> NoError]
    /\ conf = [p \in Proc |-> Defaults]
    /\ build = [p \in Proc |-> SomeBuild]
    /\ todo = [p \in Proc |-> {}]
    /\ checked = [p \in Proc |-> {}]
    /\ enc = [p \in Proc |-> [k \in Kind |-> 0]]
    /\ ctxDone = [p \in Proc |-> FALSE]
    /\ running = [p \in Proc |-> {}]
    /\ serve = [p \in Proc |-> "off"]
    /\ listen = [p \in Proc |-> "off"]
    /\ producer = [p \in Proc |-> "none"]
    /\ log = {}
    /\ starts = 0
    /\ faults = 0

Goto(p, to) == pc' = [pc EXCEPT ![p] = to]

\* run returns an error; the deferred calls from "at" on still run.
Fail(p, at, err) ==
    /\ Goto(p, at)
    /\ why' = [why EXCEPT ![p] = err]

\* A failure the environment causes.
Fault == /\ faults < MaxFaults
         /\ faults' = faults + 1

\* The process ends and its memory is gone.
End(p) ==
    /\ Goto(p, "off")
    /\ why' = [why EXCEPT ![p] = NoError]
    /\ conf' = [conf EXCEPT ![p] = Defaults]
    /\ build' = [build EXCEPT ![p] = SomeBuild]
    /\ todo' = [todo EXCEPT ![p] = {}]
    /\ checked' = [checked EXCEPT ![p] = {}]
    /\ enc' = [enc EXCEPT ![p] = [k \in Kind |-> 0]]
    /\ ctxDone' = [ctxDone EXCEPT ![p] = FALSE]
    /\ running' = [running EXCEPT ![p] = {}]
    /\ serve' = [serve EXCEPT ![p] = "off"]
    /\ listen' = [listen EXCEPT ![p] = "off"]
    /\ producer' = [producer EXCEPT ![p] = "none"]

----------------------------------------------------------------------------
(* Starting up.                                                            *)

\* config.Load, and the root context that a signal cancels.
Start(p, env, b) ==
    /\ ~Alive(p)
    /\ starts < MaxStarts
    /\ starts' = starts + 1
    /\ build' = [build EXCEPT ![p] = b]
    /\ IF Parses(env) /\ Validate(Load(env))
       THEN /\ conf' = [conf EXCEPT ![p] = Load(env)]
            /\ Goto(p, "tracing")
            /\ UNCHANGED why
       ELSE /\ Fail(p, "returned", "config")
            /\ UNCHANGED conf
    /\ UNCHANGED <<registryVars, todo, checked, enc, runVars, log, faults>>

\* tracing.Init: without an endpoint a no-op, otherwise an exporter.
InitTracing(p) ==
    /\ pc[p] = "tracing"
    /\ \/ /\ IF conf[p].dryRun THEN Goto(p, "producer") ELSE Goto(p, "pinning")
          /\ todo' = [todo EXCEPT ![p] = IF conf[p].dryRun THEN {} ELSE Kind]
          /\ UNCHANGED <<why, faults>>
       \/ /\ conf[p].otlpEndpoint # ""
          /\ Fault
          /\ Fail(p, "returned", "tracing")
          /\ UNCHANGED todo
    /\ UNCHANGED <<registryVars, conf, build, checked, enc, runVars, log, starts>>

\* One loop of run is done with kind k: go on with it or to what follows.
LoopNext(p, k, loop, next, rest) ==
    IF todo[p] = {k}
    THEN Goto(p, next) /\ todo' = [todo EXCEPT ![p] = rest]
    ELSE Goto(p, loop) /\ todo' = [todo EXCEPT ![p] = @ \ {k}]

\* SetCompatibility for one subject.  A failure is only logged; the context of
\* a cancelled process fails every call.
SetCompatibility(p, k) ==
    /\ pc[p] = "pinning" /\ k \in todo[p]
    /\ LoopNext(p, k, "pinning", "registering", Kind)
    /\ \/ ~ctxDone[p] /\ PinFull(topics(p)[k]) /\ UNCHANGED faults
       \/ ~ctxDone[p] /\ PinFails(topics(p)[k]) /\ Fault
       \/ ctxDone[p] /\ UNCHANGED <<registryVars, faults>>
    /\ UNCHANGED <<why, conf, build, checked, enc, runVars, log, starts>>

\* A call of the registration loop fails, because the process was cancelled
\* or by itself, and run returns.
RegistryFails(p) ==
    /\ Fail(p, "flushing", "registry")
    /\ IF ctxDone[p] THEN UNCHANGED faults ELSE Fault

\* CheckCompatibility of the next kind, in the order of a map.  The answer may
\* be stale when it is used: another process may register in between.
CheckCompatibility(p, k) ==
    /\ pc[p] = "registering" /\ checked[p] = {} /\ k \in todo[p]
    /\ \/ /\ ~ctxDone[p] /\ Compatible(build[p][k], topics(p)[k])
          /\ checked' = [checked EXCEPT ![p] = {k}]
          /\ UNCHANGED <<pc, why, faults>>
       \/ /\ ~ctxDone[p] /\ ~Compatible(build[p][k], topics(p)[k])
          /\ Fail(p, "flushing", "incompatible")
          /\ UNCHANGED <<checked, faults>>
       \/ RegistryFails(p) /\ UNCHANGED checked
    /\ UNCHANGED <<registryVars, conf, build, todo, enc, runVars, log, starts>>

\* Mutant: a failed registration is logged and the loop goes on.
RegisterOrSkip(p, k) ==
    /\ pc[p] = "registering" /\ k \in checked[p]
    /\ \/ /\ ~ctxDone[p]
          /\ Store(build[p][k], topics(p)[k])
          /\ enc' = [enc EXCEPT ![p][k] = CHOOSE i \in DOMAIN ids' : ids'[i] = build[p][k]]
          /\ UNCHANGED faults
       \/ Fault /\ UNCHANGED <<registryVars, enc>>
    /\ LoopNext(p, k, "registering", "producer", {})
    /\ checked' = [checked EXCEPT ![p] = {}]
    /\ UNCHANGED <<why, conf, build, runVars, log, starts>>

\* Register the kind just checked and build its encoder.  The registry checks
\* once more and may answer with a conflict; its answer may also be lost after
\* it has stored the schema.
Register(p, k) ==
    LET s == build[p][k]
        t == topics(p)[k]
    IN  /\ pc[p] = "registering" /\ k \in checked[p]
        /\ \/ /\ ~ctxDone[p]
              /\ Store(s, t)
              /\ enc' = [enc EXCEPT ![p][k] = CHOOSE i \in DOMAIN ids' : ids'[i] = s]
              /\ LoopNext(p, k, "registering", "producer", {})
              /\ UNCHANGED <<why, faults>>
           \/ /\ ~ctxDone[p] /\ ~Registered(s, t) /\ ~Compatible(s, t)
              /\ Fail(p, "flushing", "conflict")
              /\ UNCHANGED <<registryVars, todo, enc, faults>>
           \/ /\ RegistryFails(p)
              /\ UNCHANGED registryVars \/ (~ctxDone[p] /\ Store(s, t))
              /\ UNCHANGED <<todo, enc>>
        /\ checked' = [checked EXCEPT ![p] = {}]
        /\ UNCHANGED <<conf, build, runVars, log, starts>>

\* The producer, the metrics server, the runners and the pipeline, up to
\* Pipeline.Run.  Without a source run returns, and waits for nothing.
Launch(p) ==
    /\ pc[p] = "producer"
    /\ producer' = [producer EXCEPT ![p] = "open"]
    /\ serve' = [serve EXCEPT ![p] = "select"]
    /\ listen' = [listen EXCEPT ![p] = "starting"]
    /\ running' = [running EXCEPT ![p] = buildDecoders(conf[p])]
    /\ IF buildDecoders(conf[p]) = {}
       THEN Fail(p, "closing", "sources")
       ELSE Goto(p, "running") /\ UNCHANGED why
    /\ UNCHANGED <<registryVars, conf, build, todo, checked, enc, ctxDone, log, starts, faults>>

----------------------------------------------------------------------------
(* Running.                                                                *)

\* The pipeline frames an event and publishes it; a dry run keeps it in memory.
Publish(p, k) ==
    /\ pc[p] = "running" /\ producer[p] = "open"
    /\ ~conf[p].dryRun
    /\ log' = log \cup {[topic |-> topics(p)[k], id |-> enc[p][k], writer |-> build[p][k]]}
    /\ UNCHANGED <<registryVars, procVars, starts, faults>>

\* ListenAndServe binds, fails, or finds the server shut down already.
Listen(p) ==
    /\ Alive(p) /\ listen[p] = "starting"
    /\ \/ /\ serve[p] = "select"
          /\ listen' = [listen EXCEPT ![p] = "listening"]
          /\ UNCHANGED faults
       \/ /\ listen' = [listen EXCEPT ![p] = "returned"]
          /\ IF serve[p] = "draining" THEN UNCHANGED faults ELSE Fault
    /\ UNCHANGED <<registryVars, pc, why, conf, build, todo, checked, enc, ctxDone, running,
                   serve, producer, log, starts>>

\* ListenAndServe returns because of Shutdown or by itself.
ListenReturns(p) ==
    /\ Alive(p) /\ listen[p] = "listening"
    /\ listen' = [listen EXCEPT ![p] = "returned"]
    /\ IF serve[p] = "draining" THEN UNCHANGED faults ELSE Fault
    /\ UNCHANGED <<registryVars, pc, why, conf, build, todo, checked, enc, ctxDone, running,
                   serve, producer, log, starts>>

\* Mutant: Serve waits for ListenAndServe alone.
ServeWaits(p) ==
    /\ Alive(p) /\ serve[p] = "select" /\ listen[p] = "returned"
    /\ serve' = [serve EXCEPT ![p] = "done"]
    /\ UNCHANGED <<registryVars, pc, why, conf, build, todo, checked, enc, ctxDone, running,
                   listen, producer, log, starts, faults>>

\* Serve: cancellation shuts the server down, and then or before it takes what
\* ListenAndServe returned.
Serve(p) ==
    /\ Alive(p)
    /\ \/ /\ serve[p] = "select" /\ ctxDone[p]
          /\ serve' = [serve EXCEPT ![p] = "draining"]
       \/ /\ serve[p] \in {"select", "draining"} /\ listen[p] = "returned"
          /\ serve' = [serve EXCEPT ![p] = "done"]
    /\ UNCHANGED <<registryVars, pc, why, conf, build, todo, checked, enc, ctxDone, running,
                   listen, producer, log, starts, faults>>

----------------------------------------------------------------------------
(* Going down.                                                             *)

\* SIGINT or SIGTERM.
Signal(p) ==
    /\ pc[p] \in Startup \cup {"running"} /\ ~ctxDone[p]
    /\ ctxDone' = [ctxDone EXCEPT ![p] = TRUE]
    /\ UNCHANGED <<registryVars, pc, why, conf, build, todo, checked, enc, running, serve,
                   listen, producer, log, starts, faults>>

\* A runner returns once the context is cancelled.
RunnerReturns(p, v) ==
    /\ Alive(p) /\ v \in running[p] /\ ctxDone[p]
    /\ running' = [running EXCEPT ![p] = @ \ {v}]
    /\ UNCHANGED <<registryVars, pc, why, conf, build, todo, checked, enc, ctxDone, serve,
                   listen, producer, log, starts, faults>>

\* Pipeline.Run returns after its final flush, and run waits for the rest.
PipelineReturns(p) ==
    /\ pc[p] = "running" /\ ctxDone[p]
    /\ Goto(p, "waiting")
    /\ UNCHANGED <<registryVars, why, conf, build, todo, checked, enc, runVars, log, starts, faults>>

\* wg.Wait.
Wait(p) ==
    /\ pc[p] = "waiting" /\ running[p] = {} /\ serve[p] = "done"
    /\ Goto(p, "closing")
    /\ UNCHANGED <<registryVars, why, conf, build, todo, checked, enc, runVars, log, starts, faults>>

\* The deferred calls in their order: close the producer, flush the traces,
\* each bounded in time, and cancel the context if run returned early.
Close(p) ==
    /\ pc[p] = "closing"
    /\ producer' = [producer EXCEPT ![p] = "closed"]
    /\ Goto(p, "flushing")
    /\ UNCHANGED <<registryVars, why, conf, build, todo, checked, enc, ctxDone, running, serve,
                   listen, log, starts, faults>>

FlushTraces(p) ==
    /\ pc[p] = "flushing"
    /\ Goto(p, "returned")
    /\ ctxDone' = [ctxDone EXCEPT ![p] = TRUE]
    /\ UNCHANGED <<registryVars, why, conf, build, todo, checked, enc, running, serve, listen,
                   producer, log, starts, faults>>

\* main returns or calls os.Exit, whatever still runs.
Exit(p) ==
    /\ pc[p] = "returned"
    /\ End(p)
    /\ UNCHANGED <<registryVars, log, starts, faults>>

\* The process is killed, by a second signal for example: stop() has restored
\* the default handling.
Kill(p) ==
    /\ Alive(p)
    /\ Fault
    /\ End(p)
    /\ UNCHANGED <<registryVars, log, starts>>

----------------------------------------------------------------------------

\* The steps of the goroutine that executes run.
Main(p) ==
    \/ InitTracing(p)
    \/ \E k \in Kind : SetCompatibility(p, k)
    \/ \E k \in Kind : CheckCompatibility(p, k)
    \/ \E k \in Kind : Register(p, k)
    \/ Launch(p)
    \/ PipelineReturns(p)
    \/ Wait(p)
    \/ Close(p)
    \/ FlushTraces(p)
    \/ Exit(p)

Next ==
    \E p \in Proc :
        \/ \E env \in Env, b \in Build : Start(p, env, b)
        \/ Main(p)
        \/ \E k \in Kind : Publish(p, k)
        \/ Listen(p)
        \/ ListenReturns(p)
        \/ Serve(p)
        \/ \E v \in Source : RunnerReturns(p, v)
        \/ Signal(p)
        \/ Kill(p)

Spec == Init /\ [][Next]_vars

\* The scheduler runs every goroutine that can go on; a server that was shut
\* down returns from ListenAndServe.  Nothing obliges a signal, a failure, a
\* start or an event to come.
Fairness ==
    \A p \in Proc :
        /\ WF_vars(Main(p))
        /\ WF_vars(Serve(p))
        /\ WF_vars(Listen(p))
        /\ WF_vars(serve[p] = "draining" /\ ListenReturns(p))
        /\ \A v \in Source : WF_vars(RunnerReturns(p, v))

FairSpec == Spec /\ Fairness

----------------------------------------------------------------------------
(* Properties.                                                             *)

Record == [topic : Topic, id : Int, writer : Schema]

\* The variables of run and of the registry keep their types.
ITypeOK ==
    /\ versions \in [Topic -> Seq(Schema)]
    /\ level \in [Topic -> {"BACKWARD", "FULL"}]
    /\ ids \in Seq(Schema)
    /\ lax \subseteq Topic
    /\ pc \in [Proc -> Startup \cup {"off", "running", "waiting", "closing", "flushing",
                                     "returned"}]
    /\ todo \in [Proc -> SUBSET Kind]
    /\ checked \in [Proc -> SUBSET Kind]
    /\ enc \in [Proc -> [Kind -> Int]]
    /\ ctxDone \in [Proc -> BOOLEAN]
    /\ running \in [Proc -> SUBSET Source]
    /\ serve \in [Proc -> {"off", "select", "draining", "done"}]
    /\ listen \in [Proc -> {"off", "starting", "listening", "returned"}]
    /\ producer \in [Proc -> {"none", "open", "closed"}]
    /\ log \subseteq Record

\* Every record in Kafka can be resolved: the registry knows its id, and under
\* it, for that topic, exactly the schema the record was written with, whatever
\* failed, was cancelled or was killed while the writer started (RegisterSchemas:
\* records no consumer can resolve outlive the process).
Resolvable ==
    \A r \in log :
        /\ r.id \in DOMAIN ids
        /\ ids[r.id] = r.writer
        /\ Registered(r.writer, r.topic)

\* A process that returns by itself leaves nothing running behind: no runner,
\* no listener, no open producer (run: one cancel and a WaitGroup).
CleanExit ==
    \A p \in Proc : pc[p] = "returned" =>
        /\ running[p] = {}
        /\ serve[p] \in {"off", "done"}
        /\ listen[p] \in {"off", "returned"}
        /\ producer[p] # "open"

\* The schemas of a topic's last two versions.
Recent(t) ==
    {versions[t][i] : i \in {j \in DOMAIN versions[t] : j >= Len(versions[t]) - 1}}

\* A build can be started again, and the build before it brought back: a schema
\* among the last two versions of its subject is never found incompatible,
\* unless the subject could not be pinned (CheckCompatibility before Register).
RollbackAccepted ==
    [][\A p \in Proc :
        why'[p] = "incompatible" /\ why[p] = NoError =>
            \E k \in todo[p] : \/ topics(p)[k] \in lax
                               \/ build[p][k] \notin Recent(topics(p)[k])]_vars

\* A cancelled process ends, at whatever point of its start or its work the
\* signal found it, and even when the metrics server failed or had not begun
\* to listen.
SignalEnds == \A p \in Proc : ctxDone[p] ~> pc[p] = "off"

=============================================================================
