--------------------------- MODULE IngestdProofs ----------------------------
(***************************************************************************)
(* Proofs about Ingestd and the schema registry it talks to, for any       *)
(* number of processes, builds, environments, starts and faults.           *)
(***************************************************************************)
EXTENDS Ingestd, SequenceTheorems, TLAPS

----------------------------------------------------------------------------
(* The inductive invariant.                                                *)

RegistryTypes ==
    /\ versions \in [Topic -> Seq(Schema)]
    /\ level \in [Topic -> {"BACKWARD", "FULL"}]
    /\ ids \in Seq(Schema)
    /\ lax \subseteq Topic

PC == Startup \cup {"off", "running", "waiting", "closing", "flushing", "returned"}

ProcTypes ==
    /\ pc \in [Proc -> PC]
    /\ conf \in [Proc -> Conf]
    /\ build \in [Proc -> Build]
    /\ todo \in [Proc -> SUBSET Kind]
    /\ checked \in [Proc -> SUBSET Kind]
    /\ enc \in [Proc -> [Kind -> Int]]
    /\ ctxDone \in [Proc -> BOOLEAN]

RunTypes ==
    /\ running \in [Proc -> SUBSET Source]
    /\ serve \in [Proc -> {"off", "select", "draining", "done"}]
    /\ listen \in [Proc -> {"off", "starting", "listening", "returned"}]
    /\ producer \in [Proc -> {"none", "open", "closed"}]

\* The subject of kind k is pinned, or the failure to pin it is on record.
Pinned(t) == level[t] = "FULL" \/ t \in lax

\* A process that is past pinning kind k, and not cancelled, has it pinned.
PinnedBy(p) ==
    \A k \in Kind :
        pc[p] = "registering" \/ (pc[p] = "pinning" /\ k \notin todo[p])
            => ctxDone[p] \/ Pinned(topicFor(conf[p], k))

\* The registry resolves what process p frames for kind k.
Resolves(i, s, t) ==
    /\ i \in DOMAIN ids
    /\ ids[i] = s
    /\ Registered(s, t)

\* A process that is past registering kind k has an encoder for it.
EncodedBy(p) ==
    \A k \in Kind :
        \/ pc[p] = "registering" /\ k \notin todo[p]
        \/ pc[p] \in {"producer", "running"} /\ ~conf[p].dryRun
        => Resolves(enc[p][k], build[p][k], topicFor(conf[p], k))

\* What is up at which point of run.  Validate has left at least one source to a
\* process that starts, so Launch never returns early with a server behind it.
LifeOf(p) ==
    /\ pc[p] \in Startup \cup {"off"} =>
        running[p] = {} /\ serve[p] = "off" /\ listen[p] = "off" /\ producer[p] = "none"
    /\ pc[p] \in Startup => Validate(conf[p])
    /\ serve[p] = "done" => listen[p] = "returned"
    /\ pc[p] = "closing" => running[p] = {} /\ serve[p] = "done"
    /\ pc[p] \in {"flushing", "returned"} =>
        /\ running[p] = {} /\ serve[p] \in {"off", "done"}
        /\ listen[p] \in {"off", "returned"} /\ producer[p] # "open"

Resolved(r) ==
    /\ r \in Record
    /\ Resolves(r.id, r.writer, r.topic)

IInv ==
    /\ RegistryTypes /\ ProcTypes /\ RunTypes
    /\ NeighboursRead
    /\ \A r \in log : Resolved(r)
    /\ \A p \in Proc : PinnedBy(p) /\ EncodedBy(p) /\ LifeOf(p)

----------------------------------------------------------------------------
(* The registry only grows: ids and versions stay, and no subject is       *)
(* unpinned.                                                               *)

Grows ==
    /\ \A i \in DOMAIN ids : i \in DOMAIN ids' /\ ids'[i] = ids[i]
    /\ \A s \in Schema, t \in Topic : Registered(s, t) => Registered(s, t)'
    /\ \A t \in Topic : Pinned(t) => Pinned(t)'

\* Names for what a process works on.
LEMMA Subjects ==
    ASSUME ProcTypes, NEW p \in Proc, NEW k \in Kind
    PROVE  /\ topics(p)[k] = topicFor(conf[p], k)
           /\ topicFor(conf[p], k) \in Topic
           /\ build[p][k] \in Schema
<1>1. topics(p)[k] = topicFor(conf[p], k)
    BY DEF topics
<1>2. conf[p] \in Conf /\ build[p] \in [Kind -> Schema]
    BY IngestdAssumption DEF ProcTypes
<1> QED
    BY <1>1, <1>2, IngestdAssumption

\* A call that does not reach the registry.
LEMMA QuietRegistry ==
    ASSUME RegistryTypes, NeighboursRead, UNCHANGED registryVars
    PROVE  RegistryTypes' /\ Grows /\ NeighboursRead'
<1>1. UNCHANGED <<versions, level, ids, lax>>
    BY DEF registryVars
<1> QED
    BY <1>1 DEF RegistryTypes, Grows, NeighboursRead, Registered, Pinned

\* SetCompatibility, or the record that it failed, leaves the subject pinned and
\* every other one as it was.
LEMMA PinRegistry ==
    ASSUME RegistryTypes, NeighboursRead, NEW t \in Topic, PinFull(t) \/ PinFails(t)
    PROVE  RegistryTypes' /\ Grows /\ NeighboursRead' /\ Pinned(t)'
<1>1. UNCHANGED <<versions, ids>>
    BY DEF PinFull, PinFails
<1>2. /\ level' \in [Topic -> {"BACKWARD", "FULL"}] /\ lax' \subseteq Topic
      /\ lax \subseteq lax' /\ Pinned(t)'
      /\ \A u \in Topic : level[u] = "FULL" => level'[u] = "FULL"
    BY DEF PinFull, PinFails, RegistryTypes, Pinned
<1>3. RegistryTypes'
    BY <1>1, <1>2 DEF RegistryTypes
<1>4. Grows
    BY <1>1, <1>2 DEF Grows, Registered, Pinned
<1>5. NeighboursRead'
    BY <1>1, <1>2 DEF NeighboursRead
<1> QED
    BY <1>2, <1>3, <1>4, <1>5

\* A schema that the registry stores has an id and is among the versions of its
\* subject; all that was there stays.
LEMMA StoreRegistry ==
    ASSUME RegistryTypes, NEW s \in Schema, NEW t \in Topic, Store(s, t)
    PROVE  RegistryTypes' /\ Grows /\ HasId(s)' /\ Registered(s, t)'
<1>1. UNCHANGED <<level, lax>>
    BY DEF Store
<1>2. /\ ids' \in Seq(Schema) /\ HasId(s)'
      /\ \A i \in DOMAIN ids : i \in DOMAIN ids' /\ ids'[i] = ids[i]
    <2>1. CASE HasId(s)
        BY <2>1 DEF Store, RegistryTypes, HasId
    <2>2. CASE ~HasId(s)
        <3>1. ids' = Append(ids, s) /\ ids \in Seq(Schema)
            BY <2>2 DEF Store, RegistryTypes
        <3>2. ids' \in Seq(Schema) /\ Len(ids') = Len(ids) + 1 /\ ids'[Len(ids) + 1] = s
            BY <3>1
        <3>3. \A i \in DOMAIN ids : i \in DOMAIN ids' /\ ids'[i] = ids[i]
            BY <3>1
        <3> QED
            BY <3>1, <3>2, <3>3 DEF HasId
    <2> QED
        BY <2>1, <2>2
<1>3. /\ versions' \in [Topic -> Seq(Schema)] /\ Registered(s, t)'
      /\ \A r \in Schema, u \in Topic : Registered(r, u) => Registered(r, u)'
    <2>1. CASE Registered(s, t)
        <3>1. versions' = versions
            BY <2>1 DEF Store
        <3> QED
            BY <2>1, <3>1 DEF RegistryTypes, Registered
    <2>2. CASE ~Registered(s, t)
        <3>1. /\ versions' = [versions EXCEPT ![t] = Append(versions[t], s)]
              /\ versions[t] \in Seq(Schema)
            BY <2>2 DEF Store, RegistryTypes
        <3>2. /\ versions'[t] = Append(versions[t], s)
              /\ \A u \in Topic \ {t} : versions'[u] = versions[u]
              /\ versions' \in [Topic -> Seq(Schema)]
            BY <3>1 DEF RegistryTypes
        <3>3. /\ Len(versions'[t]) = Len(versions[t]) + 1
              /\ versions'[t][Len(versions[t]) + 1] = s
              /\ \A i \in DOMAIN versions[t] :
                    i \in DOMAIN versions'[t] /\ versions'[t][i] = versions[t][i]
            BY <3>1, <3>2
        <3> QED
            BY <3>1, <3>2, <3>3 DEF Registered
    <2> QED
        BY <2>1, <2>2
<1> QED
    BY <1>1, <1>2, <1>3 DEF RegistryTypes, Grows, Pinned

\* A version that is stored under FULL reads the version before it and is read
\* by it; the registry's own check sees the latest version, whatever the
\* process had been told before.
LEMMA StoreNeighbours ==
    ASSUME RegistryTypes, NeighboursRead, NEW s \in Schema, NEW t \in Topic,
           Store(s, t), Pinned(t)
    PROVE  NeighboursRead'
<1>1. lax' = lax
    BY DEF Store
<1>2. CASE versions' = versions
    BY <1>1, <1>2 DEF NeighboursRead
<1>3. CASE versions' # versions
    <2>1. /\ versions' = [versions EXCEPT ![t] = Append(versions[t], s)]
          /\ Compatible(s, t) /\ versions[t] \in Seq(Schema)
        BY <1>3 DEF Store, RegistryTypes
    <2>2. \A u \in Topic \ {t} : versions'[u] = versions[u]
        BY <2>1 DEF RegistryTypes
    <2>3. /\ Len(versions'[t]) = Len(versions[t]) + 1
          /\ versions'[t][Len(versions[t]) + 1] = s
          /\ \A i \in 1 .. Len(versions[t]) : versions'[t][i] = versions[t][i]
        BY <2>1 DEF RegistryTypes
    <2>4. ASSUME t \notin lax, NEW i \in 1 .. Len(versions'[t]) - 1
          PROVE  /\ <<versions'[t][i], versions'[t][i + 1]>> \in CanRead
                 /\ <<versions'[t][i + 1], versions'[t][i]>> \in CanRead
        <3>1. CASE i = Len(versions[t])
            <4>1. versions[t] # <<>>
                BY <2>1, <2>4, <3>1, EmptySeq
            <4>2. level[t] = "FULL"
                BY <2>4 DEF Pinned
            <4>3. <<s, versions[t][i]>> \in CanRead /\ <<versions[t][i], s>> \in CanRead
                BY <2>1, <3>1, <4>1, <4>2 DEF Compatible, Latest
            <4>4. versions'[t][i] = versions[t][i] /\ versions'[t][i + 1] = s
                BY <2>3, <2>4, <3>1
            <4> QED
                BY <4>3, <4>4
        <3>2. CASE i # Len(versions[t])
            <4>1. i \in 1 .. Len(versions[t]) - 1
                BY <2>1, <2>3, <2>4, <3>2
            <4>2. versions'[t][i] = versions[t][i] /\ versions'[t][i + 1] = versions[t][i + 1]
                BY <2>1, <2>3, <4>1
            <4> QED
                BY <2>4, <4>1, <4>2 DEF NeighboursRead
        <3> QED
            BY <3>1, <3>2
    <2> QED
        BY <1>1, <2>2, <2>4 DEF NeighboursRead
<1> QED
    BY <1>2, <1>3

----------------------------------------------------------------------------
(* A step of one process.                                                  *)

\* Nothing of process q changes.
Same(q) ==
    /\ pc'[q] = pc[q] /\ conf'[q] = conf[q] /\ build'[q] = build[q] /\ todo'[q] = todo[q]
    /\ enc'[q] = enc[q] /\ ctxDone'[q] = ctxDone[q] /\ running'[q] = running[q]
    /\ serve'[q] = serve[q] /\ listen'[q] = listen[q] /\ producer'[q] = producer[q]

\* What the registry resolves it goes on resolving.
LEMMA StillResolves ==
    ASSUME Grows, NEW i, NEW s \in Schema, NEW t \in Topic, Resolves(i, s, t)
    PROVE  Resolves(i, s, t)'
BY DEF Grows, Resolves

\* A process is not disturbed by what the others do to the registry.
LEMMA OtherProcess ==
    ASSUME ProcTypes, Grows, NEW q \in Proc, Same(q), PinnedBy(q), EncodedBy(q), LifeOf(q)
    PROVE  PinnedBy(q)' /\ EncodedBy(q)' /\ LifeOf(q)'
<1>1. PinnedBy(q)'
    BY Subjects DEF PinnedBy, Same, Grows
<1>2. EncodedBy(q)'
    <2> SUFFICES ASSUME NEW k \in Kind,
                        \/ pc[q] = "registering" /\ k \notin todo[q]
                        \/ pc[q] \in {"producer", "running"} /\ ~conf[q].dryRun
                 PROVE  Resolves(enc[q][k], build[q][k], topicFor(conf[q], k))'
        BY DEF EncodedBy, Same
    <2>1. Resolves(enc[q][k], build[q][k], topicFor(conf[q], k))
        BY DEF EncodedBy
    <2>2. build[q][k] \in Schema /\ topicFor(conf[q], k) \in Topic
        BY Subjects
    <2> QED
        BY <2>1, <2>2 DEF Same, Resolves, Grows
<1>3. LifeOf(q)'
    BY DEF LifeOf, Same
<1> QED
    BY <1>1, <1>2, <1>3

\* What a step of process p has to show.
LEMMA OneProcess ==
    ASSUME IInv, NEW p \in Proc,
           RegistryTypes', ProcTypes', RunTypes', Grows, NeighboursRead',
           \A q \in Proc \ {p} : Same(q), \A r \in log' : r \in log \/ Resolved(r),
           PinnedBy(p)', EncodedBy(p)', LifeOf(p)'
    PROVE  IInv'
<1>1. ASSUME NEW q \in Proc
      PROVE  PinnedBy(q)' /\ EncodedBy(q)' /\ LifeOf(q)'
    <2>1. CASE q = p
        BY <2>1
    <2>2. CASE q # p
        BY <2>2, OtherProcess DEF IInv
    <2> QED
        BY <2>1, <2>2
<1>2. ASSUME NEW r \in log'
      PROVE  Resolved(r)'
    <2>1. Resolved(r)
        BY <1>2 DEF IInv
    <2>2. r.writer \in Schema /\ r.topic \in Topic
        BY <2>1 DEF Resolved, Record
    <2> QED
        BY <2>1, <2>2, StillResolves DEF Resolved
<1> QED
    BY <1>1, <1>2 DEF IInv

\* The same for a step that neither calls the registry nor publishes.
LEMMA LocalStep ==
    ASSUME IInv, NEW p \in Proc, UNCHANGED <<registryVars, log>>,
           ProcTypes', RunTypes', \A q \in Proc \ {p} : Same(q),
           PinnedBy(p)', EncodedBy(p)', LifeOf(p)'
    PROVE  IInv'
<1>1. RegistryTypes' /\ Grows /\ NeighboursRead'
    BY QuietRegistry DEF IInv
<1> QED
    BY <1>1, OneProcess

\* A process that is nowhere near the registry has nothing to show about it.
LEMMA AwayFromRegistry ==
    ASSUME NEW p \in Proc,
           pc'[p] \notin {"pinning", "registering", "producer", "running"}
    PROVE  PinnedBy(p)' /\ EncodedBy(p)'
BY DEF PinnedBy, EncodedBy

\* A step of the goroutines around run: nothing that concerns the registry.
LEMMA RuntimeStep ==
    ASSUME IInv, NEW p \in Proc, UNCHANGED <<registryVars, log, conf, build, todo, checked, enc>>,
           \/ pc' = pc
           \/ /\ pc' = [pc EXCEPT ![p] = pc'[p]]
              /\ pc'[p] \in PC \ {"pinning", "registering", "producer", "running"},
           ctxDone' \in [Proc -> BOOLEAN], ctxDone[p] => ctxDone'[p],
           \A q \in Proc \ {p} : Same(q), RunTypes', LifeOf(p)'
    PROVE  IInv'
<1>1. ProcTypes'
    BY DEF IInv, ProcTypes
<1>2. PinnedBy(p)' /\ EncodedBy(p)'
    <2>1. CASE pc' = pc
        <3>1. UNCHANGED <<versions, level, ids, lax>>
            BY DEF registryVars
        <3>2. PinnedBy(p) /\ EncodedBy(p)
            BY DEF IInv
        <3> QED
            BY <2>1, <3>1, <3>2
               DEF PinnedBy, EncodedBy, Pinned, Resolves, Registered
    <2>2. CASE pc'[p] \in PC \ {"pinning", "registering", "producer", "running"}
        BY <2>2, AwayFromRegistry
    <2> QED
        BY <2>1, <2>2
<1> QED
    BY <1>1, <1>2, LocalStep

\* The server, the runners and a signal.
LEMMA AroundRun ==
    ASSUME IInv, NEW p \in Proc,
           \/ Listen(p) \/ ListenReturns(p) \/ Serve(p) \/ Signal(p)
           \/ \E v \in Source : RunnerReturns(p, v)
    PROVE  IInv'
<1> USE DEF IInv
<1>1. UNCHANGED <<registryVars, log, pc, conf, build, todo, checked, enc, producer>>
    BY DEF Listen, ListenReturns, Serve, Signal, RunnerReturns
<1>2. CASE Listen(p) \/ ListenReturns(p)
    <2>1. /\ listen' = [listen EXCEPT ![p] = "listening"]
             \/ listen' = [listen EXCEPT ![p] = "returned"]
          /\ listen[p] \in {"starting", "listening"} /\ UNCHANGED <<ctxDone, running, serve>>
        BY <1>2 DEF Listen, ListenReturns
    <2>2. RunTypes'
        BY <1>1, <2>1 DEF RunTypes
    <2>3. LifeOf(p)'
        BY <1>1, <2>1 DEF RunTypes, LifeOf
    <2>4. \A q \in Proc \ {p} : Same(q)
        BY <1>1, <2>1 DEF RunTypes, Same
    <2>5. ctxDone' \in [Proc -> BOOLEAN]
        BY <2>1 DEF ProcTypes
    <2> QED
        BY <1>1, <2>1, <2>2, <2>3, <2>4, <2>5, RuntimeStep
<1>3. CASE Serve(p)
    <2>1. /\ \/ serve' = [serve EXCEPT ![p] = "draining"]
             \/ serve' = [serve EXCEPT ![p] = "done"] /\ listen[p] = "returned"
          /\ serve[p] \in {"select", "draining"} /\ UNCHANGED <<ctxDone, running, listen>>
        BY <1>3 DEF Serve
    <2>2. RunTypes'
        BY <1>1, <2>1 DEF RunTypes
    <2>3. LifeOf(p)'
        BY <1>1, <2>1 DEF RunTypes, LifeOf
    <2>4. \A q \in Proc \ {p} : Same(q)
        BY <1>1, <2>1 DEF RunTypes, Same
    <2>5. ctxDone' \in [Proc -> BOOLEAN]
        BY <2>1 DEF ProcTypes
    <2> QED
        BY <1>1, <2>1, <2>2, <2>3, <2>4, <2>5, RuntimeStep
<1>4. CASE Signal(p)
    <2>1. ctxDone' = [ctxDone EXCEPT ![p] = TRUE] /\ UNCHANGED <<running, serve, listen>>
        BY <1>4 DEF Signal
    <2>2. RunTypes' /\ LifeOf(p)'
        BY <1>1, <2>1 DEF RunTypes, LifeOf
    <2>3. ctxDone' \in [Proc -> BOOLEAN] /\ ctxDone'[p]
        BY <2>1 DEF ProcTypes
    <2>4. \A q \in Proc \ {p} : Same(q)
        BY <1>1, <2>1 DEF ProcTypes, Same
    <2> QED
        BY <1>1, <2>1, <2>2, <2>3, <2>4, RuntimeStep
<1>5. CASE \E v \in Source : RunnerReturns(p, v)
    <2>1. PICK v \in Source : RunnerReturns(p, v)
        BY <1>5
    <2>2. /\ running' = [running EXCEPT ![p] = running[p] \ {v}]
          /\ UNCHANGED <<ctxDone, serve, listen>>
        BY <2>1 DEF RunnerReturns
    <2>3. RunTypes' /\ running'[p] \subseteq running[p]
        BY <1>1, <2>2 DEF RunTypes
    <2>4. LifeOf(p)'
        BY <1>1, <2>2, <2>3 DEF LifeOf
    <2>5. \A q \in Proc \ {p} : Same(q)
        BY <1>1, <2>2 DEF RunTypes, Same
    <2>6. ctxDone' \in [Proc -> BOOLEAN]
        BY <2>2 DEF ProcTypes
    <2> QED
        BY <1>1, <2>2, <2>3, <2>4, <2>5, <2>6, RuntimeStep
<1> QED
    BY <1>2, <1>3, <1>4, <1>5

\* From Pipeline.Run's return to the last deferred call.
LEMMA WindDown ==
    ASSUME IInv, NEW p \in Proc,
           PipelineReturns(p) \/ Wait(p) \/ Close(p) \/ FlushTraces(p)
    PROVE  IInv'
<1> USE DEF IInv
<1>1. UNCHANGED <<registryVars, log, conf, build, todo, checked, enc, running, serve, listen>>
    BY DEF PipelineReturns, Wait, Close, FlushTraces, runVars
<1>2. \E to \in {"waiting", "closing", "flushing", "returned"} : pc' = [pc EXCEPT ![p] = to]
    BY DEF PipelineReturns, Wait, Close, FlushTraces, Goto
<1>3. /\ pc' = [pc EXCEPT ![p] = pc'[p]]
      /\ pc'[p] \in PC \ {"pinning", "registering", "producer", "running"}
    BY <1>2 DEF ProcTypes, PC, Startup
<1>4. /\ ctxDone' = ctxDone \/ ctxDone' = [ctxDone EXCEPT ![p] = TRUE]
      /\ producer' = producer \/ producer' = [producer EXCEPT ![p] = "closed"]
    BY DEF PipelineReturns, Wait, Close, FlushTraces, runVars
<1>5. /\ ctxDone' \in [Proc -> BOOLEAN] /\ (ctxDone[p] => ctxDone'[p])
      /\ RunTypes'
    BY <1>1, <1>4 DEF ProcTypes, RunTypes
<1>6. \A q \in Proc \ {p} : Same(q)
    BY <1>1, <1>3, <1>4 DEF ProcTypes, RunTypes, Same
<1>7. LifeOf(p)'
    <2>1. CASE PipelineReturns(p)
        <3>1. pc'[p] = "waiting" /\ UNCHANGED producer
            BY <2>1 DEF PipelineReturns, Goto, ProcTypes, runVars
        <3> QED
            BY <1>1, <3>1 DEF LifeOf, Startup
    <2>2. CASE Wait(p)
        <3>1. pc'[p] = "closing" /\ running[p] = {} /\ serve[p] = "done"
            BY <2>2 DEF Wait, Goto, ProcTypes
        <3> QED
            BY <1>1, <3>1 DEF LifeOf, Startup
    <2>3. CASE Close(p)
        <3>1. pc[p] = "closing" /\ pc'[p] = "flushing" /\ producer'[p] = "closed"
            BY <2>3 DEF Close, Goto, ProcTypes, RunTypes
        <3> QED
            BY <1>1, <3>1 DEF LifeOf, Startup
    <2>4. CASE FlushTraces(p)
        <3>1. pc[p] = "flushing" /\ pc'[p] = "returned" /\ producer' = producer
            BY <2>4 DEF FlushTraces, Goto, ProcTypes
        <3> QED
            BY <1>1, <3>1 DEF LifeOf, Startup
    <2> QED
        BY <2>1, <2>2, <2>3, <2>4
<1> QED
    BY <1>1, <1>3, <1>5, <1>6, <1>7, RuntimeStep

\* The process is gone, with all it had.
LEMMA EndStep ==
    ASSUME IInv, NEW p \in Proc, End(p), UNCHANGED <<registryVars, log>>
    PROVE  IInv'
<1> USE DEF IInv
<1>1. SomeBuild \in Build /\ Defaults \in Conf
    BY IngestdAssumption DEF SomeBuild, Conf
<1>2. ProcTypes' /\ RunTypes'
    <2> HIDE DEF Defaults
    <2>1. ProcTypes'
        BY <1>1 DEF End, Goto, ProcTypes, PC
    <2>2. RunTypes'
        BY DEF End, RunTypes
    <2> QED
        BY <2>1, <2>2
<1>3. \A q \in Proc \ {p} : Same(q)
    BY DEF End, Goto, ProcTypes, RunTypes, Same
<1>4. /\ pc'[p] = "off" /\ running'[p] = {} /\ serve'[p] = "off" /\ listen'[p] = "off"
      /\ producer'[p] = "none"
    BY DEF End, Goto, ProcTypes, RunTypes
<1>5. PinnedBy(p)' /\ EncodedBy(p)' /\ LifeOf(p)'
    BY <1>4, AwayFromRegistry DEF LifeOf, Startup
<1> QED
    BY <1>2, <1>3, <1>5, LocalStep

\* A configuration that Load accepts has passed Validate.
LEMMA StartStep ==
    ASSUME IInv, NEW p \in Proc, NEW env \in Env, NEW b \in Build, Start(p, env, b)
    PROVE  IInv'
<1> USE DEF IInv
<1>1. /\ build' = [build EXCEPT ![p] = b] /\ pc[p] = "off"
      /\ UNCHANGED <<registryVars, log, todo, checked, enc, ctxDone, running, serve, listen,
                     producer>>
      /\ \/ /\ conf' = [conf EXCEPT ![p] = Load(env)] /\ Validate(Load(env))
            /\ pc' = [pc EXCEPT ![p] = "tracing"]
         \/ conf' = conf /\ pc' = [pc EXCEPT ![p] = "returned"]
    BY DEF Start, Alive, Fail, Goto, runVars
<1>2. Load(env) \in Conf
    BY DEF Conf
<1>3. ProcTypes' /\ RunTypes'
    <2>1. conf' \in [Proc -> Conf]
        BY <1>1, <1>2 DEF ProcTypes
    <2>2. pc' \in [Proc -> PC] /\ build' \in [Proc -> Build]
        BY <1>1 DEF ProcTypes, PC, Startup
    <2> QED
        BY <1>1, <2>1, <2>2 DEF ProcTypes, RunTypes
<1>4. \A q \in Proc \ {p} : Same(q)
    BY <1>1 DEF ProcTypes, Same
<1>5. \/ pc'[p] = "tracing" /\ conf'[p] = Load(env) /\ Validate(Load(env))
      \/ pc'[p] = "returned"
    BY <1>1 DEF ProcTypes
<1>6. LifeOf(p)'
    BY <1>1, <1>5 DEF LifeOf, Startup
<1>7. PinnedBy(p)' /\ EncodedBy(p)'
    BY <1>5, AwayFromRegistry
<1> QED
    BY <1>1, <1>3, <1>4, <1>6, <1>7, LocalStep

\* No kind is pinned yet, and a dry run needs none.
LEMMA TracingStep ==
    ASSUME IInv, NEW p \in Proc, InitTracing(p)
    PROVE  IInv'
<1> USE DEF IInv
<1>1. /\ pc[p] = "tracing"
      /\ UNCHANGED <<registryVars, log, conf, build, checked, enc, ctxDone, running, serve,
                     listen, producer>>
      /\ \/ /\ conf[p].dryRun /\ pc' = [pc EXCEPT ![p] = "producer"]
            /\ todo' = [todo EXCEPT ![p] = {}]
         \/ /\ ~conf[p].dryRun /\ pc' = [pc EXCEPT ![p] = "pinning"]
            /\ todo' = [todo EXCEPT ![p] = Kind]
         \/ pc' = [pc EXCEPT ![p] = "returned"] /\ todo' = todo
    BY DEF InitTracing, Fail, Goto, runVars
<1>2. ProcTypes' /\ RunTypes'
    <2>1. pc' \in [Proc -> PC] /\ todo' \in [Proc -> SUBSET Kind]
        BY <1>1 DEF ProcTypes, PC, Startup
    <2> QED
        BY <1>1, <2>1 DEF ProcTypes, RunTypes
<1>3. \A q \in Proc \ {p} : Same(q)
    BY <1>1 DEF ProcTypes, Same
<1>4. \/ pc'[p] = "producer" /\ conf[p].dryRun
      \/ pc'[p] = "pinning" /\ todo'[p] = Kind
      \/ pc'[p] = "returned"
    BY <1>1 DEF ProcTypes
<1>5. LifeOf(p)'
    BY <1>1, <1>4 DEF LifeOf, Startup
<1>6. PinnedBy(p)' /\ EncodedBy(p)'
    BY <1>1, <1>4 DEF PinnedBy, EncodedBy
<1> QED
    BY <1>1, <1>2, <1>3, <1>5, <1>6, LocalStep

\* CheckCompatibility answers, or run returns.
LEMMA CheckStep ==
    ASSUME IInv, NEW p \in Proc, NEW k \in Kind, CheckCompatibility(p, k)
    PROVE  IInv'
<1> USE DEF IInv
<1>1. /\ pc[p] = "registering"
      /\ UNCHANGED <<registryVars, log, conf, build, todo, enc, ctxDone, running, serve,
                     listen, producer>>
      /\ \/ pc' = pc /\ checked' = [checked EXCEPT ![p] = {k}]
         \/ pc' = [pc EXCEPT ![p] = "flushing"] /\ checked' = checked
    BY DEF CheckCompatibility, RegistryFails, Fail, Goto, runVars
<1>2. ProcTypes' /\ RunTypes'
    <2>1. pc' \in [Proc -> PC]
        BY <1>1 DEF ProcTypes, PC
    <2>2. checked' \in [Proc -> SUBSET Kind]
        BY <1>1 DEF ProcTypes
    <2> QED
        BY <1>1, <2>1, <2>2 DEF ProcTypes, RunTypes
<1>3. \A q \in Proc \ {p} : Same(q)
    BY <1>1 DEF ProcTypes, Same
<1>4. \/ pc' = pc
      \/ pc'[p] = "flushing"
    BY <1>1 DEF ProcTypes
<1>5. LifeOf(p)'
    BY <1>1, <1>4 DEF LifeOf, Startup
<1>6. PinnedBy(p)' /\ EncodedBy(p)'
    <2>1. CASE pc' = pc
        <3>1. UNCHANGED <<versions, level, ids, lax>>
            BY <1>1 DEF registryVars
        <3>2. PinnedBy(p) /\ EncodedBy(p)
            OBVIOUS
        <3> QED
            BY <1>1, <2>1, <3>1, <3>2
               DEF PinnedBy, EncodedBy, Pinned, Resolves, Registered
    <2>2. CASE pc'[p] = "flushing"
        BY <2>2, AwayFromRegistry
    <2> QED
        BY <1>4, <2>1, <2>2
<1> QED
    BY <1>1, <1>2, <1>3, <1>5, <1>6, LocalStep

\* Validate leaves every configuration at least one source.
LEMMA ValidatedHasSource ==
    ASSUME NEW c \in Conf, Validate(c)
    PROVE  buildDecoders(c) # {}
<1>1. CASE c.onchainEnabled
    BY <1>1 DEF buildDecoders
<1>2. CASE ~c.onchainEnabled
    <2>1. c.venues \in Seq(STRING)
        BY IngestdAssumption
    <2>2. c.venues # <<>> /\ \A i \in DOMAIN c.venues : c.venues[i] \in Known
        BY <1>2, Zenon DEF Validate
    <2>3. 1 \in DOMAIN c.venues
        BY <2>1, <2>2, EmptySeq
    <2> QED
        BY <2>2, <2>3, Zenon DEF buildDecoders
<1> QED
    BY <1>1, <1>2

\* Everything is started, with at least one runner.
LEMMA LaunchStep ==
    ASSUME IInv, NEW p \in Proc, Launch(p)
    PROVE  IInv'
<1> USE DEF IInv
<1>1. pc[p] = "producer" /\ conf[p] \in Conf
    BY DEF Launch, ProcTypes
<1>2. buildDecoders(conf[p]) # {}
    BY <1>1, ValidatedHasSource DEF LifeOf, Startup
<1>3. /\ producer' = [producer EXCEPT ![p] = "open"]
      /\ serve' = [serve EXCEPT ![p] = "select"]
      /\ listen' = [listen EXCEPT ![p] = "starting"]
      /\ running' = [running EXCEPT ![p] = buildDecoders(conf[p])]
      /\ pc' = [pc EXCEPT ![p] = "running"]
      /\ UNCHANGED <<registryVars, log, conf, build, todo, checked, enc, ctxDone>>
    BY <1>2 DEF Launch, Goto
<1>4. buildDecoders(conf[p]) \subseteq Source
    BY <1>1 DEF Source
<1>5. ProcTypes'
    BY <1>3 DEF ProcTypes, PC
<1>6. RunTypes'
    BY <1>3, <1>4 DEF RunTypes
<1>7. \A q \in Proc \ {p} : Same(q)
    BY <1>3 DEF ProcTypes, RunTypes, Same
<1>8. pc'[p] = "running" /\ serve'[p] = "select"
    BY <1>3 DEF ProcTypes, RunTypes
<1>9. LifeOf(p)'
    BY <1>8 DEF LifeOf, Startup
<1>10. UNCHANGED <<versions, level, ids, lax>>
    BY <1>3 DEF registryVars
<1>11. PinnedBy(p)' /\ EncodedBy(p)'
    BY <1>1, <1>3, <1>8, <1>10 DEF PinnedBy, EncodedBy, Resolves, Registered
<1> QED
    BY <1>3, <1>5, <1>6, <1>7, <1>9, <1>11, LocalStep

\* A record is framed with an id that the registry resolves.
LEMMA PublishStep ==
    ASSUME IInv, NEW p \in Proc, NEW k \in Kind, Publish(p, k)
    PROVE  IInv'
<1> USE DEF IInv
<1> DEFINE r == [topic |-> topics(p)[k], id |-> enc[p][k], writer |-> build[p][k]]
<1>1. /\ pc[p] = "running" /\ ~conf[p].dryRun /\ log' = log \cup {r}
      /\ UNCHANGED <<registryVars, procVars>>
    BY DEF Publish
<1>2. UNCHANGED <<versions, level, ids, lax, pc, conf, build, todo, checked, enc, ctxDone,
                  running, serve, listen, producer>>
    BY <1>1 DEF registryVars, procVars, runVars
<1>3. /\ topics(p)[k] = topicFor(conf[p], k) /\ topicFor(conf[p], k) \in Topic
      /\ build[p][k] \in Schema /\ enc[p][k] \in Int
    BY Subjects DEF ProcTypes
<1>4. Resolves(enc[p][k], build[p][k], topicFor(conf[p], k))
    BY <1>1 DEF EncodedBy
<1>5. Resolved(r)
    BY <1>3, <1>4 DEF Resolved, Record
<1>6. RegistryTypes' /\ Grows /\ NeighboursRead'
    BY <1>1, QuietRegistry
<1>7. ProcTypes' /\ RunTypes' /\ \A q \in Proc : Same(q)
    BY <1>2 DEF ProcTypes, RunTypes, Same
<1>8. PinnedBy(p)' /\ EncodedBy(p)' /\ LifeOf(p)'
    BY <1>6, <1>7, OtherProcess
<1> HIDE DEF r
<1> QED
    BY <1>1, <1>5, <1>6, <1>7, <1>8, OneProcess

\* The kind just handled is pinned or on record, or every later call fails.
LEMMA PinStep ==
    ASSUME IInv, NEW p \in Proc, NEW k \in Kind, SetCompatibility(p, k)
    PROVE  IInv'
<1> USE DEF IInv
<1>1. PICK t \in Topic : t = topicFor(conf[p], k)
    BY Subjects
<1>2. /\ pc[p] = "pinning" /\ k \in todo[p] /\ LoopNext(p, k, "pinning", "registering", Kind)
      /\ \/ PinFull(t) \/ PinFails(t)
         \/ ctxDone[p] /\ UNCHANGED registryVars
      /\ UNCHANGED <<log, conf, build, checked, enc, ctxDone, running, serve, listen, producer>>
    BY <1>1, Subjects DEF SetCompatibility, runVars
<1>3. RegistryTypes' /\ Grows /\ NeighboursRead' /\ (ctxDone[p] \/ Pinned(t)')
    BY <1>2, PinRegistry, QuietRegistry
<1>4. \/ /\ todo[p] = {k} /\ pc' = [pc EXCEPT ![p] = "registering"]
         /\ todo' = [todo EXCEPT ![p] = Kind]
      \/ /\ pc' = [pc EXCEPT ![p] = "pinning"]
         /\ todo' = [todo EXCEPT ![p] = todo[p] \ {k}]
    BY <1>2 DEF LoopNext, Goto
<1>5. ProcTypes' /\ RunTypes'
    <2>1. pc' \in [Proc -> PC]
        BY <1>4 DEF ProcTypes, PC, Startup
    <2>2. todo' \in [Proc -> SUBSET Kind]
        BY <1>4 DEF ProcTypes
    <2> QED
        BY <1>2, <2>1, <2>2 DEF ProcTypes, RunTypes
<1>6. \A q \in Proc \ {p} : Same(q)
    BY <1>2, <1>4 DEF ProcTypes, Same
<1>7. \/ todo[p] = {k} /\ pc'[p] = "registering" /\ todo'[p] = Kind
      \/ pc'[p] = "pinning" /\ todo'[p] = todo[p] \ {k}
    BY <1>4 DEF ProcTypes
<1>8. PinnedBy(p)'
    <2> SUFFICES ASSUME NEW j \in Kind,
                        pc'[p] = "registering" \/ (pc'[p] = "pinning" /\ j \notin todo'[p])
                 PROVE  ctxDone[p] \/ Pinned(topicFor(conf[p], j))'
        BY <1>2 DEF PinnedBy
    <2>1. CASE j = k
        BY <1>2, <1>1, <1>3, <2>1
    <2>2. CASE j # k
        <3>1. j \notin todo[p]
            BY <1>7, <2>2
        <3>2. ctxDone[p] \/ Pinned(topicFor(conf[p], j))
            BY <1>2, <3>1 DEF PinnedBy
        <3>3. topicFor(conf[p], j) \in Topic
            BY Subjects
        <3> QED
            BY <1>2, <1>3, <3>2, <3>3 DEF Grows
    <2> QED
        BY <2>1, <2>2
<1>9. EncodedBy(p)'
    BY <1>7 DEF EncodedBy
<1>10. LifeOf(p)'
    BY <1>2, <1>7 DEF LifeOf, Startup
<1> QED
    BY <1>2, <1>3, <1>5, <1>6, <1>8, <1>9, <1>10, OneProcess

\* An encoder frames with the id the registry has just given or found; if the
\* answer is lost the schema stays, without an encoder.
LEMMA RegisterStep ==
    ASSUME IInv, NEW p \in Proc, NEW k \in Kind, Register(p, k)
    PROVE  IInv'
<1> USE DEF IInv
<1>1. PICK s \in Schema, t \in Topic :
        s = build[p][k] /\ t = topicFor(conf[p], k) /\ t = topics(p)[k]
    BY Subjects
<1> DEFINE id == CHOOSE i \in DOMAIN ids' : ids'[i] = s
<1>2. /\ pc[p] = "registering" /\ checked' = [checked EXCEPT ![p] = {}]
      /\ UNCHANGED <<log, conf, build, ctxDone, running, serve, listen, producer>>
      /\ \/ /\ ~ctxDone[p] /\ Store(s, t) /\ enc' = [enc EXCEPT ![p][k] = id]
            /\ LoopNext(p, k, "registering", "producer", {})
         \/ /\ pc' = [pc EXCEPT ![p] = "flushing"] /\ UNCHANGED <<todo, enc>>
            /\ UNCHANGED registryVars \/ (~ctxDone[p] /\ Store(s, t))
    BY <1>1 DEF Register, RegistryFails, Fail, Goto, runVars
<1>3. RegistryTypes' /\ Grows /\ NeighboursRead'
    <2>1. CASE UNCHANGED registryVars
        BY <2>1, QuietRegistry
    <2>2. CASE ~ctxDone[p] /\ Store(s, t)
        <3>1. Pinned(t)
            BY <1>1, <1>2, <2>2 DEF PinnedBy
        <3> QED
            BY <2>2, <3>1, StoreRegistry, StoreNeighbours
    <2> QED
        BY <1>2, <2>1, <2>2
<1>4. checked' \in [Proc -> SUBSET Kind] /\ RunTypes'
    BY <1>2 DEF ProcTypes, RunTypes
<1>5. CASE /\ ~ctxDone[p] /\ Store(s, t) /\ enc' = [enc EXCEPT ![p][k] = id]
           /\ LoopNext(p, k, "registering", "producer", {})
    <2>1. id \in DOMAIN ids' /\ ids'[id] = s /\ Registered(s, t)'
        <3>1. HasId(s)' /\ Registered(s, t)'
            BY <1>5, StoreRegistry
        <3> QED
            BY <3>1 DEF HasId
    <2>2. id \in Int
        <3> HIDE DEF id
        <3> QED BY <1>3, <2>1 DEF RegistryTypes
    <2>3. \/ /\ todo[p] = {k} /\ pc' = [pc EXCEPT ![p] = "producer"]
             /\ todo' = [todo EXCEPT ![p] = {}]
          \/ /\ pc' = [pc EXCEPT ![p] = "registering"]
             /\ todo' = [todo EXCEPT ![p] = todo[p] \ {k}]
        BY <1>5 DEF LoopNext, Goto
    <2>4. ProcTypes'
        <3>1. pc' \in [Proc -> PC]
            BY <2>3 DEF ProcTypes, PC, Startup
        <3>2. todo' \in [Proc -> SUBSET Kind]
            BY <2>3 DEF ProcTypes
        <3>3. enc' \in [Proc -> [Kind -> Int]]
            <4> HIDE DEF id
            <4> QED BY <1>5, <2>2 DEF ProcTypes
        <3> QED
            BY <1>2, <1>4, <3>1, <3>2, <3>3 DEF ProcTypes
    <2>5. /\ enc'[p][k] = id
          /\ \A j \in Kind \ {k} : enc'[p][j] = enc[p][j]
          /\ \A q \in Proc \ {p} : enc'[q] = enc[q]
        <3> HIDE DEF id
        <3> QED BY <1>5 DEF ProcTypes
    <2>6. \A q \in Proc \ {p} : Same(q)
        BY <1>2, <2>3, <2>5 DEF ProcTypes, Same
    <2>7. \/ todo[p] = {k} /\ pc'[p] = "producer"
          \/ pc'[p] = "registering" /\ todo'[p] = todo[p] \ {k}
        BY <2>3 DEF ProcTypes
    <2>8. PinnedBy(p)'
        BY <1>2, <1>3, <2>7, Subjects DEF PinnedBy, Grows
    <2>9. EncodedBy(p)'
        <3> SUFFICES ASSUME NEW j \in Kind,
                            \/ pc'[p] = "registering" /\ j \notin todo'[p]
                            \/ pc'[p] \in {"producer", "running"} /\ ~conf[p].dryRun
                     PROVE  Resolves(enc[p][j], build[p][j], topicFor(conf[p], j))'
            BY <1>2 DEF EncodedBy
        <3>1. CASE j = k
            BY <1>1, <1>2, <2>1, <2>5, <3>1 DEF Resolves
        <3>2. CASE j # k
            <4>1. j \notin todo[p]
                BY <2>7, <3>2
            <4>2. Resolves(enc[p][j], build[p][j], topicFor(conf[p], j))
                BY <1>2, <4>1 DEF EncodedBy
            <4>3. build[p][j] \in Schema /\ topicFor(conf[p], j) \in Topic
                BY Subjects
            <4> QED
                BY <1>2, <1>3, <2>5, <3>2, <4>2, <4>3 DEF Grows, Resolves
        <3> QED
            BY <3>1, <3>2
    <2>10. LifeOf(p)'
        BY <1>2, <2>7 DEF LifeOf, Startup
    <2> QED
        BY <1>2, <1>3, <1>4, <2>4, <2>6, <2>8, <2>9, <2>10, OneProcess
<1>6. CASE pc' = [pc EXCEPT ![p] = "flushing"] /\ UNCHANGED <<todo, enc>>
    <2>1. pc' \in [Proc -> PC] /\ pc'[p] = "flushing"
        BY <1>6 DEF ProcTypes, PC
    <2>2. ProcTypes'
        BY <1>2, <1>4, <1>6, <2>1 DEF ProcTypes
    <2>3. \A q \in Proc \ {p} : Same(q)
        BY <1>2, <1>6 DEF ProcTypes, Same
    <2>4. LifeOf(p)'
        BY <1>2, <2>1 DEF LifeOf, Startup
    <2>5. PinnedBy(p)' /\ EncodedBy(p)'
        BY <2>1, AwayFromRegistry
    <2> QED
        BY <1>2, <1>3, <1>4, <2>2, <2>3, <2>4, <2>5, OneProcess
<1> QED
    BY <1>2, <1>5, <1>6

----------------------------------------------------------------------------
(* The theorems.                                                           *)

\* Nobody runs and nothing is registered.
LEMMA IngestdInvInit == Init => IInv
<1> SUFFICES ASSUME Init PROVE IInv
    OBVIOUS
<1>1. SomeBuild \in Build /\ Defaults \in Conf
    BY IngestdAssumption DEF SomeBuild, Conf
<1>2. RegistryTypes /\ NeighboursRead
    BY RegistryAssumption DEF Init, RegistryInit, RegistryTypes, NeighboursRead
<1>3. ProcTypes /\ RunTypes
    <2>1. ProcTypes
        BY <1>1 DEF Init, ProcTypes, PC
    <2>2. RunTypes
        BY DEF Init, RunTypes
    <2> QED
        BY <2>1, <2>2
<1>4. \A p \in Proc : PinnedBy(p) /\ EncodedBy(p) /\ LifeOf(p)
    BY DEF Init, PinnedBy, EncodedBy, LifeOf, Startup
<1> QED
    BY <1>2, <1>3, <1>4 DEF Init, IInv

\* The invariant is inductive.
LEMMA IngestdInvStep ==
    ASSUME IInv, [Next]_vars
    PROVE  IInv'
<1>1. CASE UNCHANGED vars
    <2>1. UNCHANGED <<versions, level, ids, lax, pc, conf, build, todo, checked, enc, ctxDone,
                      running, serve, listen, producer, log>>
        BY <1>1 DEF vars, registryVars, procVars, runVars
    <2>2. RegistryTypes' /\ Grows /\ NeighboursRead'
        BY <2>1, QuietRegistry DEF IInv, registryVars
    <2>3. ProcTypes' /\ RunTypes' /\ \A q \in Proc : Same(q)
        BY <2>1 DEF IInv, ProcTypes, RunTypes, Same
    <2>4. \A q \in Proc : PinnedBy(q)' /\ EncodedBy(q)' /\ LifeOf(q)'
        BY <2>2, <2>3, OtherProcess DEF IInv
    <2>5. \A r \in log' : Resolved(r)'
        BY <2>1 DEF IInv, Resolved, Resolves, Registered
    <2> QED
        BY <2>2, <2>3, <2>4, <2>5 DEF IInv
<1>2. CASE Next
    <2>1. PICK p \in Proc :
            \/ \E env \in Env, b \in Build : Start(p, env, b)
            \/ Main(p)
            \/ \E k \in Kind : Publish(p, k)
            \/ Listen(p) \/ ListenReturns(p) \/ Serve(p)
            \/ \E v \in Source : RunnerReturns(p, v)
            \/ Signal(p) \/ Kill(p)
        BY <1>2 DEF Next
    <2>2. CASE Exit(p) \/ Kill(p)
        BY <2>2, EndStep DEF Exit, Kill
    <2>3. CASE Main(p) /\ ~Exit(p)
        BY <2>3, TracingStep, PinStep, CheckStep, RegisterStep, LaunchStep, WindDown DEF Main
    <2> QED
        BY <2>1, <2>2, <2>3, StartStep, PublishStep, AroundRun
<1> QED
    BY <1>1, <1>2

\* The types of run and of the registry, for any processes and registry.
THEOREM IngestdTypeOK == Spec => []ITypeOK
<1>1. Init => IInv
    BY IngestdInvInit
<1>2. IInv /\ [Next]_vars => IInv'
    BY IngestdInvStep
<1>3. IInv => ITypeOK
    BY DEF IInv, RegistryTypes, ProcTypes, RunTypes, PC, ITypeOK, Resolved
<1> QED
    BY <1>1, <1>2, <1>3, PTL DEF Spec

\* Every record that any process ever published can be resolved, for any number
\* of processes that start, fail, are cancelled and are killed at any point.
THEOREM IngestdResolvable == Spec => []Resolvable
<1>1. Init => IInv
    BY IngestdInvInit
<1>2. IInv /\ [Next]_vars => IInv'
    BY IngestdInvStep
<1>3. IInv => Resolvable
    BY DEF IInv, Resolved, Resolves, Resolvable
<1> QED
    BY <1>1, <1>2, <1>3, PTL DEF Spec

\* Neighbouring versions of a pinned subject read each other, whatever processes
\* register at the same time and however stale their own checks are.
THEOREM IngestdNeighboursRead == Spec => []NeighboursRead
<1>1. Init => IInv
    BY IngestdInvInit
<1>2. IInv /\ [Next]_vars => IInv'
    BY IngestdInvStep
<1>3. IInv => NeighboursRead
    BY DEF IInv
<1> QED
    BY <1>1, <1>2, <1>3, PTL DEF Spec

\* A process that returns by itself leaves no runner, listener or open producer
\* behind.
THEOREM IngestdCleanExit == Spec => []CleanExit
<1>1. Init => IInv
    BY IngestdInvInit
<1>2. IInv /\ [Next]_vars => IInv'
    BY IngestdInvStep
<1>3. IInv => CleanExit
    BY DEF IInv, LifeOf, CleanExit
<1> QED
    BY <1>1, <1>2, <1>3, PTL DEF Spec

----------------------------------------------------------------------------
(* Rolling back.                                                           *)

Reason == {NoError, "config", "tracing", "registry", "incompatible", "conflict", "sources"}

\* Which steps set the error that a process returns.
LEMMA WhyStep ==
    ASSUME Next, why \in [Proc -> Reason]
    PROVE  \E p \in Proc :
             \/ \E e \in Reason \ {"incompatible"} : why' = why \/ why' = [why EXCEPT ![p] = e]
             \/ /\ why' = [why EXCEPT ![p] = "incompatible"]
                /\ \E k \in Kind : k \in todo[p] /\ ~Compatible(build[p][k], topics(p)[k])
<1>1. PICK p \in Proc :
        \/ \E env \in Env, b \in Build : Start(p, env, b)
        \/ Main(p)
        \/ \E k \in Kind : Publish(p, k)
        \/ Listen(p) \/ ListenReturns(p) \/ Serve(p)
        \/ \E v \in Source : RunnerReturns(p, v)
        \/ Signal(p) \/ Kill(p)
    BY DEF Next
<1>2. {NoError, "config", "tracing", "registry", "conflict", "sources"}
        \subseteq Reason \ {"incompatible"}
    BY IngestdAssumption DEF Reason
<1>3. CASE \E env \in Env, b \in Build : Start(p, env, b)
    <2>1. why' = why \/ why' = [why EXCEPT ![p] = "config"]
        BY <1>3 DEF Start, Fail
    <2> QED
        BY <1>2, <2>1
<1>4. CASE Exit(p) \/ Kill(p)
    <2>1. why' = [why EXCEPT ![p] = NoError]
        BY <1>4 DEF Exit, Kill, End
    <2> QED
        BY <1>2, <2>1
<1>5. CASE InitTracing(p) \/ Launch(p)
    <2>1. why' = why \/ why' = [why EXCEPT ![p] = "tracing"]
          \/ why' = [why EXCEPT ![p] = "sources"]
        BY <1>5 DEF InitTracing, Launch, Fail
    <2> QED
        BY <1>2, <2>1
<1>6. CASE \E k \in Kind : Register(p, k)
    <2>1. why' = why \/ why' = [why EXCEPT ![p] = "registry"]
          \/ why' = [why EXCEPT ![p] = "conflict"]
        BY <1>6 DEF Register, RegistryFails, Fail
    <2> QED
        BY <1>2, <2>1
<1>7. CASE \E k \in Kind : CheckCompatibility(p, k)
    <2>1. PICK k \in Kind : CheckCompatibility(p, k)
        BY <1>7
    <2>2. \/ why' = why \/ why' = [why EXCEPT ![p] = "registry"]
          \/ /\ why' = [why EXCEPT ![p] = "incompatible"]
             /\ k \in todo[p] /\ ~Compatible(build[p][k], topics(p)[k])
        BY <2>1 DEF CheckCompatibility, RegistryFails, Fail
    <2> QED
        BY <1>2, <2>2
<1>8. CASE why' = why
    BY <1>2, <1>8
<1> QED
    BY <1>1, <1>3, <1>4, <1>5, <1>6, <1>7, <1>8
       DEF Main, SetCompatibility, PipelineReturns, Wait, Close, FlushTraces, Publish, Listen,
           ListenReturns, Serve, RunnerReturns, Signal, procVars

\* A schema among the last two versions of a subject where neighbours read each
\* other is compatible with the latest.
LEMMA RecentCompatible ==
    ASSUME RegistryTypes, NeighboursRead, NEW t \in Topic \ lax, NEW s \in Recent(t)
    PROVE  Compatible(s, t)
<1>1. versions[t] \in Seq(Schema)
    BY DEF RegistryTypes
<1>2. PICK i \in DOMAIN versions[t] : i >= Len(versions[t]) - 1 /\ s = versions[t][i]
    BY DEF Recent
<1>3. i \in 1 .. Len(versions[t]) /\ s \in Schema
    BY <1>1, <1>2
<1>4. CASE i = Len(versions[t])
    BY <1>2, <1>3, <1>4, RegistryAssumption DEF Compatible, Latest
<1>5. CASE i # Len(versions[t])
    <2>1. i \in 1 .. Len(versions[t]) - 1 /\ i + 1 = Len(versions[t])
        BY <1>1, <1>2, <1>3, <1>5
    <2>2. /\ <<versions[t][i], versions[t][i + 1]>> \in CanRead
          /\ <<versions[t][i + 1], versions[t][i]>> \in CanRead
        BY <2>1 DEF NeighboursRead
    <2> QED
        BY <1>2, <2>1, <2>2 DEF Compatible, Latest
<1> QED
    BY <1>4, <1>5

\* The part of RollbackAccepted that speaks of one step.
RollsBack ==
    \A p \in Proc :
        why'[p] = "incompatible" /\ why[p] = NoError =>
            \E k \in todo[p] : \/ topics(p)[k] \in lax
                               \/ build[p][k] \notin Recent(topics(p)[k])

\* A process is only refused for a schema that is not recent or not pinned.
LEMMA StepRollsBack ==
    ASSUME IInv, why \in [Proc -> Reason], Next
    PROVE  why' \in [Proc -> Reason] /\ RollsBack
<1>1. PICK q \in Proc :
        \/ \E e \in Reason \ {"incompatible"} : why' = why \/ why' = [why EXCEPT ![q] = e]
        \/ /\ why' = [why EXCEPT ![q] = "incompatible"]
           /\ \E k \in Kind : k \in todo[q] /\ ~Compatible(build[q][k], topics(q)[k])
    BY WhyStep
<1>2. "incompatible" \in Reason /\ NoError # "incompatible"
    BY IngestdAssumption DEF Reason
<1>3. why' \in [Proc -> Reason]
    BY <1>1, <1>2
<1>4. ASSUME NEW p \in Proc, why'[p] = "incompatible", why[p] = NoError
      PROVE  \E k \in todo[p] : \/ topics(p)[k] \in lax
                                \/ build[p][k] \notin Recent(topics(p)[k])
    <2>1. p = q /\ \E k \in Kind : k \in todo[p] /\ ~Compatible(build[p][k], topics(p)[k])
        BY <1>1, <1>2, <1>4
    <2>2. PICK k \in Kind : k \in todo[p] /\ ~Compatible(build[p][k], topics(p)[k])
        BY <2>1
    <2>3. topics(p)[k] \in Topic
        BY Subjects DEF IInv
    <2> QED
        BY <2>2, <2>3, RecentCompatible DEF IInv
<1> QED
    BY <1>3, <1>4 DEF RollsBack

\* The builds that wrote a subject's last two versions are never refused, so
\* long as the subject could be pinned.
THEOREM IngestdRollbackAccepted == Spec => RollbackAccepted
<1> DEFINE J == IInv /\ why \in [Proc -> Reason]
<1>1. Init => J
    BY IngestdInvInit DEF Init, Reason
<1>2. J /\ [Next]_vars => J'
    <2> SUFFICES ASSUME J, [Next]_vars PROVE J'
        OBVIOUS
    <2>1. CASE Next
        BY <2>1, StepRollsBack, IngestdInvStep
    <2>2. CASE UNCHANGED vars
        BY <2>2, IngestdInvStep DEF vars, procVars
    <2> QED
        BY <2>1, <2>2
<1>3. J /\ [Next]_vars => [RollsBack]_vars
    BY StepRollsBack
<1>4. [][RollsBack]_vars => RollbackAccepted
    BY PTL DEF RollbackAccepted, RollsBack
<1> HIDE DEF J
<1> QED
    BY <1>1, <1>2, <1>3, <1>4, PTL DEF Spec

=============================================================================
