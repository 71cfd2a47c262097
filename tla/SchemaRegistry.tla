--------------------------- MODULE SchemaRegistry ---------------------------
(***************************************************************************)
(* The schema registry as ingestd's client sees it                         *)
(* (ingest/internal/schema/registry.go).  The registry itself is a service *)
(* outside this repository: per subject the versions registered so far and *)
(* a compatibility level, and ids that name a schema across all subjects.  *)
(* A subject is named by its topic (SubjectForTopic).                      *)
(***************************************************************************)
EXTENDS Integers, Sequences

CONSTANTS
    Schema,
    Topic,
    CanRead,        \* pairs <<reader, writer>> that Avro resolution accepts
    DefaultLevel    \* level of a subject nobody has pinned

ASSUME RegistryAssumption ==
    /\ CanRead \subseteq Schema \X Schema
    /\ \A s \in Schema : <<s, s>> \in CanRead
    /\ DefaultLevel \in {"BACKWARD", "FULL"}

VARIABLES
    versions,   \* per subject, its schemas in the order they were registered
    level,      \* per subject, its compatibility level
    ids,        \* the schema of every id given out
    lax         \* history: subjects a process failed to pin before it registered

registryVars == <<versions, level, ids, lax>>

RegistryInit ==
    /\ versions = [t \in Topic |-> <<>>]
    /\ level = [t \in Topic |-> DefaultLevel]
    /\ ids = <<>>
    /\ lax = {}

Latest(t) == versions[t][Len(versions[t])]

\* A candidate against the latest version, as the level demands; without a
\* version there is nothing to be incompatible with.
Compatible(s, t) ==
    versions[t] # <<>> =>
        /\ <<s, Latest(t)>> \in CanRead
        /\ level[t] = "FULL" => <<Latest(t), s>> \in CanRead

Registered(s, t) == \E i \in DOMAIN versions[t] : versions[t][i] = s

HasId(s) == \E i \in DOMAIN ids : ids[i] = s

\* The registry stores a schema and gives it an id, or finds the one it has.
Store(s, t) ==
    /\ Registered(s, t) \/ Compatible(s, t)
    /\ versions' = IF Registered(s, t) THEN versions
                   ELSE [versions EXCEPT ![t] = Append(@, s)]
    /\ ids' = IF HasId(s) THEN ids ELSE Append(ids, s)
    /\ UNCHANGED <<level, lax>>

\* Mutant: the level asked for is the registry's own default.
PinBackward(t) ==
    /\ level' = [level EXCEPT ![t] = "BACKWARD"]
    /\ UNCHANGED <<versions, ids, lax>>

\* Mutant: the level asked for is none of those the client knows.
PinTransitive(t) ==
    /\ level' = [level EXCEPT ![t] = "FULL_TRANSITIVE"]
    /\ UNCHANGED <<versions, ids, lax>>

\* SetCompatibility(ctx, subject, CompatFull).
PinFull(t) ==
    /\ level' = [level EXCEPT ![t] = "FULL"]
    /\ UNCHANGED <<versions, ids, lax>>

\* The call fails before it reaches the registry.
PinFails(t) ==
    /\ lax' = IF level[t] = "FULL" THEN lax ELSE lax \cup {t}
    /\ UNCHANGED <<versions, level, ids>>

\* Neighbouring versions of a subject that every process could pin read each
\* other's records, so the step from one build to the next needs no
\* common deployment of writers and readers (main.go, buildEncoders).
NeighboursRead ==
    \A t \in Topic \ lax : \A i \in 1 .. Len(versions[t]) - 1 :
        /\ <<versions[t][i], versions[t][i + 1]>> \in CanRead
        /\ <<versions[t][i + 1], versions[t][i]>> \in CanRead

=============================================================================
