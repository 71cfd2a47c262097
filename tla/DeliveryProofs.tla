--------------------------- MODULE DeliveryProofs ---------------------------
(***************************************************************************)
(* Proofs about what Pipeline delivers: no message is lost uncounted, a    *)
(* partition keeps its order through partial writes and retries as long as *)
(* a Publish call fits into one record batch of the Kafka writer, and when *)
(* it does not, the retry restores the order.                              *)
(***************************************************************************)
EXTENDS PipelineProofs, FiniteSetTheorems, SequenceTheorems

----------------------------------------------------------------------------
(* The parts of the invariant, as operators of values, so that they can be *)
(* stated of the batch and the history in the middle of an iteration.  f   *)
(* is what was framed, its last l messages wait in the batch, B is what    *)
(* Kafka holds, D what was discarded.                                      *)

\* Messages are framed with growing ids, so no two of them are equal.
Increasing(f) == \A i, j \in DOMAIN f : i < j => f[i].id < f[j].id

\* What no longer waits was written or discarded.
Settled(f, l, B, D) ==
    \A i \in 1 .. Len(f) - l : f[i] \in D \/ \E r \in B : r.msg = f[i]

\* n messages were discarded, all of them framed and none still waiting.
Shed(f, l, D, n) ==
    /\ IsFiniteSet(D) /\ Cardinality(D) = n
    /\ \A m \in D : \E i \in 1 .. Len(f) - l : f[i] = m

\* Kafka holds only framed messages, from the first c calls.
Stamped(f, B, c) == \A r \in B : r.at < c /\ \E i \in DOMAIN f : f[i] = r.msg

\* A partition does not skip ahead.
Ordered(f, B, D) ==
    \A r \in B : \A i, j \in DOMAIN f :
        i < j /\ f[j] = r.msg /\ SamePartition(f[i], f[j])
            => f[i] \in D \/ \E q \in B : q.msg = f[i] /\ Before(q, r)

\* Events are numbered in the order they are sent, and n have been received.
Numbered(q, n) == \A i \in DOMAIN q : q[i].id = n + i

\* Nothing was framed before it was received.
UpTo(f, n) == \A i \in DOMAIN f : f[i].id <= n

LossInv ==
    /\ DeliveryInv
    /\ Numbered(in, stats.Received) /\ UpTo(framed, stats.Received)
    /\ Increasing(framed)
    /\ Settled(framed, Len(batch), broker, discarded)
    /\ Shed(framed, Len(batch), discarded, stats.Dropped)

OrderInv ==
    /\ LossInv
    /\ Stamped(framed, broker, calls)
    /\ Ordered(framed, broker, discarded)

----------------------------------------------------------------------------
(* A message joins the history.                                            *)

\* What Append does, index by index.
LEMMA Appended ==
    ASSUME NEW T, NEW f \in Seq(T), NEW m \in T
    PROVE  /\ Len(f) \in Nat /\ Append(f, m) \in Seq(T) /\ Len(Append(f, m)) = Len(f) + 1
           /\ DOMAIN f = 1 .. Len(f) /\ DOMAIN Append(f, m) = 1 .. Len(f) + 1
           /\ Append(f, m)[Len(f) + 1] = m
           /\ \A i \in 1 .. Len(f) : Append(f, m)[i] = f[i]
OBVIOUS

\* The newest message has a number of its own and waits.
LEMMA AppendHistory ==
    ASSUME NEW f \in Seq(Message), NEW m \in Message, NEW l \in 0 .. Len(f), NEW n \in Nat,
           NEW B, NEW D, NEW d, Increasing(f), UpTo(f, n), m.id = n + 1,
           Settled(f, l, B, D), Shed(f, l, D, d)
    PROVE  /\ Increasing(Append(f, m)) /\ UpTo(Append(f, m), n + 1)
           /\ Settled(Append(f, m), l + 1, B, D) /\ Shed(Append(f, m), l + 1, D, d)
<1> DEFINE g == Append(f, m)
<1>1. /\ g \in Seq(Message) /\ Len(g) = Len(f) + 1 /\ Len(f) \in Nat
      /\ DOMAIN f = 1 .. Len(f) /\ DOMAIN g = 1 .. Len(f) + 1
      /\ g[Len(f) + 1] = m /\ \A i \in 1 .. Len(f) : g[i] = f[i]
    BY Appended
<1> HIDE DEF g
<1>2. \A i \in 1 .. Len(f) : f[i].id \in Nat
    <2>1. \A i \in 1 .. Len(f) : f[i] \in Message
        BY <1>1
    <2> QED
        BY <2>1 DEF Message
<1>3. Increasing(g)
    <2> SUFFICES ASSUME NEW i \in 1 .. Len(f) + 1, NEW j \in 1 .. Len(f) + 1, i < j
                 PROVE  g[i].id < g[j].id
        BY <1>1 DEF Increasing
    <2>1. i \in 1 .. Len(f) /\ f[i].id <= n
        BY <1>1 DEF UpTo
    <2>2. CASE j = Len(f) + 1
        BY <1>1, <1>2, <2>1, <2>2
    <2>3. CASE j # Len(f) + 1
        <3>1. j \in 1 .. Len(f)
            BY <1>1, <2>3
        <3> QED
            BY <1>1, <2>1, <3>1 DEF Increasing
    <2> QED
        BY <2>2, <2>3
<1>4. UpTo(g, n + 1)
    <2> SUFFICES ASSUME NEW i \in 1 .. Len(f) + 1 PROVE g[i].id <= n + 1
        BY <1>1 DEF UpTo
    <2>1. CASE i = Len(f) + 1
        BY <1>1, <2>1
    <2>2. CASE i \in 1 .. Len(f)
        BY <1>1, <1>2, <2>2 DEF UpTo
    <2> QED
        BY <1>1, <2>1, <2>2
<1>5. Len(g) - (l + 1) = Len(f) - l /\ \A i \in 1 .. Len(f) - l : g[i] = f[i]
    BY <1>1
<1>6. Settled(g, l + 1, B, D) /\ Shed(g, l + 1, D, d)
    BY <1>5 DEF Settled, Shed
<1> QED
    BY <1>3, <1>4, <1>6 DEF g

\* It is not yet in Kafka, so it cannot be out of order there.
LEMMA AppendOrdered ==
    ASSUME NEW f \in Seq(Message), NEW m \in Message, NEW n \in Nat, NEW c \in Nat,
           NEW B, NEW D, UpTo(f, n), m.id = n + 1, Stamped(f, B, c), Ordered(f, B, D)
    PROVE  Stamped(Append(f, m), B, c) /\ Ordered(Append(f, m), B, D)
<1> DEFINE g == Append(f, m)
<1>1. /\ g \in Seq(Message) /\ Len(g) = Len(f) + 1 /\ Len(f) \in Nat
      /\ DOMAIN f = 1 .. Len(f) /\ DOMAIN g = 1 .. Len(f) + 1
      /\ g[Len(f) + 1] = m /\ \A i \in 1 .. Len(f) : g[i] = f[i]
    BY Appended
<1> HIDE DEF g
<1>2. Stamped(g, B, c)
    BY <1>1 DEF Stamped
<1>3. ASSUME NEW r \in B PROVE r.msg # m
    <2>1. PICK i \in 1 .. Len(f) : f[i] = r.msg
        BY <1>1 DEF Stamped
    <2>2. f[i].id <= n
        BY <1>1, <2>1 DEF UpTo
    <2> QED
        BY <2>1, <2>2
<1>4. Ordered(g, B, D)
    <2> SUFFICES ASSUME NEW r \in B, NEW i \in 1 .. Len(f) + 1, NEW j \in 1 .. Len(f) + 1,
                        i < j, g[j] = r.msg, SamePartition(g[i], g[j])
                 PROVE  g[i] \in D \/ \E q \in B : q.msg = g[i] /\ Before(q, r)
        BY <1>1 DEF Ordered
    <2>1. j # Len(f) + 1
        BY <1>1, <1>3
    <2>2. i \in 1 .. Len(f) /\ j \in 1 .. Len(f)
        BY <1>1, <2>1
    <2>3. f[j] = r.msg /\ SamePartition(f[i], f[j]) /\ g[i] = f[i]
        BY <1>1, <2>2
    <2> QED
        BY <1>1, <2>2, <2>3 DEF Ordered
<1> QED
    BY <1>2, <1>4 DEF g

----------------------------------------------------------------------------
(* A Publish call.                                                         *)

\* The records that a call writes.
NewRecords(b, S, c) == {[at |-> c, pos |-> i, msg |-> b[i]] : i \in S}

\* What was written stays written.
LEMMA SettledGrows ==
    ASSUME NEW f, NEW l, NEW B, NEW C, NEW D, B \subseteq C, Settled(f, l, B, D)
    PROVE  Settled(f, l, C, D)
BY DEF Settled

\* A call that writes all it was given leaves nothing to settle.
LEMMA AllWritten ==
    ASSUME NEW f \in Seq(Message), NEW b \in Seq(Message), NEW B, NEW D, NEW c,
           Newest(b, f), Settled(f, Len(b), B, D)
    PROVE  Settled(f, 0, B \cup NewRecords(b, DOMAIN b, c), D)
<1>1. Len(b) \in Nat /\ Len(f) \in Nat /\ DOMAIN b = 1 .. Len(b) /\ Len(b) <= Len(f)
    BY DEF Newest
<1> SUFFICES ASSUME NEW i \in 1 .. Len(f)
             PROVE  f[i] \in D \/ \E r \in B \cup NewRecords(b, DOMAIN b, c) : r.msg = f[i]
    BY <1>1 DEF Settled
<1>2. CASE i <= Len(f) - Len(b)
    BY <1>1, <1>2 DEF Settled
<1>3. CASE i > Len(f) - Len(b)
    <2>1. PICK k \in 1 .. Len(b) : k = i - (Len(f) - Len(b))
        BY <1>1, <1>3
    <2>2. b[k] = f[i]
        BY <1>1, <2>1 DEF Newest
    <2>3. [at |-> c, pos |-> k, msg |-> b[k]] \in NewRecords(b, DOMAIN b, c)
        BY <1>1 DEF NewRecords
    <2> QED
        BY <2>2, <2>3
<1> QED
    BY <1>1, <1>2, <1>3

\* A sequence without repetition has as many elements as its length says.
LEMMA PrefixCount ==
    ASSUME NEW T, NEW b \in Seq(T), NEW e \in 0 .. Len(b),
           \A i, j \in 1 .. e : i # j => b[i] # b[j]
    PROVE  IsFiniteSet({b[i] : i \in 1 .. e}) /\ Cardinality({b[i] : i \in 1 .. e}) = e
<1> DEFINE S == {b[i] : i \in 1 .. e}
           F == [i \in 1 .. e |-> b[i]]
<1>1. F \in Bijection(1 .. e, S)
    <2>1. F \in [1 .. e -> S]
        OBVIOUS
    <2>2. \A i, j \in 1 .. e : F[i] = F[j] => i = j
        OBVIOUS
    <2>3. \A x \in S : \E i \in 1 .. e : F[i] = x
        OBVIOUS
    <2> HIDE DEF F, S
    <2> QED
        BY <2>1, <2>2, <2>3 DEF Bijection, Injection, Surjection, IsInjective
<1>2. ExistsBijection(1 .. e, S) /\ e \in Nat
    <2> HIDE DEF F, S
    <2> QED BY <1>1 DEF ExistsBijection
<1>3. IsFiniteSet(1 .. e) /\ Cardinality(1 .. e) = e
    BY <1>2, FS_Interval
<1> QED
    BY <1>2, <1>3, FS_Bijection

\* Where the messages of the batch are in the history.
LEMMA BatchPlaces ==
    ASSUME NEW f \in Seq(Message), NEW b \in Seq(Message), Newest(b, f), Increasing(f)
    PROVE  /\ Len(b) \in Nat /\ Len(f) \in Nat /\ Len(b) <= Len(f)
           /\ DOMAIN b = 1 .. Len(b) /\ DOMAIN f = 1 .. Len(f)
           /\ \A k \in 1 .. Len(b) : Len(f) - Len(b) + k \in 1 .. Len(f)
                                   /\ b[k] = f[Len(f) - Len(b) + k]
           /\ \A i, j \in 1 .. Len(f) : f[i] = f[j] => i = j
<1>1. /\ Len(b) \in Nat /\ Len(f) \in Nat /\ Len(b) <= Len(f)
      /\ DOMAIN b = 1 .. Len(b) /\ DOMAIN f = 1 .. Len(f)
    BY DEF Newest
<1>2. \A k \in 1 .. Len(b) : Len(f) - Len(b) + k \in 1 .. Len(f)
                            /\ b[k] = f[Len(f) - Len(b) + k]
    BY <1>1 DEF Newest
<1>3. ASSUME NEW i \in 1 .. Len(f), NEW j \in 1 .. Len(f), f[i] = f[j]
      PROVE  i = j
    <2>1. f[i] \in Message /\ f[j] \in Message
        OBVIOUS
    <2>2. f[i].id \in Nat /\ f[j].id \in Nat
        BY <2>1 DEF Message
    <2>3. ~(i < j) /\ ~(j < i)
        BY <1>1, <1>3, <2>2 DEF Increasing
    <2> QED
        BY <2>3
<1> QED
    BY <1>1, <1>2, <1>3

\* Trimming the e oldest messages of the batch discards e messages that were not
\* discarded before, and settles them.
LEMMA Trimmed ==
    ASSUME NEW f \in Seq(Message), NEW b \in Seq(Message), NEW B, NEW D, NEW d \in Nat,
           NEW e \in 0 .. Len(b), Newest(b, f), Increasing(f),
           Settled(f, Len(b), B, D), Shed(f, Len(b), D, d)
    PROVE  /\ Settled(f, Len(b) - e, B, D \cup {b[k] : k \in 1 .. e})
           /\ Shed(f, Len(b) - e, D \cup {b[k] : k \in 1 .. e}, d + e)
<1> DEFINE n == Len(f) - Len(b)
           E == {b[k] : k \in 1 .. e}
<1>1. /\ Len(b) \in Nat /\ Len(f) \in Nat /\ n \in Nat /\ Len(f) - (Len(b) - e) = n + e
      /\ e \in Nat /\ e <= Len(b)
    BY BatchPlaces
<1>2. \A k \in 1 .. Len(b) : n + k \in 1 .. Len(f) /\ b[k] = f[n + k]
    BY BatchPlaces
<1>3. \A i, j \in 1 .. Len(f) : f[i] = f[j] => i = j
    BY BatchPlaces
<1>4. n + Len(b) = Len(f)
    BY <1>1
<1>5. \A i \in 1 .. n : f[i] \in D \/ \E r \in B : r.msg = f[i]
    BY DEF Settled
<1>6. IsFiniteSet(D) /\ Cardinality(D) = d /\ \A m \in D : \E i \in 1 .. n : f[i] = m
    BY DEF Shed
<1>7. IsFiniteSet(E) /\ Cardinality(E) = e
    <2>1. \A i, j \in 1 .. e : i # j => b[i] # b[j]
        <3> HIDE DEF n
        <3> SUFFICES ASSUME NEW i \in 1 .. e, NEW j \in 1 .. e, b[i] = b[j] PROVE i = j
            OBVIOUS
        <3>1. i \in 1 .. Len(b) /\ j \in 1 .. Len(b)
            BY <1>1
        <3>2. n + i = n + j
            BY <1>2, <1>3, <3>1
        <3> QED
            BY <1>1, <3>2
    <2> QED
        BY <2>1, PrefixCount
<1>8. \A k \in 1 .. e : b[k] \in E
    OBVIOUS
<1>9. \A m \in E : \E k \in 1 .. e : m = b[k]
    OBVIOUS
<1> HIDE DEF n, E
<1>10. D \cap E = {}
    <2> SUFFICES ASSUME NEW m \in D, m \in E PROVE FALSE
        OBVIOUS
    <2>1. PICK i \in 1 .. n : f[i] = m
        BY <1>6
    <2>2. PICK k \in 1 .. e : m = b[k]
        BY <1>9
    <2>3. k \in 1 .. Len(b) /\ i \in 1 .. Len(f)
        BY <1>1, <1>4
    <2>4. i = n + k
        BY <1>2, <1>3, <2>1, <2>2, <2>3
    <2> QED
        BY <1>1, <2>4
<1>11. IsFiniteSet(D \cup E) /\ Cardinality(D \cup E) = d + e
    <2>1. Cardinality(D \cap E) = 0
        BY <1>10, FS_EmptySet
    <2>2. /\ IsFiniteSet(D \cup E)
          /\ Cardinality(D \cup E) = Cardinality(D) + Cardinality(E) - Cardinality(D \cap E)
        BY <1>6, <1>7, FS_Union
    <2> QED
        BY <1>1, <1>6, <1>7, <2>1, <2>2
<1>12. \A i \in 1 .. n + e : f[i] \in D \cup E \/ \E r \in B : r.msg = f[i]
    <2> SUFFICES ASSUME NEW i \in 1 .. n + e
                 PROVE  f[i] \in D \cup E \/ \E r \in B : r.msg = f[i]
        OBVIOUS
    <2>1. CASE i <= n
        BY <1>1, <1>5, <2>1
    <2>2. CASE i > n
        <3>1. PICK k \in 1 .. e : i = n + k
            BY <1>1, <2>2
        <3>2. f[i] = b[k]
            BY <1>1, <1>2, <3>1
        <3> QED
            BY <1>8, <3>2
    <2> QED
        BY <1>1, <2>1, <2>2
<1>13. \A m \in D \cup E : \E i \in 1 .. n + e : f[i] = m
    <2>1. ASSUME NEW m \in D PROVE \E i \in 1 .. n + e : f[i] = m
        BY <1>1, <1>6
    <2>2. ASSUME NEW m \in E PROVE \E i \in 1 .. n + e : f[i] = m
        <3>1. PICK k \in 1 .. e : m = b[k]
            BY <1>9
        <3>2. n + k \in 1 .. n + e /\ f[n + k] = m
            BY <1>1, <1>2, <3>1
        <3> QED
            BY <3>2
    <2> QED
        BY <2>1, <2>2
<1> QED
    BY <1>1, <1>11, <1>12, <1>13 DEF Settled, Shed, E

\* With nothing left waiting the discarded messages are the same.
LEMMA ShedShorter ==
    ASSUME NEW f \in Seq(Message), NEW l \in 0 .. Len(f), NEW D, NEW d, Shed(f, l, D, d)
    PROVE  Shed(f, 0, D, d)
BY DEF Shed

\* A call that fits into one record batch writes all or none of a partition.
LEMMA WholePartitions ==
    ASSUME NEW b \in Seq(Message), NEW S \in PartialWrites(b), Len(b) <= WriterBatchSize,
           NEW i \in DOMAIN b, NEW j \in DOMAIN b, SamePartition(b[i], b[j]), j \in S
    PROVE  i \in S
<1>1. ASSUME NEW k \in DOMAIN b PROVE WriterBatch(b, k) = 0
    <2> DEFINE C == {h \in 1 .. k - 1 : SamePartition(b[k], b[h])}
    <2>1. Len(b) \in Nat /\ k \in 1 .. Len(b)
        OBVIOUS
    <2>2. IsFiniteSet(1 .. k - 1) /\ Cardinality(1 .. k - 1) = k - 1
        <3>1. PICK z \in Int : z = k - 1 /\ k = z + 1 /\ z >= 0
            BY <2>1
        <3>2. IsFiniteSet(1 .. z) /\ Cardinality(1 .. z) = IF 1 > z THEN 0 ELSE z - 1 + 1
            BY FS_Interval
        <3> QED
            BY <3>1, <3>2
    <2>3. C \in SUBSET (1 .. k - 1)
        OBVIOUS
    <2>4. Cardinality(C) \in Nat /\ Cardinality(C) <= k - 1
        <3> HIDE DEF C
        <3> QED BY <2>2, <2>3, FS_Subset, FS_CardinalityType
    <2>5. Cardinality(C) < WriterBatchSize /\ WriterBatchSize \in Nat \ {0}
        <3> HIDE DEF C
        <3> QED BY <2>1, <2>4, PipelineAssumption
    <2>6. \A x \in Nat, w \in Nat \ {0} : x < w => x \div w = 0
        OBVIOUS
    <2> HIDE DEF C
    <2>7. Cardinality(C) \div WriterBatchSize = 0
        BY <2>4, <2>5, <2>6
    <2> QED
        BY <2>7 DEF WriterBatch, C
<1> QED
    BY <1>1 DEF PartialWrites

\* A call that writes whole partitions of the newest messages keeps their order:
\* what came before is in Kafka from an earlier call, or in the same call at an
\* earlier place, or was discarded.
LEMMA WriteOrdered ==
    ASSUME NEW f \in Seq(Message), NEW b \in Seq(Message), NEW S \in SUBSET DOMAIN b,
           NEW B, NEW D, NEW c \in Nat,
           Newest(b, f), Increasing(f), Settled(f, Len(b), B, D),
           Stamped(f, B, c), Ordered(f, B, D), \A r \in B : r.at \in Nat,
           \A i, j \in DOMAIN b : SamePartition(b[i], b[j]) /\ j \in S => i \in S
    PROVE  /\ Stamped(f, B \cup NewRecords(b, S, c), c + 1)
           /\ Ordered(f, B \cup NewRecords(b, S, c), D)
<1> DEFINE n == Len(f) - Len(b)
           N == NewRecords(b, S, c)
<1>1. /\ Len(b) \in Nat /\ Len(f) \in Nat /\ n \in Nat /\ n + Len(b) = Len(f)
      /\ DOMAIN b = 1 .. Len(b) /\ DOMAIN f = 1 .. Len(f)
    BY BatchPlaces
<1>2. \A k \in 1 .. Len(b) : n + k \in 1 .. Len(f) /\ b[k] = f[n + k]
    BY BatchPlaces
<1>3. \A i, j \in 1 .. Len(f) : f[i] = f[j] => i = j
    BY BatchPlaces
<1>4. \A r \in N : \E k \in S : r.at = c /\ r.pos = k /\ r.msg = b[k]
    BY DEF NewRecords
<1>5. \A k \in S : \E r \in N : r.at = c /\ r.pos = k /\ r.msg = b[k]
    <2> TAKE k \in S
    <2>1. [at |-> c, pos |-> k, msg |-> b[k]] \in N
        BY DEF NewRecords
    <2> QED
        BY <2>1
<1>6. \A i \in 1 .. n : f[i] \in D \/ \E r \in B : r.msg = f[i]
    BY DEF Settled
<1> HIDE DEF n, N
<1>7. Stamped(f, B \cup N, c + 1)
    <2>1. ASSUME NEW r \in B PROVE r.at < c + 1 /\ \E i \in DOMAIN f : f[i] = r.msg
        BY DEF Stamped
    <2>2. ASSUME NEW r \in N PROVE r.at < c + 1 /\ \E i \in DOMAIN f : f[i] = r.msg
        <3>1. PICK k \in S : r.at = c /\ r.msg = b[k]
            BY <1>4
        <3>2. n + k \in DOMAIN f /\ f[n + k] = b[k]
            BY <1>1, <1>2
        <3> QED
            BY <3>1, <3>2
    <2> QED
        BY <2>1, <2>2 DEF Stamped
<1>8. Ordered(f, B \cup N, D)
    <2> SUFFICES ASSUME NEW r \in B \cup N, NEW i \in DOMAIN f, NEW j \in DOMAIN f,
                        i < j, f[j] = r.msg, SamePartition(f[i], f[j]), f[i] \notin D
                 PROVE  \E q \in B \cup N : q.msg = f[i] /\ Before(q, r)
        BY DEF Ordered
    <2>1. CASE r \in B
        BY <2>1 DEF Ordered
    <2>2. CASE r \in N
        <3>1. PICK k \in S : r.at = c /\ r.pos = k /\ r.msg = b[k]
            BY <1>4, <2>2
        <3>2. k \in 1 .. Len(b) /\ j = n + k
            <4>1. k \in 1 .. Len(b) /\ j \in 1 .. Len(f)
                BY <1>1
            <4>2. n + k \in 1 .. Len(f) /\ f[n + k] = f[j]
                BY <1>2, <3>1, <4>1
            <4> QED
                BY <1>3, <4>1, <4>2
        <3>3. CASE i <= n
            <4>1. PICK q \in B : q.msg = f[i]
                BY <1>1, <1>6, <3>3
            <4>2. q.at < c
                BY DEF Stamped
            <4> QED
                BY <3>1, <4>1, <4>2 DEF Before
        <3>4. CASE i > n
            <4>1. PICK h \in 1 .. Len(b) : i = n + h /\ h < k
                <5>1. i \in 1 .. Len(f)
                    BY <1>1
                <5>2. i - n \in 1 .. Len(b) /\ i = n + (i - n) /\ i - n < k
                    BY <1>1, <3>2, <3>4, <5>1
                <5> QED
                    BY <5>2
            <4>2. b[h] = f[i] /\ b[k] = f[j]
                BY <1>2, <3>2, <4>1
            <4>3. h \in S
                BY <1>1, <3>2, <4>1, <4>2
            <4>4. PICK q \in N : q.at = c /\ q.pos = h /\ q.msg = b[h]
                BY <1>5, <4>3
            <4> QED
                BY <3>1, <4>1, <4>2, <4>4 DEF Before
        <3> QED
            BY <1>1, <3>3, <3>4
    <2> QED
        BY <2>1, <2>2
<1> QED
    BY <1>7, <1>8 DEF N

\* Discarding more does not put anything out of order.
LEMMA OrderedGrows ==
    ASSUME NEW f, NEW B, NEW D, NEW E, D \subseteq E, Ordered(f, B, D)
    PROVE  Ordered(f, B, E)
BY DEF Ordered

----------------------------------------------------------------------------
(* flush, called with batch b and statistics s when f has been framed.     *)

\* flush loses nothing silently.
LEMMA FlushLoss ==
    ASSUME NEW f \in Seq(Message), NEW b \in Seq(Message), NEW s \in Stats, Flush(b, s),
           Newest(b, f), Increasing(f),
           Settled(f, Len(b), broker, discarded), Shed(f, Len(b), discarded, s.Dropped)
    PROVE  /\ Settled(f, Len(batch'), broker', discarded')
           /\ Shed(f, Len(batch'), discarded', stats'.Dropped)
<1>1. CASE FlushNothing(b, s)
    BY <1>1 DEF FlushNothing, sinkVars
<1>2. CASE FlushOk(b, s)
    <2>1. /\ broker' = broker \cup NewRecords(b, DOMAIN b, calls) /\ discarded' = discarded
          /\ batch' = <<>> /\ stats' = [s EXCEPT !.Published = @ + Len(b)]
        BY <1>2 DEF FlushOk, Publish, NewRecords
    <2>2. Len(batch') = 0 /\ stats'.Dropped = s.Dropped
        BY <2>1 DEF Stats
    <2>3. Settled(f, 0, broker', discarded)
        BY <2>1, AllWritten
    <2>4. Len(b) \in 0 .. Len(f)
        BY BatchPlaces
    <2>5. Shed(f, 0, discarded, s.Dropped)
        BY <2>4, ShedShorter
    <2> QED
        BY <2>1, <2>2, <2>3, <2>5
<1>3. CASE FlushFail(b, s)
    <2>1. PICK S \in PartialWrites(b) : broker' = broker \cup NewRecords(b, S, calls)
        BY <1>3 DEF FlushFail, Publish, NewRecords
    <2>2. /\ batch' = Retained(b) /\ stats'.Dropped = s.Dropped + Excess(b)
          /\ discarded' = discarded \cup {b[k] : k \in 1 .. Excess(b)}
        BY <1>3 DEF FlushFail, Stats
    <2>3. Excess(b) \in 0 .. Len(b) /\ Len(batch') = Len(b) - Excess(b)
        BY <2>2, RetainedFacts
    <2>4. s.Dropped \in Nat
        BY StatsFields
    <2>5. /\ Settled(f, Len(b) - Excess(b), broker, discarded')
          /\ Shed(f, Len(b) - Excess(b), discarded', s.Dropped + Excess(b))
        BY <2>2, <2>3, <2>4, Trimmed
    <2>6. Settled(f, Len(b) - Excess(b), broker', discarded')
        BY <2>1, <2>5, SettledGrows
    <2> QED
        BY <2>2, <2>3, <2>5, <2>6
<1> QED
    BY <1>1, <1>2, <1>3 DEF Flush

\* Whatever part of a call that fits one record batch was written, no partition
\* skips ahead.
LEMMA PublishOrdered ==
    ASSUME NEW f \in Seq(Message), NEW b \in Seq(Message), NEW S \in PartialWrites(b),
           Publish(b, S), Len(b) <= WriterBatchSize, broker \subseteq BrokerRecord, calls \in Nat,
           Newest(b, f), Increasing(f), Settled(f, Len(b), broker, discarded),
           Stamped(f, broker, calls), Ordered(f, broker, discarded)
    PROVE  Stamped(f, broker', calls') /\ Ordered(f, broker', discarded)
<1>1. broker' = broker \cup NewRecords(b, S, calls) /\ calls' = calls + 1
    BY DEF Publish, NewRecords
<1>2. S \in SUBSET DOMAIN b
    BY DEF PartialWrites
<1>3. \A r \in broker : r.at \in Nat
    BY DEF BrokerRecord
<1>4. \A i, j \in DOMAIN b : SamePartition(b[i], b[j]) /\ j \in S => i \in S
    BY WholePartitions
<1> QED
    BY <1>1, <1>2, <1>3, <1>4, WriteOrdered

\* The whole batch is one of the outcomes of a call.
LEMMA WholeBatch ==
    ASSUME NEW b PROVE DOMAIN b \in PartialWrites(b)
BY DEF PartialWrites

\* flush keeps the order of every partition.
LEMMA FlushOrdered ==
    ASSUME NEW f \in Seq(Message), NEW b \in Seq(Message), NEW s \in Stats, Flush(b, s),
           Len(b) <= WriterBatchSize, broker \subseteq BrokerRecord, calls \in Nat,
           Newest(b, f), Increasing(f), Settled(f, Len(b), broker, discarded),
           Stamped(f, broker, calls), Ordered(f, broker, discarded)
    PROVE  Stamped(f, broker', calls') /\ Ordered(f, broker', discarded')
<1>1. CASE FlushNothing(b, s)
    BY <1>1 DEF FlushNothing, sinkVars
<1>2. CASE FlushOk(b, s)
    <2>1. Publish(b, DOMAIN b) /\ discarded' = discarded
        BY <1>2 DEF FlushOk
    <2> QED
        BY <2>1, WholeBatch, PublishOrdered
<1>3. CASE FlushFail(b, s)
    <2>1. PICK S \in PartialWrites(b) : Publish(b, S)
        BY <1>3 DEF FlushFail
    <2>2. Stamped(f, broker', calls') /\ Ordered(f, broker', discarded)
        BY <2>1, PublishOrdered
    <2>3. discarded \subseteq discarded'
        BY <1>3 DEF FlushFail
    <2> QED
        BY <2>2, <2>3, OrderedGrows
<1> QED
    BY <1>1, <1>2, <1>3 DEF Flush

----------------------------------------------------------------------------
(* The iterations of Run.                                                  *)

\* The types that the steps below need.
LEMMA LossTypes ==
    ASSUME LossInv
    PROVE  /\ TypeOK /\ in \in Seq(Event) /\ batch \in Seq(Message) /\ framed \in Seq(Message)
           /\ stats \in Stats /\ broker \subseteq BrokerRecord /\ calls \in Nat
           /\ stats.Received \in Nat /\ stats.Dropped \in Nat
           /\ Len(batch) \in 0 .. Len(framed) /\ Newest(batch, framed)
<1>1. TypeOK /\ Newest(batch, framed)
    BY DEF LossInv, DeliveryInv, BatchIsNewest
<1>2. /\ in \in Seq(Event) /\ batch \in Seq(Message) /\ framed \in Seq(Message)
      /\ stats \in Stats /\ broker \subseteq BrokerRecord /\ calls \in Nat
    BY <1>1 DEF TypeOK
<1>3. stats.Received \in Nat /\ stats.Dropped \in Nat
    BY <1>2, StatsFields
<1>4. Len(batch) \in 0 .. Len(framed)
    BY <1>1, <1>2 DEF Newest
<1> QED
    BY <1>1, <1>2, <1>3, <1>4

\* flush counts no event.
LEMMA FlushReceived ==
    ASSUME NEW b \in Seq(Message), NEW s \in Stats, Flush(b, s)
    PROVE  stats'.Received = s.Received
BY DEF Flush, FlushNothing, FlushOk, FlushFail, Stats

\* A flush of the batch as it stands.
LEMMA FlushHistory ==
    ASSUME LossInv, Flush(batch, stats), UNCHANGED <<in, framed>>, DeliveryInv'
    PROVE  LossInv'
<1>1. stats'.Received = stats.Received
    BY LossTypes, FlushReceived
<1>2. /\ Settled(framed, Len(batch'), broker', discarded')
      /\ Shed(framed, Len(batch'), discarded', stats'.Dropped)
    BY LossTypes, FlushLoss DEF LossInv
<1> QED
    BY <1>1, <1>2 DEF LossInv

\* The event at the head of the channel has the next number.
LEMMA NextNumber ==
    ASSUME NEW q \in Seq(Event), NEW n \in Nat, q # <<>>, Numbered(q, n)
    PROVE  Head(q).id = n + 1 /\ Numbered(Tail(q), n + 1)
<1>1. Len(q) \in Nat \ {0} /\ DOMAIN q = 1 .. Len(q)
    BY EmptySeq
<1>2. Head(q) = q[1] /\ q[1].id = n + 1
    BY <1>1 DEF Numbered
<1>3. /\ Tail(q) \in Seq(Event) /\ Len(Tail(q)) = Len(q) - 1
      /\ \A i \in 1 .. Len(Tail(q)) : Tail(q)[i] = q[i + 1]
    BY HeadTailProperties
<1>4. DOMAIN Tail(q) = 1 .. Len(q) - 1
    BY <1>1, <1>3
<1>5. ASSUME NEW i \in 1 .. Len(q) - 1 PROVE Tail(q)[i].id = (n + 1) + i
    <2>1. Tail(q)[i] = q[i + 1] /\ i + 1 \in DOMAIN q
        BY <1>1, <1>3
    <2>2. q[i + 1].id = n + (i + 1)
        BY <2>1 DEF Numbered
    <2>3. n + (i + 1) = (n + 1) + i
        BY <1>1
    <2> QED
        BY <2>1, <2>2, <2>3
<1> QED
    BY <1>2, <1>4, <1>5 DEF Numbered

\* An event that is framed: what holds before the batch is flushed, if it is.
LEMMA FramedEvent ==
    ASSUME LossInv, in # <<>>, NEW ev, ev = Head(in), NEW m, m = frame(ev), Framable(ev)
    PROVE  /\ m \in Message /\ m.id = stats.Received + 1
           /\ Append(batch, m) \in Seq(Message) /\ Append(framed, m) \in Seq(Message)
           /\ Len(Append(batch, m)) = Len(batch) + 1
           /\ Newest(Append(batch, m), Append(framed, m))
           /\ Increasing(Append(framed, m))
           /\ UpTo(Append(framed, m), stats.Received + 1)
           /\ Settled(Append(framed, m), Len(batch) + 1, broker, discarded)
           /\ Shed(Append(framed, m), Len(batch) + 1, discarded, stats.Dropped)
<1>1. ev \in Event
    BY LossTypes
<1>2. m \in Message
    BY <1>1, FrameType
<1>3. m.id = stats.Received + 1
    <2>1. ev.id = stats.Received + 1
        BY LossTypes, NextNumber DEF LossInv
    <2> QED
        BY <2>1 DEF frame
<1>4. /\ Append(batch, m) \in Seq(Message) /\ Append(framed, m) \in Seq(Message)
      /\ Len(Append(batch, m)) = Len(batch) + 1
      /\ Newest(Append(batch, m), Append(framed, m))
    BY <1>2, LossTypes, AppendNewest
<1>5. /\ Increasing(framed) /\ UpTo(framed, stats.Received)
      /\ Settled(framed, Len(batch), broker, discarded)
      /\ Shed(framed, Len(batch), discarded, stats.Dropped)
    BY DEF LossInv
<1> QED
    BY <1>2, <1>3, <1>4, <1>5, LossTypes, AppendHistory

\* An event from the channel.
LEMMA ReceiveHistory ==
    ASSUME LossInv, Receive, DeliveryInv'
    PROVE  LossInv'
<1>1. PICK ev \in Event : ev = Head(in) /\ in # <<>> /\ in' = Tail(in)
                           /\ (DropEvent(ev) \/ EncodeError(ev) \/ AppendMessage(ev))
    BY LossTypes DEF Receive
<1>2. /\ Checked(ev) \in Stats /\ Checked(ev).Received = stats.Received + 1
      /\ Checked(ev).Dropped = stats.Dropped
    BY LossTypes, CheckedFacts
<1>3. Numbered(in', stats.Received + 1)
    BY <1>1, LossTypes, NextNumber DEF LossInv
<1>4. CASE DropEvent(ev) \/ EncodeError(ev)
    <2>1. UNCHANGED <<batch, broker, discarded, framed>>
        BY <1>4 DEF DropEvent, EncodeError, sinkVars
    <2>2. stats'.Received = stats.Received + 1 /\ stats'.Dropped = stats.Dropped
        BY <1>2, <1>4 DEF DropEvent, EncodeError, Stats
    <2>3. \A i \in DOMAIN framed : framed[i].id \in Nat
        <3>1. \A i \in DOMAIN framed : framed[i] \in Message
            BY LossTypes
        <3> QED
            BY <3>1 DEF Message
    <2>4. UpTo(framed, stats.Received + 1)
        BY <2>3, LossTypes DEF LossInv, UpTo
    <2> QED
        BY <1>3, <2>1, <2>2, <2>4 DEF LossInv
<1>5. CASE AppendMessage(ev)
    <2>1. PICK m : m = frame(ev) /\ Framable(ev)
        BY <1>5 DEF AppendMessage
    <2>2. PICK b, f : b = Append(batch, m) /\ f = Append(framed, m)
        OBVIOUS
    <2>3. /\ b \in Seq(Message) /\ f \in Seq(Message) /\ Len(b) = Len(batch) + 1
          /\ Newest(b, f) /\ Increasing(f) /\ UpTo(f, stats.Received + 1)
          /\ Settled(f, Len(b), broker, discarded) /\ Shed(f, Len(b), discarded, stats.Dropped)
        BY <1>1, <2>1, <2>2, FramedEvent
    <2>4. framed' = f
        BY <1>5, <2>1, <2>2 DEF AppendMessage
    <2>5. CASE batch' = b /\ stats' = Checked(ev) /\ UNCHANGED <<sinkVars, discarded>>
        <3>1. UNCHANGED <<broker, discarded>>
            BY <2>5 DEF sinkVars
        <3> QED
            BY <1>2, <1>3, <2>3, <2>4, <2>5, <3>1 DEF LossInv
    <2>6. CASE Flush(b, Checked(ev))
        <3>1. stats'.Received = stats.Received + 1
            BY <1>2, <2>3, <2>6, FlushReceived
        <3>2. /\ Settled(f, Len(batch'), broker', discarded')
              /\ Shed(f, Len(batch'), discarded', stats'.Dropped)
            BY <1>2, <2>3, <2>6, FlushLoss
        <3> QED
            BY <1>3, <2>3, <2>4, <3>1, <3>2 DEF LossInv
    <2> QED
        BY <1>5, <2>1, <2>2, <2>5, <2>6 DEF AppendMessage
<1> QED
    BY <1>1, <1>4, <1>5

\* The final flush: all is written, or all stays as it was.
LEMMA FinishHistory ==
    ASSUME LossInv, Finish, DeliveryInv'
    PROVE  LossInv'
<1>1. UNCHANGED <<in, framed, discarded>>
    BY DEF Finish, histVars
<1>2. CASE /\ Publish(batch, DOMAIN batch) /\ batch' = <<>>
           /\ stats' = [stats EXCEPT !.Published = @ + Len(batch)]
    <2>1. broker' = broker \cup NewRecords(batch, DOMAIN batch, calls) /\ Len(batch') = 0
        BY <1>2 DEF Publish, NewRecords
    <2>2. stats'.Received = stats.Received /\ stats'.Dropped = stats.Dropped
        BY <1>2, LossTypes DEF Stats
    <2>3. Settled(framed, 0, broker', discarded)
        BY <2>1, LossTypes, AllWritten DEF LossInv
    <2>4. Shed(framed, 0, discarded, stats.Dropped)
        BY LossTypes, ShedShorter DEF LossInv
    <2> QED
        BY <1>1, <2>1, <2>2, <2>3, <2>4 DEF LossInv
<1>3. CASE /\ \E S \in PartialWrites(batch) : Publish(batch, S)
           /\ UNCHANGED <<batch, stats>>
    <2>1. broker \subseteq broker'
        BY <1>3 DEF Publish
    <2>2. Settled(framed, Len(batch), broker', discarded)
        BY <2>1, SettledGrows DEF LossInv
    <2> QED
        BY <1>1, <1>3, <2>2 DEF LossInv
<1> QED
    BY <1>2, <1>3 DEF Finish, FinalFlush

\* A new event gets the number after the last one sent.
LEMMA SendHistory ==
    ASSUME LossInv, DeliveryInv',
           \E v \in Venue, s \in Symbol, k \in Kind, q \in Sequence, ok \in Sound :
                    Send(v, s, k, q, ok)
    PROVE  LossInv'
<1>1. PICK e \in Event : in' = Append(in, e) /\ e.id = Sent + 1
    <2>1. PICK v \in Venue, s \in Symbol, k \in Kind, q \in Sequence, ok \in Sound :
                Send(v, s, k, q, ok)
        OBVIOUS
    <2>2. Sent \in Nat
        BY LossTypes DEF Sent
    <2>3. [venue |-> v, symbol |-> s, kind |-> k, seq |-> q, sound |-> ok, id |-> Sent + 1]
            \in Event
        BY <2>2 DEF Event
    <2> QED
        BY <2>1, <2>3 DEF Send
<1>2. UNCHANGED <<batch, stats, broker, framed, discarded>>
    BY DEF Send, sinkVars, histVars
<1>3. Numbered(in', stats.Received)
    <2>1. /\ DOMAIN in = 1 .. Len(in) /\ DOMAIN in' = 1 .. Len(in) + 1 /\ Len(in) \in Nat
          /\ in'[Len(in) + 1] = e /\ \A i \in 1 .. Len(in) : in'[i] = in[i]
        BY <1>1, LossTypes, Appended
    <2> SUFFICES ASSUME NEW i \in 1 .. Len(in) + 1 PROVE in'[i].id = stats.Received + i
        BY <2>1 DEF Numbered
    <2>2. CASE i = Len(in) + 1
        <3>1. e.id = (Len(in) + stats.Received) + 1
            BY <1>1 DEF Sent
        <3>2. stats.Received \in Nat /\ Len(in) \in Nat
            BY <2>1, LossTypes
        <3>3. (Len(in) + stats.Received) + 1 = stats.Received + i
            BY <2>2, <3>2
        <3> QED
            BY <2>1, <2>2, <3>1, <3>3
    <2>3. CASE i # Len(in) + 1
        BY <2>1, <2>3 DEF LossInv, Numbered
    <2> QED
        BY <2>2, <2>3
<1> QED
    BY <1>2, <1>3 DEF LossInv

\* Nothing is lost or renumbered by any step.
LEMMA LossStep == LossInv /\ [Next]_vars => LossInv'
<1> SUFFICES ASSUME LossInv, [Next]_vars PROVE LossInv'
    OBVIOUS
<1>1. DeliveryInv'
    BY DeliveryStep DEF LossInv
<1>2. CASE CloseIn \/ Cancel \/ UNCHANGED vars
    <2>1. UNCHANGED <<in, batch, stats, broker, framed, discarded>>
        BY <1>2 DEF CloseIn, Cancel, vars, sinkVars, histVars
    <2> QED
        BY <1>1, <2>1 DEF LossInv
<1>3. CASE Tick \/ Drained
    BY <1>1, <1>3, FlushHistory DEF Tick, Drained
<1> QED
    BY <1>1, <1>2, <1>3, ReceiveHistory, FinishHistory, SendHistory DEF Next

\* Nothing has been framed when Run starts.
LEMMA LossInit == Init => LossInv
<1> SUFFICES ASSUME Init PROVE LossInv
    OBVIOUS
<1>1. DeliveryInv
    BY DeliveryInit
<1>2. in = <<>> /\ framed = <<>> /\ batch = <<>> /\ discarded = {} /\ stats.Dropped = 0
    BY DEF Init
<1>3. Numbered(in, stats.Received) /\ UpTo(framed, stats.Received) /\ Increasing(framed)
    BY <1>2 DEF Numbered, UpTo, Increasing
<1>4. Settled(framed, Len(batch), broker, discarded)
    BY <1>2 DEF Settled
<1>5. Shed(framed, Len(batch), discarded, stats.Dropped)
    BY <1>2, FS_EmptySet DEF Shed
<1> QED
    BY <1>1, <1>3, <1>4, <1>5 DEF LossInv

\* No message that was framed is lost without being counted, through any sequence
\* of failed and partial publishes, retries and trims.
THEOREM PipelineLossIsCounted == Spec => []LossIsCounted
<1>1. LossInv => LossIsCounted
    <2> SUFFICES ASSUME LossInv PROVE LossIsCounted
        OBVIOUS
    <2>1. Cardinality(discarded) = stats.Dropped
        BY DEF LossInv, Shed
    <2>2. ASSUME NEW i \in DOMAIN framed
          PROVE  \/ framed[i] \in Written \/ framed[i] \in discarded
                 \/ \E j \in DOMAIN batch : batch[j] = framed[i]
        <3>1. /\ Len(framed) \in Nat /\ Len(batch) \in Nat /\ Len(batch) <= Len(framed)
              /\ i \in 1 .. Len(framed) /\ DOMAIN batch = 1 .. Len(batch)
            BY LossTypes
        <3>2. CASE i <= Len(framed) - Len(batch)
            BY <3>1, <3>2 DEF LossInv, Settled, Written
        <3>3. CASE i > Len(framed) - Len(batch)
            <4>1. PICK k \in 1 .. Len(batch) : k = i - (Len(framed) - Len(batch))
                BY <3>1, <3>3
            <4>2. Len(framed) - Len(batch) + k = i
                BY <3>1, <4>1
            <4> QED
                BY <3>1, <4>2, LossTypes DEF Newest
        <3> QED
            BY <3>1, <3>2, <3>3
    <2> QED
        BY <2>1, <2>2 DEF LossIsCounted
<1> QED BY <1>1, LossInit, LossStep, PTL DEF Spec

----------------------------------------------------------------------------
(* The order of a partition.                                               *)

\* What a step that starts with fewer messages waiting than the Kafka writer puts
\* into one batch does to the order in Kafka.
LEMMA OrderStep ==
    ASSUME OrderInv, Len(batch) < WriterBatchSize, [Next]_vars
    PROVE  OrderInv'
<1>1. LossInv /\ LossInv' /\ Stamped(framed, broker, calls) /\ Ordered(framed, broker, discarded)
    BY LossStep DEF OrderInv
<1>2. /\ batch \in Seq(Message) /\ framed \in Seq(Message) /\ stats \in Stats
      /\ broker \subseteq BrokerRecord /\ calls \in Nat /\ Newest(batch, framed)
      /\ Len(batch) \in Nat /\ WriterBatchSize \in Nat /\ stats.Received \in Nat
    BY <1>1, LossTypes, PipelineAssumption
<1>3. Increasing(framed) /\ Settled(framed, Len(batch), broker, discarded)
    BY <1>1 DEF LossInv
<1> SUFFICES Stamped(framed', broker', calls') /\ Ordered(framed', broker', discarded')
    BY <1>1 DEF OrderInv
<1>4. CASE UNCHANGED <<framed, broker, calls, discarded>>
    BY <1>1, <1>4
<1>5. CASE Tick \/ Drained
    <2>1. Flush(batch, stats) /\ framed' = framed
        BY <1>5 DEF Tick, Drained
    <2> QED
        BY <1>1, <1>2, <1>3, <2>1, FlushOrdered
<1>6. CASE Finish
    <2>1. UNCHANGED <<framed, discarded>>
        BY <1>6 DEF Finish, histVars
    <2>2. PICK S \in PartialWrites(batch) : Publish(batch, S)
        BY <1>6, WholeBatch DEF Finish, FinalFlush
    <2> QED
        BY <1>1, <1>2, <1>3, <2>1, <2>2, PublishOrdered
<1>7. CASE Receive
    <2>1. PICK ev \in Event : ev = Head(in) /\ in # <<>>
                               /\ (DropEvent(ev) \/ EncodeError(ev) \/ AppendMessage(ev))
        BY <1>1, <1>7, LossTypes DEF Receive
    <2>2. CASE DropEvent(ev) \/ EncodeError(ev)
        BY <1>4, <2>2 DEF DropEvent, EncodeError, sinkVars
    <2>3. CASE AppendMessage(ev)
        <3>1. PICK m : m = frame(ev) /\ Framable(ev)
            BY <2>3 DEF AppendMessage
        <3>2. PICK b, f : b = Append(batch, m) /\ f = Append(framed, m)
            OBVIOUS
        <3>3. /\ b \in Seq(Message) /\ f \in Seq(Message) /\ Len(b) = Len(batch) + 1
              /\ Newest(b, f) /\ Increasing(f) /\ Settled(f, Len(b), broker, discarded)
              /\ m \in Message /\ m.id = stats.Received + 1
            BY <1>1, <2>1, <3>1, <3>2, FramedEvent
        <3>4. Stamped(f, broker, calls) /\ Ordered(f, broker, discarded)
            <4>1. UpTo(framed, stats.Received)
                BY <1>1 DEF LossInv
            <4> QED
                BY <1>1, <1>2, <3>2, <3>3, <4>1, AppendOrdered
        <3>5. framed' = f
            BY <2>3, <3>1, <3>2 DEF AppendMessage
        <3>6. CASE UNCHANGED <<sinkVars, discarded>>
            BY <3>4, <3>5, <3>6 DEF sinkVars
        <3>7. CASE Flush(b, Checked(ev))
            <4>1. Checked(ev) \in Stats
                BY <1>1, LossTypes, CheckedFacts
            <4>2. Len(b) <= WriterBatchSize
                BY <1>2, <3>3
            <4> QED
                BY <1>2, <3>3, <3>4, <3>5, <3>7, <4>1, <4>2, FlushOrdered
        <3> QED
            BY <2>3, <3>1, <3>2, <3>6, <3>7 DEF AppendMessage
    <2> QED
        BY <2>1, <2>2, <2>3
<1>8. CASE \/ CloseIn \/ Cancel \/ UNCHANGED vars
           \/ \E v \in Venue, s \in Symbol, k \in Kind, q \in Sequence, ok \in Sound :
                    Send(v, s, k, q, ok)
    BY <1>4, <1>8 DEF CloseIn, Cancel, Send, vars, sinkVars, histVars
<1> QED
    BY <1>5, <1>6, <1>7, <1>8 DEF Next

\* As long as fewer messages wait than the Kafka writer puts into one record batch,
\* a partition is never written ahead of itself, whatever part of a Publish call
\* fails and however often it is repeated (Pipeline.Run, sink.KafkaProducer).
THEOREM PipelinePartitionOrder ==
    Spec /\ [](Len(batch) < WriterBatchSize) => []PartitionOrder
<1>1. Init => OrderInv
    <2>1. Init => broker = {}
        BY DEF Init
    <2> QED
        BY <2>1, LossInit DEF OrderInv, Stamped, Ordered
<1>2. OrderInv /\ Len(batch) < WriterBatchSize /\ [Next]_vars => OrderInv'
    BY OrderStep
<1>3. OrderInv => PartitionOrder
    BY DEF OrderInv, Ordered, PartitionOrder
<1> QED BY <1>1, <1>2, <1>3, PTL DEF Spec

----------------------------------------------------------------------------
(* The order of a partition when record batches of one call fail apart: it *)
(* is restored by the time the messages have left the batch.               *)

\* Among what no longer waits, every pair of a partition was written in order at
\* least once.
Restored(f, l, B, D) ==
    \A i, j \in 1 .. Len(f) - l :
        i < j /\ SamePartition(f[i], f[j]) /\ f[i] \notin D /\ f[j] \notin D
            => \E q, r \in B : q.msg = f[i] /\ r.msg = f[j] /\ Before(q, r)

RetryInv ==
    /\ LossInv
    /\ Stamped(framed, broker, calls)
    /\ Restored(framed, Len(batch), broker, discarded)

\* More records and more discarded messages put nothing out of order again.
LEMMA RestoredGrows ==
    ASSUME NEW f, NEW l, NEW B, NEW C, NEW D, NEW E, B \subseteq C, D \subseteq E,
           Restored(f, l, B, D)
    PROVE  Restored(f, l, C, E)
<1> SUFFICES ASSUME NEW i \in 1 .. Len(f) - l, NEW j \in 1 .. Len(f) - l, i < j,
                    SamePartition(f[i], f[j]), f[i] \notin E, f[j] \notin E
             PROVE  \E q, r \in C : q.msg = f[i] /\ r.msg = f[j] /\ Before(q, r)
    BY DEF Restored
<1>1. \E q, r \in B : q.msg = f[i] /\ r.msg = f[j] /\ Before(q, r)
    BY DEF Restored
<1> QED
    BY <1>1

\* A message that joins the batch waits.
LEMMA AppendRestored ==
    ASSUME NEW f \in Seq(Message), NEW m \in Message, NEW l \in 0 .. Len(f),
           NEW B, NEW c, NEW D, Stamped(f, B, c), Restored(f, l, B, D)
    PROVE  Stamped(Append(f, m), B, c) /\ Restored(Append(f, m), l + 1, B, D)
<1> DEFINE g == Append(f, m)
<1>1. /\ g \in Seq(Message) /\ Len(g) = Len(f) + 1 /\ Len(f) \in Nat
      /\ DOMAIN f = 1 .. Len(f) /\ DOMAIN g = 1 .. Len(f) + 1
      /\ \A i \in 1 .. Len(f) : g[i] = f[i]
    BY Appended
<1> HIDE DEF g
<1>2. Stamped(g, B, c)
    BY <1>1 DEF Stamped
<1>3. Len(g) - (l + 1) = Len(f) - l /\ \A i \in 1 .. Len(f) - l : g[i] = f[i]
    BY <1>1
<1>4. Restored(g, l + 1, B, D)
    BY <1>3 DEF Restored
<1> QED
    BY <1>2, <1>4 DEF g

\* Whatever part of a call is written carries the number of the call.
LEMMA StampedGrows ==
    ASSUME NEW f \in Seq(Message), NEW b \in Seq(Message), NEW S \in SUBSET DOMAIN b,
           NEW B \in SUBSET BrokerRecord, NEW c \in Nat,
           Newest(b, f), Increasing(f), Stamped(f, B, c)
    PROVE  Stamped(f, B \cup NewRecords(b, S, c), c + 1)
<1> SUFFICES ASSUME NEW r \in B \cup NewRecords(b, S, c)
             PROVE  r.at < c + 1 /\ \E i \in DOMAIN f : f[i] = r.msg
    BY DEF Stamped
<1>1. CASE r \in B
    <2>1. r.at \in Nat
        BY <1>1 DEF BrokerRecord
    <2> QED
        BY <1>1, <2>1 DEF Stamped
<1>2. CASE r \in NewRecords(b, S, c)
    <2>1. PICK k \in DOMAIN b : r.at = c /\ r.msg = b[k]
        BY <1>2 DEF NewRecords
    <2> QED
        BY <2>1, BatchPlaces
<1> QED
    BY <1>1, <1>2

\* A call that writes all it was given writes it in order, and after everything
\* that was written before it.
LEMMA AllRestored ==
    ASSUME NEW f \in Seq(Message), NEW b \in Seq(Message), NEW c \in Nat,
           NEW B \in SUBSET BrokerRecord, NEW D, Newest(b, f), Increasing(f),
           Settled(f, Len(b), B, D), Stamped(f, B, c), Restored(f, Len(b), B, D)
    PROVE  Restored(f, 0, B \cup NewRecords(b, DOMAIN b, c), D)
<1> DEFINE C == B \cup NewRecords(b, DOMAIN b, c)
           n == Len(f) - Len(b)
<1>1. /\ Len(b) \in Nat /\ Len(f) \in Nat /\ Len(b) <= Len(f) /\ n \in Nat
      /\ n + Len(b) = Len(f) /\ DOMAIN b = 1 .. Len(b)
    BY BatchPlaces
<1>2. \A k \in 1 .. Len(b) : b[k] = f[n + k]
    BY BatchPlaces
<1>3. \A k \in 1 .. Len(b) : [at |-> c, pos |-> k, msg |-> b[k]] \in C
    BY <1>1 DEF NewRecords
<1>4. B \subseteq C
    OBVIOUS
<1>5. \A i \in 1 .. n : f[i] \in D \/ \E r \in B : r.msg = f[i]
    BY DEF Settled
<1>6. \A r \in B : r.at < c
    BY DEF Stamped
<1>7. \A i, j \in 1 .. n :
        i < j /\ SamePartition(f[i], f[j]) /\ f[i] \notin D /\ f[j] \notin D
            => \E q, r \in B : q.msg = f[i] /\ r.msg = f[j] /\ Before(q, r)
    BY DEF Restored
<1> HIDE DEF C, n
<1>8. ASSUME NEW i \in 1 .. Len(f), NEW j \in 1 .. Len(f), i < j,
             SamePartition(f[i], f[j]), f[i] \notin D, f[j] \notin D
      PROVE  \E q, r \in C : q.msg = f[i] /\ r.msg = f[j] /\ Before(q, r)
    <2>1. CASE j <= n
        <3>1. i \in 1 .. n /\ j \in 1 .. n
            BY <1>1, <1>8, <2>1
        <3>2. \E q, r \in B : q.msg = f[i] /\ r.msg = f[j] /\ Before(q, r)
            BY <1>7, <1>8, <3>1
        <3> QED
            BY <1>4, <3>2
    <2>2. CASE j > n
        <3>1. PICK k \in 1 .. Len(b) : j = n + k
            BY <1>1, <2>2
        <3>2. PICK r : r = [at |-> c, pos |-> k, msg |-> b[k]]
            OBVIOUS
        <3>3. r \in C /\ r.at = c /\ r.pos = k /\ r.msg = f[j]
            BY <1>2, <1>3, <3>1, <3>2
        <3>4. CASE i <= n
            <4>1. i \in 1 .. n
                BY <1>1, <3>4
            <4>2. PICK q \in B : q.msg = f[i]
                BY <1>5, <1>8, <4>1
            <4>3. Before(q, r)
                BY <1>6, <3>3 DEF Before
            <4> QED
                BY <1>4, <3>3, <4>2, <4>3
        <3>5. CASE i > n
            <4>1. PICK h \in 1 .. Len(b) : i = n + h
                BY <1>1, <3>5
            <4>2. PICK q : q = [at |-> c, pos |-> h, msg |-> b[h]]
                OBVIOUS
            <4>3. q \in C /\ q.at = c /\ q.pos = h /\ q.msg = f[i]
                BY <1>2, <1>3, <4>1, <4>2
            <4>4. h < k
                BY <1>1, <1>8, <3>1, <4>1
            <4>5. Before(q, r)
                BY <3>3, <4>3, <4>4 DEF Before
            <4> QED
                BY <3>3, <4>3, <4>5
        <3> QED
            BY <1>1, <3>4, <3>5
    <2> QED
        BY <1>1, <2>1, <2>2
<1>9. Len(f) - 0 = Len(f)
    BY <1>1
<1> QED
    BY <1>8, <1>9 DEF Restored, C

\* What a trim takes out of the batch is discarded.
LEMMA TrimRestored ==
    ASSUME NEW f \in Seq(Message), NEW b \in Seq(Message), NEW B, NEW D,
           NEW e \in 0 .. Len(b), Newest(b, f), Increasing(f), Restored(f, Len(b), B, D)
    PROVE  Restored(f, Len(b) - e, B, D \cup {b[k] : k \in 1 .. e})
<1> DEFINE n == Len(f) - Len(b)
           E == D \cup {b[k] : k \in 1 .. e}
<1>1. /\ Len(b) \in Nat /\ Len(f) \in Nat /\ n \in Nat /\ Len(f) - (Len(b) - e) = n + e
      /\ e \in Nat /\ e <= Len(b)
    BY BatchPlaces
<1>2. \A k \in 1 .. Len(b) : b[k] = f[n + k]
    BY BatchPlaces
<1>3. D \subseteq E /\ \A k \in 1 .. e : b[k] \in E
    OBVIOUS
<1>4. \A i, j \in 1 .. n :
        i < j /\ SamePartition(f[i], f[j]) /\ f[i] \notin D /\ f[j] \notin D
            => \E q, r \in B : q.msg = f[i] /\ r.msg = f[j] /\ Before(q, r)
    BY DEF Restored
<1> HIDE DEF n, E
<1>5. ASSUME NEW i \in 1 .. n + e, f[i] \notin E PROVE i \in 1 .. n
    <2>1. CASE i > n
        <3>1. PICK k \in 1 .. e : i = n + k
            BY <1>1, <2>1
        <3>2. b[k] = f[i]
            BY <1>1, <1>2, <3>1
        <3> QED
            BY <1>3, <1>5, <3>2
    <2> QED
        BY <1>1, <2>1
<1>6. \A i, j \in 1 .. n + e :
        i < j /\ SamePartition(f[i], f[j]) /\ f[i] \notin E /\ f[j] \notin E
            => \E q, r \in B : q.msg = f[i] /\ r.msg = f[j] /\ Before(q, r)
    BY <1>3, <1>4, <1>5
<1> QED
    BY <1>1, <1>6 DEF Restored, E

\* A Publish call: what it writes is stamped, and nothing gets out of order again.
LEMMA PublishRestored ==
    ASSUME NEW f \in Seq(Message), NEW b \in Seq(Message), NEW S \in PartialWrites(b),
           Publish(b, S), broker \in SUBSET BrokerRecord, calls \in Nat,
           Newest(b, f), Increasing(f), Stamped(f, broker, calls),
           Restored(f, Len(b), broker, discarded)
    PROVE  Stamped(f, broker', calls') /\ Restored(f, Len(b), broker', discarded)
<1>1. broker' = broker \cup NewRecords(b, S, calls) /\ calls' = calls + 1
    BY DEF Publish, NewRecords
<1>2. S \in SUBSET DOMAIN b
    BY DEF PartialWrites
<1>3. Stamped(f, broker', calls')
    BY <1>1, <1>2, StampedGrows
<1>4. Restored(f, Len(b), broker', discarded)
    BY <1>1, RestoredGrows
<1> QED
    BY <1>3, <1>4

\* flush, called with batch b and statistics s when f has been framed.
LEMMA FlushRestored ==
    ASSUME NEW f \in Seq(Message), NEW b \in Seq(Message), NEW s \in Stats, Flush(b, s),
           broker \in SUBSET BrokerRecord, calls \in Nat, Newest(b, f), Increasing(f),
           Settled(f, Len(b), broker, discarded), Stamped(f, broker, calls),
           Restored(f, Len(b), broker, discarded)
    PROVE  Stamped(f, broker', calls') /\ Restored(f, Len(batch'), broker', discarded')
<1>1. CASE FlushNothing(b, s)
    BY <1>1 DEF FlushNothing, sinkVars
<1>2. CASE FlushOk(b, s)
    <2>1. /\ broker' = broker \cup NewRecords(b, DOMAIN b, calls) /\ discarded' = discarded
          /\ Len(batch') = 0 /\ Publish(b, DOMAIN b)
        BY <1>2 DEF FlushOk, Publish, NewRecords
    <2>2. Restored(f, 0, broker', discarded)
        BY <2>1, AllRestored
    <2>3. Stamped(f, broker', calls')
        BY <2>1, WholeBatch, PublishRestored
    <2> QED
        BY <2>1, <2>2, <2>3
<1>3. CASE FlushFail(b, s)
    <2>1. PICK S \in PartialWrites(b) : Publish(b, S)
        BY <1>3 DEF FlushFail
    <2>2. /\ batch' = Retained(b)
          /\ discarded' = discarded \cup {b[k] : k \in 1 .. Excess(b)}
        BY <1>3 DEF FlushFail
    <2>3. Excess(b) \in 0 .. Len(b) /\ Len(batch') = Len(b) - Excess(b)
        BY <2>2, RetainedFacts
    <2>4. Stamped(f, broker', calls') /\ Restored(f, Len(b), broker', discarded)
        BY <2>1, PublishRestored
    <2>5. Restored(f, Len(b) - Excess(b), broker', discarded')
        BY <2>2, <2>3, <2>4, TrimRestored
    <2> QED
        BY <2>3, <2>4, <2>5
<1> QED
    BY <1>1, <1>2, <1>3 DEF Flush

\* No step puts what has left the batch out of order.
LEMMA RetryStep ==
    ASSUME RetryInv, [Next]_vars
    PROVE  RetryInv'
<1>1. /\ LossInv /\ LossInv' /\ Stamped(framed, broker, calls)
      /\ Restored(framed, Len(batch), broker, discarded)
    BY LossStep DEF RetryInv
<1>2. /\ batch \in Seq(Message) /\ framed \in Seq(Message) /\ stats \in Stats
      /\ broker \in SUBSET BrokerRecord /\ calls \in Nat /\ Newest(batch, framed)
      /\ Len(batch) \in 0 .. Len(framed)
    BY <1>1, LossTypes
<1>3. Increasing(framed) /\ Settled(framed, Len(batch), broker, discarded)
    BY <1>1 DEF LossInv
<1> SUFFICES Stamped(framed', broker', calls') /\ Restored(framed', Len(batch'), broker', discarded')
    BY <1>1 DEF RetryInv
<1>4. CASE UNCHANGED <<framed, batch, broker, calls, discarded>>
    BY <1>1, <1>4
<1>5. CASE Tick \/ Drained
    <2>1. Flush(batch, stats) /\ framed' = framed
        BY <1>5 DEF Tick, Drained
    <2> QED
        BY <1>1, <1>2, <1>3, <2>1, FlushRestored
<1>6. CASE Finish
    <2>1. UNCHANGED <<framed, discarded>>
        BY <1>6 DEF Finish, histVars
    <2>2. CASE Publish(batch, DOMAIN batch) /\ batch' = <<>>
        <3>1. broker' = broker \cup NewRecords(batch, DOMAIN batch, calls) /\ Len(batch') = 0
            BY <2>2 DEF Publish, NewRecords
        <3>2. Restored(framed, 0, broker', discarded)
            BY <1>1, <1>2, <1>3, <3>1, AllRestored
        <3>3. Stamped(framed, broker', calls')
            BY <1>1, <1>2, <1>3, <2>2, WholeBatch, PublishRestored
        <3> QED
            BY <2>1, <3>1, <3>2, <3>3
    <2>3. CASE (\E S \in PartialWrites(batch) : Publish(batch, S)) /\ batch' = batch
        BY <1>1, <1>2, <1>3, <2>1, <2>3, PublishRestored
    <2> QED
        BY <1>6, <2>2, <2>3 DEF Finish, FinalFlush
<1>7. CASE Receive
    <2>1. PICK ev \in Event : ev = Head(in) /\ in # <<>>
                               /\ (DropEvent(ev) \/ EncodeError(ev) \/ AppendMessage(ev))
        BY <1>1, <1>7, LossTypes DEF Receive
    <2>2. CASE DropEvent(ev) \/ EncodeError(ev)
        BY <1>4, <2>2 DEF DropEvent, EncodeError, sinkVars
    <2>3. CASE AppendMessage(ev)
        <3>1. PICK m : m = frame(ev) /\ Framable(ev)
            BY <2>3 DEF AppendMessage
        <3>2. PICK b, f : b = Append(batch, m) /\ f = Append(framed, m)
            OBVIOUS
        <3>3. /\ b \in Seq(Message) /\ f \in Seq(Message) /\ Len(b) = Len(batch) + 1
              /\ Newest(b, f) /\ Increasing(f) /\ Settled(f, Len(b), broker, discarded)
              /\ m \in Message
            BY <1>1, <2>1, <3>1, <3>2, FramedEvent
        <3>4. Stamped(f, broker, calls) /\ Restored(f, Len(b), broker, discarded)
            BY <1>1, <1>2, <3>2, <3>3, AppendRestored
        <3>5. framed' = f
            BY <2>3, <3>1, <3>2 DEF AppendMessage
        <3>6. CASE batch' = b /\ UNCHANGED <<sinkVars, discarded>>
            BY <3>4, <3>5, <3>6 DEF sinkVars
        <3>7. CASE Flush(b, Checked(ev))
            <4>1. Checked(ev) \in Stats
                BY <1>1, LossTypes, CheckedFacts
            <4> QED
                BY <1>2, <3>3, <3>4, <3>5, <3>7, <4>1, FlushRestored
        <3> QED
            BY <2>3, <3>1, <3>2, <3>6, <3>7 DEF AppendMessage
    <2> QED
        BY <2>1, <2>2, <2>3
<1>8. CASE \/ CloseIn \/ Cancel \/ UNCHANGED vars
           \/ \E v \in Venue, s \in Symbol, k \in Kind, q \in Sequence, ok \in Sound :
                    Send(v, s, k, q, ok)
    BY <1>4, <1>8 DEF CloseIn, Cancel, Send, vars, sinkVars, histVars
<1> QED
    BY <1>5, <1>6, <1>7, <1>8 DEF Next

\* For every size of the writer's batches and of the retry buffer: what has left
\* the batch and was not discarded is in Kafka in the order of its partition at
\* least once, through partial writes, retries and trims (Pipeline.Run, flush).
THEOREM PipelineRetryRestoresOrder == Spec => []RetryRestoresOrder
<1>1. Init => RetryInv
    <2> SUFFICES ASSUME Init PROVE RetryInv
        OBVIOUS
    <2>1. broker = {} /\ framed = <<>> /\ batch = <<>>
        BY DEF Init
    <2>2. Stamped(framed, broker, calls)
        BY <2>1 DEF Stamped
    <2>3. Restored(framed, Len(batch), broker, discarded)
        BY <2>1 DEF Restored
    <2> QED
        BY <2>2, <2>3, LossInit DEF RetryInv
<1>2. RetryInv /\ [Next]_vars => RetryInv'
    BY RetryStep
<1>3. RetryInv => RetryRestoresOrder
    BY DEF RetryInv, Restored, RetryRestoresOrder
<1> QED BY <1>1, <1>2, <1>3, PTL DEF Spec

=============================================================================
