----------------------------- MODULE BookProofs -----------------------------
(***************************************************************************)
(* Proofs about BookFunction, for books, logs and numbers of failures of   *)
(* any size: a key that has a book is always called back, the topic of     *)
(* quotes repeats none, and the book follows the venue's.                  *)
(***************************************************************************)
EXTENDS BookFunction, SequenceTheorems, FiniteSetTheorems, WellFoundedInduction, TLAPS

----------------------------------------------------------------------------
(* Always re-arm.                                                          *)

(***************************************************************************)
(* The invariant is not inductive alone: a restore brings back what the    *)
(* last checkpoint saved, so the same must hold of the checkpoint, and a   *)
(* callback that runs takes one off due, so due must be a number.          *)
(***************************************************************************)
SavedTimer ==
    /\ checkpoint.due \in Nat
    /\ checkpoint.bookState # None => checkpoint.armed \/ checkpoint.due > 0

MuteInv == NeverMute /\ due \in Nat /\ SavedTimer

LEMMA MuteInit == BInit => MuteInv
BY DEF BInit, Start, MuteInv, NeverMute, SavedTimer

\* The steps that leave the operator and its checkpoint alone.
LEMMA MuteFeed ==
    ASSUME MuteInv, UNCHANGED <<checkpoint, taskVars>>
    PROVE  MuteInv'
BY DEF MuteInv, NeverMute, SavedTimer, taskVars

LEMMA MuteStep ==
    ASSUME MuteInv, [BNext]_bvars
    PROVE  MuteInv'
<1>1. CASE VenueChange
  BY <1>1, MuteFeed DEF VenueChange
<1>2. CASE VenueSnapshot
  BY <1>2, MuteFeed DEF VenueSnapshot
<1>3. CASE RepeatPublish
  BY <1>3, MuteFeed DEF RepeatPublish
<1>4. CASE processElement
  <2>1. armed' = TRUE /\ due' = due /\ checkpoint' = checkpoint
    BY <1>4 DEF processElement, armTimer
  <2> QED
    BY <2>1 DEF MuteInv, NeverMute, SavedTimer
<1>5. CASE onTimer
  <2>1. /\ due > 0 /\ due' = due - 1 /\ armed' = TRUE /\ checkpoint' = checkpoint
    BY <1>5 DEF onTimer, armTimer
  <2> QED
    BY <2>1 DEF MuteInv, NeverMute, SavedTimer
<1>6. CASE GridPoint
  <2>1. due' = due + 1 /\ checkpoint' = checkpoint
    BY <1>6 DEF GridPoint
  <2> QED
    BY <2>1 DEF MuteInv, NeverMute, SavedTimer
<1>7. CASE Checkpoint
  <2>1. /\ bookState' = bookState /\ armed' = armed /\ due' = due
        /\ checkpoint'.bookState = bookState
        /\ checkpoint'.armed = armed /\ checkpoint'.due = due
    BY <1>7 DEF Checkpoint, taskVars
  <2> QED
    BY <2>1 DEF MuteInv, NeverMute, SavedTimer
<1>8. CASE Restore
  <2>1. /\ bookState' = checkpoint.bookState /\ armed' = checkpoint.armed
        /\ due' = checkpoint.due /\ checkpoint' = checkpoint
    BY <1>8 DEF Restore
  <2> QED
    BY <2>1 DEF MuteInv, NeverMute, SavedTimer
<1>9. CASE UNCHANGED bvars
  BY <1>9, MuteFeed DEF bvars
<1> QED
  BY <1>1, <1>2, <1>3, <1>4, <1>5, <1>6, <1>7, <1>8, <1>9 DEF BNext

\* "Always re-arm": whatever fails and whenever it is restored, a key that has a
\* book has a timer that will call it back, for books, logs and numbers of
\* failures of any size.
THEOREM BookNeverMute == BSpec => []NeverMute
<1>1. BInit => MuteInv
  BY MuteInit
<1>2. MuteInv /\ [BNext]_bvars => MuteInv'
  BY MuteStep
<1>3. MuteInv => NeverMute
  BY DEF MuteInv
<1> QED
  BY <1>1, <1>2, <1>3, PTL DEF BSpec

----------------------------------------------------------------------------
(* Only emit on change.  lastEmitted is the end of the topic, in a         *)
(* checkpoint too, so comparing with it is comparing with the topic.       *)

\* The last quote of o is e.
EndsWith(o, e) == o # <<>> => e = o[Len(o)]

\* No quote of o is the one before it.
Changing(o) == \A i \in 1 .. Len(o) - 1 : o[i] # o[i + 1]

\* o is a topic that ends with e and whose quotes change.
Topic(o, e) ==
    /\ o \in Seq({o[i] : i \in DOMAIN o})
    /\ EndsWith(o, e) /\ Changing(o)

RepeatInv == Topic(out, lastEmitted) /\ Topic(checkpoint.out, checkpoint.lastEmitted)

\* A quote that is not the last one may be appended.
LEMMA TopicAppend ==
    ASSUME NEW o, NEW e, NEW q, Topic(o, e), q # e
    PROVE  Topic(Append(o, q), q)
<1> DEFINE S == {o[i] : i \in DOMAIN o}
           T == S \cup {q}
           o2 == Append(o, q)
<1>1. o \in Seq(S)
  BY DEF Topic
<1>a. S \subseteq T
  OBVIOUS
<1>b. q \in T
  OBVIOUS
<1> HIDE DEF S, T
<1>2. o \in Seq(T)
  BY <1>1, <1>a
<1>3. /\ o2 \in Seq(T) /\ Len(o2) = Len(o) + 1 /\ Len(o) \in Nat
      /\ o2[Len(o) + 1] = q
      /\ \A i \in 1 .. Len(o) : o2[i] = o[i]
  BY <1>2, <1>b
<1>4. o # <<>> => Len(o) > 0
  BY <1>2, EmptySeq
<1> HIDE DEF o2
<1>5. o2 \in Seq({o2[i] : i \in DOMAIN o2})
  <2>1. o2 \in [1 .. Len(o2) -> {o2[i] : i \in DOMAIN o2}] /\ Len(o2) \in Nat
    BY <1>3
  <2> QED
    BY <2>1
<1>6. EndsWith(o2, q)
  BY <1>3 DEF EndsWith
<1>7. ASSUME NEW i \in 1 .. Len(o2) - 1
      PROVE  o2[i] # o2[i + 1]
  <2>1. i \in 1 .. Len(o) /\ o2[i] = o[i]
    BY <1>3
  <2>2. CASE i < Len(o)
    <3>1. i + 1 \in 1 .. Len(o) /\ i \in 1 .. Len(o) - 1
      BY <2>1, <2>2, <1>3
    <3>2. o[i] # o[i + 1]
      BY <3>1 DEF Topic, Changing
    <3> QED
      BY <2>1, <3>1, <3>2, <1>3
  <2>3. CASE i = Len(o)
    <3>1. o # <<>>
      BY <2>1, <2>3, EmptySeq, <1>2
    <3>2. e = o[i]
      BY <3>1, <2>3 DEF Topic, EndsWith
    <3> QED
      BY <2>1, <2>3, <3>2, <1>3
  <2> QED
    BY <2>1, <2>2, <2>3, <1>3
<1> QED
  BY <1>5, <1>6, <1>7 DEF Topic, Changing, o2

LEMMA RepeatStep ==
    ASSUME RepeatInv, [BNext]_bvars
    PROVE  RepeatInv'
<1>1. CASE /\ UNCHANGED <<out, lastEmitted, checkpoint>>
  BY <1>1 DEF RepeatInv
<1>2. CASE onTimer
  <2>1. checkpoint' = checkpoint /\ Emit
    BY <1>2 DEF onTimer
  <2>2. CASE UNCHANGED <<lastEmitted, out>>
    BY <2>1, <2>2, <1>1
  <2>3. CASE lastEmitted # Quote /\ lastEmitted' = Quote /\ out' = Append(out, Quote)
    <3>1. Topic(Append(out, Quote), Quote)
      BY <2>3, TopicAppend DEF RepeatInv
    <3> QED
      BY <3>1, <2>1, <2>3 DEF RepeatInv
  <2> QED
    BY <2>1, <2>2, <2>3 DEF Emit
<1>3. CASE Checkpoint
  <2>1. /\ out' = out /\ lastEmitted' = lastEmitted
        /\ checkpoint'.out = out /\ checkpoint'.lastEmitted = lastEmitted
    BY <1>3 DEF Checkpoint, taskVars
  <2> QED
    BY <2>1 DEF RepeatInv
<1>4. CASE Restore
  <2>1. /\ out' = checkpoint.out /\ lastEmitted' = checkpoint.lastEmitted
        /\ checkpoint' = checkpoint
    BY <1>4 DEF Restore
  <2> QED
    BY <2>1 DEF RepeatInv
<1> QED
  BY <1>1, <1>2, <1>3, <1>4 DEF BNext, bvars, taskVars, VenueChange, VenueSnapshot,
     RepeatPublish, processElement, GridPoint

\* "Only emit on change": no quote in the topic repeats the one before it, however
\* often the job fails between a quote and its commit.
THEOREM BookNoRepeat == BSpec => []NoRepeat
<1>1. BInit => RepeatInv
  BY DEF BInit, Start, RepeatInv, Topic, EndsWith, Changing
<1>2. RepeatInv /\ [BNext]_bvars => RepeatInv'
  BY RepeatStep
<1>3. RepeatInv => NoRepeat
  BY DEF RepeatInv, Topic, Changing, NoRepeat
<1> QED
  BY <1>1, <1>2, <1>3, PTL DEF BSpec

----------------------------------------------------------------------------
(* The levels that are kept, and the best of them.                         *)

\* A side that has levels has one nearer to the touch than all others.
LEMMA Nearest ==
    ASSUME NEW D, D \subseteq Nat, IsFiniteSet(D), D # {}, NEW s \in Side
    PROVE  \E p \in D : \A q \in D \ {p} : Nearer(s, p, q)
<1>1. CASE s = "ask"
  <2>1. PICK p \in D : \A q \in D : ~(<<q, p>> \in OpToRel(<, Nat))
    BY NatLessThanWellFounded, WFMin, Zenon
  <2>2. \A q \in D : ~(q < p)
    BY <2>1 DEF OpToRel
  <2>3. \A q \in D \ {p} : p < q
    BY <2>2
  <2> QED
    BY <2>3, <1>1 DEF Nearer
<1>2. CASE s = "bid"
  <2> DEFINE Above(p) == {q \in D : q > p}
             C == {Cardinality(Above(p)) : p \in D}
  <2>1. \A p \in D : IsFiniteSet(Above(p)) /\ Cardinality(Above(p)) \in Nat
    BY FS_Subset, FS_CardinalityType
  <2>2. C \subseteq Nat /\ C # {}
    BY <2>1
  <2>3. PICK c \in C : \A e \in C : ~(<<e, c>> \in OpToRel(<, Nat))
    <3> HIDE DEF C
    <3> QED
      BY <2>2, NatLessThanWellFounded, WFMin, Zenon
  <2>4. PICK p \in D : c = Cardinality(Above(p))
    BY <2>3
  <2>5. ASSUME NEW q \in D, q > p PROVE FALSE
    <3>a. p \in Nat /\ q \in Nat
      BY <2>4, <2>5
    <3>b. \A x \in Nat : x > q => x > p
      BY <3>a, <2>5
    <3>c. ~(q > q)
      BY <3>a
    <3>1. Above(q) \subseteq Above(p) /\ q \in Above(p) /\ q \notin Above(q)
      BY <2>5, <3>b, <3>c
    <3>2. /\ Cardinality(Above(q)) <= Cardinality(Above(p))
          /\ Cardinality(Above(q)) # Cardinality(Above(p))
      <4> HIDE DEF Above
      <4> QED
        BY <3>1, <2>1, FS_Subset
    <3>3. Cardinality(Above(q)) \in C
      OBVIOUS
    <3>4. ~(Cardinality(Above(q)) < c)
      <4> HIDE DEF C, Above
      <4> QED
        BY <3>3, <2>2, <2>3 DEF OpToRel
    <3> HIDE DEF C, Above
    <3> QED
      BY <3>2, <3>4, <2>1, <2>4
  <2>6. \A q \in D \ {p} : p > q
    BY <2>5
  <2> QED
    BY <2>6, <1>2 DEF Nearer
<1> QED
  BY <1>1, <1>2 DEF Side

\* best is that level.
LEMMA Best ==
    ASSUME NEW b, NEW s \in Side, DOMAIN b[s] \subseteq Nat, IsFiniteSet(DOMAIN b[s]),
           DOMAIN b[s] # {}
    PROVE  /\ best(b, s) \in DOMAIN b[s]
           /\ \A q \in DOMAIN b[s] \ {best(b, s)} : Nearer(s, best(b, s), q)
<1>1. \E p \in DOMAIN b[s] : \A q \in DOMAIN b[s] \ {p} : Nearer(s, p, q)
  BY Nearest
<1> QED
  BY <1>1 DEF best

\* trim keeps no more than n levels of a side.
LEMMA TopBound ==
    ASSUME NEW b, NEW s \in Side, NEW n \in Nat, DOMAIN b[s] \subseteq Nat,
           IsFiniteSet(DOMAIN b[s])
    PROVE  Cardinality(Top(b, s, n)) <= n
<1> DEFINE D == DOMAIN b[s]
           T == Top(b, s, n)
<1>1. T \subseteq D /\ T \subseteq Nat /\ IsFiniteSet(T) /\ Cardinality(T) \in Nat
  <2>1. T \subseteq D
    BY DEF Top
  <2> QED
    BY <2>1, FS_Subset, FS_CardinalityType
<1>2. CASE T = {}
  BY <1>2, FS_EmptySet
<1>3. CASE T # {}
  <2> DEFINE r == IF s = "bid" THEN "ask" ELSE "bid"
  <2>1. r \in Side
    BY DEF Side
  <2>2. PICK p \in T : \A q \in T \ {p} : Nearer(r, p, q)
    <3> HIDE DEF T, r
    <3> QED
      BY <1>1, <1>3, <2>1, Nearest
  <2>3. \A q \in T \ {p} : Nearer(s, q, p)
    BY <2>2, <1>1 DEF Nearer, Side
  <2> DEFINE N == {q \in D : Nearer(s, q, p)}
  <2>4. T \ {p} \subseteq N
    BY <2>3, <1>1
  <2>5. IsFiniteSet(N) /\ Cardinality(N) \in Nat
    BY FS_Subset, FS_CardinalityType
  <2>6. Cardinality(N) < n
    BY DEF Top
  <2> HIDE DEF N, T
  <2>7. Cardinality(T \ {p}) <= Cardinality(N)
    BY <2>4, <2>5, FS_Subset
  <2>8. Cardinality(T \ {p}) = Cardinality(T) - 1
    BY <1>1, FS_RemoveElement
  <2>9. Cardinality(T) - 1 < n
    <3> HIDE DEF D
    <3> QED
      BY <2>5, <2>6, <2>7, <2>8, <1>1
  <2>10. Cardinality(T) <= n
    BY <2>9, <1>1
  <2> QED
    BY <2>10 DEF T
<1> QED
  BY <1>2, <1>3

----------------------------------------------------------------------------
(* The book follows the venue's.                                           *)

LogRecord == [isSnapshot : BOOLEAN, levels : [Side -> Levels(Size \cup {0})], number : Nat,
              book : Book, complete : BOOLEAN]

\* Record r says something about price p of side s, namely Put.
Touches(r, s, p) == r.isSnapshot \/ p \in DOMAIN r.levels[s]
Put(r, s, p) == IF p \in DOMAIN r.levels[s] THEN r.levels[s][p] ELSE 0

\* The size a book has at a price, zero for none.
SizeAt(b, s, p) == IF p \in DOMAIN b[s] THEN b[s][p] ELSE 0

\* The record of L[1 .. k] that speaks last of price p of side s is L[j].
LastWord(L, k, s, p, j) ==
    /\ Touches(L[j], s, p)
    /\ \A i \in j + 1 .. k : ~Touches(L[i], s, p)

\* L is complete up to k and nothing before k is newer.
Complete(L, k) == L[k].complete /\ \A i \in 1 .. k : L[i].number <= L[k].number

\* The last words of L[1 .. k] make up the venue's book.
Explained(L, k) ==
    \A s \in Side, p \in Price : \E j \in 1 .. k :
        LastWord(L, k, s, p, j) /\ Put(L[j], s, p) = SizeAt(L[k].book, s, p)

\* A log: a repetition brings back records that are known, and ends where the
\* log ended before it.
GoodLog(L) ==
    /\ L \in Seq(LogRecord)
    /\ \A i \in 1 .. Len(L) : /\ ~isCrossed(L[i].book)
                              /\ L[i].number <= L[Len(L)].number
    /\ \A i, j \in 1 .. Len(L) : L[i].number = L[j].number => L[i] = L[j]
    /\ \A k \in 1 .. Len(L) : Complete(L, k) => Explained(L, k)

LogInv ==
    /\ GoodLog(log) /\ \A i \in 1 .. Len(log) : log[i].number <= number
    /\ venue \in Book /\ ~isCrossed(venue) /\ number \in Nat /\ synced \in BOOLEAN
    /\ synced => log # <<>> /\ log[Len(log)].complete /\ log[Len(log)].book = venue

\* Book b with trimmed levels t is what the first k records of L make: it has a
\* level where the last word said so, or the level was trimmed.
Follows(L, k, b, t) ==
    \A s \in Side, p \in Price :
        /\ p \in DOMAIN b[s] =>
            \E j \in 1 .. k : LastWord(L, k, s, p, j) /\ b[s][p] = Put(L[j], s, p)
        /\ \A j \in 1 .. k :
            LastWord(L, k, s, p, j) /\ Put(L[j], s, p) # 0 => p \in DOMAIN b[s] \cup t[s]

\* bookState.value, or the empty book, of a state or a checkpoint.
Value(b) == IF b = None THEN EmptyBook ELSE b

\* What the operator has, or what a checkpoint saved.
Saved(L, k, b, t, a, d) ==
    /\ k \in 0 .. Len(L) /\ a \in BOOLEAN /\ d \in 0 .. MaxLag
    /\ b \in Book \cup {None} /\ (k > 0 => b # None)
    /\ \A s \in Side : Cardinality(DOMAIN Value(b)[s]) <= maxDepth
    /\ Follows(L, k, Value(b), t)

OperatorInv ==
    /\ Saved(log, pos, bookState, trimmed, armed, due)
    /\ Saved(log, checkpoint.pos, checkpoint.bookState, checkpoint.trimmed,
             checkpoint.armed, checkpoint.due)

BookInv == LogInv /\ OperatorInv

\* What is said of the first k records depends on them only.
LEMMA Agree ==
    ASSUME NEW L, NEW M, NEW k \in Nat, \A i \in 1 .. k : M[i] = L[i]
    PROVE  /\ k > 0 /\ Complete(M, k) => Complete(L, k)
           /\ k > 0 /\ Explained(L, k) => Explained(M, k)
           /\ \A b, t : Follows(L, k, b, t) => Follows(M, k, b, t)
<1>1. k > 0 => k \in 1 .. k
  OBVIOUS
<1>2. k > 0 /\ Complete(M, k) => Complete(L, k)
  BY <1>1 DEF Complete
<1>3. \A s, p : \A j \in 1 .. k : LastWord(L, k, s, p, j) <=> LastWord(M, k, s, p, j)
  <2> SUFFICES ASSUME NEW s, NEW p, NEW j \in 1 .. k
               PROVE  LastWord(L, k, s, p, j) <=> LastWord(M, k, s, p, j)
    OBVIOUS
  <2>1. \A i \in j + 1 .. k : i \in 1 .. k
    OBVIOUS
  <2> QED
    BY <2>1 DEF LastWord
<1>4. k > 0 /\ Explained(L, k) => Explained(M, k)
  BY <1>1, <1>3 DEF Explained
<1>5. \A b, t : Follows(L, k, b, t) => Follows(M, k, b, t)
  BY <1>3 DEF Follows
<1> QED
  BY <1>2, <1>4, <1>5

LEMMA RecordType ==
    ASSUME NEW f \in BOOLEAN, NEW l \in [Side -> Levels(Size \cup {0})], NEW n \in Nat,
           NEW b \in Book, NEW c \in BOOLEAN
    PROVE  Record(f, l, n, b, c) \in LogRecord
BY DEF Record, LogRecord

LEMMA RecordNumber == \A r \in LogRecord : r.number \in Nat
BY DEF LogRecord

\* A new record keeps the log good: if it is complete, it says what the book has
\* at the prices it speaks of, and the book is as it was at the others.
LEMMA GoodAppend ==
    ASSUME NEW L, GoodLog(L), NEW r \in LogRecord, ~isCrossed(r.book),
           \A i \in 1 .. Len(L) : L[i].number < r.number,
           r.complete => \A s \in Side, p \in Price :
               IF Touches(r, s, p) THEN Put(r, s, p) = SizeAt(r.book, s, p)
               ELSE /\ L # <<>> /\ L[Len(L)].complete
                    /\ SizeAt(L[Len(L)].book, s, p) = SizeAt(r.book, s, p)
    PROVE  GoodLog(Append(L, r))
<1> DEFINE M == Append(L, r)
           n == Len(L)
<1>1. L \in Seq(LogRecord)
  BY DEF GoodLog
<1>2. /\ M \in Seq(LogRecord) /\ n \in Nat /\ Len(M) = n + 1 /\ M[n + 1] = r
      /\ \A i \in 1 .. n : M[i] = L[i]
  BY <1>1
<1>3. \A i \in 1 .. n : L[i] \in LogRecord /\ L[i].number \in Nat
  BY <1>1, RecordNumber
<1>4. r.number \in Nat
  BY RecordNumber
<1> HIDE DEF M
<1>5. ASSUME NEW i \in 1 .. n + 1
      PROVE  i \in 1 .. n \/ i = n + 1
  BY <1>2
<1>6. ASSUME NEW i \in 1 .. Len(M)
      PROVE  ~isCrossed(M[i].book) /\ M[i].number <= M[Len(M)].number
  <2>1. CASE i \in 1 .. n
    BY <2>1, <1>2, <1>3, <1>4 DEF GoodLog
  <2>2. CASE i = n + 1
    BY <2>2, <1>2, <1>4
  <2> QED
    BY <2>1, <2>2, <1>5, <1>2
<1>7. ASSUME NEW i \in 1 .. Len(M), NEW j \in 1 .. Len(M), M[i].number = M[j].number
      PROVE  M[i] = M[j]
  <2>1. CASE i \in 1 .. n /\ j \in 1 .. n
    BY <2>1, <1>2, <1>7 DEF GoodLog
  <2>2. CASE i = n + 1 /\ j = n + 1
    BY <2>2
  <2>3. CASE i \in 1 .. n /\ j = n + 1
    BY <2>3, <1>2, <1>3, <1>4, <1>7
  <2>4. CASE i = n + 1 /\ j \in 1 .. n
    BY <2>4, <1>2, <1>3, <1>4, <1>7
  <2> QED
    BY <2>1, <2>2, <2>3, <2>4, <1>5, <1>2
<1>8. ASSUME NEW k \in 1 .. Len(M), Complete(M, k)
      PROVE  Explained(M, k)
  <2>1. CASE k \in 1 .. n
    <3>1. k \in Nat /\ k > 0 /\ \A i \in 1 .. k : M[i] = L[i]
      BY <2>1, <1>2
    <3>2. Complete(L, k)
      BY <3>1, <1>8, Agree
    <3>3. Explained(L, k)
      BY <3>2, <2>1 DEF GoodLog
    <3> QED
      BY <3>1, <3>3, Agree
  <2>2. CASE k = n + 1
    <3>1. r.complete
      BY <2>2, <1>8, <1>2 DEF Complete
    <3> SUFFICES ASSUME NEW s \in Side, NEW p \in Price
                 PROVE  \E j \in 1 .. k : /\ LastWord(M, k, s, p, j)
                                          /\ Put(M[j], s, p) = SizeAt(M[k].book, s, p)
      BY DEF Explained
    <3>2. CASE Touches(r, s, p)
      <4>1. LastWord(M, k, s, p, k)
        BY <3>2, <2>2, <1>2 DEF LastWord
      <4>2. Put(r, s, p) = SizeAt(r.book, s, p)
        BY <3>1, <3>2
      <4> QED
        BY <4>1, <4>2, <2>2, <1>2
    <3>3. CASE ~Touches(r, s, p)
      <4>1. /\ L # <<>> /\ L[n].complete
            /\ SizeAt(L[n].book, s, p) = SizeAt(r.book, s, p)
        BY <3>1, <3>3
      <4>2. n \in 1 .. n
        BY <4>1, <1>1, <1>2, EmptySeq
      <4>3. Complete(L, n)
        BY <4>1, <4>2 DEF Complete, GoodLog
      <4>4. Explained(L, n)
        BY <4>2, <4>3 DEF GoodLog
      <4>5. PICK j \in 1 .. n : /\ LastWord(L, n, s, p, j)
                                /\ Put(L[j], s, p) = SizeAt(L[n].book, s, p)
        BY <4>4 DEF Explained
      <4>6. ASSUME NEW i \in j + 1 .. k PROVE ~Touches(M[i], s, p)
        <5>1. (i \in 1 .. n /\ i \in j + 1 .. n) \/ i = n + 1
          BY <2>2, <1>2
        <5> QED
          BY <5>1, <4>5, <3>3, <1>2 DEF LastWord
      <4>7. LastWord(M, k, s, p, j)
        BY <4>5, <4>6, <1>2 DEF LastWord
      <4>8. j \in 1 .. k
        BY <2>2, <1>2
      <4> QED
        BY <4>1, <4>5, <4>7, <4>8, <2>2, <1>2
    <3> QED
      BY <3>2, <3>3
  <2> QED
    BY <2>1, <2>2, <1>5, <1>2
<1>9. GoodLog(M)
  BY <1>2, <1>6, <1>7, <1>8 DEF GoodLog
<1> QED
  BY <1>9 DEF M

\* What a log is after a repetition of its last w records.
LEMMA RepeatIs ==
    ASSUME NEW S, NEW L \in Seq(S), NEW w \in 1 .. Len(L),
           NEW M, M = L \o SubSeq(L, Len(L) - w + 1, Len(L))
    PROVE  /\ M \in Seq(S) /\ Len(M) = Len(L) + w
           /\ \A i \in 1 .. Len(L) : M[i] = L[i]
           /\ \A x \in 1 .. w : M[Len(L) + x] = L[Len(L) - w + x]
           /\ \A i \in 1 .. Len(M) :
                \/ i \in 1 .. Len(L) /\ M[i] = L[i]
                \/ /\ i - w \in 1 .. Len(L) /\ i - Len(L) \in 1 .. w
                   /\ M[i] = L[i - w]
           /\ \A i \in 1 .. Len(M) : \E u \in 1 .. Len(L) : M[i] = L[u]
           /\ M[Len(M)] = L[Len(L)]
           /\ M # <<>> /\ L # <<>>
<1> DEFINE n == Len(L)
<1>1. L \in Seq(S) /\ n \in Nat /\ w \in Nat /\ w >= 1 /\ w <= n
  OBVIOUS
<1>2. /\ SubSeq(L, n - w + 1, n) \in Seq(S)
      /\ Len(SubSeq(L, n - w + 1, n)) = w
      /\ \A x \in 1 .. w : SubSeq(L, n - w + 1, n)[x] = L[n - w + x]
  <2>1. n - w + 1 \in 1 .. n + 1 /\ n \in n - w + 1 - 1 .. n
    BY <1>1
  <2>2. /\ SubSeq(L, n - w + 1, n) \in Seq(S)
        /\ Len(SubSeq(L, n - w + 1, n)) = n - (n - w + 1) + 1
        /\ \A x \in 1 .. n - (n - w + 1) + 1 :
             SubSeq(L, n - w + 1, n)[x] = L[(n - w + 1) + x - 1]
    BY <1>1, <2>1, SubSeqProperties
  <2>3. n - (n - w + 1) + 1 = w /\ \A x \in 1 .. w : (n - w + 1) + x - 1 = n - w + x
    BY <1>1
  <2> QED
    BY <2>2, <2>3
<1>3. /\ M \in Seq(S) /\ Len(M) = n + w
      /\ \A i \in 1 .. n : M[i] = L[i]
      /\ \A x \in 1 .. w : M[n + x] = L[n - w + x]
  <2> DEFINE T == SubSeq(L, n - w + 1, n)
  <2>0. T \in Seq(S) /\ Len(T) = w /\ \A x \in 1 .. w : T[x] = L[n - w + x]
    BY <1>2
  <2> HIDE DEF T
  <2>1. L \o T \in Seq(S) /\ Len(L \o T) = n + w
    BY <1>1, <2>0, ConcatProperties
  <2>2. \A i \in 1 .. n : (L \o T)[i] = L[i]
    BY <1>1, <2>0
  <2>3. \A x \in 1 .. w : (L \o T)[n + x] = T[x]
    BY <1>1, <2>0
  <2>4. M = L \o T
    BY DEF T
  <2> QED
    BY <2>0, <2>1, <2>2, <2>3, <2>4
\* The record of L that M has at i.
<1>4. ASSUME NEW i \in 1 .. n + w
      PROVE  \/ i \in 1 .. n /\ M[i] = L[i]
             \/ i - w \in 1 .. n /\ i - n \in 1 .. w /\ M[i] = L[i - w]
  <2>1. CASE i <= n
    BY <2>1, <1>1, <1>3
  <2>2. CASE i > n
    <3>1. i - n \in 1 .. w /\ i - w \in 1 .. n /\ n + (i - n) = i /\ n - w + (i - n) = i - w
      BY <2>2, <1>1
    <3>2. M[n + (i - n)] = L[n - w + (i - n)]
      BY <3>1, <1>3
    <3> QED
      BY <3>1, <3>2
  <2> QED
    BY <2>1, <2>2, <1>1
<1>5. \A i \in 1 .. n + w : \E u \in 1 .. n : M[i] = L[u]
  BY <1>4
<1>6. M[n + w] = L[n] /\ n \in 1 .. n
  <2>1. w \in 1 .. w /\ n - w + w = n /\ n \in 1 .. n
    BY <1>1
  <2> QED
    BY <2>1, <1>3
<1>7. M # <<>> /\ L # <<>>
  BY <1>1, <1>3
<1> QED
  BY <1>3, <1>4, <1>5, <1>6, <1>7

\* So does a repetition of its end, which may begin anywhere: inside it nothing is
\* complete except where the record is that of the log's end.
LEMMA GoodRepeat ==
    ASSUME NEW L, GoodLog(L), NEW w \in 1 .. Len(L)
    PROVE  GoodLog(L \o SubSeq(L, Len(L) - w + 1, Len(L)))
<1> DEFINE n == Len(L)
           M == L \o SubSeq(L, n - w + 1, n)
<1>1. L \in Seq(LogRecord) /\ n \in Nat /\ w \in Nat /\ w >= 1 /\ w <= n
  BY DEF GoodLog
<1>2. /\ M \in Seq(LogRecord) /\ Len(M) = n + w
      /\ \A i \in 1 .. n : M[i] = L[i]
      /\ \A i \in 1 .. n + w :
            \/ i \in 1 .. n /\ M[i] = L[i]
            \/ i - w \in 1 .. n /\ i - n \in 1 .. w /\ M[i] = L[i - w]
      /\ \A i \in 1 .. n + w : \E u \in 1 .. n : M[i] = L[u]
      /\ M[n + w] = L[n]
  BY <1>1, RepeatIs
<1> HIDE DEF M
<1>3. /\ M \in Seq(LogRecord) /\ Len(M) = n + w
      /\ \A i \in 1 .. n : M[i] = L[i]
  BY <1>2
<1>4. \A i \in 1 .. n + w :
            \/ i \in 1 .. n /\ M[i] = L[i]
            \/ i - w \in 1 .. n /\ i - n \in 1 .. w /\ M[i] = L[i - w]
  BY <1>2
<1>5. \A i \in 1 .. n + w : \E u \in 1 .. n : M[i] = L[u]
  BY <1>2
<1>6. M[n + w] = L[n] /\ n \in 1 .. n
  BY <1>1, <1>2
<1>7. \A i \in 1 .. Len(M) : /\ ~isCrossed(M[i].book)
                             /\ M[i].number <= M[Len(M)].number
  BY <1>3, <1>5, <1>6 DEF GoodLog
<1>8. \A i, j \in 1 .. Len(M) : M[i].number = M[j].number => M[i] = M[j]
  <2> SUFFICES ASSUME NEW i \in 1 .. n + w, NEW j \in 1 .. n + w,
                      M[i].number = M[j].number
               PROVE  M[i] = M[j]
    BY <1>3
  <2>1. PICK u \in 1 .. n : M[i] = L[u]
    BY <1>5
  <2>2. PICK v \in 1 .. n : M[j] = L[v]
    BY <1>5
  <2> QED
    BY <2>1, <2>2 DEF GoodLog
<1>9. ASSUME NEW k \in 1 .. Len(M), Complete(M, k)
      PROVE  Explained(M, k)
  <2>1. CASE k <= n
    <3>1. k \in Nat /\ k > 0 /\ k \in 1 .. n /\ \A i \in 1 .. k : M[i] = L[i]
      BY <2>1, <1>1, <1>3
    <3>2. Complete(L, k)
      BY <3>1, <1>9, Agree
    <3>3. Explained(L, k)
      BY <3>2, <3>1 DEF GoodLog
    <3> QED
      BY <3>1, <3>3, Agree
  <2>2. CASE k > n
    <3>1. PICK u \in 1 .. n : u = k - w /\ M[k] = L[u] /\ u >= n - w + 1
      <4>1. k \in 1 .. n + w
        BY <1>3
      <4>2. k \notin 1 .. n /\ k \in Nat
        BY <4>1, <2>2, <1>1
      <4>3. k - w \in 1 .. n /\ k - n \in 1 .. w /\ M[k] = L[k - w]
        BY <4>1, <4>2, <1>4
      <4>4. k - w >= n - w + 1
        BY <4>2, <2>2, <1>1
      <4> QED
        BY <4>3, <4>4
    <3>2. L[u].number = L[n].number
      <4>1. L[u].number <= L[n].number
        BY DEF GoodLog
      <4>2. n \in 1 .. k /\ M[n] = L[n]
        BY <2>2, <1>1, <1>3
      <4>3. L[n].number <= L[u].number
        BY <4>2, <3>1, <1>9 DEF Complete
      <4>4. L[u] \in LogRecord /\ L[n] \in LogRecord
        BY <1>1, <1>6
      <4>5. L[u].number \in Nat /\ L[n].number \in Nat
        BY <4>4, RecordNumber
      <4> QED
        BY <4>1, <4>3, <4>5
    <3>3. L[u] = L[n]
      BY <3>2, <1>6 DEF GoodLog
    <3>4. L[n].complete
      BY <3>1, <3>3, <1>9 DEF Complete
    <3>5. Explained(L, n)
      <4>1. Complete(L, n)
        BY <3>4, <1>6 DEF Complete, GoodLog
      <4> QED
        BY <4>1, <1>6 DEF GoodLog
    <3>6. Explained(L, u)
      <4>1. \A i \in 1 .. u : i \in 1 .. n
        BY <1>1
      <4>2. Complete(L, u)
        BY <4>1, <3>4, <3>3, <1>6 DEF Complete, GoodLog
      <4> QED
        BY <4>2 DEF GoodLog
    <3> SUFFICES ASSUME NEW s \in Side, NEW p \in Price
                 PROVE  \E j \in 1 .. k : /\ LastWord(M, k, s, p, j)
                                          /\ Put(M[j], s, p) = SizeAt(M[k].book, s, p)
      BY DEF Explained
    <3>7. PICK a \in 1 .. u : /\ LastWord(L, u, s, p, a)
                              /\ Put(L[a], s, p) = SizeAt(L[u].book, s, p)
      BY <3>6 DEF Explained
    \* The last word before u is in the repetition, or it is that of the whole log.
    <3>8. CASE a >= n - w + 1
      <4>1. /\ a + w \in 1 .. k /\ a + w \in 1 .. n + w /\ a + w \notin 1 .. n
            /\ (a + w) - w = a
        BY <3>8, <3>1, <1>1
      <4>2. M[a + w] = L[a]
        BY <4>1, <1>4
      <4>3. ASSUME NEW i \in (a + w) + 1 .. k PROVE ~Touches(M[i], s, p)
        <5>1. i \in 1 .. n + w /\ i \notin 1 .. n /\ i - w \in a + 1 .. u
          BY <3>8, <3>1, <1>1, <1>3
        <5>2. M[i] = L[i - w]
          BY <5>1, <1>4
        <5> QED
          BY <5>1, <5>2, <3>7 DEF LastWord
      <4>4. LastWord(M, k, s, p, a + w)
        BY <4>2, <4>3, <3>7 DEF LastWord
      <4> QED
        BY <4>1, <4>2, <4>4, <3>1, <3>7
    <3>9. CASE a < n - w + 1
      <4>1. PICK c \in 1 .. n : /\ LastWord(L, n, s, p, c)
                                /\ Put(L[c], s, p) = SizeAt(L[n].book, s, p)
        BY <3>5 DEF Explained
      <4>2. ASSUME NEW i \in c + 1 .. k PROVE ~Touches(M[i], s, p)
        <5>1. CASE i <= n
          <6>1. i \in 1 .. n /\ i \in c + 1 .. n
            BY <5>1, <1>1
          <6> QED
            BY <6>1, <4>1, <1>3 DEF LastWord
        <5>2. CASE i > n
          <6>1. i \in 1 .. n + w /\ i \notin 1 .. n /\ i - w \in a + 1 .. u
            BY <5>2, <3>9, <3>1, <1>1, <1>3
          <6>2. M[i] = L[i - w]
            BY <6>1, <1>4
          <6> QED
            BY <6>1, <6>2, <3>7 DEF LastWord
        <5> QED
          BY <5>1, <5>2, <1>1
      <4>3. c \in 1 .. k /\ M[c] = L[c]
        BY <2>2, <1>1, <1>3
      <4>4. LastWord(M, k, s, p, c)
        BY <4>1, <4>2, <4>3 DEF LastWord
      <4> QED
        BY <4>1, <4>3, <4>4, <3>1, <3>3
    <3> QED
      BY <3>8, <3>9, <1>1
  <2> QED
    BY <2>1, <2>2, <1>1, <1>3
<1>10. GoodLog(M)
  BY <1>3, <1>7, <1>8, <1>9 DEF GoodLog
<1> QED
  BY <1>10 DEF M

LEMMA WithLevelIs ==
    ASSUME NEW side \in Levels(Size), NEW p \in Price, NEW z \in Size \cup {0}
    PROVE  /\ WithLevel(side, p, z) \in Levels(Size)
           /\ \A q : (IF q \in DOMAIN WithLevel(side, p, z) THEN WithLevel(side, p, z)[q] ELSE 0)
                  = IF q = p THEN z ELSE IF q \in DOMAIN side THEN side[q] ELSE 0
<1>1. PICK P \in SUBSET Price : side \in [P -> Size]
  BY DEF Levels
<1> DEFINE Q == (P \ {p}) \cup (IF z = 0 THEN {} ELSE {p})
<1>2. 0 \notin Size
  BY BookAssumption
<1>3. Q \in SUBSET Price /\ WithLevel(side, p, z) \in [Q -> Size]
  <2>1. ASSUME NEW q \in Q PROVE (IF q = p THEN z ELSE side[q]) \in Size
    BY <1>1
  <2> QED
    BY <1>1, <2>1 DEF WithLevel
<1>4. WithLevel(side, p, z) \in Levels(Size)
  BY <1>3 DEF Levels
<1>5. \A q \in Q : WithLevel(side, p, z)[q] = IF q = p THEN z ELSE side[q]
  BY <1>1 DEF WithLevel
<1> QED
  BY <1>1, <1>3, <1>4, <1>5

\* The steps that leave the log alone.
LEMMA LogSame ==
    ASSUME LogInv, UNCHANGED feedVars
    PROVE  LogInv'
BY DEF LogInv, feedVars

LEMMA LogChange ==
    ASSUME LogInv, VenueChange
    PROVE  LogInv'
<1>1. PICK s \in Side, p \in Price, z \in Size \cup {0} :
        LET levels == [t \in Side |-> IF t = s THEN [q \in {p} |-> z] ELSE <<>>]
            book   == [venue EXCEPT ![s] = WithLevel(@, p, z)]
        IN  /\ book # venue /\ ~isCrossed(book)
            /\ venue' = book
            /\ \/ /\ log' = Append(log, Record(FALSE, levels, number + 1, book, synced))
                  /\ UNCHANGED <<synced, faults>>
               \/ /\ faults < MaxFaults
                  /\ faults' = faults + 1
                  /\ synced' = FALSE
                  /\ UNCHANGED log
  BY DEF VenueChange
<1> DEFINE levels == [t \in Side |-> IF t = s THEN [q \in {p} |-> z] ELSE <<>>]
           book   == [venue EXCEPT ![s] = WithLevel(@, p, z)]
           r      == Record(FALSE, levels, number + 1, book, synced)
<1>2. /\ venue \in Book /\ number \in Nat /\ synced \in BOOLEAN /\ GoodLog(log)
      /\ log \in Seq(LogRecord)
  BY DEF LogInv, GoodLog
<1>3. /\ venue' = book /\ ~isCrossed(book) /\ number' = number + 1
  BY <1>1 DEF VenueChange
<1>4. venue[s] \in Levels(Size)
  BY <1>2 DEF Book
<1>5. /\ book \in Book /\ book[s] = WithLevel(venue[s], p, z)
      /\ \A t \in Side : t # s => book[t] = venue[t]
  BY <1>2, <1>4, WithLevelIs DEF Book
<1>6. \A q : SizeAt(book, s, q) = IF q = p THEN z ELSE SizeAt(venue, s, q)
  BY <1>4, <1>5, WithLevelIs DEF SizeAt
<1>7. \A t \in Side, q \in Price : t # s => SizeAt(book, t, q) = SizeAt(venue, t, q)
  BY <1>5 DEF SizeAt
<1>8. /\ levels[s] = [q \in {p} |-> z]
      /\ \A t \in Side : t # s => levels[t] = <<>>
  OBVIOUS
<1>9. levels \in [Side -> Levels(Size \cup {0})]
  <2>1. [q \in {p} |-> z] \in [{p} -> Size \cup {0}] /\ {p} \in SUBSET Price
    OBVIOUS
  <2>2. <<>> \in [{} -> Size \cup {0}] /\ {} \in SUBSET Price
    OBVIOUS
  <2>3. [q \in {p} |-> z] \in Levels(Size \cup {0})
    BY <2>1 DEF Levels
  <2>4. <<>> \in Levels(Size \cup {0})
    BY <2>2 DEF Levels
  <2> QED
    BY <2>3, <2>4
<1> HIDE DEF levels, book
<1>10. /\ r.isSnapshot = FALSE /\ r.levels = levels /\ r.number = number + 1
       /\ r.book = book /\ r.complete = synced
  BY DEF Record
<1>11. r \in LogRecord
  <2>1. number + 1 \in Nat
    BY <1>2
  <2> QED
    BY <2>1, <1>2, <1>5, <1>9, RecordType
<1>r. \A t \in Side, q \in Price : q \in DOMAIN levels[t] <=> t = s /\ q = p
  BY <1>8
<1> HIDE DEF r
<1>12. CASE log' = Append(log, r) /\ synced' = synced
  <2>1. \A i \in 1 .. Len(log) : log[i].number < r.number
    <3>1. \A i \in 1 .. Len(log) : log[i].number \in Nat /\ log[i].number <= number
      BY <1>2, RecordNumber DEF LogInv
    <3> QED
      BY <3>1, <1>10, <1>2
  <2>2. ASSUME r.complete, NEW t \in Side, NEW q \in Price
        PROVE  IF Touches(r, t, q) THEN Put(r, t, q) = SizeAt(r.book, t, q)
               ELSE /\ log # <<>> /\ log[Len(log)].complete
                    /\ SizeAt(log[Len(log)].book, t, q) = SizeAt(r.book, t, q)
    <3>1. log # <<>> /\ log[Len(log)].complete /\ log[Len(log)].book = venue
      BY <2>2, <1>10 DEF LogInv
    <3>2. Touches(r, t, q) <=> t = s /\ q = p
      BY <1>r, <1>10 DEF Touches
    <3>3. CASE t = s /\ q = p
      <4>1. Put(r, t, q) = z
        BY <3>3, <1>8, <1>10 DEF Put
      <4>2. SizeAt(r.book, t, q) = z
        BY <3>3, <1>6, <1>10
      <4> QED
        BY <4>1, <4>2, <3>2, <3>3
    <3>4. CASE ~(t = s /\ q = p)
      <4>1. SizeAt(book, t, q) = SizeAt(venue, t, q)
        BY <3>4, <1>6, <1>7
      <4> QED
        BY <4>1, <3>1, <3>2, <3>4, <1>10
    <3> QED
      BY <3>3, <3>4
  <2>3. GoodLog(log')
    <3>1. ~isCrossed(r.book)
      BY <1>3, <1>10
    <3>2. GoodLog(Append(log, r))
      BY <1>2, <1>11, <2>1, <2>2, <3>1, GoodAppend
    <3> QED
      BY <3>2, <1>12
  <2>4. /\ Len(log') = Len(log) + 1 /\ log'[Len(log) + 1] = r /\ Len(log) \in Nat
        /\ \A i \in 1 .. Len(log) : log'[i] = log[i]
    BY <1>2, <1>11, <1>12
  <2>5. \A i \in 1 .. Len(log') : log'[i].number <= number'
    <3>1. \A i \in 1 .. Len(log) : log[i].number \in Nat /\ log[i].number <= number
      BY <1>2, RecordNumber DEF LogInv
    <3> SUFFICES ASSUME NEW i \in 1 .. Len(log) + 1 PROVE log'[i].number <= number + 1
      BY <2>4, <1>3
    <3>2. CASE i = Len(log) + 1
      BY <3>2, <2>4, <1>10, <1>2
    <3>3. CASE i \in 1 .. Len(log)
      BY <3>1, <3>3, <2>4, <1>2
    <3> QED
      BY <3>2, <3>3, <2>4
  <2>6. synced' => log' # <<>> /\ log'[Len(log')].complete /\ log'[Len(log')].book = venue'
    <3>1. log' # <<>>
      BY <2>4
    <3> QED
      BY <3>1, <2>4, <1>12, <1>3, <1>10
  <2> QED
    BY <2>3, <2>5, <2>6, <1>2, <1>3, <1>5, <1>12 DEF LogInv
<1>13. CASE log' = log /\ synced' = FALSE
  <2>1. \A i \in 1 .. Len(log) : log[i].number \in Nat /\ log[i].number <= number
    BY <1>2, RecordNumber DEF LogInv
  <2>2. \A i \in 1 .. Len(log') : log'[i].number <= number'
    BY <2>1, <1>2, <1>3, <1>13
  <2>3. number' \in Nat
    BY <1>2, <1>3
  <2> QED
    BY <2>2, <2>3, <1>2, <1>3, <1>5, <1>13 DEF LogInv
<1> QED
  BY <1>1, <1>12, <1>13 DEF levels, book, r

LEMMA LogSnapshot ==
    ASSUME LogInv, VenueSnapshot
    PROVE  LogInv'
<1> DEFINE r == Record(TRUE, venue, number + 1, venue, TRUE)
<1>1. /\ log' = Append(log, r) /\ synced' = TRUE /\ number' = number + 1 /\ venue' = venue
  BY DEF VenueSnapshot
<1>2. /\ venue \in Book /\ number \in Nat /\ GoodLog(log) /\ log \in Seq(LogRecord)
      /\ ~isCrossed(venue)
  BY DEF LogInv, GoodLog
<1>3. /\ r.isSnapshot = TRUE /\ r.levels = venue /\ r.number = number + 1
      /\ r.book = venue /\ r.complete = TRUE
  BY DEF Record
<1>4. r \in LogRecord
  <2>1. Levels(Size) \subseteq Levels(Size \cup {0})
    BY DEF Levels
  <2>2. venue \in [Side -> Levels(Size \cup {0})]
    BY <2>1, <1>2 DEF Book
  <2>3. number + 1 \in Nat
    BY <1>2
  <2> QED
    BY <2>2, <2>3, <1>2, RecordType
<1> HIDE DEF r
<1>5. \A i \in 1 .. Len(log) : /\ log[i].number \in Nat /\ log[i].number <= number
                               /\ log[i].number < r.number
  BY <1>2, <1>3, RecordNumber DEF LogInv
<1>6. \A s, p : Touches(r, s, p) /\ Put(r, s, p) = SizeAt(r.book, s, p)
  BY <1>3 DEF Touches, Put, SizeAt
<1>7. GoodLog(log')
  BY <1>1, <1>2, <1>3, <1>4, <1>5, <1>6, GoodAppend
<1>8. /\ Len(log') = Len(log) + 1 /\ log'[Len(log) + 1] = r /\ Len(log) \in Nat
      /\ \A i \in 1 .. Len(log) : log'[i] = log[i]
  BY <1>1, <1>2, <1>4
<1>9. \A i \in 1 .. Len(log') : log'[i].number <= number'
  <2> SUFFICES ASSUME NEW i \in 1 .. Len(log) + 1 PROVE log'[i].number <= number + 1
    BY <1>8, <1>1
  <2>1. CASE i = Len(log) + 1
    BY <2>1, <1>8, <1>3, <1>2
  <2>2. CASE i \in 1 .. Len(log)
    BY <1>5, <2>2, <1>8, <1>2
  <2> QED
    BY <2>1, <2>2, <1>8
<1>10. log' # <<>> /\ log'[Len(log')].complete /\ log'[Len(log')].book = venue'
  <2>1. log' # <<>>
    BY <1>8
  <2> QED
    BY <2>1, <1>8, <1>3, <1>1
<1>11. number' \in Nat
  BY <1>1, <1>2
<1> QED
  BY <1>1, <1>2, <1>7, <1>9, <1>10, <1>11 DEF LogInv

\* What a repetition leaves alone, and how it ends.
LEMMA LogRepeat ==
    ASSUME LogInv, RepeatPublish
    PROVE  LogInv'
<1>1. PICK w \in 1 .. Len(log) : log' = log \o SubSeq(log, Len(log) - w + 1, Len(log))
  BY DEF RepeatPublish
<1>2. /\ GoodLog(log) /\ log \in Seq(LogRecord) /\ number \in Nat
  BY DEF LogInv, GoodLog
<1>3. GoodLog(log') /\ log' \in Seq(LogRecord)
  <2>1. GoodLog(log')
    BY <1>1, <1>2, GoodRepeat
  <2> QED
    BY <2>1 DEF GoodLog
<1>4. /\ \A i \in 1 .. Len(log') : \E u \in 1 .. Len(log) : log'[i] = log[u]
      /\ log'[Len(log')] = log[Len(log)]
      /\ log' # <<>> /\ log # <<>>
  BY <1>1, <1>2, RepeatIs
<1>5. UNCHANGED <<venue, number, synced>>
  BY DEF RepeatPublish
<1> QED
  BY <1>3, <1>4, <1>5 DEF LogInv

LEMMA LogStep ==
    ASSUME LogInv, [BNext]_bvars
    PROVE  LogInv'
<1>1. CASE UNCHANGED feedVars
  BY <1>1, LogSame
<1> QED
  BY <1>1, LogChange, LogSnapshot, LogRepeat DEF BNext, bvars, processElement, onTimer,
     GridPoint, Checkpoint, Restore

\* A side of a book: its levels are finitely many and have a size.
LEMMA SideIs ==
    ASSUME NEW side, side \in Levels(Size)
    PROVE  /\ DOMAIN side \subseteq Price /\ DOMAIN side \subseteq Nat
           /\ IsFiniteSet(DOMAIN side)
           /\ \A p \in DOMAIN side : side[p] \in Size /\ side[p] # 0
           /\ side \in [DOMAIN side -> Size]
<1>1. PICK P \in SUBSET Price : side \in [P -> Size]
  BY DEF Levels
<1>2. DOMAIN side = P
  BY <1>1
<1>3. IsFiniteSet(P)
  BY BookAssumption, FS_Subset
<1>4. 0 \notin Size /\ Price \subseteq Nat
  BY BookAssumption
<1> QED
  BY <1>1, <1>2, <1>3, <1>4

LEMMA EmptyIsBook == EmptyBook \in Book /\ \A s \in Side : DOMAIN EmptyBook[s] = {}
<1>1. <<>> \in [{} -> Size] /\ {} \in SUBSET Price /\ DOMAIN <<>> = {}
  OBVIOUS
<1>2. <<>> \in Levels(Size)
  BY <1>1 DEF Levels
<1> QED
  BY <1>1, <1>2 DEF EmptyBook, Book

LEMMA ValueIsBook == \A b \in Book \cup {None} : Value(b) \in Book
BY EmptyIsBook DEF Value

\* A delta, and a side of a book after it: at a price that the delta speaks of it
\* has what the delta put there, at another what it had before.
LEMMA ApplySide ==
    ASSUME NEW b \in Book, NEW r \in LogRecord, NEW s \in Side
    PROVE  /\ apply(b, r)[s] \in Levels(Size)
           /\ \A p \in Price :
                /\ Touches(r, s, p) =>
                    /\ p \in DOMAIN apply(b, r)[s] <=> Put(r, s, p) # 0
                    /\ p \in DOMAIN apply(b, r)[s] => apply(b, r)[s][p] = Put(r, s, p)
                /\ ~Touches(r, s, p) =>
                    /\ p \in DOMAIN apply(b, r)[s] <=> p \in DOMAIN b[s]
                    /\ p \in DOMAIN apply(b, r)[s] => apply(b, r)[s][p] = b[s][p]
<1> DEFINE l == r.levels[s]
           D == DOMAIN l
           U == {q \in D : l[q] > 0}
           c == b[s]
<1>1. l \in Levels(Size \cup {0}) /\ r.isSnapshot \in BOOLEAN /\ c \in Levels(Size)
  BY DEF LogRecord, Book
<1> HIDE DEF l, c
<1>2. PICK P \in SUBSET Price : l \in [P -> Size \cup {0}]
  BY <1>1 DEF Levels
<1>3. Size \subseteq Nat \ {0}
  BY BookAssumption
<1>4. D \subseteq Price /\ \A q \in D : (l[q] > 0 <=> l[q] # 0) /\ (l[q] # 0 => l[q] \in Size)
  <2>1. D = P
    BY <1>2
  <2>2. ASSUME NEW q \in D
        PROVE  (l[q] > 0 <=> l[q] # 0) /\ (l[q] # 0 => l[q] \in Size)
    <3>1. l[q] \in Size \/ l[q] = 0
      BY <2>1, <1>2
    <3>2. CASE l[q] = 0
      BY <3>2
    <3>3. CASE l[q] \in Size
      <4>1. l[q] \in Nat /\ l[q] # 0
        BY <3>3, <1>3
      <4> QED
        BY <4>1, <3>3
    <3> QED
      BY <3>1, <3>2, <3>3
  <2> QED
    BY <2>1, <2>2
<1>5. DOMAIN c \subseteq Price /\ \A q \in DOMAIN c : c[q] \in Size
  BY <1>1, SideIs
<1>6. CASE r.isSnapshot
  <2>1. apply(b, r)[s] = [p \in U |-> l[p]]
    BY <1>6 DEF apply, buildSide, l
  <2>2. U \in SUBSET Price /\ [p \in U |-> l[p]] \in [U -> Size]
    BY <1>4
  <2>3. [p \in U |-> l[p]] \in Levels(Size)
    BY <2>2 DEF Levels
  <2>4. \A p \in Price : Touches(r, s, p) /\ Put(r, s, p) = IF p \in D THEN l[p] ELSE 0
    BY <1>6 DEF Touches, Put, l
  <2>5. \A p : /\ p \in U <=> p \in D /\ l[p] # 0
               /\ p \in U => [q \in U |-> l[q]][p] = l[p]
    BY <1>4
  <2>6. DOMAIN [q \in U |-> l[q]] = U
    OBVIOUS
  <2> DEFINE f == [q \in U |-> l[q]]
  <2> HIDE DEF f, U, D
  <2>7. \A p \in Price : /\ p \in DOMAIN f <=> Put(r, s, p) # 0
                         /\ p \in DOMAIN f => f[p] = Put(r, s, p)
    <3> SUFFICES ASSUME NEW p \in Price
                 PROVE  (p \in U <=> Put(r, s, p) # 0) /\ (p \in U => f[p] = Put(r, s, p))
      BY <2>6 DEF f
    <3>1. Put(r, s, p) = IF p \in D THEN l[p] ELSE 0
      BY <2>4
    <3>2. (p \in U <=> p \in D /\ l[p] # 0) /\ (p \in U => f[p] = l[p])
      BY <2>5 DEF f
    <3> QED
      BY <3>1, <3>2
  <2>8. apply(b, r)[s] = f /\ f \in Levels(Size)
    BY <2>1, <2>3 DEF f
  <2>9. \A p \in Price : Touches(r, s, p)
    BY <2>4
  <2> QED
    BY <2>7, <2>8, <2>9
<1>7. CASE ~r.isSnapshot
  <2> DEFINE V == (DOMAIN c \ D) \cup U
             f == [p \in V |-> IF p \in D THEN l[p] ELSE c[p]]
  <2>1. apply(b, r)[s] = f
    BY <1>7 DEF apply, patchSide, l, c
  <2>2. V \in SUBSET Price /\ f \in [V -> Size]
    BY <1>4, <1>5
  <2>3. f \in Levels(Size)
    BY <2>2 DEF Levels
  <2>4. \A p \in Price : /\ Touches(r, s, p) <=> p \in D
                         /\ Put(r, s, p) = IF p \in D THEN l[p] ELSE 0
    BY <1>7 DEF Touches, Put, l
  <2>5. \A p \in Price : p \in D => (p \in V <=> l[p] # 0) /\ (p \in V => f[p] = l[p])
    BY <1>4
  <2>6. \A p \in Price : p \notin D => (p \in V <=> p \in DOMAIN c) /\ (p \in V => f[p] = c[p])
    OBVIOUS
  <2>7. DOMAIN f = V
    OBVIOUS
  <2> HIDE DEF f, V, D, U
  <2>8. \A p \in Price : Touches(r, s, p) =>
            (p \in DOMAIN f <=> Put(r, s, p) # 0) /\ (p \in DOMAIN f => f[p] = Put(r, s, p))
    BY <2>4, <2>5, <2>7
  <2>9. \A p \in Price : ~Touches(r, s, p) =>
            (p \in DOMAIN f <=> p \in DOMAIN c) /\ (p \in DOMAIN f => f[p] = c[p])
    <3> SUFFICES ASSUME NEW p \in Price, ~Touches(r, s, p)
                 PROVE  (p \in V <=> p \in DOMAIN c) /\ (p \in V => f[p] = c[p])
      BY <2>7
    <3>1. p \notin D
      BY <2>4
    <3> QED
      BY <3>1, <2>6
  <2> QED
    BY <2>1, <2>3, <2>8, <2>9 DEF c
<1> QED
  BY <1>1, <1>6, <1>7

\* trim keeps some levels of a side, with their sizes, and not too many.
LEMMA TrimSide ==
    ASSUME NEW b, NEW s \in Side, b[s] \in Levels(Size), NEW n \in Nat
    PROVE  /\ trim(b, n)[s] \in Levels(Size)
           /\ DOMAIN trim(b, n)[s] \subseteq DOMAIN b[s]
           /\ \A p \in DOMAIN trim(b, n)[s] : trim(b, n)[s][p] = b[s][p]
           /\ Cardinality(DOMAIN trim(b, n)[s]) <= n
<1> DEFINE T == Top(b, s, n)
           f == [p \in T |-> b[s][p]]
<1>1. trim(b, n)[s] = f /\ DOMAIN f = T
  BY DEF trim
<1>2. /\ DOMAIN b[s] \subseteq Price /\ DOMAIN b[s] \subseteq Nat
      /\ IsFiniteSet(DOMAIN b[s]) /\ \A p \in DOMAIN b[s] : b[s][p] \in Size
  BY SideIs
<1>3. T \subseteq DOMAIN b[s]
  BY DEF Top
<1>4. Cardinality(T) <= n
  BY <1>2, TopBound
<1> HIDE DEF T
<1>5. T \in SUBSET Price /\ f \in [T -> Size]
  BY <1>2, <1>3
<1>6. f \in Levels(Size)
  BY <1>5 DEF Levels
<1> QED
  BY <1>1, <1>3, <1>4, <1>6

\* A log that grows explains what it explained before.
LEMMA SavedGrows ==
    ASSUME NEW L, NEW M, Len(L) \in Nat, Len(M) \in Nat, Len(L) <= Len(M),
           \A i \in 1 .. Len(L) : M[i] = L[i],
           NEW k, NEW b, NEW t, NEW a, NEW d, Saved(L, k, b, t, a, d)
    PROVE  Saved(M, k, b, t, a, d)
<1>1. k \in Nat /\ k <= Len(L)
  BY DEF Saved
<1>2. \A i \in 1 .. k : M[i] = L[i]
  BY <1>1
<1>3. Follows(M, k, Value(b), t)
  BY <1>1, <1>2, Agree DEF Saved
<1>4. k \in 0 .. Len(M)
  BY <1>1
<1> QED
  BY <1>3, <1>4 DEF Saved

LEMMA TrimSides ==
    ASSUME NEW b, NEW n \in Nat, \A s \in Side : b[s] \in Levels(Size)
    PROVE  \A s \in Side :
            /\ trim(b, n)[s] \in Levels(Size)
            /\ DOMAIN trim(b, n)[s] \subseteq DOMAIN b[s]
            /\ \A p \in DOMAIN trim(b, n)[s] : trim(b, n)[s][p] = b[s][p]
            /\ Cardinality(DOMAIN trim(b, n)[s]) <= n
<1> SUFFICES ASSUME NEW s \in Side
             PROVE  /\ trim(b, n)[s] \in Levels(Size)
                    /\ DOMAIN trim(b, n)[s] \subseteq DOMAIN b[s]
                    /\ \A p \in DOMAIN trim(b, n)[s] : trim(b, n)[s][p] = b[s][p]
                    /\ Cardinality(DOMAIN trim(b, n)[s]) <= n
  OBVIOUS
<1>1. b[s] \in Levels(Size)
  OBVIOUS
<1> QED
  BY <1>1, TrimSide

\* One more record applied and trimmed.
LEMMA SavedProcess ==
    ASSUME log \in Seq(LogRecord), processElement,
           Saved(log, pos, bookState, trimmed, armed, due)
    PROVE  Saved(log, pos + 1, bookState', trimmed', TRUE, due)
<1> DEFINE r == log[pos + 1]
           c == apply(Value(bookState), r)
<1>a. /\ pos < Len(log) /\ bookState' = trim(c, maxDepth)
      /\ \A s \in Side : trimmed'[s] = (IF r.isSnapshot THEN {} ELSE trimmed[s])
                                         \cup (DOMAIN c[s] \ DOMAIN bookState'[s])
  BY DEF processElement, current, Value
<1>1. pos \in Nat /\ pos + 1 \in 1 .. Len(log) /\ pos + 1 \in 0 .. Len(log) /\ due \in 0 .. MaxLag
  BY <1>a DEF Saved
<1>2. r \in LogRecord
  BY <1>1
<1>3. Value(bookState) \in Book
  BY ValueIsBook DEF Saved
<1>4. \A s \in Side : c[s] \in Levels(Size)
  BY <1>2, <1>3, ApplySide
<1>c. \A s \in Side, p \in Price :
        /\ Touches(r, s, p) =>
            /\ p \in DOMAIN c[s] <=> Put(r, s, p) # 0
            /\ p \in DOMAIN c[s] => c[s][p] = Put(r, s, p)
        /\ ~Touches(r, s, p) =>
            /\ p \in DOMAIN c[s] <=> p \in DOMAIN Value(bookState)[s]
            /\ p \in DOMAIN c[s] => c[s][p] = Value(bookState)[s][p]
  BY <1>2, <1>3, ApplySide
<1> HIDE DEF c, r
<1>5. maxDepth \in Nat
  BY BookAssumption
<1>6. \A s \in Side :
        /\ bookState'[s] \in Levels(Size)
        /\ DOMAIN bookState'[s] \subseteq DOMAIN c[s]
        /\ \A p \in DOMAIN bookState'[s] : bookState'[s][p] = c[s][p]
        /\ Cardinality(DOMAIN bookState'[s]) <= maxDepth
  BY <1>4, <1>5, <1>a, TrimSides
<1>7. bookState' \in Book /\ bookState' # None /\ Value(bookState') = bookState'
  <2>1. bookState' = [s \in Side |-> bookState'[s]]
    BY <1>a DEF trim
  <2>2. bookState' \in Book
    BY <2>1, <1>6 DEF Book
  <2> QED
    BY <2>2, BookAssumption DEF Value
<1>8. ASSUME NEW s \in Side, NEW p \in Price, p \in DOMAIN bookState'[s]
      PROVE  \E j \in 1 .. pos + 1 : LastWord(log, pos + 1, s, p, j) /\ bookState'[s][p] = Put(log[j], s, p)
  <2>1. p \in DOMAIN c[s] /\ bookState'[s][p] = c[s][p]
    BY <1>6, <1>8
  <2>2. CASE Touches(r, s, p)
    <3>1. c[s][p] = Put(r, s, p)
      BY <2>1, <2>2, <1>c
    <3>2. LastWord(log, pos + 1, s, p, pos + 1)
      BY <2>2, <1>1 DEF LastWord, r
    <3> QED
      BY <3>1, <3>2, <2>1, <1>1 DEF r
  <2>3. CASE ~Touches(r, s, p)
    <3>1. p \in DOMAIN Value(bookState)[s] /\ c[s][p] = Value(bookState)[s][p]
      BY <2>1, <2>3, <1>c
    <3>2. PICK j \in 1 .. pos : LastWord(log, pos, s, p, j) /\ Value(bookState)[s][p] = Put(log[j], s, p)
      BY <3>1 DEF Saved, Follows
    <3>3. \A i \in j + 1 .. pos + 1 : i \in j + 1 .. pos \/ i = pos + 1
      BY <1>1
    <3>4. LastWord(log, pos + 1, s, p, j)
      BY <3>2, <3>3, <2>3 DEF LastWord, r
    <3>5. j \in 1 .. pos + 1
      BY <1>1
    <3> QED
      BY <3>1, <3>2, <3>4, <3>5, <2>1
  <2> QED
    BY <2>2, <2>3
<1>9. ASSUME NEW s \in Side, NEW p \in Price, NEW j \in 1 .. pos + 1,
             LastWord(log, pos + 1, s, p, j), Put(log[j], s, p) # 0
      PROVE  p \in DOMAIN bookState'[s] \cup trimmed'[s]
  <2>1. trimmed'[s] = (IF r.isSnapshot THEN {} ELSE trimmed[s]) \cup (DOMAIN c[s] \ DOMAIN bookState'[s])
    BY <1>a
  <2>2. CASE p \in DOMAIN c[s]
    BY <2>1, <2>2
  <2>3. CASE p \notin DOMAIN c[s]
    <3>1. ~Touches(r, s, p)
      <4>1. SUFFICES ASSUME Touches(r, s, p) PROVE FALSE
        OBVIOUS
      <4>2. Put(r, s, p) = 0
        BY <4>1, <2>3, <1>c
      <4>3. j = pos + 1
        <5>1. j <= pos => pos + 1 \in j + 1 .. pos + 1
          BY <1>1
        <5>2. ~(j <= pos)
          BY <5>1, <4>1, <1>9 DEF LastWord, r
        <5> QED
          BY <5>2, <1>1
      <4> QED
        BY <4>2, <4>3, <1>9 DEF r
    <3>2. j \in 1 .. pos
      <4>1. j # pos + 1
        BY <3>1, <1>9 DEF LastWord, r
      <4> QED
        BY <4>1, <1>1
    <3>3. \A i \in j + 1 .. pos : i \in j + 1 .. pos + 1
      BY <1>1
    <3>4. LastWord(log, pos, s, p, j)
      BY <3>3, <1>9 DEF LastWord
    <3>5. p \in DOMAIN Value(bookState)[s] \cup trimmed[s]
      BY <3>2, <3>4, <1>9 DEF Saved, Follows
    <3>6. p \notin DOMAIN Value(bookState)[s]
      BY <3>1, <2>3, <1>c
    <3>7. ~r.isSnapshot
      BY <3>1 DEF Touches
    <3> QED
      BY <3>5, <3>6, <3>7, <2>1
  <2> QED
    BY <2>2, <2>3
<1>10. Follows(log, pos + 1, bookState', trimmed')
  BY <1>8, <1>9 DEF Follows
<1>11. \A s \in Side : Cardinality(DOMAIN bookState'[s]) <= maxDepth
  BY <1>6
<1> QED
  BY <1>1, <1>7, <1>10, <1>11 DEF Saved

LEMMA OperatorInit == BInit => OperatorInv
<1> SUFFICES ASSUME BInit PROVE OperatorInv
  OBVIOUS
<1>1. /\ log = <<>> /\ pos = 0 /\ bookState = None /\ trimmed = [s \in Side |-> {}]
      /\ armed = FALSE /\ due = 0
      /\ checkpoint.pos = 0 /\ checkpoint.bookState = None
      /\ checkpoint.trimmed = [s \in Side |-> {}]
      /\ checkpoint.armed = FALSE /\ checkpoint.due = 0
  BY DEF BInit, Start
<1>2. Value(None) = EmptyBook
  BY DEF Value
<1>3. \A s \in Side : DOMAIN EmptyBook[s] = {} /\ Cardinality(DOMAIN EmptyBook[s]) <= maxDepth
  BY EmptyIsBook, FS_EmptySet, BookAssumption
<1>4. Follows(<<>>, 0, EmptyBook, [s \in Side |-> {}])
  BY <1>3 DEF Follows
<1>5. 0 \in 0 .. Len(<<>>) /\ 0 \in 0 .. MaxLag
  BY BookAssumption
<1>6. Saved(<<>>, 0, None, [s \in Side |-> {}], FALSE, 0)
  BY <1>2, <1>3, <1>4, <1>5 DEF Saved
<1> QED
  BY <1>1, <1>6 DEF OperatorInv

\* The steps of the feed, which make the log longer.
LEMMA OperatorFeed ==
    ASSUME LogInv, OperatorInv, LogInv', UNCHANGED <<checkpoint, taskVars>>,
           Len(log) <= Len(log'), \A i \in 1 .. Len(log) : log'[i] = log[i]
    PROVE  OperatorInv'
<1>1. Len(log) \in Nat /\ Len(log') \in Nat
  BY DEF LogInv, GoodLog
<1>2. Saved(log', pos, bookState, trimmed, armed, due)
  BY <1>1, SavedGrows DEF OperatorInv
<1>3. Saved(log', checkpoint.pos, checkpoint.bookState, checkpoint.trimmed,
            checkpoint.armed, checkpoint.due)
  BY <1>1, SavedGrows DEF OperatorInv
<1> QED
  BY <1>2, <1>3 DEF OperatorInv, taskVars

LEMMA OperatorStep ==
    ASSUME LogInv, OperatorInv, LogInv', [BNext]_bvars
    PROVE  OperatorInv'
<1>0. log \in Seq(LogRecord) /\ Len(log) \in Nat
  BY DEF LogInv, GoodLog
<1>1. CASE UNCHANGED log /\ UNCHANGED <<checkpoint, taskVars>>
  <2>1. Len(log) <= Len(log')
    BY <1>0, <1>1
  <2> QED
    BY <2>1, <1>1, OperatorFeed
<1>2. CASE VenueChange
  <2>1. (\E r : log' = Append(log, r)) \/ log' = log
    BY <1>2 DEF VenueChange
  <2>2. CASE log' = log
    BY <2>2, <1>1, <1>2 DEF VenueChange
  <2>3. ASSUME NEW r, log' = Append(log, r) PROVE OperatorInv'
    <3>1. Len(log) <= Len(log') /\ \A i \in 1 .. Len(log) : log'[i] = log[i]
      BY <1>0, <2>3
    <3> QED
      BY <3>1, <1>2, OperatorFeed DEF VenueChange
  <2> QED
    BY <2>1, <2>2, <2>3
<1>3. CASE VenueSnapshot
  <2>1. PICK r : log' = Append(log, r)
    BY <1>3 DEF VenueSnapshot
  <2>2. Len(log) <= Len(log') /\ \A i \in 1 .. Len(log) : log'[i] = log[i]
    BY <1>0, <2>1
  <2> QED
    BY <2>2, <1>3, OperatorFeed DEF VenueSnapshot
<1>4. CASE RepeatPublish
  <2>1. PICK w \in 1 .. Len(log) : log' = log \o SubSeq(log, Len(log) - w + 1, Len(log))
    BY <1>4 DEF RepeatPublish
  <2>2. Len(log') = Len(log) + w /\ \A i \in 1 .. Len(log) : log'[i] = log[i]
    BY <1>0, <2>1, RepeatIs
  <2>3. Len(log) <= Len(log')
    BY <1>0, <2>2
  <2> QED
    BY <2>2, <2>3, <1>4, OperatorFeed DEF RepeatPublish
<1>5. CASE processElement
  <2>1. /\ pos' = pos + 1 /\ armed' = TRUE /\ due' = due
        /\ log' = log /\ checkpoint' = checkpoint
    BY <1>5 DEF processElement, armTimer, feedVars
  <2>2. Saved(log, pos + 1, bookState', trimmed', TRUE, due)
    BY <1>0, <1>5, SavedProcess DEF OperatorInv
  <2> QED
    BY <2>1, <2>2 DEF OperatorInv
<1>6. CASE onTimer
  <2>1. /\ due > 0 /\ due' = due - 1 /\ armed' = TRUE
        /\ UNCHANGED <<pos, bookState, trimmed, log, checkpoint>>
    BY <1>6 DEF onTimer, armTimer, feedVars
  <2>2. due' \in 0 .. MaxLag
    BY <2>1, BookAssumption DEF OperatorInv, Saved
  <2> QED
    BY <2>1, <2>2 DEF OperatorInv, Saved
<1>7. CASE GridPoint
  <2>1. /\ due < MaxLag /\ due' = due + 1 /\ armed' = FALSE
        /\ UNCHANGED <<pos, bookState, trimmed, log, checkpoint>>
    BY <1>7 DEF GridPoint, feedVars
  <2>2. due' \in 0 .. MaxLag
    BY <2>1, BookAssumption DEF OperatorInv, Saved
  <2> QED
    BY <2>1, <2>2 DEF OperatorInv, Saved
<1>8. CASE Checkpoint
  <2>1. /\ UNCHANGED <<pos, bookState, trimmed, armed, due, log>>
        /\ checkpoint'.pos = pos /\ checkpoint'.bookState = bookState
        /\ checkpoint'.trimmed = trimmed /\ checkpoint'.armed = armed
        /\ checkpoint'.due = due
    BY <1>8 DEF Checkpoint, taskVars, feedVars
  <2> QED
    BY <2>1 DEF OperatorInv
<1>9. CASE Restore
  <2>1. /\ pos' = checkpoint.pos /\ bookState' = checkpoint.bookState
        /\ trimmed' = checkpoint.trimmed /\ armed' = checkpoint.armed
        /\ due' = checkpoint.due /\ checkpoint' = checkpoint /\ log' = log
    BY <1>9 DEF Restore, feedVars
  <2> QED
    BY <2>1 DEF OperatorInv
<1>10. CASE UNCHANGED bvars
  BY <1>10, <1>1 DEF bvars, feedVars
<1> QED
  BY <1>2, <1>3, <1>4, <1>5, <1>6, <1>7, <1>8, <1>9, <1>10 DEF BNext

LEMMA LogInit == BInit => LogInv
<1> SUFFICES ASSUME BInit PROVE LogInv
  OBVIOUS
<1>1. log = <<>> /\ venue = OpeningBook /\ number = 0 /\ synced = FALSE
  BY DEF BInit
<1>2. GoodLog(<<>>)
  BY DEF GoodLog
<1>3. OpeningBook \in Book /\ ~isCrossed(OpeningBook)
  BY BookAssumption
<1>4. \A i \in 1 .. Len(<<>>) : FALSE
  OBVIOUS
<1> QED
  BY <1>1, <1>2, <1>3, <1>4 DEF LogInv

LEMMA BookInvariant == BSpec => []BookInv
<1>1. BInit => BookInv
  BY LogInit, OperatorInit DEF BookInv
<1>2. BookInv /\ [BNext]_bvars => BookInv'
  BY LogStep, OperatorStep DEF BookInv
<1> QED
  BY <1>1, <1>2, PTL DEF BSpec

\* The type invariant of the operator: its position is in the log, and what it
\* keeps is a book of no more than maxDepth levels a side.
THEOREM BookTypeOK == BSpec => []BTypeOK
<1>1. BookInv => BTypeOK
  <2> SUFFICES ASSUME BookInv PROVE BTypeOK
    OBVIOUS
  <2>1. Saved(log, pos, bookState, trimmed, armed, due)
    BY DEF BookInv, OperatorInv
  <2>2. ASSUME bookState # None, NEW s \in Side
        PROVE  /\ DOMAIN bookState[s] \subseteq Price
               /\ \A p \in DOMAIN bookState[s] : bookState[s][p] \in Size
               /\ Cardinality(DOMAIN bookState[s]) <= maxDepth
    <3>1. bookState \in Book /\ Value(bookState) = bookState
      BY <2>1, <2>2 DEF Saved, Value
    <3>2. bookState[s] \in Levels(Size)
      BY <3>1 DEF Book
    <3>3. Cardinality(DOMAIN bookState[s]) <= maxDepth
      BY <3>1, <2>1 DEF Saved
    <3> QED
      BY <3>2, <3>3, SideIs
  <2> QED
    BY <2>1, <2>2 DEF BTypeOK, Saved
<1> QED
  BY <1>1, BookInvariant, PTL

\* The last word on a price is one.
LEMMA OneLastWord ==
    ASSUME NEW L, NEW k \in Nat, NEW s, NEW p, NEW i \in 1 .. k, NEW j \in 1 .. k,
           LastWord(L, k, s, p, i), LastWord(L, k, s, p, j)
    PROVE  i = j
<1>1. ~(i < j)
  <2>1. i < j => j \in i + 1 .. k
    OBVIOUS
  <2> QED
    BY <2>1 DEF LastWord
<1>2. ~(j < i)
  <2>1. j < i => i \in j + 1 .. k
    OBVIOUS
  <2> QED
    BY <2>1 DEF LastWord
<1> QED
  BY <1>1, <1>2

LEMMA FollowsVenue ==
    ASSUME BookInv
    PROVE  BookFollowsVenue
<1> SUFFICES ASSUME CaughtUp, NEW s \in Side
             PROVE  /\ \A p \in DOMAIN bookState[s] :
                        /\ p \in DOMAIN log[pos].book[s]
                        /\ bookState[s][p] = log[pos].book[s][p]
                    /\ DOMAIN log[pos].book[s] \subseteq DOMAIN bookState[s] \cup trimmed[s]
  BY DEF BookFollowsVenue
<1>1. /\ Saved(log, pos, bookState, trimmed, armed, due) /\ GoodLog(log)
      /\ log \in Seq(LogRecord)
  BY DEF BookInv, OperatorInv, LogInv, GoodLog
<1>2. pos \in 1 .. Len(log) /\ pos \in Nat
  BY <1>1 DEF Saved, CaughtUp
<1>3. Explained(log, pos)
  BY <1>1, <1>2 DEF CaughtUp, Complete, GoodLog
<1>4. bookState \in Book /\ Value(bookState) = bookState
  BY <1>1, <1>2 DEF Saved, Value
<1>5. Follows(log, pos, bookState, trimmed)
  BY <1>1, <1>4 DEF Saved
<1>6. /\ DOMAIN bookState[s] \subseteq Price
      /\ \A p \in DOMAIN bookState[s] : bookState[s][p] # 0
  BY <1>4, SideIs DEF Book
<1> DEFINE v == log[pos].book
<1>7. v \in Book
  <2>1. log[pos] \in LogRecord
    BY <1>1, <1>2
  <2> QED
    BY <2>1 DEF LogRecord
<1>8. DOMAIN v[s] \subseteq Price /\ \A p \in DOMAIN v[s] : v[s][p] # 0
  BY <1>7, SideIs DEF Book
<1> HIDE DEF v
<1>9. \A p \in Price : \E j \in 1 .. pos :
        LastWord(log, pos, s, p, j) /\ Put(log[j], s, p) = SizeAt(v, s, p)
  BY <1>3 DEF Explained, v
<1>10. ASSUME NEW p \in DOMAIN bookState[s]
       PROVE  p \in DOMAIN v[s] /\ bookState[s][p] = v[s][p]
  <2>1. p \in Price
    BY <1>6
  <2>2. PICK i \in 1 .. pos : /\ LastWord(log, pos, s, p, i)
                              /\ bookState[s][p] = Put(log[i], s, p)
    BY <2>1, <1>5 DEF Follows
  <2>3. PICK j \in 1 .. pos : /\ LastWord(log, pos, s, p, j)
                              /\ Put(log[j], s, p) = SizeAt(v, s, p)
    BY <2>1, <1>9
  <2>4. i = j
    BY <2>2, <2>3, <1>2, OneLastWord
  <2>5. bookState[s][p] = SizeAt(v, s, p) /\ bookState[s][p] # 0
    BY <2>2, <2>3, <2>4, <1>6
  <2> QED
    BY <2>5 DEF SizeAt
<1>11. ASSUME NEW p \in DOMAIN v[s]
       PROVE  p \in DOMAIN bookState[s] \cup trimmed[s]
  <2>1. p \in Price /\ SizeAt(v, s, p) # 0
    BY <1>8 DEF SizeAt
  <2>2. PICK j \in 1 .. pos : /\ LastWord(log, pos, s, p, j)
                              /\ Put(log[j], s, p) = SizeAt(v, s, p)
    BY <2>1, <1>9
  <2> QED
    BY <2>1, <2>2, <1>5 DEF Follows
<1> QED
  BY <1>10, <1>11 DEF v

\* Through trims, repeated deltas and restores, every level of the book is one of
\* the venue's with its size, and a level of the venue that is missing was
\* trimmed, for books and logs of any size.
THEOREM BookFollows == BSpec => []BookFollowsVenue
BY BookInvariant, FollowsVenue, PTL

\* A book whose levels are levels of a book that is not crossed is not crossed.
LEMMA PartNotCrossed ==
    ASSUME NEW b \in Book, NEW v \in Book, ~isCrossed(v),
           \A s \in Side : DOMAIN b[s] \subseteq DOMAIN v[s]
    PROVE  ~isCrossed(b)
<1> SUFFICES ASSUME isCrossed(b) PROVE FALSE
  OBVIOUS
<1>1. \A s \in Side : b[s] \in Levels(Size) /\ v[s] \in Levels(Size)
  BY DEF Book
<1>2. \A s \in Side : DOMAIN b[s] # {} /\ DOMAIN v[s] # {}
  BY DEF isCrossed, isEmpty
<1>3. ASSUME NEW s \in Side
      PROVE  /\ best(b, s) \in DOMAIN v[s] /\ best(b, s) \in Nat
             /\ best(v, s) \in DOMAIN v[s] /\ best(v, s) \in Nat
             /\ best(b, s) # best(v, s) => Nearer(s, best(v, s), best(b, s))
  <2>1. /\ DOMAIN b[s] \subseteq Nat /\ IsFiniteSet(DOMAIN b[s])
        /\ DOMAIN v[s] \subseteq Nat /\ IsFiniteSet(DOMAIN v[s])
    BY <1>1, SideIs
  <2>2. best(b, s) \in DOMAIN b[s]
    BY <2>1, <1>2, Best
  <2>3. /\ best(v, s) \in DOMAIN v[s]
        /\ \A q \in DOMAIN v[s] \ {best(v, s)} : Nearer(s, best(v, s), q)
    BY <2>1, <1>2, Best
  <2> QED
    BY <2>1, <2>2, <2>3
<1>4. best(b, "bid") >= best(b, "ask")
  BY DEF isCrossed
<1>5. "bid" \in Side /\ "ask" \in Side
  BY DEF Side
<1>6. best(v, "bid") >= best(b, "bid")
  BY <1>3, <1>5 DEF Nearer
<1>7. best(v, "ask") <= best(b, "ask")
  BY <1>3, <1>5 DEF Nearer
<1>8. best(v, "bid") >= best(v, "ask")
  BY <1>3, <1>4, <1>5, <1>6, <1>7
<1>9. ~isEmpty(v)
  BY <1>2 DEF isEmpty
<1> QED
  BY <1>8, <1>9 DEF isCrossed

\* "A crossed book (best bid >= best ask) means the deltas were applied out of
\* order or a resync was missed": a book that has caught up is never crossed,
\* whatever was trimmed, repeated or restored before.
THEOREM BookCrossedMeansMissed == BSpec => []CrossedMeansMissed
<1>1. BookInv => CrossedMeansMissed
  <2> SUFFICES ASSUME BookInv, bookState # None, CaughtUp PROVE ~isCrossed(bookState)
    BY DEF CrossedMeansMissed
  <2>1. /\ Saved(log, pos, bookState, trimmed, armed, due) /\ GoodLog(log)
        /\ log \in Seq(LogRecord)
    BY DEF BookInv, OperatorInv, LogInv, GoodLog
  <2>2. pos \in 1 .. Len(log)
    BY <2>1 DEF Saved, CaughtUp
  <2>3. log[pos] \in LogRecord
    BY <2>1, <2>2
  <2>4. log[pos].book \in Book /\ ~isCrossed(log[pos].book)
    BY <2>1, <2>2, <2>3 DEF LogRecord, GoodLog
  <2>5. bookState \in Book
    BY <2>1 DEF Saved
  <2>6. \A s \in Side : DOMAIN bookState[s] \subseteq DOMAIN log[pos].book[s]
    BY FollowsVenue DEF BookFollowsVenue
  <2> QED
    BY <2>4, <2>5, <2>6, PartNotCrossed
<1> QED
  BY <1>1, BookInvariant, PTL

=============================================================================
