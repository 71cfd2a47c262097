-------------------------- MODULE TradeWindowProofs --------------------------
(***************************************************************************)
(* What the backfill leans on (stream/.../stats/Aggregates.scala, "it must *)
(* be associative and commutative"), for all aggregates: merge is          *)
(* associative; it is commutative between aggregates that begin and end at *)
(* different times; and adding a trade is merging it, unless it has the    *)
(* time of the aggregate's last one.  Then the two jobs: bars describe     *)
(* their trades, a replay gives the same bars, and so does folding in      *)
(* parts.                                                                  *)
(***************************************************************************)
EXTENDS TradeWindow, FiniteSetTheorems, SequenceTheorems, WellFoundedInduction, TLAPS

\* The aggregates that fold reaches: the empty one, or one of some trades.
Filled == [open : Int, high : Int, low : Int, close : Int, volume : Int, notional : Int,
           count : Nat \ {0}, first : Int, last : Int]

Aggregate == Filled \cup {empty}

\* The choice of merge between two aggregates of trades.
Merged(a, b) == Combined(a, b, IF b.first < a.first THEN b.open ELSE a.open,
                               IF b.last > a.last THEN b.close ELSE a.close)

\* merge of two aggregates of trades is one, field by field.
LEMMA MergedFilled ==
    ASSUME NEW a \in Filled, NEW b \in Filled
    PROVE  merge(a, b) = Merged(a, b) /\ merge(a, b) \in Filled
<1>1. a.count # 0 /\ b.count # 0
    BY DEF Filled
<1>2. merge(a, b) = Merged(a, b)
    BY <1>1 DEF merge, Merged
<1>3. Merged(a, b) \in Filled
    BY DEF Merged, Combined, Filled, Least, Greatest
<1> QED
    BY <1>2, <1>3

\* The empty aggregate is neutral on both sides.
LEMMA MergeEmpty ==
    ASSUME NEW a \in Aggregate
    PROVE  merge(empty, a) = a /\ merge(a, empty) = a
<1>1. CASE a = empty
    BY <1>1 DEF merge, empty
<1>2. CASE a \in Filled
    BY <1>2 DEF merge, empty, Filled
<1> QED
    BY <1>1, <1>2 DEF Aggregate

\* Associativity for aggregates of trades: each field is the least, the
\* greatest, a sum, or the choice of the earliest or the latest, of which the
\* leftmost wins.
LEMMA MergedAssociative ==
    ASSUME NEW a \in Filled, NEW b \in Filled, NEW c \in Filled
    PROVE  Merged(Merged(a, b), c) = Merged(a, Merged(b, c))
<1> DEFINE l == Merged(Merged(a, b), c)
           r == Merged(a, Merged(b, c))
<1>1. l.open = r.open
    BY DEF Merged, Combined, Filled, Least, Greatest
<1>2. l.close = r.close
    BY DEF Merged, Combined, Filled, Least, Greatest
<1>3. l.high = r.high /\ l.low = r.low
    BY DEF Merged, Combined, Filled, Least, Greatest
<1>4. l.volume = r.volume /\ l.notional = r.notional /\ l.count = r.count
    BY DEF Merged, Combined, Filled
<1>5. l.first = r.first /\ l.last = r.last
    BY DEF Merged, Combined, Filled, Least, Greatest
<1>6. l = [open |-> l.open, high |-> l.high, low |-> l.low, close |-> l.close,
           volume |-> l.volume, notional |-> l.notional, count |-> l.count,
           first |-> l.first, last |-> l.last]
    BY DEF Merged, Combined
<1>7. r = [open |-> r.open, high |-> r.high, low |-> r.low, close |-> r.close,
           volume |-> r.volume, notional |-> r.notional, count |-> r.count,
           first |-> r.first, last |-> r.last]
    BY DEF Merged, Combined
<1> HIDE DEF l, r
<1>8. l = r
    BY <1>1, <1>2, <1>3, <1>4, <1>5, <1>6, <1>7
<1> QED
    BY <1>8 DEF l, r

\* merge is associative: partial aggregates may be combined in any grouping.
THEOREM MergeAssociative ==
    ASSUME NEW a \in Aggregate, NEW b \in Aggregate, NEW c \in Aggregate
    PROVE  merge(merge(a, b), c) = merge(a, merge(b, c))
<1>1. CASE a = empty \/ b = empty \/ c = empty
    <2>1. merge(a, b) \in Aggregate /\ merge(b, c) \in Aggregate
        BY MergedFilled, MergeEmpty DEF Aggregate
    <2> QED
        BY <1>1, <2>1, MergeEmpty
<1>2. CASE a \in Filled /\ b \in Filled /\ c \in Filled
    <2>1. merge(a, b) \in Filled /\ merge(b, c) \in Filled
        BY <1>2, MergedFilled
    <2>2. merge(merge(a, b), c) = Merged(Merged(a, b), c)
        BY <1>2, <2>1, MergedFilled
    <2>3. merge(a, merge(b, c)) = Merged(a, Merged(b, c))
        BY <1>2, <2>1, MergedFilled
    <2> QED
        BY <1>2, <2>2, <2>3, MergedAssociative
<1> QED
    BY <1>1, <1>2 DEF Aggregate

\* merge is commutative as long as neither the beginnings nor the ends of the two
\* aggregates fall on the same time.
THEOREM MergeCommutative ==
    ASSUME NEW a \in Aggregate, NEW b \in Aggregate,
           a \in Filled /\ b \in Filled => a.first # b.first /\ a.last # b.last
    PROVE  merge(a, b) = merge(b, a)
<1>1. CASE a = empty \/ b = empty
    BY <1>1, MergeEmpty
<1>2. CASE a \in Filled /\ b \in Filled
    <2>1. merge(a, b) = Merged(a, b) /\ merge(b, a) = Merged(b, a)
        BY <1>2, MergedFilled
    <2>2. Merged(a, b) = Merged(b, a)
        BY <1>2 DEF Merged, Combined, Filled, Least, Greatest
    <2> QED
        BY <2>1, <2>2
<1> QED
    BY <1>1, <1>2 DEF Aggregate

\* The aggregate of one trade is one.
LEMMA SingleFilled ==
    ASSUME NEW t \in Trade
    PROVE  single(t) \in Filled
<1>1. t.price * t.size \in Int
    BY DEF Trade
<1> QED
    BY <1>1 DEF single, Filled, Trade

\* Adding a trade is merging the aggregate of that trade, unless it has the time
\* of the last one: there add lets the later arrival close, and merge the earlier.
THEOREM AddIsMerge ==
    ASSUME NEW a \in Aggregate, NEW t \in Trade,
           a \in Filled => t.time # a.last
    PROVE  add(a, t) = merge(a, single(t)) /\ add(a, t) \in Aggregate
<1>1. CASE a = empty
    BY <1>1, SingleFilled, MergeEmpty DEF add, empty, Aggregate
<1>2. CASE a \in Filled
    <2>1. a.count # 0
        BY <1>2 DEF Filled
    <2>2. merge(a, single(t)) = Merged(a, single(t)) /\ merge(a, single(t)) \in Filled
        BY <1>2, SingleFilled, MergedFilled
    <2>3. add(a, t) = Merged(a, single(t))
        BY <1>2, <2>1 DEF add, Merged, Combined, single, Filled, Trade, Least, Greatest
    <2> QED
        BY <2>2, <2>3 DEF Aggregate
<1> QED
    BY <1>1, <1>2 DEF Aggregate

\* One more trade in the second part is one more trade of the whole: the step by
\* which folding in parts agrees with folding at once (PartsMerge).
THEOREM PartsStep ==
    ASSUME NEW a \in Aggregate, NEW b \in Aggregate, NEW t \in Trade,
           a \in Filled => t.time # a.last,
           b \in Filled => t.time # b.last
    PROVE  merge(a, add(b, t)) = add(merge(a, b), t)
<1>1. merge(a, b) \in Aggregate
    BY MergedFilled, MergeEmpty DEF Aggregate
<1>2. merge(a, b) \in Filled => t.time # merge(a, b).last
    <2>1. CASE a = empty \/ b = empty
        BY <2>1, MergeEmpty
    <2>2. CASE a \in Filled /\ b \in Filled
        <3>1. merge(a, b) = Merged(a, b)
            BY <2>2, MergedFilled
        <3>2. Merged(a, b).last \in {a.last, b.last}
            BY DEF Merged, Combined, Greatest
        <3> QED
            BY <2>2, <3>1, <3>2
    <2> QED
        BY <2>1, <2>2 DEF Aggregate
<1>3. add(merge(a, b), t) = merge(merge(a, b), single(t))
    BY <1>1, <1>2, AddIsMerge
<1>4. add(b, t) = merge(b, single(t))
    BY AddIsMerge
<1>5. merge(merge(a, b), single(t)) = merge(a, merge(b, single(t)))
    BY SingleFilled, MergeAssociative DEF Aggregate
<1> QED
    BY <1>3, <1>4, <1>5

----------------------------------------------------------------------------
(* Induction over numbers, in terms of the set of those that have a        *)
(* property.                                                               *)

LEMMA Induction ==
    ASSUME NEW S \in SUBSET Nat, 0 \in S, \A n \in S : n + 1 \in S
    PROVE  S = Nat
<1> SUFFICES ASSUME Nat \ S # {} PROVE FALSE
  OBVIOUS
<1> DEFINE T == Nat \ S
<1>1. T \subseteq Nat /\ T # {}
  OBVIOUS
<1>2. PICK n \in T : \A m \in T : ~(<<m, n>> \in OpToRel(<, Nat))
  <2> HIDE DEF T
  <2> QED
    BY <1>1, NatLessThanWellFounded, WFMin, Zenon
<1>3. n \in Nat /\ n # 0 /\ n - 1 \in Nat /\ (n - 1) + 1 = n
  OBVIOUS
<1>4. n - 1 \notin T
  <2>1. <<n - 1, n>> \in OpToRel(<, Nat)
    BY <1>3 DEF OpToRel
  <2> QED
    BY <2>1, <1>2
<1> QED
  BY <1>3, <1>4

----------------------------------------------------------------------------
(* The total of a function over a finite set.                              *)

Choice(T) == CHOOSE i \in T : TRUE

\* The sums over the sets of D, one place at a time.
IsSum(sum, f, D) ==
    sum = [T \in D |-> IF T = {} THEN 0 ELSE f[Choice(T)] + sum[T \ {Choice(T)}]]

\* The subsets of at most n places.
Upto(S, n) == {T \in SUBSET S : Cardinality(T) <= n}

LEMMA ChoiceIs ==
    ASSUME NEW S, IsFiniteSet(S), NEW T \in SUBSET S, T # {}
    PROVE  /\ Choice(T) \in T /\ T \ {Choice(T)} \in SUBSET S
           /\ Cardinality(T) \in Nat \ {0}
           /\ Cardinality(T \ {Choice(T)}) = Cardinality(T) - 1
<1>1. Choice(T) \in T
  BY DEF Choice
<1>2. IsFiniteSet(T)
  BY FS_Subset
<1> QED
  BY <1>1, <1>2, FS_RemoveElement, FS_CardinalityType, FS_EmptySet

LEMMA SumUpto ==
    ASSUME NEW S, IsFiniteSet(S), NEW f, NEW n \in Nat
    PROVE  \E sum : IsSum(sum, f, Upto(S, n))
<1> DEFINE P == {k \in Nat : \E sum : IsSum(sum, f, Upto(S, k))}
<1>1. 0 \in P
  <2>1. \A T \in Upto(S, 0) : T = {}
    <3> SUFFICES ASSUME NEW T \in SUBSET S, Cardinality(T) <= 0, T # {} PROVE FALSE
      BY DEF Upto
    <3>1. Cardinality(T) \in Nat \ {0}
      BY ChoiceIs
    <3> QED
      BY <3>1
  <2>2. IsSum([T \in Upto(S, 0) |-> 0], f, Upto(S, 0))
    BY <2>1 DEF IsSum
  <2> QED
    BY <2>2
<1>2. ASSUME NEW k \in P PROVE k + 1 \in P
  <2>1. PICK g : IsSum(g, f, Upto(S, k))
    OBVIOUS
  <2> DEFINE h == [T \in Upto(S, k + 1) |->
                    IF T = {} THEN 0 ELSE f[Choice(T)] + g[T \ {Choice(T)}]]
  <2>2. ASSUME NEW T \in Upto(S, k + 1), T # {}
        PROVE  T \ {Choice(T)} \in Upto(S, k) /\ T \ {Choice(T)} \in Upto(S, k + 1)
    <3>1. /\ T \ {Choice(T)} \in SUBSET S /\ Cardinality(T) \in Nat
          /\ Cardinality(T \ {Choice(T)}) = Cardinality(T) - 1
      BY <2>2, ChoiceIs DEF Upto
    <3>2. Cardinality(T) <= k + 1 /\ k \in Nat
      BY DEF Upto
    <3> QED
      BY <3>1, <3>2 DEF Upto
  <2>3. ASSUME NEW T \in Upto(S, k), T \in Upto(S, k + 1) PROVE h[T] = g[T]
    BY <2>1, <2>3 DEF IsSum
  <2>4. \A T \in Upto(S, k + 1) : T # {} => h[T \ {Choice(T)}] = g[T \ {Choice(T)}]
    BY <2>2, <2>3
  <2>5. \A T \in Upto(S, k + 1) :
            h[T] = IF T = {} THEN 0 ELSE f[Choice(T)] + h[T \ {Choice(T)}]
    BY <2>4
  <2>6. IsSum(h, f, Upto(S, k + 1))
    <3>1. h = [T \in Upto(S, k + 1) |-> h[T]]
      OBVIOUS
    <3> HIDE DEF h
    <3> QED
      BY <3>1, <2>5 DEF IsSum
  <2> QED
    BY <2>6
<1>3. P = Nat
  <2> HIDE DEF P
  <2>1. P \in SUBSET Nat
    BY DEF P
  <2> QED
    BY <2>1, <1>1, <1>2, Induction
<1> QED
  BY <1>3

\* The sums that Total ends with.
LEMMA SumIs ==
    ASSUME NEW S, IsFiniteSet(S), NEW f
    PROVE  \E sum : IsSum(sum, f, SUBSET S) /\ Total(f, S) = sum[S]
<1> DEFINE P(g) == g = [T \in SUBSET S |->
                        IF T = {} THEN 0
                        ELSE LET i == CHOOSE i \in T : TRUE IN f[i] + g[T \ {i}]]
<1>1. \A g : P(g) <=> IsSum(g, f, SUBSET S)
  BY DEF IsSum, Choice
<1>2. Cardinality(S) \in Nat /\ Upto(S, Cardinality(S)) = SUBSET S
  <2>1. Cardinality(S) \in Nat
    BY FS_CardinalityType
  <2>2. \A T \in SUBSET S : Cardinality(T) <= Cardinality(S)
    BY FS_Subset
  <2> QED
    BY <2>1, <2>2 DEF Upto
<1>3. \E g : IsSum(g, f, SUBSET S)
  <2>1. PICK n \in Nat : n = Cardinality(S)
    BY <1>2
  <2>2. \E g : IsSum(g, f, Upto(S, n))
    BY SumUpto
  <2> QED
    BY <2>1, <2>2, <1>2
<1>4. P(CHOOSE g : P(g))
  <2> HIDE DEF P
  <2> QED
    BY <1>1, <1>3
<1>5. Total(f, S) = (CHOOSE g : P(g))[S]
  BY DEF Total
<1> QED
  BY <1>1, <1>4, <1>5

LEMMA LessOne ==
    ASSUME NEW S, IsFiniteSet(S), NEW U \in SUBSET S, NEW k \in Nat, Cardinality(U) = k + 1,
           NEW x \in U
    PROVE  Cardinality(U \ {x}) = k /\ U \ {x} \in SUBSET S
<1>1. IsFiniteSet(U)
  BY FS_Subset
<1>2. Cardinality(U \ {x}) = Cardinality(U) - 1
  BY <1>1, FS_RemoveElement
<1> QED
  BY <1>2

LEMMA NoneOf ==
    ASSUME NEW S, IsFiniteSet(S), NEW U \in SUBSET S
    PROVE  (Cardinality(U) = 0 => U = {}) /\ Cardinality(U) \in Nat /\ IsFiniteSet(U)
<1>1. IsFiniteSet(U)
  BY FS_Subset
<1> QED
  BY <1>1, FS_EmptySet, FS_CardinalityType

LEMMA SumType ==
    ASSUME NEW S, IsFiniteSet(S), NEW f \in [S -> Int], NEW sum, IsSum(sum, f, SUBSET S)
    PROVE  \A T \in SUBSET S : sum[T] \in Int
<1> DEFINE P == {k \in Nat : \A U \in SUBSET S : Cardinality(U) = k => sum[U] \in Int}
<1>0. \A U \in SUBSET S :
        sum[U] = IF U = {} THEN 0 ELSE f[Choice(U)] + sum[U \ {Choice(U)}]
  BY DEF IsSum
<1>1. 0 \in P
  <2> SUFFICES ASSUME NEW U \in SUBSET S, Cardinality(U) = 0 PROVE sum[U] \in Int
    OBVIOUS
  <2>1. U = {}
    BY NoneOf
  <2>2. sum[U] = 0
    BY <2>1, <1>0
  <2> QED
    BY <2>2
<1>2. ASSUME NEW k \in P PROVE k + 1 \in P
  <2> SUFFICES ASSUME NEW U \in SUBSET S, Cardinality(U) = k + 1 PROVE sum[U] \in Int
    OBVIOUS
  <2>0. k \in Nat /\ \A V \in SUBSET S : Cardinality(V) = k => sum[V] \in Int
    OBVIOUS
  <2>1. CASE U = {}
    BY <2>1, <1>0
  <2>2. CASE U # {}
    <3>1. PICK c \in U : c = Choice(U)
      BY <2>2, ChoiceIs
    <3>2. Cardinality(U \ {c}) = k /\ U \ {c} \in SUBSET S
      BY <2>0, LessOne
    <3>3. sum[U \ {c}] \in Int /\ f[c] \in Int
      BY <3>2, <2>0
    <3>4. sum[U] = f[c] + sum[U \ {c}]
      BY <3>1, <2>2, <1>0
    <3> QED
      BY <3>3, <3>4
  <2> QED
    BY <2>1, <2>2
<1>3. P = Nat
  <2> HIDE DEF P
  <2>1. P \in SUBSET Nat
    BY DEF P
  <2> QED
    BY <2>1, <1>1, <1>2, Induction
<1> QED
  BY <1>3, NoneOf

\* The sum over T is the same whichever place is taken out first.
AnyFirst(sum, f, T) == \A x \in T : sum[T] = f[x] + sum[T \ {x}]

LEMMA SumRemove ==
    ASSUME NEW S, IsFiniteSet(S), NEW f \in [S -> Int], NEW sum, IsSum(sum, f, SUBSET S)
    PROVE  \A T \in SUBSET S : AnyFirst(sum, f, T)
<1> DEFINE Good(U) == \A x \in U : sum[U] = f[x] + sum[U \ {x}]
           P == {k \in Nat : \A U \in SUBSET S : Cardinality(U) = k => Good(U)}
<1>0. \A U \in SUBSET S :
        sum[U] = IF U = {} THEN 0 ELSE f[Choice(U)] + sum[U \ {Choice(U)}]
  BY DEF IsSum
<1>1. 0 \in P
  <2> SUFFICES ASSUME NEW U \in SUBSET S, Cardinality(U) = 0 PROVE Good(U)
    OBVIOUS
  <2>1. U = {}
    BY NoneOf
  <2> QED
    BY <2>1
<1>2. ASSUME NEW k \in P PROVE k + 1 \in P
  <2> SUFFICES ASSUME NEW U \in SUBSET S, Cardinality(U) = k + 1, NEW x \in U
               PROVE  sum[U] = f[x] + sum[U \ {x}]
    OBVIOUS
  <2>0. k \in Nat /\ \A V \in SUBSET S : Cardinality(V) = k => Good(V)
    OBVIOUS
  <2>1. PICK c \in U : c = Choice(U)
    BY ChoiceIs
  <2>2. sum[U] = f[c] + sum[U \ {c}]
    BY <2>1, <1>0
  <2>3. CASE x = c
    BY <2>2, <2>3
  <2>4. CASE x # c
    <3>1. /\ Cardinality(U \ {x}) = k /\ U \ {x} \in SUBSET S
          /\ Cardinality(U \ {c}) = k /\ U \ {c} \in SUBSET S
      BY <2>0, LessOne
    <3>2. Good(U \ {x}) /\ Good(U \ {c})
      BY <3>1, <2>0
    <3>3. PICK V \in SUBSET S : V = (U \ {x}) \ {c} /\ V = (U \ {c}) \ {x}
      OBVIOUS
    <3>4. x \in U \ {c} /\ c \in U \ {x}
      BY <2>4
    <3>5. sum[U \ {c}] = f[x] + sum[V] /\ sum[U \ {x}] = f[c] + sum[V]
      BY <3>2, <3>3, <3>4
    <3>6. sum[V] \in Int /\ f[x] \in Int /\ f[c] \in Int
      BY SumType
    <3> QED
      BY <3>5, <3>6, <2>2
  <2> QED
    BY <2>3, <2>4
<1>3. P = Nat
  <2> HIDE DEF P
  <2>1. P \in SUBSET Nat
    BY DEF P
  <2> QED
    BY <2>1, <1>1, <1>2, Induction
<1> QED
  BY <1>3, NoneOf DEF AnyFirst

\* The total of a function that agrees with another on a part of its places.
LEMMA SumSame ==
    ASSUME NEW S, IsFiniteSet(S), NEW R \in SUBSET S, NEW f, NEW g,
           \A x \in R : f[x] = g[x], NEW sum, IsSum(sum, f, SUBSET S)
    PROVE  Total(g, R) = sum[R]
<1>r. IsFiniteSet(R)
  BY FS_Subset
<1>t. PICK tot : IsSum(tot, g, SUBSET R) /\ Total(g, R) = tot[R]
  BY <1>r, SumIs
<1> DEFINE P == {k \in Nat : \A U \in SUBSET R : Cardinality(U) = k => sum[U] = tot[U]}
<1>0. \A U \in SUBSET R :
        /\ sum[U] = IF U = {} THEN 0 ELSE f[Choice(U)] + sum[U \ {Choice(U)}]
        /\ tot[U] = IF U = {} THEN 0 ELSE g[Choice(U)] + tot[U \ {Choice(U)}]
  BY <1>t DEF IsSum
<1>1. 0 \in P
  <2> SUFFICES ASSUME NEW U \in SUBSET R, Cardinality(U) = 0 PROVE sum[U] = tot[U]
    OBVIOUS
  <2>1. U = {}
    BY <1>r, NoneOf
  <2> QED
    BY <2>1, <1>0
<1>2. ASSUME NEW k \in P PROVE k + 1 \in P
  <2> SUFFICES ASSUME NEW U \in SUBSET R, Cardinality(U) = k + 1 PROVE sum[U] = tot[U]
    OBVIOUS
  <2>0. k \in Nat /\ \A V \in SUBSET R : Cardinality(V) = k => sum[V] = tot[V]
    OBVIOUS
  <2>1. CASE U = {}
    BY <2>1, <1>0
  <2>2. CASE U # {}
    <3>1. PICK c \in U : c = Choice(U)
      BY <2>2, <1>r, ChoiceIs
    <3>2. Cardinality(U \ {c}) = k /\ U \ {c} \in SUBSET R
      BY <2>0, <1>r, LessOne
    <3>3. sum[U \ {c}] = tot[U \ {c}] /\ f[c] = g[c]
      BY <3>2, <2>0
    <3> QED
      BY <3>1, <3>3, <2>2, <1>0
  <2> QED
    BY <2>1, <2>2
<1>3. P = Nat
  <2> HIDE DEF P
  <2>1. P \in SUBSET Nat
    BY DEF P
  <2> QED
    BY <2>1, <1>1, <1>2, Induction
<1>4. \A U \in SUBSET R : sum[U] = tot[U]
  BY <1>3, <1>r, NoneOf
<1> QED
  BY <1>4, <1>t

\* What Total ends with, and how its sums are related.
LEMMA SumFacts ==
    ASSUME NEW S, IsFiniteSet(S), NEW f \in [S -> Int]
    PROVE  \E sum : /\ IsSum(sum, f, SUBSET S) /\ Total(f, S) = sum[S]
                    /\ \A T \in SUBSET S : sum[T] \in Int
                    /\ \A T \in SUBSET S : AnyFirst(sum, f, T)
<1>1. PICK sum : IsSum(sum, f, SUBSET S) /\ Total(f, S) = sum[S]
  BY SumIs
<1>2. \A T \in SUBSET S : sum[T] \in Int
  BY <1>1, SumType
<1>3. \A T \in SUBSET S : AnyFirst(sum, f, T)
  BY <1>1, SumRemove
<1> QED
  BY <1>1, <1>2, <1>3

\* One more place adds its value to the total.
LEMMA TotalAdd ==
    ASSUME NEW R, IsFiniteSet(R), NEW S \in SUBSET R, NEW x \in R,
           \A y \in R : y \in S <=> y # x,
           NEW f \in [R -> Int], NEW g \in [S -> Int], \A i \in S : f[i] = g[i]
    PROVE  Total(g, S) \in Int /\ Total(f, R) = Total(g, S) + f[x]
<1>1. PICK sum : /\ IsSum(sum, f, SUBSET R) /\ Total(f, R) = sum[R]
                 /\ \A T \in SUBSET R : sum[T] \in Int
                 /\ \A T \in SUBSET R : AnyFirst(sum, f, T)
  BY SumFacts
<1>2. Total(g, S) = sum[S]
  BY <1>1, SumSame
<1>3. sum[R] = f[x] + sum[S]
  <2>1. R \ {x} = S
    OBVIOUS
  <2>2. sum[R] = f[x] + sum[R \ {x}]
    BY <1>1 DEF AnyFirst
  <2> QED
    BY <2>1, <2>2
<1>4. sum[S] \in Int /\ f[x] \in Int
  BY <1>1
<1> QED
  BY <1>1, <1>2, <1>3, <1>4

LEMMA TotalNone ==
    ASSUME NEW f
    PROVE  Total(f, {}) = 0
<1>1. IsFiniteSet({})
  BY FS_EmptySet
<1>2. PICK sum : IsSum(sum, f, SUBSET {}) /\ Total(f, {}) = sum[{}]
  BY <1>1, SumIs
<1> QED
  BY <1>2 DEF IsSum

----------------------------------------------------------------------------
(* What an aggregate says of a set of trades.                              *)

\* It opens with an earliest and closes with a latest one.
Ends(q, a, S) ==
    /\ \E i \in S : a.open = q[i].price /\ a.first = q[i].time
    /\ \E i \in S : a.close = q[i].price /\ a.last = q[i].time
    /\ \A i \in S : a.first <= q[i].time /\ q[i].time <= a.last

Extremes(q, a, S) ==
    /\ \A i \in S : a.low <= q[i].price /\ q[i].price <= a.high
    /\ (\E i \in S : a.low = q[i].price) /\ \E i \in S : a.high = q[i].price

Sums(q, a, S) ==
    /\ a.volume = Total([i \in S |-> q[i].size], S)
    /\ a.notional = Total([i \in S |-> q[i].price * q[i].size], S)
    /\ a.count = Cardinality(S)

Describes(q, a, S) == a \in Filled /\ Ends(q, a, S) /\ Extremes(q, a, S) /\ Sums(q, a, S)

\* One more trade adds its size, its amount and one to the sums.
LEMMA SumsAdd ==
    ASSUME NEW q \in Seq(Trade), NEW R \in SUBSET DOMAIN q, NEW S \in SUBSET R, NEW i \in R,
           \A k \in R : k \in S <=> k # i
    PROVE  /\ Total([k \in R |-> q[k].size], R) = Total([k \in S |-> q[k].size], S) + q[i].size
           /\ Total([k \in R |-> q[k].price * q[k].size], R)
                = Total([k \in S |-> q[k].price * q[k].size], S) + q[i].price * q[i].size
           /\ Cardinality(R) = Cardinality(S) + 1
           /\ Total([k \in S |-> q[k].size], S) \in Int
           /\ Total([k \in S |-> q[k].price * q[k].size], S) \in Int
           /\ Cardinality(S) \in Nat
<1>1. IsFiniteSet(R) /\ IsFiniteSet(S) /\ S = R \ {i}
  <2>1. DOMAIN q = 1 .. Len(q) /\ Len(q) \in Nat
    OBVIOUS
  <2>2. IsFiniteSet(DOMAIN q)
    BY <2>1, FS_Interval
  <2> QED
    BY <2>2, FS_Subset
<1>2. Cardinality(S) = Cardinality(R) - 1 /\ Cardinality(S) \in Nat /\ Cardinality(R) \in Nat
  BY <1>1, FS_RemoveElement, FS_CardinalityType
<1>3. \A k \in R : q[k].size \in Int /\ q[k].price \in Int
  <2>1. \A k \in R : q[k] \in Trade
    OBVIOUS
  <2> QED
    BY <2>1 DEF Trade
<1>4. \A k \in R : q[k].price * q[k].size \in Int
  BY <1>3
<1>5. /\ Total([k \in S |-> q[k].size], S) \in Int
      /\ Total([k \in R |-> q[k].size], R) = Total([k \in S |-> q[k].size], S) + q[i].size
  <2>1. PICK f \in [R -> Int] : f = [k \in R |-> q[k].size]
    BY <1>3
  <2>2. PICK g \in [S -> Int] : g = [k \in S |-> q[k].size]
    BY <1>3
  <2>3. (\A k \in S : f[k] = g[k]) /\ f[i] = q[i].size
    BY <2>1, <2>2
  <2>4. Total(g, S) \in Int /\ Total(f, R) = Total(g, S) + f[i]
    BY <2>3, <1>1, TotalAdd
  <2> QED
    BY <2>1, <2>2, <2>3, <2>4
<1>6. /\ Total([k \in S |-> q[k].price * q[k].size], S) \in Int
      /\ Total([k \in R |-> q[k].price * q[k].size], R)
            = Total([k \in S |-> q[k].price * q[k].size], S) + q[i].price * q[i].size
  <2>1. PICK f \in [R -> Int] : f = [k \in R |-> q[k].price * q[k].size]
    BY <1>4
  <2>2. PICK g \in [S -> Int] : g = [k \in S |-> q[k].price * q[k].size]
    BY <1>4
  <2>3. \A k \in S : f[k] = g[k]
    BY <2>1, <2>2
  <2>4. f[i] = q[i].price * q[i].size
    BY <2>1
  <2>5. Total(g, S) \in Int /\ Total(f, R) = Total(g, S) + f[i]
    BY <2>3, <1>1, TotalAdd
  <2> QED
    BY <2>1, <2>2, <2>4, <2>5
<1> QED
  BY <1>2, <1>5, <1>6

LEMMA TradeIs ==
    ASSUME NEW q \in Seq(Trade), NEW i \in DOMAIN q
    PROVE  /\ q[i] \in Trade /\ q[i].time \in Nat /\ q[i].price \in Nat /\ q[i].size \in Nat
           /\ q[i].price * q[i].size \in Int
<1>1. q[i] \in Trade
  OBVIOUS
<1>2. q[i].time \in Nat /\ q[i].price \in Nat /\ q[i].size \in Nat
  BY <1>1 DEF Trade
<1> QED
  BY <1>1, <1>2

\* The first trade of a window.
LEMMA DescribesFirst ==
    ASSUME NEW q \in Seq(Trade), NEW i \in DOMAIN q
    PROVE  Describes(q, add(empty, q[i]), {i})
<1>0. /\ q[i] \in Trade /\ q[i].time \in Nat /\ q[i].price \in Nat /\ q[i].size \in Nat
      /\ q[i].price * q[i].size \in Int
  BY TradeIs
<1>1. add(empty, q[i]) = single(q[i])
  BY DEF add, empty
<1>2. single(q[i]) \in Filled
  BY <1>0, SingleFilled
<1>3. Ends(q, single(q[i]), {i})
  BY <1>0 DEF Ends, single
<1>4. Extremes(q, single(q[i]), {i})
  BY <1>0 DEF Extremes, single
<1>5. Sums(q, single(q[i]), {i})
  <2>0. {i} \in SUBSET DOMAIN q /\ {} \in SUBSET {i} /\ i \in {i} /\ \A k \in {i} : k \in {} <=> k # i
    OBVIOUS
  <2>1. /\ Total([k \in {i} |-> q[k].size], {i}) = Total([k \in {} |-> q[k].size], {}) + q[i].size
        /\ Total([k \in {i} |-> q[k].price * q[k].size], {i})
                = Total([k \in {} |-> q[k].price * q[k].size], {}) + q[i].price * q[i].size
    <3>1. PICK R \in SUBSET DOMAIN q : R = {i}
      OBVIOUS
    <3>2. PICK S \in SUBSET R : S = {}
      OBVIOUS
    <3>3. i \in R /\ \A k \in R : k \in S <=> k # i
      BY <3>1, <3>2
    <3>4. Total([k \in R |-> q[k].size], R) = Total([k \in S |-> q[k].size], S) + q[i].size
      BY <3>3, SumsAdd
    <3>5. Total([k \in R |-> q[k].price * q[k].size], R)
                = Total([k \in S |-> q[k].price * q[k].size], S) + q[i].price * q[i].size
      BY <3>3, SumsAdd
    <3> QED
      BY <3>1, <3>2, <3>4, <3>5
  <2>2. /\ Total([k \in {} |-> q[k].size], {}) = 0
        /\ Total([k \in {} |-> q[k].price * q[k].size], {}) = 0
    BY TotalNone
  <2>3. Cardinality({i}) = 1
    BY FS_Singleton
  <2>4. /\ single(q[i]).volume = q[i].size /\ single(q[i]).count = 1
        /\ single(q[i]).notional = q[i].price * q[i].size
    BY DEF single
  <2>5. Total([k \in {i} |-> q[k].size], {i}) = q[i].size
    BY <2>1, <2>2, <1>0
  <2>6. Total([k \in {i} |-> q[k].price * q[k].size], {i}) = q[i].price * q[i].size
    BY <2>1, <2>2, <1>0
  <2> QED
    BY <2>3, <2>4, <2>5, <2>6 DEF Sums
<1> QED
  BY <1>1, <1>2, <1>3, <1>4, <1>5 DEF Describes

\* The fields of an aggregate of trades after one more.
LEMMA AddIs ==
    ASSUME NEW a \in Filled, NEW t \in Trade
    PROVE  /\ add(a, t) \in Filled
           /\ add(a, t).open = IF t.time < a.first THEN t.price ELSE a.open
           /\ add(a, t).close = IF t.time >= a.last THEN t.price ELSE a.close
           /\ add(a, t).first = Least(a.first, t.time)
           /\ add(a, t).last = Greatest(a.last, t.time)
           /\ add(a, t).high = Greatest(a.high, t.price)
           /\ add(a, t).low = Least(a.low, t.price)
           /\ add(a, t).volume = a.volume + t.size
           /\ add(a, t).notional = a.notional + t.price * t.size
           /\ add(a, t).count = a.count + 1
<1>1. a.count # 0
  BY DEF Filled
<1>2. add(a, t) = [open     |-> IF t.time < a.first THEN t.price ELSE a.open,
                   high     |-> Greatest(a.high, t.price),
                   low      |-> Least(a.low, t.price),
                   close    |-> IF t.time >= a.last THEN t.price ELSE a.close,
                   volume   |-> a.volume + t.size,
                   notional |-> a.notional + t.price * t.size,
                   count    |-> a.count + 1,
                   first    |-> Least(a.first, t.time),
                   last     |-> Greatest(a.last, t.time)]
  BY <1>1 DEF add
<1>3. a.notional + t.price * t.size \in Int
  <2>1. t.price * t.size \in Int
    BY DEF Trade
  <2> QED
    BY <2>1 DEF Filled
<1>4. add(a, t) \in Filled
  BY <1>2, <1>3 DEF Filled, Trade, Greatest, Least
<1> QED
  BY <1>2, <1>4

\* One more trade of a window.
LEMMA DescribesAdd ==
    ASSUME NEW q \in Seq(Trade), NEW R \in SUBSET DOMAIN q, NEW S \in SUBSET R, NEW i \in R,
           \A k \in R : k \in S <=> k # i, NEW a, Describes(q, a, S)
    PROVE  Describes(q, add(a, q[i]), R)
<1>1. /\ a \in Filled /\ Ends(q, a, S) /\ Extremes(q, a, S) /\ Sums(q, a, S)
  BY DEF Describes
<1>2. /\ q[i] \in Trade /\ q[i].time \in Nat /\ q[i].price \in Nat
      /\ \A k \in R : q[k].time \in Nat /\ q[k].price \in Nat
  BY TradeIs
<1>3. PICK b : b = add(a, q[i])
  OBVIOUS
<1>4. b \in Filled
  BY <1>1, <1>2, <1>3, AddIs
<1>5. a.first \in Int /\ a.last \in Int /\ a.high \in Int /\ a.low \in Int
  BY <1>1 DEF Filled
<1>6. Ends(q, b, R)
  <2>1. /\ b.open = IF q[i].time < a.first THEN q[i].price ELSE a.open
        /\ b.first = IF a.first <= q[i].time THEN a.first ELSE q[i].time
    BY <1>1, <1>2, <1>3, AddIs DEF Least
  <2>2. /\ b.close = IF q[i].time >= a.last THEN q[i].price ELSE a.close
        /\ b.last = IF a.last >= q[i].time THEN a.last ELSE q[i].time
    BY <1>1, <1>2, <1>3, AddIs DEF Greatest
  <2>3. \E k \in R : b.open = q[k].price /\ b.first = q[k].time
    <3>1. CASE q[i].time < a.first
      BY <3>1, <2>1, <1>2, <1>5
    <3>2. CASE ~(q[i].time < a.first)
      BY <3>2, <2>1, <1>1, <1>2, <1>5 DEF Ends
    <3> QED
      BY <3>1, <3>2
  <2>4. \E k \in R : b.close = q[k].price /\ b.last = q[k].time
    <3>1. CASE q[i].time >= a.last
      BY <3>1, <2>2, <1>2, <1>5
    <3>2. CASE ~(q[i].time >= a.last)
      BY <3>2, <2>2, <1>1, <1>2, <1>5 DEF Ends
    <3> QED
      BY <3>1, <3>2
  <2>5. ASSUME NEW k \in R PROVE b.first <= q[k].time /\ q[k].time <= b.last
    <3>1. CASE k = i
      BY <3>1, <2>1, <2>2, <1>2, <1>5
    <3>2. CASE k # i
      <4>1. a.first <= q[k].time /\ q[k].time <= a.last /\ q[k].time \in Nat
        BY <3>2, <1>1, <1>2 DEF Ends
      <4> QED
        BY <4>1, <2>1, <2>2, <1>2, <1>5
    <3> QED
      BY <3>1, <3>2
  <2> QED
    BY <2>3, <2>4, <2>5 DEF Ends
<1>7. Extremes(q, b, R)
  <2>1. /\ b.low = IF a.low <= q[i].price THEN a.low ELSE q[i].price
        /\ b.high = IF a.high >= q[i].price THEN a.high ELSE q[i].price
    BY <1>1, <1>2, <1>3, AddIs DEF Least, Greatest
  <2>2. \E k \in R : b.low = q[k].price
    BY <2>1, <1>1 DEF Extremes
  <2>3. \E k \in R : b.high = q[k].price
    BY <2>1, <1>1 DEF Extremes
  <2>4. ASSUME NEW k \in R PROVE b.low <= q[k].price /\ q[k].price <= b.high
    <3>1. CASE k = i
      BY <3>1, <2>1, <1>2, <1>5
    <3>2. CASE k # i
      <4>1. a.low <= q[k].price /\ q[k].price <= a.high /\ q[k].price \in Nat
        BY <3>2, <1>1, <1>2 DEF Extremes
      <4> QED
        BY <4>1, <2>1, <1>2, <1>5
    <3> QED
      BY <3>1, <3>2
  <2> QED
    BY <2>2, <2>3, <2>4 DEF Extremes
<1>8. Sums(q, b, R)
  <2>1. b.volume = a.volume + q[i].size
    BY <1>1, <1>2, <1>3, AddIs
  <2>2. b.notional = a.notional + q[i].price * q[i].size
    BY <1>1, <1>2, <1>3, AddIs
  <2>3. b.count = a.count + 1
    BY <1>1, <1>2, <1>3, AddIs
  <2>4. Total([k \in R |-> q[k].size], R) = Total([k \in S |-> q[k].size], S) + q[i].size
    BY SumsAdd
  <2>5. Total([k \in R |-> q[k].price * q[k].size], R)
            = Total([k \in S |-> q[k].price * q[k].size], S) + q[i].price * q[i].size
    BY SumsAdd
  <2>6. Cardinality(R) = Cardinality(S) + 1
    BY SumsAdd
  <2>7. b.volume = Total([k \in R |-> q[k].size], R)
    BY <2>1, <2>4, <1>1 DEF Sums
  <2>8. b.notional = Total([k \in R |-> q[k].price * q[k].size], R)
    BY <2>2, <2>5, <1>1 DEF Sums
  <2>9. b.count = Cardinality(R)
    BY <2>3, <2>6, <1>1 DEF Sums
  <2> QED
    BY <2>7, <2>8, <2>9 DEF Sums
<1> QED
  BY <1>3, <1>4, <1>6, <1>7, <1>8 DEF Describes

\* Trades whose times tell them apart have one bar.
LEMMA OneBar ==
    ASSUME NEW q \in Seq(Trade), NEW S \in SUBSET DOMAIN q,
           \A i, k \in S : q[i].time = q[k].time => i = k,
           NEW a, Describes(q, a, S), NEW b, Describes(q, b, S)
    PROVE  toBar(a) = toBar(b)
<1>0. \A i \in S : q[i].time \in Nat /\ q[i].price \in Nat
  BY TradeIs
<1>1. a.open = b.open
  <2>1. PICK i \in S : a.open = q[i].price /\ a.first = q[i].time
    BY DEF Describes, Ends
  <2>2. PICK k \in S : b.open = q[k].price /\ b.first = q[k].time
    BY DEF Describes, Ends
  <2>3. q[i].time <= q[k].time /\ q[k].time <= q[i].time
    BY <2>1, <2>2 DEF Describes, Ends
  <2>4. q[i].time = q[k].time
    BY <2>3, <1>0
  <2> QED
    BY <2>1, <2>2, <2>4
<1>2. a.close = b.close
  <2>1. PICK i \in S : a.close = q[i].price /\ a.last = q[i].time
    BY DEF Describes, Ends
  <2>2. PICK k \in S : b.close = q[k].price /\ b.last = q[k].time
    BY DEF Describes, Ends
  <2>3. q[i].time <= q[k].time /\ q[k].time <= q[i].time
    BY <2>1, <2>2 DEF Describes, Ends
  <2>4. q[i].time = q[k].time
    BY <2>3, <1>0
  <2> QED
    BY <2>1, <2>2, <2>4
<1>3. a.low = b.low /\ a.high = b.high
  <2>1. PICK i \in S, k \in S : a.low = q[i].price /\ b.low = q[k].price
    BY DEF Describes, Extremes
  <2>2. PICK m \in S, n \in S : a.high = q[m].price /\ b.high = q[n].price
    BY DEF Describes, Extremes
  <2>3. q[i].price <= q[k].price /\ q[k].price <= q[i].price
    BY <2>1 DEF Describes, Extremes
  <2>4. q[m].price <= q[n].price /\ q[n].price <= q[m].price
    BY <2>2 DEF Describes, Extremes
  <2> QED
    BY <2>1, <2>2, <2>3, <2>4, <1>0
<1>4. a.volume = b.volume /\ a.notional = b.notional /\ a.count = b.count
  BY DEF Describes, Sums
<1> QED
  BY <1>1, <1>2, <1>3, <1>4 DEF toBar

----------------------------------------------------------------------------
(* The jobs.                                                               *)

Bar == [open : Int, high : Int, low : Int, close : Int, volume : Int, notional : Int,
        count : Int]

WindowTypes ==
    /\ log \in Log
    /\ unread \in [Job -> SUBSET DOMAIN log] /\ taken \in [Job -> SUBSET DOMAIN log]
    /\ acc \in [Job -> [Windows -> Aggregate]]
    /\ high \in [Job -> Int] /\ watermark \in [Job -> Int]
    /\ bars \in [Job -> [Windows -> Bar \cup {NoBar}]]

\* The aggregate of a window that is open describes the trades taken into it,
\* and so does its bar once the watermark has passed; nothing is taken then.
WindowInv(j, w) ==
    /\ TakenOf(j, w) = {} \/ Past(w, watermark[j]) => acc[j][w] = empty
    /\ ~(TakenOf(j, w) = {} \/ Past(w, watermark[j])) =>
            Describes(log, acc[j][w], TakenOf(j, w))
    /\ bars[j][w] # NoBar =>
            /\ Past(w, watermark[j])
            /\ \E a : Describes(log, a, TakenOf(j, w)) /\ bars[j][w] = toBar(a)

\* As long as the backfill has trades to read, its watermark is before all of
\* them, so that it drops none of a window it can replay.
BackfillInv ==
    /\ high["backfill"] < backfillEnd
    /\ \A i \in unread["backfill"] : Selected("backfill", i)
    /\ unread["backfill"] # {} => watermark["backfill"] < backfillStart
    /\ \A i \in DOMAIN log :
            Replayable(WindowOf(i)) => i \in unread["backfill"] \/ i \in taken["backfill"]

JobsInv ==
    /\ WindowTypes
    /\ \A j \in Job : taken[j] \cap unread[j] = {}
    /\ \A j \in Job, w \in Windows : WindowInv(j, w)
    /\ BackfillInv

\* A window holds the times from its beginning to its end.
LEMMA DivIs ==
    ASSUME NEW t \in Nat, NEW n \in Nat \ {0}
    PROVE  t \div n \in Nat /\ (t \div n) * n <= t /\ t < ((t \div n) + 1) * n
OBVIOUS

LEMMA WindowIs ==
    ASSUME log \in Log, NEW i \in DOMAIN log
    PROVE  /\ log \in Seq(Trade) /\ log[i] \in Trade /\ log[i].time \in Nat
           /\ WindowOf(i) \in Windows /\ WindowOf(i) \in Nat
           /\ WindowOf(i) * windowSize <= log[i].time
           /\ log[i].time < (WindowOf(i) + 1) * windowSize
<1>1. log \in Seq(Trade) /\ windowSize \in Nat \ {0}
  BY WindowAssumption
<1>2. log[i] \in Trade /\ log[i].time \in Nat
  BY <1>1, TradeIs
<1>3. WindowOf(i) \in Windows
  BY DEF Windows
<1>4. /\ WindowOf(i) \in Nat /\ WindowOf(i) * windowSize <= log[i].time
      /\ log[i].time < (WindowOf(i) + 1) * windowSize
  BY <1>1, <1>2, DivIs DEF WindowOf
<1> QED
  BY <1>1, <1>2, <1>3, <1>4

LEMMA WindowsNat ==
    ASSUME log \in Log
    PROVE  log \in Seq(Trade) /\ \A w \in Windows : w \in Nat
BY WindowIs, WindowAssumption DEF Windows

\* What the watermark has passed it has passed for good.
LEMMA PastStays ==
    ASSUME NEW w \in Nat, NEW m \in Int, NEW n \in Int, m < n, Past(w, m)
    PROVE  Past(w, n)
<1>1. (w + 1) * windowSize \in Int
  BY WindowAssumption
<1> QED
  BY <1>1 DEF Past

\* A window that can be replayed lies within the range of the backfill.
LEMMA ReplayableIs ==
    ASSUME log \in Log, NEW i \in DOMAIN log, Replayable(WindowOf(i))
    PROVE  /\ Selected("backfill", i)
           /\ \A m \in Int : m < backfillStart => ~Past(WindowOf(i), m)
<1>1. /\ log[i].time \in Nat /\ WindowOf(i) \in Nat
      /\ WindowOf(i) * windowSize <= log[i].time
      /\ log[i].time < (WindowOf(i) + 1) * windowSize
  BY WindowIs
<1>2. /\ backfillStart <= WindowOf(i) * windowSize
      /\ (WindowOf(i) + 1) * windowSize <= backfillEnd
  BY DEF Replayable
<1>3. windowSize \in Nat \ {0} /\ backfillStart \in Nat /\ backfillEnd \in Nat
  BY WindowAssumption
<1>4. /\ WindowOf(i) * windowSize \in Nat
      /\ (WindowOf(i) + 1) * windowSize = WindowOf(i) * windowSize + windowSize
  BY <1>1, <1>3
<1>5. Selected("backfill", i)
  BY <1>1, <1>2, <1>3, <1>4 DEF Selected
<1>6. \A m \in Int : m < backfillStart => ~Past(WindowOf(i), m)
  BY <1>2, <1>3, <1>4 DEF Past
<1> QED
  BY <1>5, <1>6

LEMMA EmptyIs == empty \in Aggregate /\ empty.count = 0
BY DEF empty, Aggregate

LEMMA JobsInit == Init => JobsInv
<1> SUFFICES ASSUME Init PROVE JobsInv
  OBVIOUS
<1>1. log \in Log
  BY DEF Init
<1>2. WindowTypes
  <2>1. unread \in [Job -> SUBSET DOMAIN log] /\ taken \in [Job -> SUBSET DOMAIN log]
    BY DEF Init
  <2>2. acc \in [Job -> [Windows -> Aggregate]]
    BY EmptyIs DEF Init
  <2>3. high \in [Job -> Int] /\ watermark \in [Job -> Int]
    BY DEF Init
  <2>4. bars \in [Job -> [Windows -> Bar \cup {NoBar}]]
    BY DEF Init
  <2> QED
    BY <1>1, <2>1, <2>2, <2>3, <2>4 DEF WindowTypes
<1>3. ASSUME NEW j \in Job, NEW w \in Windows PROVE WindowInv(j, w)
  <2>1. taken[j] = {} /\ acc[j][w] = empty /\ bars[j][w] = NoBar
    BY DEF Init
  <2>2. TakenOf(j, w) = {}
    BY <2>1 DEF TakenOf
  <2> QED
    BY <2>1, <2>2 DEF WindowInv
<1>4. BackfillInv
  <2>0. "backfill" \in Job
    BY DEF Job
  <2>1. high["backfill"] = -1 /\ watermark["backfill"] = -1
    BY <2>0 DEF Init
  <2>2. unread["backfill"] = {i \in DOMAIN log : Selected("backfill", i)}
    BY <2>0 DEF Init
  <2>3. \A i \in DOMAIN log : Replayable(WindowOf(i)) => i \in unread["backfill"]
    BY <2>2, <1>1, ReplayableIs
  <2>4. -1 < backfillEnd /\ -1 < backfillStart
    BY WindowAssumption
  <2> QED
    BY <2>1, <2>2, <2>3, <2>4 DEF BackfillInv
<1>5. \A j \in Job : taken[j] \cap unread[j] = {}
  BY DEF Init
<1> QED
  BY <1>2, <1>3, <1>4, <1>5 DEF JobsInv

\* The windows are those of the log, which does not change.
LEMMA LogKept ==
    ASSUME log' = log
    PROVE  /\ Windows' = Windows
           /\ \A i \in DOMAIN log : WindowOf(i)' = WindowOf(i)
           /\ \A w : Replayable(w)' <=> Replayable(w)
           /\ \A j, i : Selected(j, i)' <=> Selected(j, i)
BY DEF Windows, WindowOf, Replayable, Selected

\* The watermark moves on: a window that it passes has its bar.
LEMMA JobsFire ==
    ASSUME JobsInv, NEW j \in Job, NEW mark \in Int, Fire(j, mark),
           j = "backfill" /\ unread["backfill"] # {} => mark < backfillStart
    PROVE  JobsInv'
<1>0. WindowTypes /\ log \in Log /\ log' = log /\ unread' = unread /\ high' = high /\ taken' = taken
  BY DEF JobsInv, WindowTypes, Fire
<1>1. Windows' = Windows /\ \A w \in Windows : w \in Nat
  BY <1>0, LogKept, WindowsNat
<1>2. /\ mark > watermark[j] /\ watermark' = [watermark EXCEPT ![j] = mark]
      /\ bars' = [bars EXCEPT ![j] = [w \in Windows |->
                    IF Past(w, mark) /\ acc[j][w].count # 0 THEN toBar(acc[j][w])
                    ELSE bars[j][w]]]
      /\ acc' = [acc EXCEPT ![j] = [w \in Windows |->
                    IF Past(w, mark) THEN empty ELSE acc[j][w]]]
  BY DEF Fire
<1>3. /\ watermark'[j] = mark /\ \A k \in Job : k # j => watermark'[k] = watermark[k]
      /\ watermark' \in [Job -> Int] /\ watermark[j] \in Int
  BY <1>0, <1>2 DEF WindowTypes
<1>4. /\ \A w \in Windows : acc'[j][w] = IF Past(w, mark) THEN empty ELSE acc[j][w]
      /\ \A k \in Job : k # j => acc'[k] = acc[k]
  BY <1>0, <1>2 DEF WindowTypes
<1>5. /\ \A w \in Windows : bars'[j][w] = IF Past(w, mark) /\ acc[j][w].count # 0
                                         THEN toBar(acc[j][w]) ELSE bars[j][w]
      /\ \A k \in Job : k # j => bars'[k] = bars[k]
  BY <1>0, <1>2 DEF WindowTypes
<1>6. ASSUME NEW w \in Windows PROVE acc[j][w] \in Aggregate /\ bars[j][w] \in Bar \cup {NoBar}
  BY <1>0 DEF WindowTypes
<1>7. WindowTypes'
  <2>1. acc' \in [Job -> [Windows -> Aggregate]]
    <3>1. [w \in Windows |-> IF Past(w, mark) THEN empty ELSE acc[j][w]] \in [Windows -> Aggregate]
      BY <1>6, EmptyIs
    <3> QED
      BY <3>1, <1>0, <1>2 DEF WindowTypes
  <2>2. bars' \in [Job -> [Windows -> Bar \cup {NoBar}]]
    <3>1. ASSUME NEW w \in Windows, acc[j][w].count # 0 PROVE toBar(acc[j][w]) \in Bar
      <4>1. acc[j][w] \in Filled
        BY <3>1, <1>6, EmptyIs DEF Aggregate
      <4> QED
        BY <4>1 DEF toBar, Bar, Filled
    <3>2. [w \in Windows |-> IF Past(w, mark) /\ acc[j][w].count # 0 THEN toBar(acc[j][w])
                             ELSE bars[j][w]] \in [Windows -> Bar \cup {NoBar}]
      BY <3>1, <1>6
    <3> QED
      BY <3>2, <1>0, <1>2 DEF WindowTypes
  <2> QED
    BY <2>1, <2>2, <1>0, <1>1, <1>3 DEF WindowTypes
<1>8. ASSUME NEW k \in Job, NEW w \in Windows PROVE WindowInv(k, w)'
  <2>0. WindowInv(k, w) /\ TakenOf(k, w)' = TakenOf(k, w)
    BY <1>0 DEF JobsInv, TakenOf, WindowOf
  <2>1. CASE k # j
    <3>1. /\ acc'[k][w] = acc[k][w] /\ bars'[k][w] = bars[k][w]
          /\ watermark'[k] = watermark[k]
      BY <2>1, <1>3, <1>4, <1>5
    <3>2. Past(w, watermark[k])' <=> Past(w, watermark[k])
      BY <3>1 DEF Past
    <3> QED
      BY <3>1, <3>2, <2>0, <1>0 DEF WindowInv
  <2>2. CASE k = j
    <3>1. Past(w, watermark[j]) => Past(w, mark)
      BY <1>1, <1>2, <1>3, PastStays
    <3>2. Past(w, watermark[j])' <=> Past(w, mark)
      BY <1>3 DEF Past
    <3>3. CASE Past(w, mark)
      <4>1. acc'[j][w] = empty
        BY <3>3, <1>4
      <4>2. CASE acc[j][w].count # 0
        <5>1. bars'[j][w] = toBar(acc[j][w]) /\ acc[j][w] # empty
          BY <4>2, <3>3, <1>5, EmptyIs
        <5>2. Describes(log, acc[j][w], TakenOf(j, w))
          BY <5>1, <2>0, <2>2 DEF WindowInv
        <5> QED
          BY <5>1, <5>2, <4>1, <3>2, <3>3, <2>0, <2>2, <1>0 DEF WindowInv
      <4>3. CASE acc[j][w].count = 0
        <5>1. bars'[j][w] = bars[j][w]
          BY <4>3, <1>5
        <5> QED
          BY <5>1, <4>1, <3>2, <3>3, <2>0, <2>2, <1>0 DEF WindowInv
      <4> QED
        BY <4>2, <4>3
    <3>4. CASE ~Past(w, mark)
      <4>1. acc'[j][w] = acc[j][w] /\ bars'[j][w] = bars[j][w]
        BY <3>4, <1>4, <1>5
      <4> QED
        BY <4>1, <3>1, <3>2, <3>4, <2>0, <2>2, <1>0 DEF WindowInv
    <3> QED
      BY <3>3, <3>4
  <2> QED
    BY <2>1, <2>2
<1>9. BackfillInv'
  <2>0. BackfillInv
    BY DEF JobsInv
  <2>1. unread["backfill"] # {} => watermark'["backfill"] < backfillStart
    <3>1. CASE j = "backfill"
      BY <3>1, <1>3
    <3>2. CASE j # "backfill"
      <4>1. watermark'["backfill"] = watermark["backfill"]
        BY <3>2, <1>3 DEF Job
      <4> QED
        BY <4>1, <2>0 DEF BackfillInv
    <3> QED
      BY <3>1, <3>2
  <2>2. \A i \in unread["backfill"] : Selected("backfill", i)'
    BY <2>0, <1>0, LogKept DEF BackfillInv
  <2>3. \A i \in DOMAIN log : Replayable(WindowOf(i))' =>
            i \in unread["backfill"] \/ i \in taken["backfill"]
    <3> SUFFICES ASSUME NEW i \in DOMAIN log, Replayable(WindowOf(i))'
                 PROVE  Replayable(WindowOf(i))
      BY <2>0 DEF BackfillInv
    <3> QED
      BY <1>0 DEF Replayable, WindowOf
  <2> QED
    BY <2>0, <2>1, <2>2, <2>3, <1>0 DEF BackfillInv
<1> QED
  BY <1>0, <1>1, <1>7, <1>8, <1>9 DEF JobsInv

\* A trade is read: it is dropped, or becomes one more of those its window has.
LEMMA JobsRead ==
    ASSUME JobsInv, NEW j \in Job, NEW i \in DOMAIN log, Read(j, i)
    PROVE  JobsInv'
<1>0. /\ WindowTypes /\ log \in Log /\ log' = log /\ watermark' = watermark /\ bars' = bars
      /\ i \in unread[j] /\ i \notin taken[j]
      /\ high' = [high EXCEPT ![j] = Greatest(@, log[i].time)]
      /\ unread' = [unread EXCEPT ![j] = @ \ {i}]
  BY DEF JobsInv, WindowTypes, Read, NextTrade
<1>1. /\ Windows' = Windows /\ log \in Seq(Trade) /\ log[i] \in Trade /\ log[i].time \in Nat
      /\ WindowOf(i) \in Windows
  BY <1>0, LogKept, WindowIs
<1>2. /\ unread'[j] = unread[j] \ {i} /\ \A k \in Job : k # j => unread'[k] = unread[k]
      /\ unread' \in [Job -> SUBSET DOMAIN log]
  BY <1>0 DEF WindowTypes
<1>3. /\ high'[j] \in {high[j], log[i].time} /\ \A k \in Job : k # j => high'[k] = high[k]
      /\ high' \in [Job -> Int]
  BY <1>0, <1>1 DEF WindowTypes, Greatest
<1>4. PICK W \in Windows : W = WindowOf(i)
  BY <1>1
<1>5. taken' \in [Job -> SUBSET DOMAIN log] /\ acc' \in [Job -> [Windows -> Aggregate]]
      /\ \A k \in Job : taken'[k] = taken[k] \/ (k = j /\ taken'[k] = taken[k] \cup {i})
  <2>1. CASE UNCHANGED <<acc, taken>>
    BY <2>1, <1>0 DEF WindowTypes
  <2>2. CASE /\ acc' = [acc EXCEPT ![j][W] = add(@, log[i])]
             /\ taken' = [taken EXCEPT ![j] = @ \cup {i}]
    <3>1. acc[j] \in [Windows -> Aggregate] /\ acc[j][W] \in Aggregate
      BY <1>0 DEF WindowTypes
    <3>2. PICK v \in Aggregate : v = add(acc[j][W], log[i])
      <4>1. CASE acc[j][W] = empty
        <5>1. add(acc[j][W], log[i]) = single(log[i])
          BY <4>1 DEF add, empty
        <5> QED
          BY <5>1, <1>1, SingleFilled DEF Aggregate
      <4>2. CASE acc[j][W] \in Filled
        BY <4>2, <1>1, AddIs DEF Aggregate
      <4> QED
        BY <4>1, <4>2, <3>1 DEF Aggregate
    <3>3. acc' = [acc EXCEPT ![j] = [acc[j] EXCEPT ![W] = v]]
      BY <2>2, <3>2
    <3>4. [acc[j] EXCEPT ![W] = v] \in [Windows -> Aggregate]
      BY <3>1
    <3>5. acc' \in [Job -> [Windows -> Aggregate]]
      BY <3>3, <3>4, <1>0 DEF WindowTypes
    <3> QED
      BY <3>5, <2>2, <1>0 DEF WindowTypes
  <2> QED
    BY <2>1, <2>2, <1>4 DEF Read
<1>6. WindowTypes'
  BY <1>0, <1>1, <1>2, <1>3, <1>5 DEF WindowTypes
<1>7. \A k \in Job : taken'[k] \cap unread'[k] = {}
  BY <1>2, <1>5 DEF JobsInv
<1>8. ASSUME NEW k \in Job, NEW w \in Windows PROVE WindowInv(k, w)'
  <2>0. WindowInv(k, w)
    BY DEF JobsInv
  <2>1. Past(w, watermark[k])' <=> Past(w, watermark[k])
    BY <1>0 DEF Past
  <2>2. ASSUME acc'[k][w] = acc[k][w], TakenOf(k, w)' = TakenOf(k, w) PROVE WindowInv(k, w)'
    BY <2>0, <2>1, <2>2, <1>0 DEF WindowInv
  <2>3. CASE Past(W, watermark[j])
    <3>1. UNCHANGED <<acc, taken>>
      BY <2>3, <1>4 DEF Read
    <3> QED
      BY <3>1, <2>2, <1>0 DEF TakenOf, WindowOf
  <2>4. CASE ~Past(W, watermark[j])
    <3>1. /\ acc' = [acc EXCEPT ![j][W] = add(@, log[i])]
          /\ taken' = [taken EXCEPT ![j] = @ \cup {i}]
      BY <2>4, <1>4 DEF Read
    <3>2. /\ taken'[j] = taken[j] \cup {i} /\ \A m \in Job : m # j => taken'[m] = taken[m]
          /\ acc'[j][W] = add(acc[j][W], log[i])
          /\ \A m \in Job, u \in Windows : ~(m = j /\ u = W) => acc'[m][u] = acc[m][u]
      <4>1. PICK v : v = add(acc[j][W], log[i])
        OBVIOUS
      <4>2. acc' = [acc EXCEPT ![j] = [acc[j] EXCEPT ![W] = v]]
        BY <3>1, <4>1
      <4>3. /\ acc'[j] = [acc[j] EXCEPT ![W] = v] /\ acc[j] \in [Windows -> Aggregate]
            /\ \A m \in Job : m # j => acc'[m] = acc[m]
        BY <4>2, <1>0 DEF WindowTypes
      <4>4. acc'[j][W] = v /\ \A u \in Windows : u # W => acc'[j][u] = acc[j][u]
        BY <4>3
      <4>5. taken'[j] = taken[j] \cup {i} /\ \A m \in Job : m # j => taken'[m] = taken[m]
        BY <3>1, <1>0 DEF WindowTypes
      <4> QED
        BY <4>1, <4>3, <4>4, <4>5
    <3>3. CASE ~(k = j /\ w = W)
      <4>1. TakenOf(k, w)' = TakenOf(k, w)
        BY <3>2, <3>3, <1>0, <1>4 DEF TakenOf, WindowOf
      <4> QED
        BY <4>1, <3>2, <3>3, <2>2
    <3>4. CASE k = j /\ w = W
      <4>1. TakenOf(j, W)' = TakenOf(j, W) \cup {i} /\ i \notin TakenOf(j, W)
        BY <3>2, <1>0, <1>4 DEF TakenOf, WindowOf
      <4>2. bars[j][W] = NoBar
        BY <2>0, <2>4, <3>4 DEF WindowInv
      <4>3. Describes(log, add(acc[j][W], log[i]), TakenOf(j, W) \cup {i})
        <5>1. CASE TakenOf(j, W) = {}
          <6>1. acc[j][W] = empty
            BY <5>1, <2>0, <3>4 DEF WindowInv
          <6> QED
            BY <5>1, <6>1, <1>1, DescribesFirst
        <5>2. CASE TakenOf(j, W) # {}
          <6>1. Describes(log, acc[j][W], TakenOf(j, W))
            BY <5>2, <2>0, <2>4, <3>4 DEF WindowInv
          <6>2. PICK R \in SUBSET DOMAIN log : R = TakenOf(j, W) \cup {i}
            BY <1>0 DEF TakenOf, WindowTypes
          <6>3. TakenOf(j, W) \in SUBSET R /\ i \in R /\ \A m \in R : m \in TakenOf(j, W) <=> m # i
            BY <6>2, <4>1
          <6>4. Describes(log, add(acc[j][W], log[i]), R)
            BY <6>1, <6>3, <1>1, DescribesAdd
          <6> QED
            BY <6>2, <6>4
        <5> QED
          BY <5>1, <5>2
      <4> QED
        BY <4>1, <4>2, <4>3, <3>2, <3>4, <2>1, <2>4, <1>0 DEF WindowInv
    <3> QED
      BY <3>3, <3>4
  <2> QED
    BY <2>3, <2>4
<1>9. BackfillInv'
  <2>0. BackfillInv /\ "backfill" \in Job
    BY DEF JobsInv, Job
  <2>1. high'["backfill"] < backfillEnd
    <3>1. CASE j # "backfill"
      BY <3>1, <2>0, <1>3 DEF BackfillInv
    <3>2. CASE j = "backfill"
      <4>1. log[i].time < backfillEnd
        BY <3>2, <2>0, <1>0 DEF BackfillInv, Selected
      <4> QED
        BY <4>1, <3>2, <2>0, <1>3 DEF BackfillInv
    <3> QED
      BY <3>1, <3>2
  <2>2. unread'["backfill"] \subseteq unread["backfill"]
    BY <2>0, <1>2
  <2>3. \A k \in unread'["backfill"] : Selected("backfill", k)'
    BY <2>0, <2>2, <1>0, LogKept DEF BackfillInv
  <2>4. unread'["backfill"] # {} => watermark'["backfill"] < backfillStart
    BY <2>0, <2>2, <1>0 DEF BackfillInv
  <2>5. ASSUME NEW k \in DOMAIN log, Replayable(WindowOf(k))'
        PROVE  k \in unread'["backfill"] \/ k \in taken'["backfill"]
    <3>1. Replayable(WindowOf(k))
      BY <2>5, <1>0 DEF Replayable, WindowOf
    <3>2. k \in unread["backfill"] \/ k \in taken["backfill"]
      BY <3>1, <2>0 DEF BackfillInv
    <3>3. taken["backfill"] \subseteq taken'["backfill"]
      BY <2>0, <1>5
    <3>4. CASE ~(j = "backfill" /\ k = i)
      BY <3>2, <3>3, <3>4, <2>0, <1>2
    <3>5. CASE j = "backfill" /\ k = i
      <4>1. watermark[j] < backfillStart /\ watermark[j] \in Int
        BY <3>5, <2>0, <1>0 DEF BackfillInv, WindowTypes
      <4>2. ~Past(WindowOf(i), watermark[j])
        BY <4>1, <3>1, <3>5, <1>0, ReplayableIs
      <4>3. taken' = [taken EXCEPT ![j] = @ \cup {i}]
        BY <4>2 DEF Read
      <4> QED
        BY <4>3, <3>5, <2>0, <1>0 DEF WindowTypes
    <3> QED
      BY <3>4, <3>5
  <2> QED
    BY <2>1, <2>3, <2>4, <2>5, <1>0 DEF BackfillInv
<1> QED
  BY <1>1, <1>6, <1>7, <1>8, <1>9 DEF JobsInv

LEMMA JobsStep ==
    ASSUME JobsInv, [Next]_vars
    PROVE  JobsInv'
<1>0. WindowTypes /\ BackfillInv /\ "backfill" \in Job
  BY DEF JobsInv, Job
<1>t. /\ maxOutOfOrderness \in Nat /\ ReplayOutOfOrderness \in Nat /\ windowSize \in Nat
      /\ backfillStart \in Nat /\ backfillEnd \in Nat
      /\ backfillEnd - backfillStart <= ReplayOutOfOrderness
  BY WindowAssumption
<1>1. ASSUME NEW j \in Job, Watermark(j) PROVE JobsInv'
  <2>1. high[j] \in Int /\ Tolerance(j) \in Nat
    BY <1>0, <1>t DEF WindowTypes, Tolerance
  <2>2. PICK mark \in Int : mark = high[j] - Tolerance(j) - 1
    BY <2>1
  <2>3. j = "backfill" => mark < backfillStart
    <3>1. j = "backfill" => Tolerance(j) = ReplayOutOfOrderness /\ high[j] < backfillEnd
      BY <1>0 DEF Tolerance, BackfillInv
    <3> QED
      BY <3>1, <2>1, <2>2, <1>t
  <2>4. Fire(j, mark)
    BY <2>2, <1>1 DEF Watermark
  <2> QED
    BY <2>3, <2>4, JobsFire
<1>2. ASSUME NEW j \in Job, NEW i \in DOMAIN log, Read(j, i) PROVE JobsInv'
  BY <1>2, JobsRead
<1>3. CASE EndOfInput
  <2>1. high["backfill"] \in Int
    BY <1>0 DEF WindowTypes
  <2>2. PICK mark \in Int : mark = high["backfill"] + windowSize
    BY <2>1, <1>t
  <2>3. Fire("backfill", mark) /\ unread["backfill"] = {}
    BY <2>2, <1>3 DEF EndOfInput
  <2> QED
    BY <2>3, <1>0, JobsFire
<1>4. CASE UNCHANGED vars
  <2>1. UNCHANGED <<log, unread, acc, high, watermark, bars, taken>>
    BY <1>4 DEF vars
  <2>2. Windows' = Windows
    BY <2>1, LogKept
  <2>3. WindowTypes'
    BY <2>1, <2>2, <1>0 DEF WindowTypes
  <2>4. \A j \in Job, w \in Windows : WindowInv(j, w)'
    BY <2>1 DEF JobsInv, WindowInv, TakenOf, WindowOf, Past
  <2>5. BackfillInv'
    BY <2>1, <1>0 DEF BackfillInv, Selected, Replayable, WindowOf
  <2>6. \A j \in Job : taken'[j] \cap unread'[j] = {}
    BY <2>1 DEF JobsInv
  <2> QED
    BY <2>2, <2>3, <2>4, <2>5, <2>6 DEF JobsInv
<1> QED
  BY <1>1, <1>2, <1>3, <1>4 DEF Next

LEMMA JobsInvariant == Spec => []JobsInv
<1>1. JobsInv /\ [Next]_vars => JobsInv'
  BY JobsStep
<1> QED
  BY <1>1, JobsInit, PTL DEF Spec

\* A bar describes the trades the job took into its window, in whatever order
\* they came and however the watermark moved: it opens with an earliest and closes
\* with a latest one and leaves none out of its extremes and sums.
THEOREM WindowBarsExact == Spec => []BarsExact
<1>1. JobsInv => BarsExact
  <2> SUFFICES ASSUME JobsInv, NEW j \in Job, NEW w \in Windows, bars[j][w] # NoBar,
                      NEW b, b = bars[j][w], NEW S, S = TakenOf(j, w)
               PROVE  /\ \E i \in S : b.open = log[i].price /\ \A k \in S : log[i].time <= log[k].time
                      /\ \E i \in S : b.close = log[i].price /\ \A k \in S : log[i].time >= log[k].time
                      /\ \A i \in S : b.low <= log[i].price /\ log[i].price <= b.high
                      /\ {b.low, b.high} \subseteq {log[i].price : i \in S}
                      /\ b.volume = Total([i \in S |-> log[i].size], S)
                      /\ b.notional = Total([i \in S |-> log[i].price * log[i].size], S)
    BY DEF BarsExact
  <2>1. PICK a : Describes(log, a, S) /\ b = toBar(a)
    BY DEF JobsInv, WindowInv
  <2>2. /\ b.open = a.open /\ b.close = a.close /\ b.low = a.low /\ b.high = a.high
        /\ b.volume = a.volume /\ b.notional = a.notional
    BY <2>1 DEF toBar
  <2>3. /\ log \in Seq(Trade) /\ S \subseteq DOMAIN log
        /\ a \in Filled /\ a.first \in Int /\ a.last \in Int
    BY <2>1, WindowsNat DEF JobsInv, WindowTypes, TakenOf, Describes, Filled
  <2>4. \A i \in S : log[i].time \in Nat
    BY <2>3, TradeIs
  <2>5. \E i \in S : b.open = log[i].price /\ \A k \in S : log[i].time <= log[k].time
    BY <2>1, <2>2 DEF Describes, Ends
  <2>6. \E i \in S : b.close = log[i].price /\ \A k \in S : log[i].time >= log[k].time
    <3>1. PICK i \in S : a.close = log[i].price /\ a.last = log[i].time
      BY <2>1 DEF Describes, Ends
    <3>2. \A k \in S : log[k].time <= log[i].time
      BY <3>1, <2>1 DEF Describes, Ends
    <3>3. \A k \in S : log[i].time >= log[k].time
      BY <3>2, <2>4
    <3> QED
      BY <3>1, <3>3, <2>2
  <2>7. /\ \A i \in S : b.low <= log[i].price /\ log[i].price <= b.high
        /\ {b.low, b.high} \subseteq {log[i].price : i \in S}
    BY <2>1, <2>2 DEF Describes, Extremes
  <2>8. /\ b.volume = Total([i \in S |-> log[i].size], S)
        /\ b.notional = Total([i \in S |-> log[i].price * log[i].size], S)
    BY <2>1, <2>2 DEF Describes, Sums
  <2> QED
    BY <2>5, <2>6, <2>7, <2>8
<1> QED
  BY <1>1, JobsInvariant, PTL

\* A window replayed from the lakehouse gets the bar it had, whatever the order of
\* the files, if the live job dropped none of its trades and their times tell them
\* apart: the backfill drops none of them, and trades of different times have one
\* bar.
THEOREM WindowReplayAgrees == Spec => []ReplayAgrees
<1>1. JobsInv => ReplayAgrees
  <2> SUFFICES ASSUME JobsInv, NEW w \in Windows, Replayable(w), bars["live"][w] # NoBar,
                      bars["backfill"][w] # NoBar,
                      \A i \in DOMAIN log : WindowOf(i) = w => i \in taken["live"]
               PROVE  bars["backfill"][w] = bars["live"][w]
    BY DEF ReplayAgrees
  <2>0. "live" \in Job /\ "backfill" \in Job /\ WindowTypes /\ BackfillInv /\ log \in Log
    BY DEF Job, JobsInv, WindowTypes
  <2>1. PICK S \in SUBSET DOMAIN log : S = {i \in DOMAIN log : WindowOf(i) = w}
    OBVIOUS
  <2>2. TakenOf("live", w) = S
    BY <2>0, <2>1 DEF TakenOf, WindowTypes
  <2>3. PICK i \in DOMAIN log : w = WindowOf(i)
    BY DEF Windows
  <2>4. unread["backfill"] = {}
    <3>1. Past(w, watermark["backfill"]) /\ watermark["backfill"] \in Int
      BY <2>0 DEF JobsInv, WindowInv, WindowTypes
    <3>2. ~(watermark["backfill"] < backfillStart)
      BY <3>1, <2>0, <2>3, ReplayableIs
    <3> QED
      BY <3>2, <2>0 DEF BackfillInv
  <2>5. TakenOf("backfill", w) = S
    <3>1. \A k \in S : k \in taken["backfill"]
      BY <2>0, <2>1, <2>4 DEF BackfillInv
    <3>2. taken["backfill"] \subseteq DOMAIN log
      BY <2>0 DEF WindowTypes
    <3> QED
      BY <3>1, <3>2, <2>1 DEF TakenOf
  <2>6. PICK a : Describes(log, a, S) /\ bars["live"][w] = toBar(a)
    BY <2>0, <2>2 DEF JobsInv, WindowInv
  <2>7. PICK b : Describes(log, b, S) /\ bars["backfill"][w] = toBar(b)
    BY <2>0, <2>5 DEF JobsInv, WindowInv
  <2>8. \A k, m \in S : log[k].time = log[m].time => k = m
    BY <2>1 DEF Replayable
  <2>9. log \in Seq(Trade)
    BY <2>0, WindowsNat
  <2> QED
    BY <2>6, <2>7, <2>8, <2>9, OneBar
<1> QED
  BY <1>1, JobsInvariant, PTL

----------------------------------------------------------------------------
(* Folding in parts.                                                       *)

\* The aggregates of the first trades of q, up to n of them.
IsFold(f, q, n) ==
    f = [k \in 0 .. n |-> IF k = 0 THEN empty ELSE add(f[k - 1], q[k])]

LEMMA FoldStep ==
    ASSUME NEW f, NEW q, NEW n \in Nat, IsFold(f, q, n)
    PROVE  f[0] = empty /\ \A k \in 1 .. n : f[k] = add(f[k - 1], q[k])
<1>1. \A k \in 0 .. n : f[k] = IF k = 0 THEN empty ELSE add(f[k - 1], q[k])
  BY DEF IsFold
<1> QED
  BY <1>1

LEMMA FoldUpto ==
    ASSUME NEW q, NEW n \in Nat
    PROVE  \E f : IsFold(f, q, n)
<1> DEFINE P == {k \in Nat : \E f : IsFold(f, q, k)}
<1>1. 0 \in P
  <2>1. IsFold([k \in 0 .. 0 |-> empty], q, 0)
    BY DEF IsFold
  <2> QED
    BY <2>1
<1>2. ASSUME NEW k \in P PROVE k + 1 \in P
  <2>1. PICK g : IsFold(g, q, k)
    OBVIOUS
  <2> DEFINE h == [i \in 0 .. k + 1 |-> IF i = 0 THEN empty ELSE add(g[i - 1], q[i])]
  <2>2. \A i \in 0 .. k : h[i] = g[i]
    BY <2>1 DEF IsFold
  <2>3. \A i \in 0 .. k + 1 : i # 0 => i - 1 \in 0 .. k
    OBVIOUS
  <2>4. \A i \in 0 .. k + 1 : h[i] = IF i = 0 THEN empty ELSE add(h[i - 1], q[i])
    BY <2>2, <2>3
  <2>5. h = [i \in 0 .. k + 1 |-> h[i]]
    OBVIOUS
  <2> HIDE DEF h
  <2>6. IsFold(h, q, k + 1)
    BY <2>4, <2>5 DEF IsFold
  <2> QED
    BY <2>6
<1>3. P = Nat
  <2> HIDE DEF P
  <2>1. P \in SUBSET Nat
    BY DEF P
  <2> QED
    BY <2>1, <1>1, <1>2, Induction
<1> QED
  BY <1>3

\* What fold ends with.
LEMMA FoldIs ==
    ASSUME NEW q \in Seq(Trade)
    PROVE  \E f : IsFold(f, q, Len(q)) /\ fold(q) = f[Len(q)]
<1> DEFINE P(f) == f = [n \in 0 .. Len(q) |-> IF n = 0 THEN empty ELSE add(f[n - 1], q[n])]
<1>1. \A f : P(f) <=> IsFold(f, q, Len(q))
  BY DEF IsFold
<1>2. \E f : IsFold(f, q, Len(q))
  <2>1. PICK n \in Nat : n = Len(q)
    OBVIOUS
  <2>2. \E f : IsFold(f, q, n)
    BY FoldUpto
  <2> QED
    BY <2>1, <2>2
<1>3. P(CHOOSE f : P(f))
  <2> HIDE DEF P
  <2> QED
    BY <1>1, <1>2
<1>4. fold(q) = (CHOOSE f : P(f))[Len(q)]
  BY DEF fold
<1> QED
  BY <1>1, <1>3, <1>4

\* At least one trade gives an aggregate of trades.
LEMMA FoldFilled ==
    ASSUME NEW q \in Seq(Trade), NEW f, IsFold(f, q, Len(q)), NEW n \in 1 .. Len(q)
    PROVE  f[n] \in Filled
<1>0. f[0] = empty /\ \A k \in 1 .. Len(q) : f[k] = add(f[k - 1], q[k])
  BY FoldStep
<1> DEFINE P == {k \in Nat : k \in 1 .. Len(q) => f[k] \in Filled}
<1>1. 0 \in P
  OBVIOUS
<1>2. ASSUME NEW k \in P, k + 1 \in 1 .. Len(q) PROVE f[k + 1] \in Filled
  <2>0. k \in Nat
    OBVIOUS
  <2>1. f[k + 1] = add(f[k], q[k + 1]) /\ q[k + 1] \in Trade
    BY <1>0, <1>2, <2>0
  <2>2. CASE k = 0
    <3>1. f[k + 1] = single(q[k + 1])
      BY <2>1, <2>2, <1>0 DEF add, empty
    <3> QED
      BY <3>1, <2>1, SingleFilled
  <2>3. CASE k # 0
    <3>1. f[k] \in Filled
      BY <2>0, <2>3, <1>2
    <3> QED
      BY <3>1, <2>1, AddIs
  <2> QED
    BY <2>2, <2>3
<1>3. P = Nat
  <2>1. \A k \in P : k + 1 \in P
    BY <1>2
  <2> HIDE DEF P
  <2>2. P \in SUBSET Nat
    BY DEF P
  <2> QED
    BY <2>1, <2>2, <1>1, Induction
<1> QED
  BY <1>3

\* Sequences that begin alike fold alike.
LEMMA FoldSame ==
    ASSUME NEW p, NEW q, NEW m \in Nat, NEW n \in Nat, n <= m,
           \A k \in 1 .. n : p[k] = q[k],
           NEW f, IsFold(f, p, n), NEW g, IsFold(g, q, m)
    PROVE  f[n] = g[n]
<1>0. /\ f[0] = empty /\ \A k \in 1 .. n : f[k] = add(f[k - 1], p[k])
      /\ g[0] = empty /\ \A k \in 1 .. m : g[k] = add(g[k - 1], q[k])
  BY FoldStep
<1> DEFINE P == {k \in Nat : k <= n => f[k] = g[k]}
<1>1. 0 \in P
  BY <1>0
<1>2. ASSUME NEW k \in P, k + 1 <= n PROVE f[k + 1] = g[k + 1]
  <2>0. k \in Nat /\ k <= n /\ k + 1 \in 1 .. n /\ k + 1 \in 1 .. m /\ (k + 1) - 1 = k
    BY <1>2
  <2>1. f[k + 1] = add(f[k], p[k + 1]) /\ g[k + 1] = add(g[k], q[k + 1])
    BY <1>0, <2>0
  <2> QED
    BY <2>0, <2>1
<1>3. P = Nat
  <2>1. \A k \in P : k + 1 \in P
    BY <1>2
  <2> HIDE DEF P
  <2>2. P \in SUBSET Nat
    BY DEF P
  <2> QED
    BY <2>1, <2>2, <1>1, Induction
<1> QED
  BY <1>3

\* An aggregate with that of later arrivals: as merge, but a later arrival closes
\* at the same time.
Late(a, b) == Combined(a, b, IF b.first < a.first THEN b.open ELSE a.open,
                             IF b.last >= a.last THEN b.close ELSE a.close)

LEMMA LateFirst ==
    ASSUME NEW a \in Filled, NEW t \in Trade
    PROVE  add(a, t) = Late(a, single(t))
<1>1. a.count # 0
  BY DEF Filled
<1> QED
  BY <1>1 DEF add, Late, Combined, single

LEMMA LateMerge ==
    ASSUME NEW a \in Filled, NEW b \in Filled, a.last # b.last
    PROVE  merge(a, b) = Late(a, b)
<1>1. merge(a, b) = Merged(a, b)
  BY MergedFilled
<1>2. a.last \in Int /\ b.last \in Int
  BY DEF Filled
<1> QED
  BY <1>1, <1>2 DEF Merged, Late

LEMMA LateAdd ==
    ASSUME NEW a \in Filled, NEW b \in Filled, NEW t \in Trade
    PROVE  add(Late(a, b), t) = Late(a, add(b, t))
<1>1. /\ t.time \in Nat /\ t.price \in Nat /\ t.size \in Nat /\ t.price * t.size \in Int
  BY DEF Trade
<1>2. /\ a.open \in Int /\ a.high \in Int /\ a.low \in Int /\ a.close \in Int
      /\ a.volume \in Int /\ a.notional \in Int /\ a.count \in Nat \ {0}
      /\ a.first \in Int /\ a.last \in Int
      /\ b.open \in Int /\ b.high \in Int /\ b.low \in Int /\ b.close \in Int
      /\ b.volume \in Int /\ b.notional \in Int /\ b.count \in Nat \ {0}
      /\ b.first \in Int /\ b.last \in Int
  BY DEF Filled
<1>3. PICK c : c = Late(a, b)
  OBVIOUS
<1>4. c.count # 0
  BY <1>2, <1>3 DEF Late, Combined
<1>5. PICK d : d = add(b, t)
  OBVIOUS
<1>6. /\ d.open = (IF t.time < b.first THEN t.price ELSE b.open)
      /\ d.close = (IF t.time >= b.last THEN t.price ELSE b.close)
      /\ d.first = Least(b.first, t.time) /\ d.last = Greatest(b.last, t.time)
      /\ d.high = Greatest(b.high, t.price) /\ d.low = Least(b.low, t.price)
      /\ d.volume = b.volume + t.size /\ d.notional = b.notional + t.price * t.size
      /\ d.count = b.count + 1
  BY <1>5, AddIs
<1>7. /\ c.open = (IF b.first < a.first THEN b.open ELSE a.open)
      /\ c.close = (IF b.last >= a.last THEN b.close ELSE a.close)
      /\ c.first = Least(a.first, b.first) /\ c.last = Greatest(a.last, b.last)
      /\ c.high = Greatest(a.high, b.high) /\ c.low = Least(a.low, b.low)
      /\ c.volume = a.volume + b.volume /\ c.notional = a.notional + b.notional
      /\ c.count = a.count + b.count
  BY <1>3 DEF Late, Combined
<1>8. (IF t.time < c.first THEN t.price ELSE c.open)
            = (IF d.first < a.first THEN d.open ELSE a.open)
  BY <1>1, <1>2, <1>6, <1>7 DEF Least
<1>9. (IF t.time >= c.last THEN t.price ELSE c.close)
            = (IF d.last >= a.last THEN d.close ELSE a.close)
  BY <1>1, <1>2, <1>6, <1>7 DEF Greatest
<1>10. Least(c.first, t.time) = Least(a.first, d.first) /\ Greatest(c.last, t.time) = Greatest(a.last, d.last)
  BY <1>1, <1>2, <1>6, <1>7 DEF Least, Greatest
<1>11. Greatest(c.high, t.price) = Greatest(a.high, d.high) /\ Least(c.low, t.price) = Least(a.low, d.low)
  BY <1>1, <1>2, <1>6, <1>7 DEF Least, Greatest
<1>12. /\ c.volume + t.size = a.volume + d.volume
       /\ c.notional + t.price * t.size = a.notional + d.notional
       /\ c.count + 1 = a.count + d.count
  <2>1. PICK x \in Int : x = t.price * t.size
    BY <1>1
  <2>2. d.notional = b.notional + x
    BY <2>1, <1>6
  <2>3. c.notional + x = a.notional + d.notional
    BY <2>2, <1>2, <1>7
  <2>4. c.volume + t.size = a.volume + d.volume
    BY <1>1, <1>2, <1>6, <1>7
  <2>5. c.count + 1 = a.count + d.count
    BY <1>2, <1>6, <1>7
  <2> QED
    BY <2>1, <2>3, <2>4, <2>5
<1>13. add(c, t) = Late(a, d)
  BY <1>4, <1>8, <1>9, <1>10, <1>11, <1>12 DEF add, Late, Combined
<1> QED
  BY <1>3, <1>5, <1>13

\* What p has after its first n trades, at least one, is q.
Rest(p, q, n) ==
    n \in 1 .. Len(p) - 1 /\ Len(q) = Len(p) - n /\ \A k \in 1 .. Len(q) : q[k] = p[n + k]

\* The fold of the whole is that of the first n with that of the others.
LEMMA FoldParts ==
    ASSUME NEW p \in Seq(Trade), NEW q \in Seq(Trade), NEW n, Rest(p, q, n),
           NEW f, IsFold(f, p, Len(p)), NEW g, IsFold(g, q, Len(q))
    PROVE  f[Len(p)] = Late(f[n], g[Len(q)])
<1> USE DEF Rest
<1>0. /\ f[0] = empty /\ \A k \in 1 .. Len(p) : f[k] = add(f[k - 1], p[k])
      /\ g[0] = empty /\ \A k \in 1 .. Len(q) : g[k] = add(g[k - 1], q[k])
  <2>1. Len(p) \in Nat /\ Len(q) \in Nat
    OBVIOUS
  <2>2. f[0] = empty /\ \A k \in 1 .. Len(p) : f[k] = add(f[k - 1], p[k])
    BY <2>1, FoldStep
  <2>3. g[0] = empty /\ \A k \in 1 .. Len(q) : g[k] = add(g[k - 1], q[k])
    BY <2>1, FoldStep
  <2> QED
    BY <2>2, <2>3
<1>1. f[n] \in Filled
  BY FoldFilled
<1> DEFINE P == {k \in Nat : k \in 1 .. Len(q) => f[n + k] = Late(f[n], g[k])}
<1>2. 0 \in P
  OBVIOUS
<1>3. ASSUME NEW k \in P, k + 1 \in 1 .. Len(q) PROVE f[n + (k + 1)] = Late(f[n], g[k + 1])
  <2>0. k \in Nat /\ (k + 1) - 1 = k /\ n + (k + 1) \in 1 .. Len(p) /\ (n + (k + 1)) - 1 = n + k
    BY <1>3
  <2>1. f[n + (k + 1)] = add(f[n + k], q[k + 1]) /\ g[k + 1] = add(g[k], q[k + 1])
    BY <1>0, <1>3, <2>0
  <2>2. q[k + 1] \in Trade
    BY <1>3
  <2>3. CASE k = 0
    <3>1. g[k + 1] = single(q[k + 1])
      BY <2>1, <2>3, <1>0 DEF add, empty
    <3>2. f[n + k] = f[n]
      BY <2>3
    <3> QED
      BY <3>1, <3>2, <2>1, <2>2, <1>1, LateFirst
  <2>4. CASE k # 0
    <3>1. k \in 1 .. Len(q)
      BY <2>0, <2>4, <1>3
    <3>2. f[n + k] = Late(f[n], g[k])
      BY <3>1
    <3>3. g[k] \in Filled
      BY <3>1, FoldFilled
    <3> QED
      BY <3>2, <3>3, <2>1, <2>2, <1>1, LateAdd
  <2> QED
    BY <2>3, <2>4
<1>4. P = Nat
  <2>1. \A k \in P : k + 1 \in P
    BY <1>3
  <2> HIDE DEF P
  <2>2. P \in SUBSET Nat
    BY DEF P
  <2> QED
    BY <2>1, <2>2, <1>2, Induction
<1>5. Len(q) \in Nat /\ Len(q) \in 1 .. Len(q) /\ n + Len(q) = Len(p)
  OBVIOUS
<1>6. Len(q) \in P
  <2> HIDE DEF P
  <2> QED
    BY <1>4, <1>5
<1>7. f[n + Len(q)] = Late(f[n], g[Len(q)])
  BY <1>5, <1>6
<1> QED
  BY <1>5, <1>7

\* Trades folded in two parts and merged give what folding them in one gives, for
\* every topic and every place to part it at, if the last trades of the two parts
\* have different times: then pre-aggregation in parallel changes no bar.
THEOREM WindowPartsMerge == Spec => []PartsMerge
<1>1. JobsInv => PartsMerge
  <2> SUFFICES ASSUME log \in Seq(Trade), NEW n \in 1 .. Len(log) - 1,
                      NEW a, a = fold(SubSeq(log, 1, n)),
                      NEW b, b = fold(SubSeq(log, n + 1, Len(log))),
                      a.last # b.last
               PROVE  merge(a, b) = fold(log)
    BY WindowsNat DEF JobsInv, WindowTypes, PartsMerge
  <2>1. PICK p : p = SubSeq(log, 1, n)
    OBVIOUS
  <2>2. PICK q : q = SubSeq(log, n + 1, Len(log))
    OBVIOUS
  <2>3. p \in Seq(Trade) /\ Len(p) = n /\ \A k \in 1 .. n : p[k] = log[k]
    <3>1. \A i \in 1 .. n : log[i] \in Trade
      OBVIOUS
    <3> QED
      BY <2>1, <3>1, SubSeqProperties
  <2>4. q \in Seq(Trade) /\ Len(q) = Len(log) - n /\ \A k \in 1 .. Len(q) : q[k] = log[n + k]
    <3>1. /\ \A i \in n + 1 .. Len(log) : log[i] \in Trade
          /\ n + 1 \in Int /\ Len(log) \in Int /\ n + 1 <= Len(log)
          /\ Len(log) - (n + 1) + 1 = Len(log) - n
      OBVIOUS
    <3>2. /\ q \in Seq(Trade) /\ Len(q) = Len(log) - n
          /\ \A k \in 1 .. Len(log) - n : q[k] = log[(n + 1) + k - 1]
      BY <2>2, <3>1, SubSeqProperties
    <3>3. \A k \in 1 .. Len(log) - n : (n + 1) + k - 1 = n + k
      OBVIOUS
    <3> QED
      BY <3>2, <3>3
  <2>5. PICK f : IsFold(f, log, Len(log)) /\ fold(log) = f[Len(log)]
    BY FoldIs
  <2>6. PICK g : IsFold(g, p, Len(p)) /\ fold(p) = g[Len(p)]
    BY <2>3, FoldIs
  <2>7. PICK h : IsFold(h, q, Len(q)) /\ fold(q) = h[Len(q)]
    BY <2>4, FoldIs
  <2>8. a = f[n] /\ f[n] \in Filled
    <3>1. n \in Nat /\ Len(log) \in Nat /\ n <= Len(log) /\ n \in 1 .. Len(log)
      OBVIOUS
    <3>2. g[n] = f[n]
      <4>1. IsFold(g, p, n) /\ IsFold(f, log, Len(log))
        BY <2>3, <2>5, <2>6
      <4>2. \A k \in 1 .. n : p[k] = log[k]
        BY <2>3
      <4> QED
        BY <3>1, <4>1, <4>2, FoldSame
    <3>3. f[n] \in Filled
      BY <3>1, <2>5, FoldFilled
    <3> QED
      BY <3>2, <3>3, <2>1, <2>3, <2>6
  <2>9. b = h[Len(q)] /\ b \in Filled
    <3>1. Len(q) \in 1 .. Len(q)
      BY <2>4
    <3> QED
      BY <3>1, <2>2, <2>4, <2>7, FoldFilled
  <2>10. fold(log) = Late(a, b)
    <3>1. f[Len(log)] = Late(f[n], h[Len(q)])
      <4>1. Rest(log, q, n)
        BY <2>4 DEF Rest
      <4> QED
        BY <4>1, <2>4, <2>5, <2>7, FoldParts
    <3> QED
      BY <3>1, <2>5, <2>8, <2>9
  <2> QED
    BY <2>8, <2>9, <2>10, LateMerge
<1> QED
  BY <1>1, JobsInvariant, PTL

=============================================================================
