---------------------------- MODULE RecallProofs ----------------------------
(***************************************************************************)
(* Proofs about what a query finds: the answer as of a second is what was  *)
(* active then, an answer about the present tells approved claims only,    *)
(* fusing two rankings keeps the best match, a plain gap is honest, and    *)
(* the bounds of a query are read as the timestamps of a claim are.        *)
(***************************************************************************)
EXTENDS Recall, FiniteSetTheorems, TLAPS

-----------------------------------------------------------------------------
(* Places in a finite set under a strict total order, given as a set of pairs *)

IsOrder(S, P) ==
    /\ \A c \in S : <<c, c>> \notin P
    /\ \A c, d \in S : c # d => <<c, d>> \in P \/ <<d, c>> \in P
    /\ \A c, d, e \in S : <<c, d>> \in P /\ <<d, e>> \in P => <<c, e>> \in P

Ahead(S, P, c) == {d \in S : <<d, c>> \in P}

\* Who has fewer ahead comes first.
LEMMA AheadGrows ==
    ASSUME NEW S, IsFiniteSet(S), NEW P, IsOrder(S, P), NEW c \in S, NEW d \in S, <<c, d>> \in P
    PROVE  /\ Cardinality(Ahead(S, P, c)) \in Nat /\ Cardinality(Ahead(S, P, d)) \in Nat
           /\ Cardinality(Ahead(S, P, c)) < Cardinality(Ahead(S, P, d))
<1> DEFINE C == Ahead(S, P, c)
           D == Ahead(S, P, d)
<1>1. C \in SUBSET S /\ D \in SUBSET S
  BY DEF Ahead
<1>2. IsFiniteSet(C) /\ IsFiniteSet(D)
  BY <1>1, FS_Subset
<1>3. C \in SUBSET D /\ c \in D /\ c \notin C
  BY DEF Ahead, IsOrder
<1> HIDE DEF C, D
<1>4. Cardinality(C) <= Cardinality(D) /\ (Cardinality(D) = Cardinality(C) => D = C)
  BY <1>2, <1>3, FS_Subset
<1>5. Cardinality(C) \in Nat /\ Cardinality(D) \in Nat
  BY <1>2, FS_CardinalityType
<1> QED BY <1>3, <1>4, <1>5 DEF C, D

\* The number of those ahead tells the members of S apart.
LEMMA PlacesApart ==
    ASSUME NEW S, IsFiniteSet(S), NEW P, IsOrder(S, P)
    PROVE  /\ Cardinality(S) \in Nat
           /\ \A c \in S : Cardinality(Ahead(S, P, c)) \in 0 .. Cardinality(S) - 1
           /\ \A c, d \in S : Cardinality(Ahead(S, P, c)) = Cardinality(Ahead(S, P, d)) => c = d
<1>1. Cardinality(S) \in Nat
  BY FS_CardinalityType
<1>2. ASSUME NEW c \in S PROVE Cardinality(Ahead(S, P, c)) \in 0 .. Cardinality(S) - 1
  <2>1. Ahead(S, P, c) \in SUBSET (S \ {c})
    BY DEF Ahead, IsOrder
  <2>2. IsFiniteSet(S \ {c}) /\ Cardinality(S \ {c}) = Cardinality(S) - 1
    BY FS_RemoveElement
  <2>3. IsFiniteSet(Ahead(S, P, c)) /\ Cardinality(Ahead(S, P, c)) <= Cardinality(S \ {c})
    BY <2>1, <2>2, FS_Subset
  <2>4. Cardinality(Ahead(S, P, c)) \in Nat
    BY <2>3, FS_CardinalityType
  <2> QED BY <1>1, <2>2, <2>3, <2>4
<1>3. ASSUME NEW c \in S, NEW d \in S, c # d,
             Cardinality(Ahead(S, P, c)) = Cardinality(Ahead(S, P, d))
      PROVE  FALSE
  <2>1. <<c, d>> \in P \/ <<d, c>> \in P
    BY <1>3 DEF IsOrder
  <2> QED BY <1>3, <2>1, AheadGrows
<1> QED BY <1>1, <1>2, <1>3

\* No more than n members have fewer than n ahead of them.
LEMMA AtMost ==
    ASSUME NEW S, IsFiniteSet(S), NEW P, IsOrder(S, P), NEW n \in Nat
    PROVE  Cardinality({c \in S : Cardinality(Ahead(S, P, c)) < n}) <= n
<1> DEFINE T == {c \in S : Cardinality(Ahead(S, P, c)) < n}
           f == [c \in T |-> Cardinality(Ahead(S, P, c))]
<1>1. f \in [T -> 0 .. n - 1]
  BY PlacesApart
<1>2. \A c, d \in T : f[c] = f[d] => c = d
  BY PlacesApart
<1>3. f \in Injection(T, 0 .. n - 1)
  BY <1>1, <1>2 DEF Injection, IsInjective
<1>4. IsFiniteSet(0 .. n - 1) /\ Cardinality(0 .. n - 1) = n
  BY FS_Interval
<1> HIDE DEF f, T
<1>5. Cardinality(T) <= n
  BY <1>3, <1>4, FS_Injection
<1> QED BY <1>5 DEF T

\* Somebody comes first.
LEMMA SomeFirst ==
    ASSUME NEW S, IsFiniteSet(S), NEW P, IsOrder(S, P), S # {}
    PROVE  \E c \in S : Cardinality(Ahead(S, P, c)) = 0
<1> DEFINE f == [c \in S |-> Cardinality(Ahead(S, P, c))]
           N == Cardinality(S)
<1>1. N \in Nat /\ N # 0
  BY FS_CardinalityType, FS_EmptySet
<1>2. f \in [S -> 0 .. N - 1]
  BY PlacesApart
<1>3. \A c, d \in S : f[c] = f[d] => c = d
  BY PlacesApart
<1>4. f \in Injection(S, 0 .. N - 1)
  BY <1>2, <1>3 DEF Injection, IsInjective
<1>5. IsFiniteSet(0 .. N - 1) /\ Cardinality(0 .. N - 1) = N
  BY <1>1, FS_Interval
<1>6. f \in Surjection(S, 0 .. N - 1)
  <2> HIDE DEF f
  <2> QED BY <1>4, <1>5, FS_Injection
<1>7. PICK c \in S : f[c] = 0
  <2>1. 0 \in 0 .. N - 1
    BY <1>1
  <2> HIDE DEF f, N
  <2> QED BY <1>6, <2>1 DEF Surjection
<1> QED BY <1>7

-----------------------------------------------------------------------------
(* A list is a set with a ranking *)

ByRank(S, r) == {p \in S \X S : r[p[1]] < r[p[2]]}

LEMMA RankingOrders ==
    ASSUME NEW S \in SUBSET Claims, NEW r, IsRanking(r)
    PROVE  /\ IsFiniteSet(S)
           /\ IsOrder(S, ByRank(S, r))
           /\ \A c \in S : Place(S, r, c) = 1 + Cardinality(Ahead(S, ByRank(S, r), c))
<1>1. IsFiniteSet(S)
  BY ClaimsAssumption, FS_Subset
<1>2. \A c, d \in S : <<c, d>> \in ByRank(S, r) <=> r[c] < r[d]
  BY DEF ByRank
<1>3. \A c \in S : r[c] \in Nat
  BY DEF IsRanking
<1>4. \A c, d \in S : c # d => r[c] # r[d]
  BY DEF IsRanking
<1>5. IsOrder(S, ByRank(S, r))
  BY <1>2, <1>3, <1>4 DEF IsOrder
<1>6. \A c \in S : Ahead(S, ByRank(S, r), c) = {d \in S : r[d] < r[c]}
  BY <1>2 DEF Ahead
<1>7. \A c \in S : Place(S, r, c) = 1 + Cardinality(Ahead(S, ByRank(S, r), c))
  BY <1>6, Zenon DEF Place
<1> QED BY <1>1, <1>5, <1>7

\* Places are numbers from 1 on, and no two claims have the same.
LEMMA Places ==
    ASSUME NEW S \in SUBSET Claims, NEW r, IsRanking(r)
    PROVE  /\ Cardinality(S) \in Nat
           /\ \A c \in S : Place(S, r, c) \in 1 .. Cardinality(S)
           /\ \A c, d \in S : Place(S, r, c) = Place(S, r, d) => c = d
<1> DEFINE P == ByRank(S, r)
<1>1. /\ IsFiniteSet(S) /\ IsOrder(S, P)
      /\ \A c \in S : Place(S, r, c) = 1 + Cardinality(Ahead(S, P, c))
  BY RankingOrders
<1> HIDE DEF P
<1>2. /\ Cardinality(S) \in Nat
      /\ \A c \in S : Cardinality(Ahead(S, P, c)) \in 0 .. Cardinality(S) - 1
      /\ \A c, d \in S : Cardinality(Ahead(S, P, c)) = Cardinality(Ahead(S, P, d)) => c = d
  BY <1>1, PlacesApart
<1> QED BY <1>1, <1>2

\* Cutting a list to n leaves n claims or fewer, all of them if there are no more,
\* and the first one in any case.
LEMMA Cut ==
    ASSUME NEW S \in SUBSET Claims, NEW r, IsRanking(r), NEW n \in Nat \ {0}
    PROVE  /\ Top(S, r, n) \subseteq S
           /\ Cardinality(Top(S, r, n)) \in Nat /\ Cardinality(Top(S, r, n)) <= n
           /\ Cardinality(S) <= n => Top(S, r, n) = S
           /\ S # {} => \E c \in Top(S, r, n) : Place(Top(S, r, n), r, c) = 1
<1> DEFINE P == ByRank(S, r)
           T == {c \in S : Cardinality(Ahead(S, P, c)) < n}
<1>1. /\ IsFiniteSet(S) /\ IsOrder(S, P)
      /\ \A c \in S : Place(S, r, c) = 1 + Cardinality(Ahead(S, P, c))
  BY RankingOrders
<1> HIDE DEF P
<1>2. /\ Cardinality(S) \in Nat
      /\ \A c \in S : Cardinality(Ahead(S, P, c)) \in 0 .. Cardinality(S) - 1
  BY <1>1, PlacesApart
<1>3. Top(S, r, n) = T
  <2>1. \A c \in S : Place(S, r, c) <= n <=> Cardinality(Ahead(S, P, c)) < n
    BY <1>1, <1>2
  <2> QED BY <2>1 DEF Top
<1>4. Cardinality(T) <= n
  BY <1>1, AtMost
<1>5. Cardinality(T) \in Nat
  <2>1. IsFiniteSet(T)
    BY <1>1, FS_Subset
  <2> QED BY <2>1, FS_CardinalityType
<1>6. Cardinality(S) <= n => T = S
  BY <1>2
<1>7. ASSUME T # {} PROVE \E c \in T : Place(T, r, c) = 1
  <2> DEFINE Q == ByRank(T, r)
  <2>1. /\ IsFiniteSet(T) /\ IsOrder(T, Q)
        /\ \A c \in T : Place(T, r, c) = 1 + Cardinality(Ahead(T, Q, c))
    <3>1. T \in SUBSET Claims
      OBVIOUS
    <3> HIDE DEF T
    <3> QED BY <3>1, RankingOrders
  <2> HIDE DEF T, Q
  <2> QED BY <1>7, <2>1, SomeFirst
<1>8. S # {} => T # {}
  <2>1. S # {} => \E c \in S : Cardinality(Ahead(S, P, c)) = 0
    BY <1>1, SomeFirst
  <2> QED BY <2>1
<1> QED BY <1>3, <1>4, <1>5, <1>6, <1>7, <1>8

-----------------------------------------------------------------------------
(* Fusing two rankings *)

\* A product of numbers is one, and keeps an order.
LEMMA Products ==
    ASSUME NEW a \in Nat, NEW b \in Nat \ {0}, NEW k \in Nat \ {0}
    PROVE  /\ a * k \in Nat /\ b * k \in Nat \ {0}
           /\ a < b => a * k < b * k
           /\ a = b => a * k = b * k
  OBVIOUS

\* Comparing fractions by cross products is transitive, and strict if one of the
\* comparisons is.
LEMMA CrossProducts ==
    ASSUME NEW m \in Nat \ {0}, NEW n \in Nat \ {0}, NEW o \in Nat \ {0},
           NEW x \in Nat \ {0}, NEW y \in Nat \ {0}, NEW z \in Nat \ {0},
           m * y >= n * x, n * z >= o * y
    PROVE  /\ m * z >= o * x
           /\ m * y > n * x \/ n * z > o * y => m * z > o * x
<1>1. (m * y) * z >= (n * x) * z /\ (m * y > n * x => (m * y) * z > (n * x) * z)
  <2> DEFINE p == m * y
             q == n * x
  <2>1. p \in Nat /\ q \in Nat
    OBVIOUS
  <2>2. p >= q
    OBVIOUS
  <2> HIDE DEF p, q
  <2>3. p * z >= q * z /\ (p > q => p * z > q * z)
    BY <2>1, <2>2
  <2> QED BY <2>3 DEF p, q
<1>2. (n * z) * x >= (o * y) * x /\ (n * z > o * y => (n * z) * x > (o * y) * x)
  <2> DEFINE p == n * z
             q == o * y
  <2>1. p \in Nat /\ q \in Nat
    OBVIOUS
  <2>2. p >= q
    OBVIOUS
  <2> HIDE DEF p, q
  <2>3. p * x >= q * x /\ (p > q => p * x > q * x)
    BY <2>1, <2>2
  <2> QED BY <2>3 DEF p, q
<1> DEFINE left  == m * z
           right == o * x
<1>3. (m * y) * z = left * y /\ (n * x) * z = (n * z) * x /\ (o * y) * x = right * y
  OBVIOUS
<1>4. left \in Nat /\ right \in Nat
  OBVIOUS
<1>5. /\ left * y >= right * y
      /\ m * y > n * x \/ n * z > o * y => left * y > right * y
  <2> DEFINE a == (m * y) * z
             b == (n * z) * x
             c == (o * y) * x
  <2>1. a \in Nat /\ b \in Nat /\ c \in Nat
    OBVIOUS
  <2>2. a >= b /\ b >= c /\ (m * y > n * x => a > b) /\ (n * z > o * y => b > c)
    BY <1>1, <1>2, <1>3
  <2> HIDE DEF a, b, c
  <2>3. a >= c /\ (m * y > n * x \/ n * z > o * y => a > c)
    BY <2>1, <2>2
  <2> QED BY <1>3, <2>3 DEF a, c
<1> HIDE DEF left, right
<1>6. left >= right /\ (left * y > right * y => left > right)
  BY <1>4, <1>5
<1> QED BY <1>5, <1>6 DEF left, right

LEMMA FractionsTyped ==
    ASSUME NEW i \in Nat, NEW j \in Nat
    PROVE  Numerator(i, j) \in Nat \ {0} /\ Denominator(i, j) \in Nat \ {0}
  BY DEF Numerator, Denominator

\* A claim that only the vectors found is never better than the first of the words.
LEMMA FirstBeatsVectors ==
    ASSUME NEW j \in Nat, NEW l \in Nat \ {0}
    PROVE  ~Better(0, l, 1, j)
<1>1. CASE j = 0
  BY <1>1 DEF Better, Numerator, Denominator
<1>2. CASE j # 0
  <2>1. /\ Numerator(0, l) = 1 /\ Denominator(0, l) = 60 + l
        /\ Numerator(1, j) = 121 + j /\ Denominator(1, j) = 61 * (60 + j)
    BY <1>2 DEF Numerator, Denominator
  <2>2. (121 + j) * (60 + l) >= (121 + j) * 61
    OBVIOUS
  <2>3. (121 + j) * 61 > 61 * (60 + j)
    OBVIOUS
  <2>4. ~(1 * (61 * (60 + j)) > (121 + j) * (60 + l))
    <3> DEFINE a == (121 + j) * (60 + l)
    <3>1. a \in Nat
      OBVIOUS
    <3>2. a >= (121 + j) * 61
      BY <2>2
    <3> HIDE DEF a
    <3>3. ~(1 * (61 * (60 + j)) > a)
      BY <2>3, <3>1, <3>2
    <3> QED BY <3>3 DEF a
  <2> QED BY <2>1, <2>4 DEF Better
<1> QED BY <1>1, <1>2

IsList(list) == list.ids \in SUBSET Claims /\ IsRanking(list.rank)

LEMMA Ranks ==
    ASSUME NEW list, IsList(list)
    PROVE  /\ \A c : Rank(list, c) \in Nat /\ (Rank(list, c) = 0 <=> c \notin list.ids)
           /\ \A c, d \in list.ids : Rank(list, c) = Rank(list, d) => c = d
<1>1. /\ \A c \in list.ids : Place(list.ids, list.rank, c) \in 1 .. Cardinality(list.ids)
      /\ Cardinality(list.ids) \in Nat
      /\ \A c, d \in list.ids :
            Place(list.ids, list.rank, c) = Place(list.ids, list.rank, d) => c = d
  BY Places DEF IsList
<1> QED BY <1>1 DEF Rank

ByFusion(lex, vec) ==
    {p \in (lex.ids \cup vec.ids) \X (lex.ids \cup vec.ids) : Precedes(lex, vec, p[1], p[2])}

\* The fused ranking is a strict total order.
LEMMA FusionOrders ==
    ASSUME NEW lex, NEW vec, IsList(lex), IsList(vec)
    PROVE  IsOrder(lex.ids \cup vec.ids, ByFusion(lex, vec))
<1> DEFINE All == lex.ids \cup vec.ids
           P(c, d) == Precedes(lex, vec, c, d)
           i(c) == Rank(lex, c)
           j(c) == Rank(vec, c)
           N(c) == Numerator(i(c), j(c))
           D(c) == Denominator(i(c), j(c))
           B(c, d) == N(c) * D(d) > N(d) * D(c)
           E(c, d) == i(c) # 0 /\ (i(d) = 0 \/ i(c) < i(d))
<1>1. \A c, d : P(c, d) <=> B(c, d) \/ (~B(d, c) /\ E(c, d))
  BY DEF Precedes, Better, EarlierIn
<1>2. \A c : i(c) \in Nat /\ j(c) \in Nat
  BY Ranks
<1>3. \A c : N(c) \in Nat \ {0} /\ D(c) \in Nat \ {0}
  BY <1>2, FractionsTyped
<1>4. ASSUME NEW c \in All, NEW d \in All, c # d, ~B(c, d), ~B(d, c)
      PROVE  E(c, d) \/ E(d, c)
  <2>1. CASE i(c) # 0 \/ i(d) # 0
    <3>1. i(c) # i(d)
      BY <1>4, <2>1, Ranks
    <3> QED BY <1>2, <2>1, <3>1
  <2>2. CASE i(c) = 0 /\ i(d) = 0
    <3>1. j(c) # 0 /\ j(d) # 0 /\ j(c) # j(d)
      BY <1>4, <2>2, Ranks
    <3>2. N(c) = 1 /\ N(d) = 1 /\ D(c) = 60 + j(c) /\ D(d) = 60 + j(d)
      BY <2>2, <3>1 DEF Numerator, Denominator
    <3> HIDE DEF N, D, j
    <3>3. B(c, d) \/ B(d, c)
      BY <1>2, <3>1, <3>2
    <3> QED BY <1>4, <3>3
  <2> QED BY <2>1, <2>2
<1>5. \A c, d : B(c, d) \in BOOLEAN /\ (~B(d, c) <=> N(c) * D(d) >= N(d) * D(c))
  <2> SUFFICES ASSUME NEW c, NEW d PROVE ~B(d, c) <=> N(c) * D(d) >= N(d) * D(c)
    OBVIOUS
  <2>1. N(c) * D(d) \in Nat /\ N(d) * D(c) \in Nat
    <3> HIDE DEF N, D
    <3> QED BY <1>3
  <2> HIDE DEF N, D
  <2> DEFINE x == N(c) * D(d)
             y == N(d) * D(c)
  <2>2. x \in Nat /\ y \in Nat
    BY <2>1
  <2>3. ~B(d, c) <=> ~(y > x)
    OBVIOUS
  <2> HIDE DEF x, y
  <2>4. ~(y > x) <=> x >= y
    BY <2>2
  <2> QED BY <2>3, <2>4 DEF x, y
<1>6. ASSUME NEW c, NEW d, NEW e, ~B(d, c), ~B(e, d)
      PROVE  ~B(e, c) /\ (B(c, d) \/ B(d, e) => B(c, e))
  <2>1. N(c) * D(d) >= N(d) * D(c) /\ N(d) * D(e) >= N(e) * D(d)
    BY <1>5, <1>6
  <2> HIDE DEF N, D
  <2>2. N(c) * D(e) >= N(e) * D(c)
        /\ (N(c) * D(d) > N(d) * D(c) \/ N(d) * D(e) > N(e) * D(d) => N(c) * D(e) > N(e) * D(c))
    BY <1>3, <2>1, CrossProducts
  <2> QED BY <1>5, <2>2
<1>7. \A c, d : B(c, d) => ~B(d, c)
  <2> SUFFICES ASSUME NEW c, NEW d, B(c, d), B(d, c) PROVE FALSE
    OBVIOUS
  <2>1. ~B(d, c) <=> N(c) * D(d) >= N(d) * D(c)
    BY <1>5
  <2> DEFINE x == N(c) * D(d)
             y == N(d) * D(c)
  <2>2. x \in Nat /\ y \in Nat
    <3> HIDE DEF N, D
    <3> QED BY <1>3
  <2>3. x > y
    OBVIOUS
  <2> HIDE DEF x, y
  <2>4. x >= y
    BY <2>2, <2>3
  <2> QED BY <2>1, <2>4 DEF x, y
<1> HIDE DEF B
<1>8. \A c : ~E(c, c)
  BY <1>2
<1>9. \A c, d, e : E(c, d) /\ E(d, e) => E(c, e)
  BY <1>2
<1>10. \A c, d : E(c, d) => ~E(d, c)
  BY <1>2
<1> HIDE DEF E
<1>11. \A c : ~P(c, c)
  BY <1>1, <1>7, <1>8
<1>12. \A c, d \in All : c # d => P(c, d) \/ P(d, c)
  BY <1>1, <1>4
<1>13. ASSUME NEW c, NEW d, NEW e, P(c, d), P(d, e) PROVE P(c, e)
  <2>1. ~B(d, c) /\ ~B(e, d)
    BY <1>1, <1>7, <1>13
  <2>2. ~B(e, c) /\ (B(c, d) \/ B(d, e) => B(c, e))
    BY <1>6, <2>1
  <2>3. CASE B(c, d) \/ B(d, e)
    BY <1>1, <2>2, <2>3
  <2>4. CASE ~B(c, d) /\ ~B(d, e)
    BY <1>1, <1>9, <1>13, <2>2, <2>4
  <2> QED BY <2>3, <2>4
<1> HIDE DEF P
<1>14. \A c, d \in All : <<c, d>> \in ByFusion(lex, vec) <=> P(c, d)
  BY DEF ByFusion, P
<1> HIDE DEF All
<1>15. IsOrder(All, ByFusion(lex, vec))
  BY <1>11, <1>12, <1>13, <1>14 DEF IsOrder
<1> QED BY <1>15 DEF All

\* What interleave_claims returns: n claims or fewer, of the two lists, and the
\* best match of the words among them if the words gave no more than n.
LEMMA Fusing ==
    ASSUME NEW lex, NEW vec, IsList(lex), IsList(vec), NEW n \in Nat \ {0},
           Cardinality(lex.ids) <= n
    PROVE  /\ Fused(lex, vec, n) \subseteq lex.ids \cup vec.ids
           /\ Cardinality(Fused(lex, vec, n)) <= n
           /\ \A c \in lex.ids : Place(lex.ids, lex.rank, c) = 1 => c \in Fused(lex, vec, n)
<1> DEFINE All == lex.ids \cup vec.ids
           P == ByFusion(lex, vec)
           F == {c \in All : Cardinality(Ahead(All, P, c)) < n}
<1>1. All \in SUBSET Claims /\ IsFiniteSet(All) /\ IsOrder(All, P)
  BY ClaimsAssumption, FS_Subset, FusionOrders DEF IsList
<1>2. \A c \in All : Ahead(All, P, c) = {d \in All : Precedes(lex, vec, d, c)}
  BY DEF Ahead, ByFusion
<1>3. Fused(lex, vec, n) = F
  BY <1>2 DEF Fused
<1>4. Cardinality(F) <= n
  <2> HIDE DEF All, P
  <2> QED BY <1>1, AtMost
<1>5. ASSUME NEW c \in lex.ids, Place(lex.ids, lex.rank, c) = 1
      PROVE  c \in F
  <2>1. Rank(lex, c) = 1
    BY <1>5 DEF Rank
  <2>2. ASSUME NEW d \in Ahead(All, P, c) PROVE d \in lex.ids
    <3>1. d \in All /\ Precedes(lex, vec, d, c)
      BY <1>2
    <3>2. SUFFICES ASSUME d \notin lex.ids PROVE FALSE
      OBVIOUS
    <3>3. Rank(lex, d) = 0 /\ Rank(vec, d) \in Nat \ {0} /\ Rank(vec, c) \in Nat
      BY <3>1, <3>2, Ranks
    <3>4. Better(0, Rank(vec, d), 1, Rank(vec, c))
      BY <2>1, <3>1, <3>3 DEF Precedes, EarlierIn
    <3> QED BY <3>3, <3>4, FirstBeatsVectors
  <2>3. Ahead(All, P, c) \in SUBSET (lex.ids \ {c})
    BY <1>1, <2>2 DEF IsOrder, Ahead
  <2>4. IsFiniteSet(lex.ids) /\ Cardinality(lex.ids) \in Nat
    BY ClaimsAssumption, FS_Subset, FS_CardinalityType DEF IsList
  <2>5. IsFiniteSet(lex.ids \ {c}) /\ Cardinality(lex.ids \ {c}) = Cardinality(lex.ids) - 1
    BY <2>4, FS_RemoveElement
  <2>6. /\ Cardinality(Ahead(All, P, c)) <= Cardinality(lex.ids \ {c})
        /\ Cardinality(Ahead(All, P, c)) \in Nat
    BY <2>3, <2>5, FS_Subset, FS_CardinalityType
  <2>7. Cardinality(Ahead(All, P, c)) < n
    BY <2>4, <2>5, <2>6
  <2> QED BY <2>7
<1> QED BY <1>3, <1>4, <1>5

-----------------------------------------------------------------------------
(* The inductive invariant *)

\* What the claim files say today of whether c was active when t ended.
WasActive(c, t) ==
    /\ claim[c].st \in {"approved"} \cup Ended
    /\ claim[c].at <= t
    /\ claim[c].stale = Never \/ claim[c].stale > t
    /\ claim[c].st \in Ended => claim[c].ended > t

Record == [st : Statuses, at : Int, stale : Int, ended : Int]

Typed == now \in Nat /\ claim \in [Claims -> Record]

Dated == \A c \in Claims : /\ claim[c].st # "absent" => claim[c].at \in 0 .. now
                           /\ claim[c].st \in Ended => claim[c].ended \in 0 .. now

Indexed == fresh => \A c \in Claims : rows[c] = claim[c].st

Remembered == past = [t \in 0 .. now - 1 |-> {c \in Claims : WasActive(c, t)}]

\* Nothing moves between the query and its response.
Served ==
    \/ told = Quiet
    \/ /\ fresh
       /\ \E q \in Queries, w \in Accepted, embedding \in BOOLEAN :
             told = Response(q, w, Limit(q.limit), embedding)

IInv == Typed /\ Dated /\ Indexed /\ Remembered /\ Served

LEMMA InitInv == Init => IInv
<1> SUFFICES ASSUME Init PROVE IInv
  OBVIOUS
<1>1. Typed
  BY DEF Init, Typed, Record, Absent, Statuses, Never
<1>2. Dated /\ Indexed
  BY DEF Init, Dated, Indexed, Absent, Ended
<1>3. Remembered
  <2>1. 0 .. now - 1 = {}
    BY DEF Init
  <2> QED BY <2>1 DEF Init, Remembered
<1>4. Served
  BY DEF Init, Served
<1> QED BY <1>1, <1>2, <1>3, <1>4 DEF IInv

\* The claims that a query found, before the window.
Found(q, w, embedding) ==
    LET n   == Limit(q.limit)
        lex == Lexical(q, Trusted(w), n)
    IN  IF embedding THEN Merged(q, lex, n) ELSE lex

\* What a response says of the query it answers.
Tells(said, q, w, embedding) ==
    /\ said.asked /\ said.query = q /\ said.window = w
    /\ said.limit = Limit(q.limit) /\ said.embedding = embedding
    /\ said.claims = {c \in Found(q, w, embedding) : InWindow(c, w)}
    /\ said.candidates = {c \in Lexical(q, {"draft"}, Limit(q.limit)) : InWindow(c, w)}
    /\ said.status = "gap" => said.claims = {}
    /\ said.status = "ready" => ~InConflict(said.claims)

LEMMA ResponseShape ==
    ASSUME NEW q, NEW w, NEW embedding
    PROVE  Tells(Response(q, w, Limit(q.limit), embedding), q, w, embedding)
<1> DEFINE kept == {c \in Found(q, w, embedding) : InWindow(c, w)}
           proposed == {c \in Lexical(q, {"draft"}, Limit(q.limit)) : InWindow(c, w)}
           word == IF InConflict(kept) THEN "blocked" ELSE IF kept = {} THEN "gap" ELSE "ready"
           said == Response(q, w, Limit(q.limit), embedding)
<1>1. said = [asked |-> TRUE, query |-> q, window |-> w, limit |-> Limit(q.limit),
              embedding |-> embedding, claims |-> kept, candidates |-> proposed, status |-> word]
  BY DEF Response, Found
<1>2. (word = "gap" => kept = {}) /\ (word = "ready" => ~InConflict(kept))
  <2> HIDE DEF kept
  <2> QED OBVIOUS
<1> HIDE DEF kept, proposed, word, said
<1>3. /\ said.asked /\ said.query = q /\ said.window = w
      /\ said.limit = Limit(q.limit) /\ said.embedding = embedding
      /\ said.claims = kept /\ said.candidates = proposed /\ said.status = word
  BY <1>1
<1>4. Tells(said, q, w, embedding)
  BY <1>2, <1>3 DEF Tells, kept, proposed
<1> QED BY <1>4 DEF said

LEMMA ResponseFrame ==
    ASSUME UNCHANGED <<claim, rows, vectors>>, NEW q, NEW w, NEW n, NEW embedding
    PROVE  Response(q, w, n, embedding)' = Response(q, w, n, embedding)
  BY DEF Response, Merged, Known, Similar, WithStatus, InWindow, EndedAfter, Lexical

\* Who was not asked has nothing to tell.
LEMMA NotAsked == ASSUME Served, ~told.asked PROVE told = Quiet
<1> SUFFICES ASSUME told # Quiet PROVE FALSE
  OBVIOUS
<1>1. PICK q \in Queries, w \in Accepted, embedding \in BOOLEAN :
         told = Response(q, w, Limit(q.limit), embedding)
  BY DEF Served
<1>2. Tells(told, q, w, embedding)
  BY <1>1, ResponseShape
<1> QED BY <1>2 DEF Tells

\* What a lifecycle command does to the claims.
Changed(c, record, others) ==
    \A d \in Claims :
        /\ d = c => claim'[d] = record
        /\ d # c /\ d \in others =>
             /\ claim'[d].st = "superseded" /\ claim'[d].ended = now
             /\ claim'[d].at = claim[d].at /\ claim'[d].stale = claim[d].stale
        /\ d # c /\ d \notin others => claim'[d] = claim[d]

\* The rest of it: nobody is being answered, and the index is old.
LEMMA ChangeEffects ==
    ASSUME IInv, NEW c \in Claims, NEW record \in Record, NEW others, Change(c, record, others)
    PROVE  /\ Typed' /\ Indexed' /\ Served' /\ now' = now /\ past' = past
           /\ Changed(c, record, others)
<1>1. ASSUME NEW d \in Claims
      PROVE  /\ d = c => claim'[d] = record
             /\ d # c /\ d \in others =>
                  /\ claim'[d] \in Record
                  /\ claim'[d].st = "superseded" /\ claim'[d].ended = now
                  /\ claim'[d].at = claim[d].at /\ claim'[d].stale = claim[d].stale
             /\ d # c /\ d \notin others => claim'[d] = claim[d]
  <2>1. claim[d] \in Record /\ now \in Int
    BY DEF IInv, Typed
  <2> DEFINE replaced == [claim[d] EXCEPT !.st = "superseded", !.ended = now]
  <2>2. /\ replaced \in Record /\ replaced.st = "superseded" /\ replaced.ended = now
        /\ replaced.at = claim[d].at /\ replaced.stale = claim[d].stale
    BY <2>1 DEF Record, Statuses
  <2>3. claim'[d] = IF d = c THEN record ELSE IF d \in others THEN replaced ELSE claim[d]
    BY Zenon DEF Change
  <2> HIDE DEF replaced
  <2> QED BY <2>2, <2>3
<1>2. now' = now /\ past' = past /\ told' = told /\ ~told.asked /\ fresh' = FALSE
  BY DEF Change
<1>3. claim' = [d \in Claims |-> claim'[d]]
  BY Zenon DEF Change
<1>4. Typed'
  <2>1. \A d \in Claims : claim'[d] \in Record
    BY <1>1 DEF IInv, Typed
  <2> QED BY <1>2, <1>3, <2>1 DEF IInv, Typed
<1>5. Indexed' /\ Served'
  <2>1. told = Quiet
    BY <1>2, NotAsked DEF IInv
  <2> QED BY <1>2, <2>1 DEF Indexed, Served
<1> QED BY <1>1, <1>2, <1>4, <1>5 DEF Changed

\* What a second looked like does not change with what happens later.
LEMMA PastKept ==
    ASSUME IInv, now' = now, past' = past, NEW c \in Claims, NEW record \in Record,
           NEW others \in SUBSET Claims, Changed(c, record, others),
           \A d \in others \ {c} : claim[d].st = "approved",
           record.st # "absent" => record.at \in 0 .. now,
           record.st \in Ended => record.ended = now,
           \A t \in 0 .. now - 1 :
              (/\ record.st \in {"approved"} \cup Ended /\ record.at <= t
               /\ record.stale = Never \/ record.stale > t)
              <=> WasActive(c, t)
    PROVE  Dated' /\ Remembered'
<1>1. now \in Nat
  BY DEF IInv, Typed
<1>2. ASSUME NEW d \in Claims
      PROVE  /\ claim'[d].st # "absent" => claim'[d].at \in 0 .. now
             /\ claim'[d].st \in Ended => claim'[d].ended \in 0 .. now
  <2>1. CASE d = c
    BY <1>1, <2>1 DEF Changed
  <2>2. CASE d # c /\ d \in others
    <3>1. claim'[d].at = claim[d].at /\ claim'[d].ended = now
      BY <2>2 DEF Changed
    <3>2. claim[d].st = "approved"
      BY <2>2
    <3> QED BY <1>1, <3>1, <3>2 DEF IInv, Dated
  <2>3. CASE d # c /\ d \notin others
    BY <2>3 DEF Changed, IInv, Dated
  <2> QED BY <2>1, <2>2, <2>3
<1>3. ASSUME NEW d \in Claims, NEW t \in 0 .. now - 1
      PROVE  WasActive(d, t)' <=> WasActive(d, t)
  <2>1. CASE d = c
    <3>1. claim'[d] = record
      BY <2>1 DEF Changed
    <3>2. record.st \in Ended => record.ended > t
      BY <1>1
    <3> QED BY <2>1, <3>1, <3>2 DEF WasActive
  <2>2. CASE d # c /\ d \in others
    <3>1. /\ claim'[d].st = "superseded" /\ claim'[d].at = claim[d].at
          /\ claim'[d].stale = claim[d].stale /\ claim'[d].ended = now
      BY <2>2 DEF Changed
    <3>2. claim[d].st = "approved" /\ now > t
      BY <1>1, <2>2
    <3> QED BY <3>1, <3>2 DEF WasActive, Ended
  <2>3. CASE d # c /\ d \notin others
    BY <2>3 DEF Changed, WasActive
  <2> QED BY <2>1, <2>2, <2>3
<1>4. Dated'
  BY <1>2 DEF Dated
<1>5. Remembered'
  BY <1>3 DEF IInv, Remembered
<1> QED BY <1>4, <1>5

LEMMA LifecycleStep ==
    ASSUME IInv, NEW c \in Claims,
           \/ \E date \in StaleDates : Draft(c, date)
           \/ Approve(c) \/ Revoke(c)
    PROVE  IInv'
<1>0. claim[c] \in Record /\ now \in Nat
  BY DEF IInv, Typed
<1>1. ASSUME NEW date \in StaleDates, Draft(c, date) PROVE IInv'
  <2>1. PICK record : record = [Absent EXCEPT !.st = "draft", !.at = now, !.stale = date]
    OBVIOUS
  <2>2. Change(c, record, {}) /\ claim[c].st \in {"absent", "draft"}
    BY <1>1, <2>1 DEF Draft
  <2>3. record \in Record /\ record.st = "draft" /\ record.at = now
    <3>1. Absent \in Record /\ "draft" \in Statuses /\ now \in Int /\ date \in Int
      BY <1>0, RecallBounds DEF Record, Absent, Statuses, Never
    <3> QED BY <2>1, <3>1 DEF Record
  <2>4. \A t : ~WasActive(c, t)
    BY <2>2 DEF WasActive, Ended
  <2>5. /\ Typed' /\ Indexed' /\ Served' /\ now' = now /\ past' = past
        /\ Changed(c, record, {})
    BY <2>2, <2>3, ChangeEffects
  <2>6. Dated' /\ Remembered'
    BY <1>0, <2>3, <2>4, <2>5, PastKept DEF Ended
  <2> QED BY <2>5, <2>6 DEF IInv
<1>2. CASE Approve(c)
  <2>1. PICK record : record = [claim[c] EXCEPT !.st = "approved", !.at = now]
    OBVIOUS
  <2>2. /\ Change(c, record, Supersedes[c]) /\ claim[c].st = "draft"
        /\ \A d \in Supersedes[c] : claim[d].st = "approved"
    BY <1>2, <2>1 DEF Approve
  <2>3. record \in Record /\ record.st = "approved" /\ record.at = now
    <3>1. "approved" \in Statuses /\ now \in Int
      BY <1>0 DEF Statuses
    <3> QED BY <1>0, <2>1, <3>1 DEF Record
  <2>4. \A t : ~WasActive(c, t)
    BY <2>2 DEF WasActive, Ended
  <2>5. Supersedes[c] \in SUBSET Claims
    BY ClaimsAssumption
  <2>6. /\ Typed' /\ Indexed' /\ Served' /\ now' = now /\ past' = past
        /\ Changed(c, record, Supersedes[c])
    BY <2>2, <2>3, ChangeEffects
  <2>7. \A t \in 0 .. now - 1 : ~(record.at <= t)
    BY <1>0, <2>3
  <2>8. Dated' /\ Remembered'
    BY <1>0, <2>2, <2>3, <2>4, <2>5, <2>6, <2>7, PastKept DEF Ended
  <2> QED BY <2>6, <2>8 DEF IInv
<1>3. CASE Revoke(c)
  <2>1. PICK record : record = [claim[c] EXCEPT !.st = "revoked", !.ended = now]
    OBVIOUS
  <2>2. Change(c, record, {}) /\ claim[c].st = "approved"
    BY <1>3, <2>1 DEF Revoke
  <2>3. /\ record \in Record /\ record.st = "revoked" /\ record.at = claim[c].at
        /\ record.stale = claim[c].stale /\ record.ended = now
    <3>1. "revoked" \in Statuses /\ now \in Int
      BY <1>0 DEF Statuses
    <3> QED BY <1>0, <2>1, <3>1 DEF Record
  <2>4. claim[c].at \in 0 .. now
    BY <2>2 DEF IInv, Dated
  <2>5. \A t \in 0 .. now - 1 :
           (/\ record.st \in {"approved"} \cup Ended /\ record.at <= t
            /\ record.stale = Never \/ record.stale > t)
           <=> WasActive(c, t)
    BY <2>2, <2>3 DEF WasActive, Ended
  <2>6. /\ Typed' /\ Indexed' /\ Served' /\ now' = now /\ past' = past
        /\ Changed(c, record, {})
    BY <2>2, <2>3, ChangeEffects
  <2>7. Dated' /\ Remembered'
    BY <2>3, <2>4, <2>5, <2>6, PastKept
  <2> QED BY <2>6, <2>7 DEF IInv
<1> QED BY <1>1, <1>2, <1>3

LEMMA TickStep == ASSUME IInv, Tick PROVE IInv'
<1>1. claim' = claim /\ now' = now + 1 /\ now \in Nat
  BY DEF Tick, IInv, Typed
<1>2. Typed' /\ Indexed' /\ Served'
  <2>1. told = Quiet /\ told' = told
    BY NotAsked DEF Tick, IInv
  <2> QED BY <1>1, <2>1 DEF Tick, IInv, Typed, Indexed, Served
<1>3. Dated'
  BY <1>1 DEF IInv, Dated, Typed
<1>4. Remembered'
  <2>1. past' = [t \in 0 .. now |-> IF t < now THEN past[t] ELSE {c \in Claims : ActiveAt(c, now)}]
    BY DEF Tick
  <2>2. now' - 1 = now
    BY <1>1
  <2>3. ASSUME NEW t \in 0 .. now, NEW c \in Claims PROVE WasActive(c, t)' <=> WasActive(c, t)
    BY <1>1 DEF WasActive
  <2>4. ASSUME NEW t \in 0 .. now, t < now PROVE past[t] = {c \in Claims : WasActive(c, t)}
    <3>1. t \in 0 .. now - 1
      BY <1>1, <2>4
    <3> QED BY <3>1 DEF IInv, Remembered
  <2>5. ASSUME NEW c \in Claims PROVE ActiveAt(c, now) <=> WasActive(c, now)
    <3>1. claim[c].st \in Ended => ~(claim[c].ended > now)
      BY <1>1 DEF IInv, Dated, Typed
    <3>2. claim[c].st = "approved" => claim[c].at <= now
      BY <1>1 DEF IInv, Dated, Typed
    <3> QED BY <3>1, <3>2 DEF ActiveAt, WasActive, Ended
  <2>6. ASSUME NEW t \in 0 .. now
        PROVE  (IF t < now THEN past[t] ELSE {c \in Claims : ActiveAt(c, now)})
                  = {c \in Claims : WasActive(c, t)'}
    <3>1. CASE t < now
      BY <2>3, <2>4, <3>1
    <3>2. CASE ~(t < now)
      <4>1. t = now
        BY <1>1, <3>2
      <4> QED BY <2>3, <2>5, <3>2, <4>1
    <3> QED BY <3>1, <3>2
  <2> QED BY <2>1, <2>2, <2>6 DEF Remembered
<1> QED BY <1>2, <1>3, <1>4 DEF IInv

\* A step that leaves the claims, the clock and the history alone.
LEMMA StoreFrame ==
    ASSUME IInv, UNCHANGED <<now, claim, past>>
    PROVE  Typed' /\ Dated' /\ Remembered'
  BY DEF IInv, Typed, Dated, Remembered, WasActive

LEMMA IndexStep ==
    ASSUME IInv, NEW p,
           \/ ReadRows(p) \/ WriteVectors(p) \/ Die(p)
           \/ \E embedding \in BOOLEAN : Reindex(p, embedding)
    PROVE  IInv'
<1>1. UNCHANGED <<now, claim, past, told>> /\ ~told.asked
  BY DEF ReadRows, WriteVectors, Die, Reindex
<1>2. Indexed'
  BY DEF ReadRows, WriteVectors, Die, Reindex, IInv, Indexed
<1>3. Served'
  BY <1>1, NotAsked DEF IInv, Served
<1> QED BY <1>1, <1>2, <1>3, StoreFrame DEF IInv

LEMMA QueryStep ==
    ASSUME IInv,
           \/ \E q \in Queries, w \in Accepted, embedding \in BOOLEAN : Ask(q, w, embedding)
           \/ Read \/ UNCHANGED vars
    PROVE  IInv'
<1>1. UNCHANGED <<now, claim, past, rows, fresh, vectors>>
  BY DEF Ask, Read, vars
<1>2. Indexed'
  BY <1>1 DEF IInv, Indexed
<1>3. ASSUME NEW q \in Queries, NEW w \in Accepted, NEW embedding \in BOOLEAN,
             fresh, told' = Response(q, w, Limit(q.limit), embedding)
      PROVE  Served'
  <2>1. told' = Response(q, w, Limit(q.limit), embedding)'
    BY <1>1, <1>3, ResponseFrame
  <2> QED BY <1>1, <1>3, <2>1 DEF Served
<1>4. Served'
  <2>1. CASE \E q \in Queries, w \in Accepted, embedding \in BOOLEAN : Ask(q, w, embedding)
    BY <1>3, <2>1 DEF Ask
  <2>2. CASE Read
    BY <2>2 DEF Read, Served
  <2>3. CASE UNCHANGED vars
    <3>1. told' = told
      BY <2>3 DEF vars
    <3>2. CASE told = Quiet
      BY <3>1, <3>2 DEF Served
    <3>3. CASE told # Quiet
      <4>1. PICK q \in Queries, w \in Accepted, embedding \in BOOLEAN :
               fresh /\ told = Response(q, w, Limit(q.limit), embedding)
        BY <3>3 DEF IInv, Served
      <4> QED BY <1>3, <3>1, <4>1
    <3> QED BY <3>2, <3>3
  <2> QED BY <2>1, <2>2, <2>3
<1> QED BY <1>1, <1>2, <1>4, StoreFrame DEF IInv

LEMMA Invariance == Spec => []IInv
<1>1. IInv /\ [Next]_vars => IInv'
  BY LifecycleStep, IndexStep, QueryStep, TickStep DEF Next
<1> QED BY <1>1, InitInv, PTL DEF Spec

-----------------------------------------------------------------------------
(* What the invariant says of an answer *)

LEMMA LimitPositive == ASSUME NEW q \in Queries PROVE Limit(q.limit) \in Nat \ {0}
  BY QueriesAssumption DEF Limit

LEMMA Fresh ==
    ASSUME IInv, fresh, NEW S
    PROVE  WithStatus(S) = {c \in Claims : claim[c].st \in S}
  BY DEF IInv, Indexed, WithStatus

\* The candidates of the words: never more than n, and the first is among them.
LEMMA Candidates ==
    ASSUME NEW q \in Queries, NEW S, NEW n \in Nat \ {0}
    PROVE  /\ Lexical(q, S, n) \subseteq q.hits \cap WithStatus(S)
           /\ Lexical(q, S, n) \in SUBSET Claims /\ IsRanking(q.lex)
           /\ Cardinality(Lexical(q, S, n)) \in Nat /\ Cardinality(Lexical(q, S, n)) <= n
           /\ Cardinality(q.hits \cap WithStatus(S)) <= n =>
                 Lexical(q, S, n) = q.hits \cap WithStatus(S)
           /\ q.hits \cap WithStatus(S) # {} =>
                 \E c \in Lexical(q, S, n) : Place(Lexical(q, S, n), q.lex, c) = 1
<1> DEFINE All == q.hits \cap WithStatus(S)
<1>1. All \in SUBSET Claims /\ IsRanking(q.lex)
  BY QueriesAssumption
<1> HIDE DEF All
<1>2. /\ Top(All, q.lex, n) \subseteq All
      /\ Cardinality(Top(All, q.lex, n)) \in Nat /\ Cardinality(Top(All, q.lex, n)) <= n
      /\ Cardinality(All) <= n => Top(All, q.lex, n) = All
      /\ All # {} => \E c \in Top(All, q.lex, n) : Place(Top(All, q.lex, n), q.lex, c) = 1
  BY <1>1, Cut
<1>3. Lexical(q, S, n) = Top(All, q.lex, n)
  BY DEF Lexical, All
<1> QED BY <1>1, <1>2, <1>3 DEF All

\* With the vectors merged in: still no more than n, nothing but candidates and
\* approved claims, and the first of the words is kept.
LEMMA Mixed ==
    ASSUME NEW q \in Queries, NEW n \in Nat \ {0}, NEW ids \in SUBSET Claims,
           Cardinality(ids) \in Nat, Cardinality(ids) <= n
    PROVE  /\ Merged(q, ids, n) \subseteq ids \cup WithStatus({"approved"})
           /\ Cardinality(Merged(q, ids, n)) <= n
           /\ \A c \in ids : Place(ids, q.lex, c) = 1 => c \in Merged(q, ids, n)
<1> DEFINE known == Known(Similar(q, n))
           lex   == [ids |-> ids, rank |-> q.lex]
           vec   == [ids |-> known, rank |-> q.vec]
<1>1. known \subseteq WithStatus({"approved"}) /\ WithStatus({"approved"}) \subseteq Claims
  BY DEF Known, WithStatus
<1>2. IsList(lex) /\ IsList(vec)
  BY <1>1, QueriesAssumption DEF IsList
<1>3. lex.ids = ids /\ lex.rank = q.lex /\ vec.ids = known
  OBVIOUS
<1>4. Merged(q, ids, n) = IF known = {} THEN ids ELSE Fused(lex, vec, n)
  BY DEF Merged
<1> HIDE DEF known, lex, vec
<1>5. /\ Fused(lex, vec, n) \subseteq ids \cup known
      /\ Cardinality(Fused(lex, vec, n)) <= n
      /\ \A c \in ids : Place(ids, q.lex, c) = 1 => c \in Fused(lex, vec, n)
  BY <1>2, <1>3, Fusing
<1> QED BY <1>1, <1>4, <1>5

LEMMA Telling ==
    ASSUME IInv, told.asked
    PROVE  \E q \in Queries, w \in Accepted, embedding \in BOOLEAN :
              /\ fresh
              /\ Tells(told, q, w, embedding)
<1>1. PICK q \in Queries, w \in Accepted, embedding \in BOOLEAN :
         fresh /\ told = Response(q, w, Limit(q.limit), embedding)
  BY DEF IInv, Served, Quiet
<1>2. Tells(told, q, w, embedding)
  BY <1>1, ResponseShape
<1> QED BY <1>1, <1>2 DEF Tells

\* What was found: claims of the statuses the window trusts.
LEMMA FoundTrusted ==
    ASSUME IInv, fresh, NEW q \in Queries, NEW w, NEW embedding \in BOOLEAN,
           NEW c \in Found(q, w, embedding)
    PROVE  c \in Claims /\ claim[c].st \in Trusted(w)
<1> DEFINE n == Limit(q.limit)
           lex == Lexical(q, Trusted(w), n)
<1>1. n \in Nat \ {0}
  BY LimitPositive
<1>2. /\ lex \subseteq q.hits \cap WithStatus(Trusted(w)) /\ lex \in SUBSET Claims
      /\ Cardinality(lex) \in Nat /\ Cardinality(lex) <= n
  BY <1>1, Candidates
<1>3. Merged(q, lex, n) \subseteq lex \cup WithStatus({"approved"})
  BY <1>1, <1>2, Mixed
<1>4. c \in lex \cup WithStatus({"approved"})
  BY <1>3 DEF Found
<1>5. c \in WithStatus(Trusted(w)) \cup WithStatus({"approved"})
  BY <1>2, <1>4
<1>6. "approved" \in Trusted(w)
  BY DEF Trusted
<1> QED BY <1>5, <1>6, Fresh

-----------------------------------------------------------------------------
(* The properties of the run, for any claims, queries, bounds and processes *)

\* An answer about the present holds approved claims, and its candidates are
\* drafts, whatever the sidecar holds (claims_by_ids_unlocked).
THEOREM ApprovedTheorem == Spec => []OnlyApprovedTold
<1>1. IInv => OnlyApprovedTold
  <2> SUFFICES ASSUME IInv, told.asked
               PROVE  /\ told.window.as_of = Never => \A c \in Answered : claim[c].st = "approved"
                      /\ \A c \in told.candidates : claim[c].st = "draft"
    BY DEF OnlyApprovedTold
  <2>1. PICK q \in Queries, w \in Accepted, embedding \in BOOLEAN :
           /\ fresh /\ told.window = w
           /\ told.claims = {c \in Found(q, w, embedding) : InWindow(c, w)}
           /\ told.candidates \subseteq Lexical(q, {"draft"}, Limit(q.limit))
    BY Telling DEF Tells
  <2>2. ASSUME w.as_of = Never, NEW c \in Answered PROVE claim[c].st = "approved"
    <3>1. c \in Found(q, w, embedding)
      BY <2>1, <2>2 DEF Answered
    <3>2. claim[c].st \in Trusted(w)
      BY <2>1, <3>1, FoundTrusted
    <3> QED BY <2>2, <3>2 DEF Trusted
  <2>3. ASSUME NEW c \in told.candidates PROVE claim[c].st = "draft"
    <3>1. c \in WithStatus({"draft"})
      BY <2>1, LimitPositive, Candidates
    <3> QED BY <2>1, <3>1, Fresh
  <2> QED BY <2>1, <2>2, <2>3
<1> QED BY <1>1, Invariance, PTL

\* A window is [after, before, as_of].
LEMMA WindowShape ==
    ASSUME NEW w \in Accepted
    PROVE  LET v == [w EXCEPT !.as_of = Never]
           IN  v.as_of = Never /\ v.after = w.after /\ v.before = w.before
<1>1. PICK texts \in Windows : w = Window(texts)
  BY DEF Accepted
<1>2. DOMAIN w = {"after", "before", "as_of"}
  BY <1>1, WindowsAssumption DEF Window
<1> QED BY <1>2

\* An answer as of a second that is over is what was active then: nothing else, and,
\* if the limit cut nothing off, all that the words and the window match
\* (match_temporal_claim).
THEOREM HistoryTheorem == Spec => []RecallIsHistory
<1>1. IInv => RecallIsHistory
  <2> SUFFICES ASSUME IInv, told.asked, told.window.as_of \in DOMAIN past
               PROVE  LET then == past[told.window.as_of]
                          w    == [told.window EXCEPT !.as_of = Never]
                      IN  /\ Answered \subseteq then
                          /\ Cardinality(Matching(told.query, Trusted(told.window))) <= told.limit
                                /\ ~told.embedding =>
                             {c \in then \cap told.query.hits : InWindow(c, w)} \subseteq Answered
    BY DEF RecallIsHistory
  <2>1. PICK q \in Queries, w \in Accepted, embedding \in BOOLEAN :
           /\ fresh /\ told.query = q /\ told.window = w /\ told.limit = Limit(q.limit)
           /\ told.embedding = embedding
           /\ told.claims = {c \in Found(q, w, embedding) : InWindow(c, w)}
    BY Telling DEF Tells
  <2> DEFINE t == w.as_of
             v == [w EXCEPT !.as_of = Never]
  <2>2. t \in 0 .. now - 1 /\ t # Never /\ past[t] = {c \in Claims : WasActive(c, t)}
    BY <2>1 DEF IInv, Typed, Remembered, Never
  <2>3. w # Anytime
    BY <2>2 DEF Anytime
  <2>4. Trusted(w) = {"approved"} \cup Ended
    BY <2>2 DEF Trusted
  <2>5. ASSUME NEW c \in Answered PROVE c \in past[t]
    <3>1. c \in Found(q, w, embedding) /\ InWindow(c, w)
      BY <2>1 DEF Answered
    <3>2. c \in Claims /\ claim[c].st \in {"approved"} \cup Ended
      BY <2>1, <2>4, <3>1, FoundTrusted
    <3>3. WasActive(c, t)
      BY <2>2, <2>3, <3>1, <3>2 DEF InWindow, EndedAfter, WasActive
    <3> QED BY <2>2, <3>2, <3>3
  <2>6. ASSUME Cardinality(Matching(q, Trusted(w))) <= Limit(q.limit), ~embedding,
               NEW c \in past[t] \cap q.hits, InWindow(c, v)
        PROVE  c \in Answered
    <3>1. q.hits \subseteq Claims
      BY QueriesAssumption
    <3>2. q.hits \cap WithStatus(Trusted(w)) = Matching(q, Trusted(w))
      BY <2>1, <3>1, Fresh DEF Matching
    <3>3. Lexical(q, Trusted(w), Limit(q.limit)) = Matching(q, Trusted(w))
      BY <2>6, <3>2, LimitPositive, Candidates
    <3>4. c \in Claims /\ WasActive(c, t)
      BY <2>2, <2>6
    <3>5. c \in Found(q, w, embedding)
      BY <2>4, <2>6, <3>3, <3>4 DEF Found, Matching, WasActive
    <3>6. v.after = w.after /\ v.before = w.before
      BY WindowShape
    <3>7. /\ w.after # Never => claim[c].at >= w.after
          /\ w.before # Never => claim[c].at <= w.before
      <4>1. CASE v = Anytime
        BY <3>6, <4>1 DEF Anytime
      <4>2. CASE v # Anytime
        <5> HIDE DEF v
        <5> QED BY <2>6, <3>6, <4>2 DEF InWindow
      <4> QED BY <4>1, <4>2
    <3>8. InWindow(c, w)
      BY <3>4, <3>7 DEF InWindow, EndedAfter, WasActive
    <3> QED BY <2>1, <3>5, <3>8 DEF Answered
  <2> QED BY <2>1, <2>5, <2>6
<1> QED BY <1>1, Invariance, PTL

\* What a query found holds the first of the words and no more than it asked for.
LEMMA FoundFirst ==
    ASSUME NEW q \in Queries, NEW w, NEW embedding \in BOOLEAN
    PROVE  LET lex == Lexical(q, Trusted(w), Limit(q.limit))
           IN  /\ IsFiniteSet(Found(q, w, embedding))
               /\ Cardinality(Found(q, w, embedding)) <= Limit(q.limit)
               /\ \A c \in lex : Place(lex, q.lex, c) = 1 => c \in Found(q, w, embedding)
<1> DEFINE n == Limit(q.limit)
           lex == Lexical(q, Trusted(w), n)
<1>1. n \in Nat \ {0}
  BY LimitPositive
<1>2. lex \in SUBSET Claims /\ Cardinality(lex) \in Nat /\ Cardinality(lex) <= n
  BY <1>1, Candidates
<1>3. /\ Merged(q, lex, n) \subseteq lex \cup WithStatus({"approved"})
      /\ Cardinality(Merged(q, lex, n)) <= n
      /\ \A c \in lex : Place(lex, q.lex, c) = 1 => c \in Merged(q, lex, n)
  BY <1>1, <1>2, Mixed
<1>4. WithStatus({"approved"}) \subseteq Claims
  BY DEF WithStatus
<1>5. Found(q, w, embedding) \in SUBSET Claims
  BY <1>2, <1>3, <1>4 DEF Found
<1>6. IsFiniteSet(Found(q, w, embedding))
  BY <1>5, ClaimsAssumption, FS_Subset
<1> HIDE DEF n
<1>7. Found(q, w, embedding) = IF embedding THEN Merged(q, lex, n) ELSE lex
  BY DEF Found, n
<1> HIDE DEF lex
<1>8. /\ Cardinality(Found(q, w, embedding)) <= n
      /\ \A c \in lex : Place(lex, q.lex, c) = 1 => c \in Found(q, w, embedding)
  BY <1>2, <1>3, <1>7
<1> QED BY <1>6, <1>8 DEF lex, n

\* Merging in the vectors never costs the best lexical match its place, and never
\* answers more than was asked for (interleave_claims).
THEOREM BestTheorem == Spec => []BestMatchSurvives
<1>1. IInv => BestMatchSurvives
  <2> SUFFICES ASSUME IInv, told.asked
               PROVE  LET lex == Lexical(told.query, {"approved"}, told.limit)
                      IN  /\ Cardinality(told.claims) <= told.limit
                          /\ told.window = Anytime =>
                                \A c \in lex : Place(lex, told.query.lex, c) = 1 => c \in Answered
    BY DEF BestMatchSurvives
  <2>1. PICK q \in Queries, w \in Accepted, embedding \in BOOLEAN :
           /\ told.query = q /\ told.window = w /\ told.limit = Limit(q.limit)
           /\ told.claims = {c \in Found(q, w, embedding) : InWindow(c, w)}
    BY Telling DEF Tells
  <2> DEFINE lex == Lexical(q, Trusted(w), Limit(q.limit))
  <2>2. /\ IsFiniteSet(Found(q, w, embedding))
        /\ Cardinality(Found(q, w, embedding)) <= Limit(q.limit)
        /\ \A c \in lex : Place(lex, q.lex, c) = 1 => c \in Found(q, w, embedding)
    BY FoundFirst
  <2>3. Cardinality(told.claims) <= told.limit
    <3>1. told.claims \in SUBSET Found(q, w, embedding)
      BY <2>1
    <3>2. /\ Cardinality(told.claims) <= Cardinality(Found(q, w, embedding))
          /\ Cardinality(told.claims) \in Nat /\ Cardinality(Found(q, w, embedding)) \in Nat
      BY <2>2, <3>1, FS_Subset, FS_CardinalityType
    <3> QED BY <2>1, <2>2, <3>2, LimitPositive
  <2>4. ASSUME w = Anytime, NEW c \in lex, Place(lex, q.lex, c) = 1 PROVE c \in Answered
    BY <2>1, <2>2, <2>4 DEF Answered, InWindow
  <2>5. w = Anytime => Trusted(w) = {"approved"}
    BY DEF Anytime, Trusted
  <2> QED BY <2>1, <2>3, <2>4, <2>5
<1> QED BY <1>1, Invariance, PTL

\* A gap without a window says that no approved claim matches the words, and what is
\* told as ready does not contradict itself (trusted_query, find_query_conflicts).
THEOREM GapTheorem == Spec => []PlainGapIsHonest
<1>1. IInv => PlainGapIsHonest
  <2> SUFFICES ASSUME IInv, told.asked, told.window = Anytime
               PROVE  /\ told.status = "gap" => Matching(told.query, {"approved"}) = {}
                      /\ told.status = "ready" =>
                            \A c \in Answered : Conflicts[c] \cap Answered = {}
    BY DEF PlainGapIsHonest
  <2>1. PICK q \in Queries, w \in Accepted, embedding \in BOOLEAN :
           /\ fresh /\ told.query = q /\ told.window = w
           /\ told.claims = {c \in Found(q, w, embedding) : InWindow(c, w)}
           /\ told.status = "gap" => told.claims = {}
           /\ told.status = "ready" => ~InConflict(told.claims)
    BY Telling DEF Tells
  <2>2. w = Anytime /\ Trusted(w) = {"approved"}
    BY <2>1 DEF Anytime, Trusted
  <2>3. ASSUME told.status = "gap", Matching(q, {"approved"}) # {} PROVE FALSE
    <3> DEFINE lex == Lexical(q, Trusted(w), Limit(q.limit))
    <3>1. q.hits \cap WithStatus(Trusted(w)) # {}
      BY <2>1, <2>2, <2>3, QueriesAssumption, Fresh DEF Matching
    <3>2. PICK c \in lex : Place(lex, q.lex, c) = 1
      BY <3>1, LimitPositive, Candidates
    <3>3. c \in Found(q, w, embedding)
      BY <3>2, FoundFirst
    <3> QED BY <2>1, <2>2, <2>3, <3>3 DEF InWindow
  <2>4. ASSUME told.status = "ready", NEW c \in Answered PROVE Conflicts[c] \cap Answered = {}
    BY <2>1, <2>4 DEF InConflict, Answered
  <2> QED BY <2>1, <2>3, <2>4
<1> QED BY <1>1, Invariance, PTL

-----------------------------------------------------------------------------
(* The calendar: years begin in March and come in eras of 400.  A number is *)
(* bounded by inequalities here: the provers enumerate an interval.        *)

YearStart(r)  == 365 * r + (r \div 4) - (r \div 100)
MonthStart(k) == (153 * k + 2) \div 5
LeapAfter(r)  == r = 399 \/ ((r + 1) % 4 = 0 /\ (r + 1) % 100 # 0)
YearAt(rest)  ==
    (rest - (rest \div 1460) + (rest \div 36524) - (rest \div 146096)) \div 365

IsYear(r)   == r \in Nat /\ r < 400
IsDoy(doy)  == doy \in Nat /\ doy <= 365

LEMMA Quotient ==
    ASSUME NEW n \in Nat \ {0}, NEW q \in Int, NEW x \in Int, n * q <= x, x < n * q + n
    PROVE  x \div n = q
  OBVIOUS

\* Centuries, leap cycles and years.
LEMMA Cycles ==
    ASSUME NEW r, IsYear(r)
    PROVE  \E a \in 0 .. 3, b \in 0 .. 24, c \in 0 .. 3 :
              /\ r = 100 * a + 4 * b + c
              /\ YearStart(r) = 36524 * a + 1461 * b + 365 * c
              /\ LeapAfter(r) <=> c = 3 /\ (b = 24 => a = 3)
<1> DEFINE a == r \div 100
           b == (r % 100) \div 4
           c == r % 4
<1>1. a \in 0 .. 3 /\ b \in 0 .. 24 /\ c \in 0 .. 3 /\ r = 100 * a + 4 * b + c
  BY DEF IsYear
<1>2. YearStart(r) = 36524 * a + 1461 * b + 365 * c
  BY DEF YearStart, IsYear
<1>3. LeapAfter(r) <=> c = 3 /\ (b = 24 => a = 3)
  BY DEF LeapAfter, IsYear
<1> QED BY <1>1, <1>2, <1>3

\* The days of an era tell its years.
LEMMA YearFound ==
    ASSUME NEW r, IsYear(r), NEW doy, IsDoy(doy), doy = 365 => LeapAfter(r)
    PROVE  /\ YearStart(r) + doy \in Nat /\ YearStart(r) + doy < 146097
           /\ YearAt(YearStart(r) + doy) = r
<1>1. PICK a \in 0 .. 3, b \in 0 .. 24, c \in 0 .. 3 :
         /\ r = 100 * a + 4 * b + c
         /\ YearStart(r) = 36524 * a + 1461 * b + 365 * c
         /\ LeapAfter(r) <=> c = 3 /\ (b = 24 => a = 3)
  BY Cycles
<1> a \in Int /\ b \in Int /\ c \in Int /\ r \in Int /\ doy \in Int /\ 0 <= doy /\ doy <= 365
  BY DEF IsYear, IsDoy
<1>2. PICK rest \in Int : rest = YearStart(r) + doy
  BY <1>1
<1>3. /\ rest = 36524 * a + 1461 * b + 365 * c + doy
      /\ doy = 365 => c = 3 /\ (b = 24 => a = 3)
  BY <1>1, <1>2
<1>4. /\ 0 <= rest /\ rest < 146097
      /\ rest = 146096 <=> a = 3 /\ b = 24 /\ c = 3 /\ doy = 365
  BY <1>3
<1>5. (rest \div 36524) - (rest \div 146096) = a
  <2>1. CASE rest = 146096
    <3>1. rest \div 36524 = 4 /\ rest \div 146096 = 1 /\ a = 3
      BY <1>4, <2>1
    <3> QED BY <3>1
  <2>2. CASE rest # 146096
    <3>1. rest \div 146096 = 0
      BY <1>4, <2>2, Quotient
    <3>2. 36524 * a <= rest /\ rest < 36524 * a + 36524
      BY <1>3, <1>4, <2>2
    <3>3. rest \div 36524 = a
      BY <3>2, Quotient
    <3> QED BY <3>1, <3>3
  <2> QED BY <2>1, <2>2
<1>6. PICK k \in {0, 1} : rest \div 1460 = 25 * a + b + k /\ k <= doy /\ (doy = 365 => k = 1)
  <2> DEFINE over == 24 * a + b + 365 * c + doy
             e == 25 * a + b
  <2>1. e \in Int /\ over \in Int /\ over >= 0 /\ over < 2920 /\ rest = 1460 * e + over
    BY <1>3
  <2>2. CASE over < 1460
    <3>1. 1460 * e <= rest /\ rest < 1460 * e + 1460
      BY <2>1, <2>2
    <3>2. doy # 365
      BY <1>3, <2>2
    <3> HIDE DEF e, over
    <3>3. rest \div 1460 = e
      BY <2>1, <3>1, Quotient
    <3> QED BY <3>2, <3>3 DEF e
  <2>3. CASE over >= 1460
    <3>1. 1460 * (e + 1) <= rest /\ rest < 1460 * (e + 1) + 1460
      BY <2>1, <2>3
    <3>2. doy >= 1
      BY <1>3, <2>3
    <3> HIDE DEF e, over
    <3>3. rest \div 1460 = e + 1
      BY <2>1, <3>1, Quotient
    <3> QED BY <3>2, <3>3 DEF e
  <2> QED BY <2>1, <2>2, <2>3
<1>7. 365 * r <= rest - (25 * a + b + k) + a /\ rest - (25 * a + b + k) + a < 365 * r + 365
  BY <1>1, <1>3, <1>6
<1>8. (rest - (25 * a + b + k) + a) \div 365 = r
  BY <1>7, Quotient
<1>9. YearAt(rest) = r
  <2> DEFINE f == rest \div 36524
             g == rest \div 146096
             h == rest \div 1460
  <2>1. f \in Int /\ g \in Int /\ h \in Int /\ f - g = a /\ h = 25 * a + b + k
    BY <1>5, <1>6
  <2>2. YearAt(rest) = (rest - h + f - g) \div 365
    BY DEF YearAt
  <2> HIDE DEF f, g, h
  <2>3. rest - h + f - g = rest - (25 * a + b + k) + a
    BY <2>1
  <2> QED BY <1>8, <2>2, <2>3
<1> QED BY <1>2, <1>4, <1>9

\* Every day of an era is a day of one of its years.
LEMMA YearOf ==
    ASSUME NEW rest \in Nat, rest < 146097
    PROVE  /\ IsYear(YearAt(rest))
           /\ IsDoy(rest - YearStart(YearAt(rest)))
           /\ rest - YearStart(YearAt(rest)) = 365 => LeapAfter(YearAt(rest))
<1>1. PICK a \in 0 .. 3 : 36524 * a <= rest /\ rest <= 36524 * a + 36524
                          /\ (a < 3 => rest < 36524 * a + 36524)
  OBVIOUS
<1>2. PICK y \in Nat : y = rest - 36524 * a
  BY <1>1
<1>3. PICK b \in 0 .. 24 : 1461 * b <= y /\ y < 1461 * b + 1461
  <2>1. y <= 36524
    BY <1>1, <1>2
  <2>2. y \div 1461 \in 0 .. 24 /\ 1461 * (y \div 1461) <= y /\ y < 1461 * (y \div 1461) + 1461
    BY <2>1
  <2> QED BY <2>2
<1>4. PICK z \in Nat : z = y - 1461 * b
  BY <1>3
<1>5. z <= 1460 /\ (b = 24 /\ a < 3 => z < 1460)
  BY <1>1, <1>2, <1>3, <1>4
<1>6. PICK c \in 0 .. 3 : 365 * c <= z /\ z <= 365 * c + 365 /\ (c < 3 => z < 365 * c + 365)
  BY <1>5
<1>7. PICK doy \in Nat : doy = z - 365 * c
  BY <1>6
<1>8. PICK r \in Nat : r = 100 * a + 4 * b + c
  OBVIOUS
<1>9. IsYear(r)
  BY <1>8 DEF IsYear
<1>10. YearStart(r) = 36524 * a + 1461 * b + 365 * c
  <2>1. r \div 100 = a /\ r \div 4 = 25 * a + b
    BY <1>8
  <2> QED BY <1>8, <2>1 DEF YearStart
<1>11. IsDoy(doy) /\ (doy = 365 => LeapAfter(r))
  <2>1. doy <= 365 /\ (doy = 365 => c = 3 /\ (b = 24 => a = 3))
    BY <1>5, <1>6, <1>7
  <2>2. c = 3 /\ (b = 24 => a = 3) => LeapAfter(r)
    BY <1>8 DEF LeapAfter
  <2> QED BY <2>1, <2>2 DEF IsDoy
<1>12. rest = YearStart(r) + doy
  BY <1>2, <1>4, <1>7, <1>10
<1>13. YearAt(rest) = r
  BY <1>9, <1>11, <1>12, YearFound
<1>14. YearStart(r) \in Int /\ rest - YearStart(r) = doy
  BY <1>10, <1>12
<1> QED BY <1>9, <1>11, <1>13, <1>14

\* The days of the month that is k months after March; February has its leap day.
MonthDays(k) == IF k \in {1, 3, 6, 8} THEN 30 ELSE IF k = 11 THEN 29 ELSE 31
MonthAt(doy) == (5 * doy + 2) \div 153

LEMMA MonthFound ==
    ASSUME NEW k \in 0 .. 11, NEW d \in 1 .. MonthDays(k)
    PROVE  /\ IsDoy(MonthStart(k) + d - 1)
           /\ MonthStart(k) + d - 1 = 365 <=> k = 11 /\ d = 29
           /\ MonthAt(MonthStart(k) + d - 1) = k
  BY DEF MonthStart, MonthDays, MonthAt, IsDoy

LEMMA MonthOf ==
    ASSUME NEW doy, IsDoy(doy)
    PROVE  /\ MonthAt(doy) \in 0 .. 11
           /\ doy - MonthStart(MonthAt(doy)) + 1 \in 1 .. MonthDays(MonthAt(doy))
  BY DEF MonthStart, MonthDays, MonthAt, IsDoy

\* The days before a year, with and without its era.
LEMMA Eras ==
    ASSUME NEW y \in Int
    PROVE  /\ IsYear(y % 400) /\ y \div 400 \in Int /\ y = 400 * (y \div 400) + (y % 400)
           /\ 365 * y + (y \div 4) - (y \div 100) + (y \div 400)
                 = 146097 * (y \div 400) + YearStart(y % 400)
  BY DEF YearStart, IsYear

LEMMA EraOf ==
    ASSUME NEW q \in Int, NEW rest \in Nat, rest < 146097
    PROVE  (146097 * q + rest) % 146097 = rest /\ (146097 * q + rest) \div 146097 = q
<1>1. PICK x \in Int : x = 146097 * q + rest
  OBVIOUS
<1>2. x \div 146097 = q
  BY <1>1, Quotient
<1>3. x % 146097 = x - 146097 * (x \div 146097)
  OBVIOUS
<1> QED BY <1>1, <1>2, <1>3
\* A day is told by its era, its year, its month and its day of the month.
Days(q, r, k, d) == 146097 * q + YearStart(r) + MonthStart(k) + d - 1
IsDay(q, r, k, d) ==
    /\ q \in Int /\ IsYear(r) /\ k \in 0 .. 11 /\ d \in 1 .. MonthDays(k)
    /\ k = 11 /\ d = 29 => LeapAfter(r)

LEMMA DayFound ==
    ASSUME NEW q, NEW r, NEW k, NEW d, IsDay(q, r, k, d)
    PROVE  /\ Days(q, r, k, d) \in Int
           /\ DateOf(Days(q, r, k, d)) = [year  |-> 400 * q + r + (IF k < 10 THEN 0 ELSE 1),
                                          month |-> IF k < 10 THEN k + 3 ELSE k - 9,
                                          day   |-> d]
<1> q \in Int /\ IsYear(r) /\ r \in Int /\ k \in 0 .. 11 /\ d \in 1 .. MonthDays(k)
  BY DEF IsDay, IsYear
<1>1. PICK doy \in Int : doy = MonthStart(k) + d - 1
  BY DEF MonthStart, MonthDays
<1>2. IsDoy(doy) /\ (doy = 365 => LeapAfter(r)) /\ MonthAt(doy) = k
  BY <1>1, MonthFound DEF IsDay
<1>3. PICK rest \in Nat : rest = YearStart(r) + doy
  BY <1>2, YearFound
<1>4. rest < 146097 /\ YearAt(rest) = r
  BY <1>2, <1>3, YearFound
<1>5. PICK start \in Int : start = YearStart(r)
  BY DEF YearStart, IsYear
<1>6. PICK month \in Int : month = MonthStart(k)
  BY DEF MonthStart
<1>7. PICK n \in Int : n = 146097 * q + rest
  OBVIOUS
<1>8. Days(q, r, k, d) = n
  BY <1>1, <1>3, <1>5, <1>6, <1>7 DEF Days
<1>9. n % 146097 = rest /\ n \div 146097 = q
  BY <1>4, <1>7, EraOf
<1>10. rest - start = doy /\ doy - month + 1 = d
  BY <1>1, <1>3, <1>5, <1>6
<1>11. DateOf(n) = LET m == IF k < 10 THEN k + 3 ELSE k - 9
                   IN  [year  |-> 400 * q + r + (IF m <= 2 THEN 1 ELSE 0),
                        month |-> m, day |-> d]
  <2>1. DateOf(n) =
           LET year  == YearAt(n % 146097)
               doy1  == (n % 146097) - YearStart(year)
               march == MonthAt(doy1)
               m     == IF march < 10 THEN march + 3 ELSE march - 9
           IN  [year  |-> 400 * (n \div 146097) + year + (IF m <= 2 THEN 1 ELSE 0),
                month |-> m, day |-> doy1 - MonthStart(march) + 1]
    BY DEF DateOf, YearAt, YearStart, MonthAt, MonthStart
  <2> QED BY <1>2, <1>4, <1>5, <1>6, <1>9, <1>10, <2>1
<1>12. (IF k < 10 THEN k + 3 ELSE k - 9) <= 2 <=> k >= 10
  OBVIOUS
<1> QED BY <1>8, <1>11, <1>12

\* Every number is that of a day.
LEMMA DayOf ==
    ASSUME NEW n \in Int
    PROVE  \E q, r, k, d : IsDay(q, r, k, d) /\ n = Days(q, r, k, d)
<1>1. PICK q \in Int : q = n \div 146097
  OBVIOUS
<1>2. PICK rest \in Nat : rest < 146097 /\ n = 146097 * q + rest
  <2>1. n % 146097 \in Nat /\ n % 146097 < 146097 /\ n = 146097 * q + (n % 146097)
    BY <1>1
  <2> QED BY <2>1
<1>3. PICK r : r = YearAt(rest)
  OBVIOUS
<1>4. /\ IsYear(r) /\ IsDoy(rest - YearStart(r))
      /\ rest - YearStart(r) = 365 => LeapAfter(r)
  BY <1>2, <1>3, YearOf
<1>5. PICK doy : doy = rest - YearStart(r)
  OBVIOUS
<1>6. PICK k : k = MonthAt(doy)
  OBVIOUS
<1>7. PICK d : d = doy - MonthStart(k) + 1
  OBVIOUS
<1>8. doy \in Int /\ k \in 0 .. 11 /\ d \in 1 .. MonthDays(k)
  BY <1>4, <1>5, <1>6, <1>7, MonthOf DEF IsDoy
<1>9. MonthStart(k) \in Int /\ YearStart(r) \in Int /\ d \in Int
  BY <1>4, <1>8 DEF MonthStart, YearStart, IsYear, MonthDays
<1>10. doy = MonthStart(k) + d - 1
  BY <1>7, <1>8, <1>9
<1>11. k = 11 /\ d = 29 => LeapAfter(r)
  BY <1>4, <1>5, <1>8, <1>10, MonthFound
<1>12. n = Days(q, r, k, d)
  <2> HIDE DEF MonthStart, YearStart
  <2>1. rest = YearStart(r) + MonthStart(k) + d - 1
    BY <1>5, <1>8, <1>9, <1>10
  <2> QED BY <1>2, <1>9, <2>1 DEF Days
<1> QED BY <1>1, <1>4, <1>8, <1>11, <1>12 DEF IsDay

\* The year after the one that begins in March is the leap year.
LEMMA LeapYears ==
    ASSUME NEW q \in Int, NEW r, IsYear(r), NEW y \in Int, y = 400 * q + r + 1
    PROVE  LeapAfter(r) <=> DaysIn(y, 2) = 29
<1> r \in Nat /\ r < 400
  BY DEF IsYear
<1>2. y % 4 = (r + 1) % 4 /\ y % 100 = (r + 1) % 100 /\ (y % 400 = 0 <=> r = 399)
  OBVIOUS
<1>3. r = 399 => (r + 1) % 4 = 0 /\ (r + 1) % 100 = 0
  OBVIOUS
<1>4. DaysIn(y, 2) = 29 <=> (y % 4 = 0 /\ y % 100 # 0) \/ y % 400 = 0
  BY DEF DaysIn
<1> QED BY <1>2, <1>3, <1>4 DEF LeapAfter

IsTrueDate(y, m, d) == y \in Int /\ m \in 1 .. 12 /\ d \in 1 .. DaysIn(y, m)

\* The number of a date that exists, and the date of a number.
LEMMA Numbered ==
    ASSUME NEW y, NEW m, NEW d, IsTrueDate(y, m, d)
    PROVE  /\ DayNumber(y, m, d) \in Int
           /\ DateOf(DayNumber(y, m, d)) = [year |-> y, month |-> m, day |-> d]
<1> y \in Int /\ m \in 1 .. 12 /\ d \in 1 .. DaysIn(y, m)
  BY DEF IsTrueDate
<1>1. PICK year \in Int : year = IF m <= 2 THEN y - 1 ELSE y
  OBVIOUS
<1>2. PICK q, r : q = year \div 400 /\ r = year % 400
  OBVIOUS
<1>3. q \in Int /\ IsYear(r) /\ year = 400 * q + r
  BY <1>2, Eras
<1>4. PICK k \in 0 .. 11 : k = (m + 9) % 12
  OBVIOUS
<1>5. (k < 10 <=> m > 2) /\ m = (IF k < 10 THEN k + 3 ELSE k - 9)
  BY <1>4
<1>6. d \in 1 .. MonthDays(k)
  <2>1. DaysIn(y, m) \in Int /\ MonthDays(k) \in Int
    BY DEF DaysIn, MonthDays
  <2>2. DaysIn(y, m) <= MonthDays(k)
    BY <1>5 DEF DaysIn, MonthDays
  <2> QED BY <2>1, <2>2
<1>7. k = 11 /\ d = 29 => LeapAfter(r)
  <2>1. SUFFICES ASSUME k = 11, d = 29 PROVE LeapAfter(r)
    OBVIOUS
  <2>2. m = 2 /\ y = 400 * q + r + 1
    BY <1>1, <1>3, <1>5, <2>1 DEF IsYear
  <2>3. DaysIn(y, 2) = 29
    BY <2>1, <2>2 DEF DaysIn
  <2>4. LeapAfter(r) <=> DaysIn(y, 2) = 29
    BY <1>3, <2>2, LeapYears
  <2> QED BY <2>3, <2>4
<1>8. IsDay(q, r, k, d)
  BY <1>3, <1>6, <1>7 DEF IsDay
<1>9. DayNumber(y, m, d) = Days(q, r, k, d)
  <2>1. DayNumber(y, m, d)
           = 365 * year + (year \div 4) - (year \div 100) + (year \div 400) + MonthStart(k) + d - 1
    BY <1>1, <1>4 DEF DayNumber, MonthStart
  <2>2. 365 * year + (year \div 4) - (year \div 100) + (year \div 400)
           = 146097 * q + YearStart(r)
    BY <1>2, Eras
  <2> QED BY <2>1, <2>2 DEF Days
<1>10. y = 400 * q + r + (IF k < 10 THEN 0 ELSE 1)
  BY <1>1, <1>3, <1>5 DEF IsYear
<1> QED BY <1>5, <1>8, <1>9, <1>10, DayFound

LEMMA DateOfDay ==
    ASSUME NEW n \in Int
    PROVE  LET date == DateOf(n)
           IN  /\ IsTrueDate(date.year, date.month, date.day)
               /\ DayNumber(date.year, date.month, date.day) = n
               /\ date = [year |-> date.year, month |-> date.month, day |-> date.day]
<1>1. PICK q, r, k, d : IsDay(q, r, k, d) /\ n = Days(q, r, k, d)
  BY DayOf
<1> q \in Int /\ IsYear(r) /\ r \in Int /\ k \in 0 .. 11 /\ d \in 1 .. MonthDays(k)
  BY <1>1 DEF IsDay, IsYear
<1>2. PICK y \in Int : y = 400 * q + r + (IF k < 10 THEN 0 ELSE 1)
  OBVIOUS
<1>3. PICK m \in 1 .. 12 : m = IF k < 10 THEN k + 3 ELSE k - 9
  OBVIOUS
<1>4. DateOf(n) = [year |-> y, month |-> m, day |-> d]
  BY <1>1, <1>2, <1>3, DayFound
<1>5. d \in 1 .. DaysIn(y, m)
  <2>1. CASE k = 11
    <3>1. m = 2 /\ y = 400 * q + r + 1
      BY <1>2, <1>3, <2>1
    <3>2. d = 29 => DaysIn(y, m) = 29
      <4>1. d = 29 => LeapAfter(r)
        BY <1>1, <2>1 DEF IsDay
      <4>2. LeapAfter(r) <=> DaysIn(y, 2) = 29
        BY <3>1, LeapYears
      <4> QED BY <3>1, <4>1, <4>2
    <3>3. DaysIn(y, m) \in {28, 29}
      BY <3>1 DEF DaysIn
    <3>4. d \in 1 .. 29
      BY <2>1 DEF MonthDays
    <3> QED BY <3>2, <3>3, <3>4
  <2>2. CASE k # 11
    BY <1>3, <2>2 DEF DaysIn, MonthDays
  <2> QED BY <2>1, <2>2
<1>6. IsTrueDate(y, m, d)
  BY <1>5 DEF IsTrueDate
<1>7. DayNumber(y, m, d) = n
  <2>1. PICK year \in Int : year = IF m <= 2 THEN y - 1 ELSE y
    OBVIOUS
  <2>2. year = 400 * q + r
    BY <1>2, <1>3, <2>1
  <2>3. year \div 400 = q /\ year % 400 = r
    BY <2>2 DEF IsYear
  <2>4. (m + 9) % 12 = k
    BY <1>3
  <2>5. DayNumber(y, m, d)
           = 365 * year + (year \div 4) - (year \div 100) + (year \div 400) + MonthStart(k) + d - 1
    BY <2>1, <2>4 DEF DayNumber, MonthStart
  <2>6. 365 * year + (year \div 4) - (year \div 100) + (year \div 400)
           = 146097 * q + YearStart(r)
    BY <2>3, Eras
  <2> QED BY <1>1, <2>5, <2>6 DEF Days
<1> QED BY <1>4, <1>6, <1>7
-----------------------------------------------------------------------------
(* The two readers *)

\* An instant is the day and the second of the day: it is not Bad.
LEMMA Instants ==
    ASSUME NEW t, IsText(t), NEW below
    PROVE  /\ Instant(t, below) # Bad
           /\ Instant(t, 0) = <<Instant(t, below)[1], Instant(t, below)[2], 0>>
           /\ \A n \in Int : DayNumber(t.year, t.month, t.day) = n =>
                 \E day \in Int, s \in Nat : s < 86400 /\ Instant(t, 0) = <<day, s, 0>>
<1> DEFINE local == t.hour * 3600 + t.minute * 60 + t.second - Offset(t.zone)
           number == DayNumber(t.year, t.month, t.day)
<1>1. \A x : Instant(t, x) = <<number + (local \div 86400), local % 86400, x>>
  BY DEF Instant, Day
<1>2. local \in Int
  <2>1. Offset(t.zone) \in Int
    BY DEF IsText, Offset
  <2> QED BY <2>1 DEF IsText
<1> HIDE DEF local, number
<1>3. local \div 86400 \in Int /\ local % 86400 \in Nat /\ local % 86400 < 86400
  BY <1>2
<1>4. ASSUME NEW n \in Int, number = n
      PROVE  \E day \in Int, s \in Nat : s < 86400 /\ Instant(t, 0) = <<day, s, 0>>
  <2>1. PICK day \in Int : day = n + (local \div 86400)
    BY <1>3
  <2>2. PICK s \in Nat : s = local % 86400
    BY <1>3
  <2> QED BY <1>1, <1>3, <1>4, <2>1, <2>2
<1>5. Instant(t, below) # Bad
  BY <1>1 DEF Bad
<1> QED BY <1>1, <1>4, <1>5 DEF number

\* The library takes a date that exists, and no other.
LEMMA DatesExist ==
    ASSUME NEW t, IsText(t), t.month \in 1 .. 12
    PROVE  /\ IsDate(t) <=> t.day \in 1 .. DaysIn(t.year, t.month)
           /\ DayNumber(t.year, t.month, t.day) \in Int
<1> t.year \in Nat /\ t.day \in Nat
  BY DEF IsText
<1>1. PICK y \in Int, m \in 1 .. 12, d \in Int : y = t.year /\ m = t.month /\ d = t.day
  OBVIOUS
<1>2. PICK n \in Int : n = DayNumber(y, m, d)
  <2>1. PICK k \in Int : k = IF m <= 2 THEN y - 1 ELSE y
    OBVIOUS
  <2>2. PICK j \in Int : j = ((153 * ((m + 9) % 12) + 2) \div 5)
    OBVIOUS
  <2>3. DayNumber(y, m, d) = 365 * k + (k \div 4) - (k \div 100) + (k \div 400) + j + d - 1
    BY <2>1, <2>2 DEF DayNumber
  <2> QED BY <2>3
<1>3. IsDate(t) <=> DateOf(n) = [year |-> y, month |-> m, day |-> d]
  BY <1>1, <1>2 DEF IsDate
<1>4. ASSUME DateOf(n) = [year |-> y, month |-> m, day |-> d]
      PROVE  d \in 1 .. DaysIn(y, m)
  <2>1. DateOf(n).year = y /\ DateOf(n).month = m /\ DateOf(n).day = d
    BY <1>4
  <2> QED BY <2>1, DateOfDay DEF IsTrueDate
<1>5. d \in 1 .. DaysIn(y, m) => DateOf(n) = [year |-> y, month |-> m, day |-> d]
  BY <1>2, Numbered DEF IsTrueDate
<1> QED BY <1>1, <1>2, <1>3, <1>4, <1>5

LEMMA SameReadings ==
    ASSUME NEW t, IsText(t)
    PROVE  SameReading(t)
<1>1. ReadBound(t) # Bad => t.month \in 1 .. 12 /\ IsDate(t) /\ t.second <= 59
  BY DatesExist DEF ReadBound
<1>2. ReadBound(t) # Bad => ReadBound(t) = Instant(t, 0)
  BY DEF ReadBound
<1>3. t.second # 60 /\ ReadField(t) # Bad => ReadField(t) = Instant(t, Below(t))
  BY DEF ReadField
<1>4. ReadBound(t) # Bad /\ ReadField(t) # Bad =>
         ReadBound(t)[1] = ReadField(t)[1] /\ ReadBound(t)[2] = ReadField(t)[2]
  <2>1. SUFFICES ASSUME ReadBound(t) # Bad, ReadField(t) # Bad
                 PROVE  ReadBound(t)[1] = ReadField(t)[1] /\ ReadBound(t)[2] = ReadField(t)[2]
    OBVIOUS
  <2>2. t.second # 60
    BY <1>1, <2>1
  <2>3. Instant(t, 0) = <<Instant(t, Below(t))[1], Instant(t, Below(t))[2], 0>>
    BY Instants
  <2> QED BY <1>2, <1>3, <2>1, <2>2, <2>3
<1>5. ReadField(t) # Bad /\ t.form = "exact" /\ t.second # 60 => ReadBound(t) # Bad
  <2>1. SUFFICES ASSUME ReadField(t) # Bad, t.form = "exact", t.second # 60
                 PROVE  ReadBound(t) # Bad
    OBVIOUS
  <2>2. /\ t.month \in 1 .. 12 /\ IsDate(t)
        /\ t.hour <= 23 /\ t.minute <= 59 /\ t.second <= 60
        /\ t.zone.hour <= 23 /\ t.zone.minute <= 59
    BY <2>1 DEF ReadField
  <2>3. t.second <= 59
    BY <2>1, <2>2 DEF IsText
  <2>4. ZoneFits(t.zone)
    BY <2>2 DEF ZoneFits, Day, IsText
  <2>5. t.day \in 1 .. DaysIn(t.year, t.month)
    BY <2>2, DatesExist
  <2> QED BY <2>1, <2>2, <2>3, <2>4, <2>5, Instants DEF ReadBound
<1>6. ReadBound(t) # Bad /\ t.form = "exact" /\ t.zone.minute <= 59 => ReadField(t) # Bad
  <2>1. SUFFICES ASSUME ReadBound(t) # Bad, t.form = "exact", t.zone.minute <= 59
                 PROVE  ReadField(t) # Bad
    OBVIOUS
  <2>2. /\ t.hour <= 23 /\ t.minute <= 59 /\ t.second <= 59 /\ ZoneFits(t.zone)
    BY <2>1 DEF ReadBound
  <2>3. t.zone.hour <= 23 /\ t.second <= 60 /\ t.second # 60
    BY <2>2 DEF ZoneFits, IsText
  <2>4. Instant(t, Below(t)) # Bad
    BY Instants
  <2> QED BY <1>1, <2>1, <2>2, <2>3, <2>4 DEF ReadField
<1> QED BY <1>1, <1>4, <1>5, <1>6 DEF SameReading

\* A whole second is written with its date and read as itself.
LEMMA Rereading ==
    ASSUME NEW n \in Int, NEW s \in Nat, s < 86400
    PROVE  ReadsBack(<<n, s, 0>>)
<1> DEFINE i == <<n, s, 0>>
           w == Written(i)
<1>1. SUFFICES ASSUME w.form = "exact" PROVE ReadBound(w) = i /\ ReadField(w) = i
  BY DEF ReadsBack
<1>2. i[1] = n /\ i[2] = s
  OBVIOUS
<1>3. PICK y, m, d : /\ IsTrueDate(y, m, d) /\ DayNumber(y, m, d) = n
                     /\ DateOf(n) = [year |-> y, month |-> m, day |-> d]
  BY DateOfDay
<1>4. PICK hour \in Nat, minute \in Nat, second \in Nat :
         /\ hour = s \div 3600 /\ minute = (s % 3600) \div 60 /\ second = s % 60
         /\ hour <= 23 /\ minute <= 59 /\ second <= 59
         /\ s = hour * 3600 + minute * 60 + second
  OBVIOUS
<1>5. PICK form : form = IF FourDigits(y) THEN "exact" ELSE "garbled"
  OBVIOUS
<1>6. w = [form |-> form, year |-> y, month |-> m, day |-> d, hour |-> hour,
           minute |-> minute, second |-> second, fraction |-> FALSE, zone |-> Zulu]
  <2>1. PICK date : date = DateOf(n)
    OBVIOUS
  <2>2. w = [form |-> IF FourDigits(date.year) THEN "exact" ELSE "garbled",
             year |-> date.year, month |-> date.month, day |-> date.day,
             hour |-> s \div 3600, minute |-> (s % 3600) \div 60, second |-> s % 60,
             fraction |-> FALSE, zone |-> Zulu]
    BY <1>2, <2>1 DEF Written
  <2>3. date.year = y /\ date.month = m /\ date.day = d
    BY <1>3, <2>1
  <2> QED BY <1>4, <1>5, <2>2, <2>3
<1>7. form = "exact"
  BY <1>1, <1>6
<1> HIDE DEF w
<1>8. /\ w.form = "exact" /\ w.year = y /\ w.month = m /\ w.day = d /\ w.hour = hour
      /\ w.minute = minute /\ w.second = second /\ w.fraction = FALSE /\ w.zone = Zulu
  BY <1>6, <1>7
<1>9. Instant(w, 0) = i
  <2>1. Offset(w.zone) = 0
    BY <1>8 DEF Offset, Zulu
  <2>2. Instant(w, 0) = <<n + (s \div 86400), s % 86400, 0>>
    BY <1>3, <1>4, <1>8, <2>1 DEF Instant, Day
  <2>3. s \div 86400 = 0 /\ s % 86400 = s
    OBVIOUS
  <2> QED BY <2>2, <2>3
<1>10. w.month \in 1 .. 12 /\ w.day \in 1 .. DaysIn(w.year, w.month)
  BY <1>3, <1>8 DEF IsTrueDate
<1>11. IsDate(w)
  BY <1>3, <1>8 DEF IsDate
<1>12. ReadBound(w) = i
  <2>1. ZoneFits(w.zone)
    BY <1>8 DEF ZoneFits, Zulu, Day
  <2> QED BY <1>4, <1>8, <1>9, <1>10, <2>1 DEF ReadBound
<1>13. ReadField(w) = i
  <2>1. w.zone.hour <= 23 /\ w.zone.minute <= 59
    BY <1>8 DEF Zulu
  <2>2. w.second <= 60 /\ w.second # 60 /\ Below(w) = 0
    BY <1>4, <1>8 DEF Below
  <2>3. w.form \in {"exact", "lower"} /\ w.hour <= 23 /\ w.minute <= 59
    BY <1>4, <1>8
  <2>4. ReadField(w) = Instant(w, Below(w))
    BY <1>10, <1>11, <2>1, <2>2, <2>3 DEF ReadField
  <2> QED BY <1>9, <2>2, <2>4
<1> QED BY <1>12, <1>13

LEMMA BoundsReadBack ==
    ASSUME NEW t, IsText(t), ReadBound(t) # Bad
    PROVE  ReadsBack(ReadBound(t))
<1>1. ReadBound(t) = Instant(t, 0) /\ t.month \in 1 .. 12
  BY DEF ReadBound
<1>2. PICK n \in Int : n = DayNumber(t.year, t.month, t.day)
  BY <1>1, DatesExist
<1>3. PICK day \in Int, s \in Nat : s < 86400 /\ Instant(t, 0) = <<day, s, 0>>
  BY <1>2, Instants
<1> QED BY <1>1, <1>3, Rereading

\* The timestamps that a query may be bounded by are read as those of the claims, and
\* what the program records can be asked about, whatever the texts.
THEOREM BoundsTheorem == Spec => []BoundsAreRead
<1>1. BoundsAreRead
  BY TextsAssumption, SameReadings, BoundsReadBack DEF BoundsAreRead
<1> QED BY <1>1, PTL
=============================================================================
