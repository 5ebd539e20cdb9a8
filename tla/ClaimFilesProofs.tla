-------------------------- MODULE ClaimFilesProofs --------------------------
(***************************************************************************)
(* Proofs about ClaimFiles, for any claims, paths, texts, start wikis and  *)
(* number of outside edits.  Every digest in a file was given to a text    *)
(* that was approved, and edits only move or drop digests; a file nobody   *)
(* changed since a command wrote it parses and is signed; and a migration  *)
(* has still to write the only legacy documents of their claims.           *)
(* Before them: every string and every valid claim that is rendered is     *)
(* read back as it was.                                                    *)
(***************************************************************************)
EXTENDS ClaimFiles, TLAPS, SequenceTheorems, WellFoundedInduction

-----------------------------------------------------------------------------
(* Numbers, recursion and concatenation *)

\* A set of numbers has a least one.
LEMMA LeastOf ==
    ASSUME NEW B, B \subseteq Nat, NEW b \in B
    PROVE  \E n \in B : \A m \in Nat : m < n => m \notin B
<1>1. PICK n \in B : \A m \in B : ~(<<m, n>> \in OpToRel(<, Nat))
  <2>1. \E n \in B : \A m \in B : ~(<<m, n>> \in OpToRel(<, Nat))
    BY NatLessThanWellFounded, WFMin
  <2> QED BY <2>1
<1> QED BY <1>1 DEF OpToRel

\* Induction: a set that holds 0 and every successor holds every number.
LEMMA NatInduct ==
    ASSUME NEW T, 0 \in T, \A n \in Nat : n \in T => n + 1 \in T
    PROVE  Nat \subseteq T
<1> SUFFICES ASSUME Nat \ T # {} PROVE FALSE
  OBVIOUS
<1>1. PICK n \in Nat \ T : \A m \in Nat : m < n => m \notin Nat \ T
  <2> DEFINE B == Nat \ T
  <2>1. B \subseteq Nat /\ \E b : b \in B
    OBVIOUS
  <2> HIDE DEF B
  <2>2. \E n \in B : \A m \in Nat : m < n => m \notin B
    BY <2>1, LeastOf
  <2> QED BY <2>2 DEF B
<1>2. n # 0 /\ n - 1 \in Nat /\ n - 1 < n
  OBVIOUS
<1>3. n - 1 \in T
  BY <1>1, <1>2
<1> QED BY <1>2, <1>3

\* Concatenation, under a name of its own.
Cat(s, t) == s \o t

\* A sequence of texts.
Pieces(pieces, S) == pieces \in Seq(Seq(S))

\* g holds the concatenation of the first n pieces, for every n.
Joins(g, pieces, S) ==
    /\ g \in [0 .. Len(pieces) -> Seq(S)] /\ g[0] = <<>>
    /\ \A n \in 1 .. Len(pieces) : g[n] = Cat(g[n - 1], pieces[n])

\* What a recursion over the first N steps yields.
Iterates(u, X, a, N, step) ==
    /\ u \in [0 .. N -> X] /\ u[0] = a
    /\ \A n \in 1 .. N : u[n] = step[n][u[n - 1]]

\* A recursion over N steps that stays in X has a value.
LEMMA RecursionExists ==
    ASSUME NEW X, NEW a \in X, NEW N \in Nat, NEW step,
           \A n \in 1 .. N : \A x \in X : step[n][x] \in X
    PROVE  \E u : Iterates(u, X, a, N, step)
<1> DEFINE Upto(u, k) == /\ u \in [0 .. N -> X] /\ u[0] = a
                         /\ \A n \in 1 .. k : u[n] = step[n][u[n - 1]]
           T == {k \in Nat : k <= N => \E u : Upto(u, k)}
<1>1. 0 \in T
  <2> DEFINE h == [n \in 0 .. N |-> a]
  <2>1. h \in [0 .. N -> X] /\ h[0] = a
    OBVIOUS
  <2> HIDE DEF h
  <2>2. Upto(h, 0)
    BY <2>1
  <2> HIDE DEF Upto
  <2> QED BY <2>2
<1>2. ASSUME NEW k \in Nat, k \in T PROVE k + 1 \in T
  <2> SUFFICES ASSUME k + 1 <= N PROVE \E u : Upto(u, k + 1)
    <3> HIDE DEF Upto
    <3> QED OBVIOUS
  <2>1. PICK u : Upto(u, k)
    <3> HIDE DEF Upto
    <3> QED BY <1>2
  <2> DEFINE new == step[k + 1][u[k]]
             h == [u EXCEPT ![k + 1] = new]
  <2>2. new \in X
    <3>1. k + 1 \in 1 .. N /\ u[k] \in X
      BY <2>1
    <3> QED BY <3>1
  <2> HIDE DEF new
  <2>3. h \in [0 .. N -> X] /\ h[k + 1] = new /\ \A n \in 0 .. k : h[n] = u[n]
    BY <2>1, <2>2
  <2> HIDE DEF h
  <2>4. ASSUME NEW n \in 1 .. k + 1 PROVE h[n] = step[n][h[n - 1]]
    <3>1. CASE n = k + 1
      BY <3>1, <2>3 DEF new
    <3>2. CASE n # k + 1
      <4>1. n \in 1 .. k /\ n - 1 \in 0 .. k /\ n \in 0 .. k
        BY <3>2
      <4> QED BY <4>1, <2>1, <2>3
    <3> QED BY <3>1, <3>2
  <2>5. Upto(h, k + 1)
    BY <2>1, <2>3, <2>4
  <2> HIDE DEF Upto
  <2> QED BY <2>5
<1> HIDE DEF T, Upto
<1>3. N \in T
  BY <1>1, <1>2, NatInduct
<1>4. PICK u : Upto(u, N)
  BY <1>3 DEF T
<1>5. Iterates(u, X, a, N, step)
  BY <1>4 DEF Upto, Iterates
<1> QED BY <1>5

\* Every sequence of texts has its concatenations.
LEMMA JoinExists ==
    ASSUME NEW S, NEW pieces, Pieces(pieces, S)
    PROVE  \E g : Joins(g, pieces, S)
<1> DEFINE N == Len(pieces)
           step == [n \in 1 .. N |-> [x \in Seq(S) |-> Cat(x, pieces[n])]]
<1>1. N \in Nat /\ \A n \in 1 .. N : pieces[n] \in Seq(S)
  BY DEF Pieces
<1> HIDE DEF N
<1>2. \A n \in 1 .. N : \A x \in Seq(S) : step[n][x] = Cat(x, pieces[n])
  OBVIOUS
<1> HIDE DEF step
<1>3. \A n \in 1 .. N : \A x \in Seq(S) : step[n][x] \in Seq(S)
  BY <1>1, <1>2, ConcatProperties DEF Cat
<1>4. <<>> \in Seq(S)
  OBVIOUS
<1>a. PICK g : Iterates(g, Seq(S), <<>>, N, step)
  BY <1>1, <1>3, <1>4, RecursionExists
<1>5. /\ g \in [0 .. N -> Seq(S)] /\ g[0] = <<>>
      /\ \A n \in 1 .. N : g[n] = step[n][g[n - 1]]
  BY <1>a DEF Iterates
<1>6. \A n \in 1 .. N : g[n] = Cat(g[n - 1], pieces[n])
  <2> TAKE n \in 1 .. N
  <2>1. n - 1 \in 0 .. N
    BY <1>1
  <2> QED BY <1>2, <1>5, <2>1
<1>7. Joins(g, pieces, S)
  BY <1>5, <1>6 DEF Joins, N
<1> QED BY <1>7

\* FlattenSeq is the last of them.
LEMMA FlattenJoins ==
    ASSUME NEW S, NEW pieces, Pieces(pieces, S)
    PROVE  \E g : Joins(g, pieces, S) /\ Y!FlattenSeq(pieces) = g[Len(pieces)]
<1>1. CASE pieces = <<>>
  <2> DEFINE h == [n \in 0 .. 0 |-> <<>>]
  <2>1. Joins(h, pieces, S)
    BY <1>1 DEF Joins
  <2>2. Y!FlattenSeq(pieces) = <<>> /\ h[0] = <<>>
    BY <1>1 DEF Y!FlattenSeq
  <2> QED BY <2>1, <2>2, <1>1
<1>2. CASE pieces # <<>>
  <2> DEFINE N == Len(pieces)
             Is(f) == f = [i \in 1 .. N |-> IF i = 1 THEN pieces[i] ELSE Cat(f[i - 1], pieces[i])]
             all == CHOOSE f : Is(f)
  <2>0. N \in Nat /\ N # 0 /\ \A i \in 1 .. N : pieces[i] \in Seq(S)
    BY <1>2, EmptySeq DEF Pieces
  <2>00. \A i \in 1 .. N : Cat(<<>>, pieces[i]) = pieces[i]
    BY <2>0, ConcatEmptySeq DEF Cat
  <2>1. PICK g : Joins(g, pieces, S)
    BY JoinExists
  <2> HIDE DEF N
  <2> DEFINE f0 == [i \in 1 .. N |-> g[i]]
  <2>2. Is(f0)
    <3>1. \A i \in 1 .. N : f0[i] = IF i = 1 THEN pieces[i] ELSE Cat(f0[i - 1], pieces[i])
      <4> SUFFICES ASSUME NEW i \in 1 .. N PROVE f0[i] = IF i = 1 THEN pieces[i] ELSE Cat(f0[i - 1], pieces[i])
        OBVIOUS
      <4>1. f0[i] = Cat(g[i - 1], pieces[i]) /\ (i # 1 => f0[i - 1] = g[i - 1]) /\ g[0] = <<>>
        BY <2>0, <2>1 DEF Joins, N
      <4> QED BY <4>1, <2>00
    <3>2. f0 = [i \in 1 .. N |-> f0[i]]
      OBVIOUS
    <3> HIDE DEF f0
    <3> QED BY <3>1, <3>2
  <2>3. Is(all)
    <3> HIDE DEF Is
    <3> QED BY <2>2, Zenon
  <2>4. Y!FlattenSeq(pieces) = all[N]
    BY <2>0 DEF Y!FlattenSeq, N, Cat
  <2> HIDE DEF all
  <2>5. \A i \in 1 .. N : all[i] = IF i = 1 THEN pieces[i] ELSE Cat(all[i - 1], pieces[i])
    BY <2>3
  <2> HIDE DEF Is
  <2>6. \A i \in 1 .. N : all[i] = g[i]
    <3> DEFINE T == {k \in Nat : k + 1 \in 1 .. N => all[k + 1] = g[k + 1]}
    <3>1. 0 \in T
      <4>1. all[1] = pieces[1] /\ g[1] = Cat(<<>>, pieces[1])
        BY <2>0, <2>1, <2>5 DEF Joins, N
      <4> QED BY <4>1, <2>0, <2>00
    <3>2. ASSUME NEW k \in Nat, k \in T PROVE k + 1 \in T
      <4> SUFFICES ASSUME k + 2 \in 1 .. N PROVE all[k + 2] = g[k + 2]
        OBVIOUS
      <4>1. all[k + 2] = Cat(all[k + 1], pieces[k + 2]) /\ all[k + 1] = g[k + 1]
        BY <2>0, <2>5, <3>2
      <4>2. g[k + 2] = Cat(g[k + 1], pieces[k + 2])
        BY <2>0, <2>1 DEF Joins, N
      <4> QED BY <4>1, <4>2
    <3>3. Nat \subseteq T
      <4> HIDE DEF T
      <4> QED BY <3>1, <3>2, NatInduct
    <3> QED
      <4> TAKE i \in 1 .. N
      <4>1. i - 1 \in Nat /\ (i - 1) + 1 = i
        BY <2>0
      <4>2. i - 1 \in T
        BY <3>3, <4>1
      <4> QED BY <4>1, <4>2
  <2> QED BY <2>0, <2>1, <2>4, <2>6 DEF N
<1> QED BY <1>1, <1>2

-----------------------------------------------------------------------------
(* Scalars: what is written in quotes, plain or as a literal is read back *)

\* What Unquote reads from position i on, given what f reads further on.
From(f, t, mark, i) ==
    IF i > Len(t) THEN <<>>
    ELSE IF t[i] = mark
         THEN IF i < Len(t) THEN <<t[i + 1]>> \o f[i + 2] ELSE Y!Unreadable
         ELSE <<t[i]>> \o f[i + 1]

\* f is the recursion of Unquote over t.
Reader(f, t, mark) == f = [i \in 1 .. Len(t) + 1 |-> From(f, t, mark, i)]

\* A position depends only on what is read further on.
LEMMA FromAgrees ==
    ASSUME NEW t, Len(t) \in Nat, NEW mark, NEW f, NEW h, NEW i \in 1 .. Len(t) + 1,
           \A j \in i + 1 .. Len(t) + 1 : f[j] = h[j]
    PROVE  From(f, t, mark, i) = From(h, t, mark, i)
<1>1. i <= Len(t) => i + 1 \in i + 1 .. Len(t) + 1
  OBVIOUS
<1>2. i < Len(t) => i + 2 \in i + 1 .. Len(t) + 1
  OBVIOUS
<1>3. i <= Len(t) => f[i + 1] = h[i + 1]
  BY <1>1
<1>4. i < Len(t) => f[i + 2] = h[i + 2]
  BY <1>2
<1>5. i > Len(t) \/ i <= Len(t)
  OBVIOUS
<1> QED BY <1>3, <1>4, <1>5, Zenon DEF From

\* That recursion has a value: it is built from the end of t to its beginning.
LEMMA ReaderExists ==
    ASSUME NEW t, Len(t) \in Nat, NEW mark
    PROVE  \E f : Reader(f, t, mark)
<1> DEFINE N == Len(t) + 1
           Below(f, k) == /\ f = [i \in 1 .. N |-> f[i]]
                          /\ \A i \in N + 1 - k .. N : i \in 1 .. N => f[i] = From(f, t, mark, i)
           T == {k \in Nat : k <= N => \E f : Below(f, k)}
<1>0. N \in Nat
  OBVIOUS
<1> HIDE DEF N
<1>1. 0 \in T
  <2> DEFINE h == [i \in 1 .. N |-> <<>>]
  <2>1. h = [i \in 1 .. N |-> h[i]]
    OBVIOUS
  <2>2. N + 1 - 0 .. N = {}
    BY <1>0
  <2> HIDE DEF h
  <2>3. Below(h, 0)
    BY <2>1, <2>2
  <2> HIDE DEF Below
  <2> QED BY <2>3
<1>2. ASSUME NEW k \in Nat, k \in T PROVE k + 1 \in T
  <2> SUFFICES ASSUME k + 1 <= N PROVE \E f : Below(f, k + 1)
    <3> HIDE DEF Below
    <3> QED OBVIOUS
  <2>1. PICK f : Below(f, k)
    <3> HIDE DEF Below
    <3> QED BY <1>0, <1>2
  <2> DEFINE at  == N - k
             new == From(f, t, mark, at)
             h == [i \in 1 .. N |-> IF i = at THEN new ELSE f[i]]
  <2>2. at \in 1 .. N /\ at = N + 1 - (k + 1)
    BY <1>0
  <2> HIDE DEF new, at
  <2>3. h = [i \in 1 .. N |-> h[i]] /\ \A i \in 1 .. N : h[i] = IF i = at THEN new ELSE f[i]
    OBVIOUS
  <2> HIDE DEF h
  <2>4. ASSUME NEW i \in at .. N PROVE h[i] = From(h, t, mark, i)
    <3>1. i \in 1 .. Len(t) + 1 /\ i \in 1 .. N
      BY <1>0, <2>2 DEF N
    <3>2. \A j \in i + 1 .. Len(t) + 1 : f[j] = h[j]
      BY <1>0, <2>2, <2>3 DEF N
    <3>3. From(f, t, mark, i) = From(h, t, mark, i)
      BY <3>1, <3>2, FromAgrees
    <3>4. CASE i = at
      BY <3>1, <3>3, <3>4, <2>3 DEF new
    <3>5. CASE i # at
      <4>1. i \in N + 1 - k .. N
        BY <1>0, <2>2, <3>5 DEF at
      <4>2. f[i] = From(f, t, mark, i)
        BY <4>1, <3>1, <2>1
      <4> QED BY <4>2, <3>1, <3>3, <3>5, <2>3
    <3> QED BY <3>4, <3>5
  <2>5. Below(h, k + 1)
    BY <2>2, <2>3, <2>4
  <2> HIDE DEF Below
  <2> QED BY <2>5
<1> HIDE DEF T, Below
<1>3. N \in T
  BY <1>0, <1>1, <1>2, NatInduct
<1>4. PICK f : Below(f, N)
  BY <1>0, <1>3 DEF T
<1>5. N + 1 - N = 1
  BY <1>0
<1>6. \A i \in 1 .. N : f[i] = From(f, t, mark, i)
  BY <1>4, <1>5 DEF Below
<1>7. Reader(f, t, mark)
  BY <1>4, <1>6, Zenon DEF Reader, Below, N
<1> QED BY <1>7

\* And Unquote is its value at the first position.
LEMMA UnquoteReads ==
    ASSUME NEW t, Len(t) \in Nat, NEW mark
    PROVE  \E f : Reader(f, t, mark) /\ Y!Unquote(t, mark) = f[1]
<1> DEFINE all == CHOOSE f : Reader(f, t, mark)
<1>1. Reader(all, t, mark)
  BY ReaderExists, Zenon
<1>2. Y!Unquote(t, mark) = all[1]
  BY Zenon DEF Y!Unquote, Reader, From
<1> QED BY <1>1, <1>2

\* t begins with s; s stands in t after the first n.
Begins(t, s)   == \A j \in 1 .. Len(s) : t[j] = s[j]
Stands(t, n, s) == \A j \in 1 .. Len(s) : t[n + j] = s[j]

\* Where both parts are in a concatenation.
LEMMA CatPlaces ==
    ASSUME NEW S, NEW s \in Seq(S), NEW t \in Seq(S)
    PROVE  /\ Cat(s, t) \in Seq(S) /\ Len(Cat(s, t)) = Len(s) + Len(t)
           /\ Begins(Cat(s, t), s) /\ Stands(Cat(s, t), Len(s), t)
<1>1. Len(s) \in Nat /\ Len(t) \in Nat
  OBVIOUS
<1>2. /\ s \o t \in Seq(S) /\ Len(s \o t) = Len(s) + Len(t)
      /\ \A i \in 1 .. Len(s) + Len(t) : (s \o t)[i] = IF i <= Len(s) THEN s[i] ELSE t[i - Len(s)]
  BY ConcatProperties
<1> DEFINE c == s \o t
<1> HIDE DEF c
<1>3. /\ \A j \in 1 .. Len(s) : c[j] = s[j]
      /\ \A j \in 1 .. Len(t) : c[Len(s) + j] = t[j]
  <2>1. \A i \in 1 .. Len(s) + Len(t) : c[i] = IF i <= Len(s) THEN s[i] ELSE t[i - Len(s)]
    BY <1>2 DEF c
  <2>2. ASSUME NEW j \in 1 .. Len(t) PROVE c[Len(s) + j] = t[j]
    <3>1. Len(s) + j \in 1 .. Len(s) + Len(t) /\ ~(Len(s) + j <= Len(s)) /\ (Len(s) + j) - Len(s) = j
      BY <1>1
    <3> QED BY <3>1, <2>1
  <2> QED BY <1>1, <2>1, <2>2
<1> QED BY <1>2, <1>3 DEF c, Cat, Begins, Stands

\* Concatenation in another order.
LEMMA CatAssociative ==
    ASSUME NEW S, NEW s \in Seq(S), NEW t \in Seq(S), NEW u \in Seq(S)
    PROVE  Cat(s, Cat(t, u)) = Cat(Cat(s, t), u)
BY ConcatAssociative DEF Cat

\* A beginning of a beginning.
LEMMA BeginsOn ==
    ASSUME NEW s, NEW t, NEW u, Len(s) \in Nat, Len(t) \in Nat, Len(s) <= Len(t),
           Begins(t, s), Begins(u, t)
    PROVE  Begins(u, s)
BY DEF Begins

\* Where the k-th piece is in the concatenation of all.
Placed(g, pieces, S, k) ==
    /\ g[k - 1] \in Seq(S) /\ g[k] \in Seq(S) /\ g[Len(pieces)] \in Seq(S)
    /\ pieces[k] \in Seq(S) /\ g[k] = Cat(g[k - 1], pieces[k])
    /\ Len(g[k]) = Len(g[k - 1]) + Len(pieces[k]) /\ Len(g[k]) <= Len(g[Len(pieces)])
    /\ Begins(g[Len(pieces)], g[k])
    /\ Stands(g[Len(pieces)], Len(g[k - 1]), pieces[k])

\* Every piece stands in the concatenation after those before it.
LEMMA JoinsPlaces ==
    ASSUME NEW S, NEW pieces, Pieces(pieces, S), NEW g, Joins(g, pieces, S),
           NEW k \in 1 .. Len(pieces)
    PROVE  Placed(g, pieces, S, k)
<1> DEFINE N == Len(pieces)
           T == {d \in Nat : k + d <= N => Len(g[k]) <= Len(g[k + d]) /\ Begins(g[k + d], g[k])}
<1>1. N \in Nat /\ \A n \in 1 .. N : pieces[n] \in Seq(S)
  BY DEF Pieces
<1>2. \A n \in 0 .. N : g[n] \in Seq(S)
  BY DEF Joins
<1>3. \A n \in 1 .. N : g[n] = Cat(g[n - 1], pieces[n])
  BY DEF Joins
<1> HIDE DEF N
<1>4. ASSUME NEW n \in 1 .. N
      PROVE  /\ g[n] = Cat(g[n - 1], pieces[n]) /\ g[n - 1] \in Seq(S) /\ pieces[n] \in Seq(S)
             /\ Len(g[n - 1]) \in Nat /\ Len(pieces[n]) \in Nat
             /\ Len(g[n]) = Len(g[n - 1]) + Len(pieces[n])
             /\ Begins(g[n], g[n - 1]) /\ Stands(g[n], Len(g[n - 1]), pieces[n])
  <2>1. n - 1 \in 0 .. N
    BY <1>1
  <2>2. g[n] = Cat(g[n - 1], pieces[n]) /\ g[n - 1] \in Seq(S) /\ pieces[n] \in Seq(S)
    BY <1>1, <1>2, <1>3, <2>1
  <2>3. Len(g[n - 1]) \in Nat /\ Len(pieces[n]) \in Nat
    BY <2>2, LenProperties, Zenon
  <2>4. /\ Len(Cat(g[n - 1], pieces[n])) = Len(g[n - 1]) + Len(pieces[n])
        /\ Begins(Cat(g[n - 1], pieces[n]), g[n - 1])
        /\ Stands(Cat(g[n - 1], pieces[n]), Len(g[n - 1]), pieces[n])
    BY <2>2, CatPlaces, Zenon
  <2> QED BY <2>2, <2>3, <2>4, Zenon
<1>5. 0 \in T
  <2>1. k + 0 = k /\ k \in 0 .. N
    BY <1>1 DEF N
  <2>2. Len(g[k]) \in Nat
    BY <1>2, <2>1
  <2>3. Begins(g[k], g[k])
    BY DEF Begins
  <2> QED BY <2>1, <2>2, <2>3
<1>6. ASSUME NEW d \in Nat, d \in T PROVE d + 1 \in T
  <2> DEFINE n == k + d + 1
  <2> SUFFICES ASSUME n <= N PROVE Len(g[k]) <= Len(g[n]) /\ Begins(g[n], g[k])
    BY <1>1
  <2>1. n \in 1 .. N /\ n - 1 = k + d /\ n - 1 <= N /\ k \in 0 .. N
    BY <1>1 DEF N
  <2>2. Len(g[k]) <= Len(g[n - 1]) /\ Begins(g[n - 1], g[k])
    BY <2>1, <1>6
  <2> HIDE DEF n, T
  <2>3. /\ Len(g[n - 1]) \in Nat /\ Len(pieces[n]) \in Nat
        /\ Len(g[n]) = Len(g[n - 1]) + Len(pieces[n]) /\ Begins(g[n], g[n - 1])
    BY <1>4, <2>1
  <2>4. Len(g[k]) \in Nat
    BY <1>2, <2>1
  <2>5. Len(g[k]) <= Len(g[n]) /\ Len(g[n - 1]) <= Len(g[n]) /\ Len(g[n]) \in Nat
    <3>1. \A x, y, z, p \in Nat : x <= y /\ z = y + p => x <= z /\ y <= z
      OBVIOUS
    <3>2. Len(g[n]) \in Nat
      <4>1. \A x, y \in Nat : x + y \in Nat
        OBVIOUS
      <4> QED BY <2>3, <4>1, Zenon
    <3> QED BY <2>2, <2>3, <2>4, <3>1, <3>2, Zenon
  <2>6. Begins(g[n], g[k])
    BY <2>2, <2>3, <2>4, BeginsOn
  <2> QED BY <2>5, <2>6
<1>7. N - k \in Nat /\ k + (N - k) = N /\ k \in 1 .. N /\ k \in 0 .. N /\ k - 1 \in 0 .. N /\ N \in 0 .. N
  BY <1>1 DEF N
<1>8. Len(g[k]) <= Len(g[N]) /\ Begins(g[N], g[k])
  <2> HIDE DEF T
  <2>1. N - k \in T
    BY <1>5, <1>6, <1>7, NatInduct
  <2> QED BY <1>7, <2>1 DEF T
<1>9. /\ Len(g[k]) = Len(g[k - 1]) + Len(pieces[k]) /\ Stands(g[k], Len(g[k - 1]), pieces[k])
      /\ Len(g[k - 1]) \in Nat /\ Len(pieces[k]) \in Nat /\ g[k] = Cat(g[k - 1], pieces[k])
  BY <1>4, <1>7
<1>10. \A j \in 1 .. Len(pieces[k]) : g[N][Len(g[k - 1]) + j] = pieces[k][j]
  <2> TAKE j \in 1 .. Len(pieces[k])
  <2>1. Len(g[k - 1]) + j \in 1 .. Len(g[k])
    <3>1. \A x, y, z \in Nat : z = x + y => \A i \in 1 .. y : x + i \in 1 .. z
      OBVIOUS
    <3>2. Len(g[k]) \in Nat
      BY <1>2, <1>7
    <3> QED BY <1>9, <3>1, <3>2, Zenon
  <2>2. g[N][Len(g[k - 1]) + j] = g[k][Len(g[k - 1]) + j]
    BY <2>1, <1>8 DEF Begins
  <2>3. g[k][Len(g[k - 1]) + j] = pieces[k][j]
    BY <1>9 DEF Stands
  <2> QED BY <2>2, <2>3
<1>11. Stands(g[N], Len(g[k - 1]), pieces[k])
  BY <1>10 DEF Stands
<1> QED BY <1>1, <1>2, <1>7, <1>8, <1>9, <1>11 DEF N, Placed

\* A text in which every character of esc got a mark in front of it, the mark
\* among them, is read as it was.
LEMMA UnquoteInverts ==
    ASSUME NEW S, NEW s \in Seq(S), NEW mark \in S, NEW esc, mark \in esc
    PROVE  Y!Unquote(Y!FlattenSeq([i \in DOMAIN s |-> IF s[i] \in esc THEN <<mark, s[i]>> ELSE <<s[i]>>]),
                     mark) = s
<1> DEFINE N == Len(s)
           pieces == [i \in DOMAIN s |-> IF s[i] \in esc THEN <<mark, s[i]>> ELSE <<s[i]>>]
           t == Y!FlattenSeq(pieces)
<1>1. N \in Nat /\ DOMAIN s = 1 .. N /\ \A i \in 1 .. N : s[i] \in S
  OBVIOUS
<1>2. \A i \in 1 .. N : /\ s[i] \in esc => pieces[i] = <<mark, s[i]>>
                        /\ s[i] \notin esc => pieces[i] = <<s[i]>>
  BY <1>1
<1>3. Pieces(pieces, S) /\ Len(pieces) = N
  <2>1. \A i \in 1 .. N : pieces[i] \in Seq(S)
    BY <1>1, <1>2
  <2>2. pieces \in [1 .. N -> Seq(S)]
    BY <1>1, <2>1
  <2> HIDE DEF pieces
  <2> QED BY <1>1, <2>2 DEF Pieces
<1> HIDE DEF pieces, N, t
<1>4. PICK g : Joins(g, pieces, S) /\ t = g[N]
  BY <1>3, FlattenJoins DEF t
<1>5. t \in Seq(S) /\ Len(t) \in Nat
  BY <1>1, <1>3, <1>4 DEF Joins
<1>6. PICK f : Reader(f, t, mark) /\ Y!Unquote(t, mark) = f[1]
  BY <1>5, UnquoteReads
<1>7. \A i \in 1 .. Len(t) + 1 : f[i] = From(f, t, mark, i)
  BY <1>6 DEF Reader
<1> DEFINE Read(k) == f[Len(g[k]) + 1] = SubSeq(s, k + 1, N)
           T == {d \in Nat : d <= N => Read(N - d)}
<1>8. 0 \in T
  <2>1. f[Len(t) + 1] = <<>>
    <3>1. Len(t) + 1 \in 1 .. Len(t) + 1 /\ Len(t) + 1 > Len(t)
      BY <1>5
    <3> QED BY <3>1, <1>7 DEF From
  <2>2. SubSeq(s, N + 1, N) = <<>>
    BY <1>1, SubSeqEmpty
  <2>3. Read(N)
    BY <2>1, <2>2, <1>4
  <2> HIDE DEF Read
  <2> QED BY <2>3, <1>1
<1>9. ASSUME NEW k \in 1 .. N, Read(k) PROVE Read(k - 1)
  <2>1. /\ Len(g[k - 1]) \in Nat /\ Len(g[k]) = Len(g[k - 1]) + Len(pieces[k])
        /\ Len(g[k]) <= Len(t)
        /\ \A j \in 1 .. Len(pieces[k]) : t[Len(g[k - 1]) + j] = pieces[k][j]
    <3>1. Joins(g, pieces, S) /\ k \in 1 .. Len(pieces)
      BY <1>3, <1>4
    <3>2. /\ g[k - 1] \in Seq(S) /\ Len(g[k]) = Len(g[k - 1]) + Len(pieces[k])
          /\ Len(g[k]) <= Len(g[Len(pieces)])
          /\ Stands(g[Len(pieces)], Len(g[k - 1]), pieces[k])
      <4>1. Placed(g, pieces, S, k)
        BY <1>3, <3>1, JoinsPlaces
      <4> QED BY <4>1, Zenon DEF Placed
    <3>3. \A j \in 1 .. Len(pieces[k]) : g[Len(pieces)][Len(g[k - 1]) + j] = pieces[k][j]
      BY <3>2 DEF Stands
    <3>4. g[Len(pieces)] = t
      BY <1>3, <1>4
    <3>5. Len(g[k - 1]) \in Nat
      BY <3>2, LenProperties, Zenon
    <3> QED BY <3>2, <3>3, <3>4, <3>5, Zenon
  <2> DEFINE at == Len(g[k - 1]) + 1
  <2>2. SubSeq(s, k, N) = <<s[k]>> \o SubSeq(s, k + 1, N)
    BY <1>1, SubSeqRecursiveFirst DEF N
  <2>3. f[at] = <<s[k]>> \o SubSeq(s, k + 1, N)
    <3>1. CASE s[k] \in esc
      <4>1. /\ at + 1 = Len(g[k]) /\ t[at] = mark /\ t[at + 1] = s[k]
            /\ at \in 1 .. Len(t) + 1 /\ at < Len(t) /\ ~(at > Len(t)) /\ at + 2 = Len(g[k]) + 1
        <5>1. pieces[k] = <<mark, s[k]>>
          BY <1>2, <3>1
        <5>2. Len(pieces[k]) = 2 /\ pieces[k][1] = mark /\ pieces[k][2] = s[k]
          BY <5>1
        <5> QED BY <5>2, <2>1, <1>5
      <4>2. f[at] = <<t[at + 1]>> \o f[at + 2]
        BY <4>1, <1>7 DEF From
      <4> QED BY <4>1, <4>2, <1>9
    <3>2. CASE s[k] \notin esc
      <4>1. /\ at = Len(g[k]) /\ t[at] = s[k] /\ s[k] # mark
            /\ at \in 1 .. Len(t) + 1 /\ ~(at > Len(t)) /\ at + 1 = Len(g[k]) + 1
        <5>1. pieces[k] = <<s[k]>>
          BY <1>2, <3>2
        <5>2. Len(pieces[k]) = 1 /\ pieces[k][1] = s[k]
          BY <5>1
        <5> QED BY <5>2, <2>1, <1>5, <3>2
      <4>2. f[at] = <<t[at]>> \o f[at + 1]
        BY <4>1, <1>7 DEF From
      <4> QED BY <4>1, <4>2, <1>9
    <3> QED BY <3>1, <3>2
  <2>4. (k - 1) + 1 = k
    BY <1>1
  <2> QED BY <2>2, <2>3, <2>4
<1> HIDE DEF Read
<1>10. ASSUME NEW d \in Nat, d \in T PROVE d + 1 \in T
  <2> SUFFICES ASSUME d + 1 <= N PROVE Read(N - (d + 1))
    OBVIOUS
  <2>1. N - d \in 1 .. N /\ Read(N - d) /\ N - (d + 1) = (N - d) - 1
    BY <1>1, <1>10
  <2> QED BY <2>1, <1>9
<1>11. Read(0)
  <2> HIDE DEF T
  <2>1. N \in T
    BY <1>1, <1>8, <1>10, NatInduct
  <2>2. N - N = 0
    BY <1>1
  <2> QED BY <1>1, <2>1, <2>2 DEF T
<1>12. Len(g[0]) = 0
  BY <1>4 DEF Joins
<1>13. f[1] = SubSeq(s, 1, N)
  BY <1>11, <1>12 DEF Read
<1>14. SubSeq(s, 1, N) = s
  BY SubSeqFull DEF N
<1> QED BY <1>6, <1>13, <1>14 DEF t, pieces

\* Only the first n pieces matter to the first n concatenations.
LEMMA JoinsAgree ==
    ASSUME NEW S, NEW P, NEW Q, Pieces(P, S), Pieces(Q, S), NEW g, NEW h,
           Joins(g, P, S), Joins(h, Q, S), NEW m \in Nat, m <= Len(P), m <= Len(Q),
           \A i \in 1 .. m : P[i] = Q[i]
    PROVE  g[m] = h[m]
<1> DEFINE T == {d \in Nat : d <= m => g[d] = h[d]}
<1>1. 0 \in T
  BY DEF Joins
<1>2. ASSUME NEW d \in Nat, d \in T PROVE d + 1 \in T
  <2> DEFINE n == d + 1
  <2> SUFFICES ASSUME n <= m PROVE g[n] = h[n]
    OBVIOUS
  <2>1. n \in 1 .. m /\ n - 1 = d /\ d <= m
    OBVIOUS
  <2>2. n \in 1 .. Len(P) /\ n \in 1 .. Len(Q)
    <3>1. Len(P) \in Nat /\ Len(Q) \in Nat
      BY DEF Pieces
    <3> QED BY <2>1, <3>1
  <2>3. g[d] = h[d] /\ P[n] = Q[n]
    BY <1>2, <2>1
  <2> HIDE DEF n, T
  <2>4. g[n] = Cat(g[n - 1], P[n]) /\ h[n] = Cat(h[n - 1], Q[n])
    BY <2>2, Zenon DEF Joins
  <2> QED BY <2>1, <2>3, <2>4, Zenon
<1> HIDE DEF T
<1>3. m \in T
  BY <1>1, <1>2, NatInduct
<1> QED BY <1>3 DEF T

\* Q has n pieces, all but the last those of P.
SameBefore(P, Q, n) == Len(Q) = n /\ n - 1 <= Len(P) /\ \A i \in 1 .. n - 1 : P[i] = Q[i]

\* FlattenSeq of n pieces ends in the last of them.
LEMMA FlattenLast ==
    ASSUME NEW S, NEW P, NEW Q, Pieces(P, S), Pieces(Q, S), NEW g, Joins(g, P, S),
           NEW n \in Nat \ {0}, SameBefore(P, Q, n)
    PROVE  Y!FlattenSeq(Q) = Cat(g[n - 1], Q[n])
<1>1. PICK h : Joins(h, Q, S) /\ Y!FlattenSeq(Q) = h[Len(Q)]
  BY FlattenJoins
<1>0. Len(Q) = n /\ n - 1 <= Len(P) /\ \A i \in 1 .. n - 1 : P[i] = Q[i]
  BY DEF SameBefore
<1>2. h[n] = Cat(h[n - 1], Q[n])
  BY <1>0, <1>1 DEF Joins
<1>3. n - 1 \in Nat /\ n - 1 <= Len(Q)
  BY <1>0
<1>4. g[n - 1] = h[n - 1]
  BY <1>0, <1>1, <1>3, JoinsAgree
<1> QED BY <1>0, <1>1, <1>2, <1>4

\* What is escaped nowhere is written as it is.
LEMMA FlattenSingles ==
    ASSUME NEW S, NEW s \in Seq(S)
    PROVE  Y!FlattenSeq([i \in DOMAIN s |-> <<s[i]>>]) = s
<1> DEFINE N == Len(s)
           P == [i \in DOMAIN s |-> <<s[i]>>]
<1>1. N \in Nat /\ DOMAIN s = 1 .. N /\ \A i \in 1 .. N : s[i] \in S
  OBVIOUS
<1>2. \A i \in 1 .. N : P[i] = <<s[i]>>
  BY <1>1
<1>3. Pieces(P, S) /\ Len(P) = N
  <2>1. \A i \in 1 .. N : P[i] \in Seq(S)
    BY <1>1, <1>2
  <2>2. P \in [1 .. N -> Seq(S)]
    BY <1>1, <2>1
  <2> HIDE DEF P
  <2> QED BY <1>1, <2>2 DEF Pieces
<1> HIDE DEF P, N
<1>4. PICK g : Joins(g, P, S) /\ Y!FlattenSeq(P) = g[N]
  BY <1>3, FlattenJoins
<1> DEFINE T == {k \in Nat : k <= N => g[k] = SubSeq(s, 1, k)}
<1>5. 0 \in T
  <2>1. SubSeq(s, 1, 0) = <<>>
    BY SubSeqEmpty
  <2> QED BY <2>1, <1>4 DEF Joins
<1>6. ASSUME NEW k \in Nat, k \in T PROVE k + 1 \in T
  <2> DEFINE n == k + 1
  <2> SUFFICES ASSUME n <= N PROVE g[n] = SubSeq(s, 1, n)
    OBVIOUS
  <2>1. n \in 1 .. N /\ n - 1 = k /\ k <= N /\ 1 \in 1 .. N /\ n \in 1 .. N
    BY <1>1
  <2>2. g[k] = SubSeq(s, 1, k)
    BY <1>6, <2>1
  <2> HIDE DEF n, T
  <2>3. SubSeq(s, 1, n) = SubSeq(s, 1, n - 1) \o <<s[n]>>
    BY <1>1, <2>1, SubSeqRecursiveSecond DEF N
  <2>4. g[n] = Cat(g[n - 1], P[n])
    BY <1>3, <1>4, <2>1, Zenon DEF Joins
  <2>5. P[n] = <<s[n]>>
    BY <1>2, <2>1
  <2> QED BY <2>1, <2>2, <2>3, <2>4, <2>5, Zenon DEF Cat
<1> HIDE DEF T
<1>7. N \in T
  BY <1>1, <1>5, <1>6, NatInduct
<1>8. g[N] = SubSeq(s, 1, N)
  BY <1>1, <1>7 DEF T
<1> QED BY <1>4, <1>8, SubSeqFull DEF P, N

\* All characters and words.
Letters == Y!Words \cup Y!Chars

\* Text in quotes is read back as it was.
LEMMA QuotedReadsBack ==
    ASSUME NEW s \in Y!Strings, NEW style \in {"single", "double"}
    PROVE  Y!Unquote(Y!Inline(s, style), Y!Mark[style]) = s
<1> DEFINE mark == Y!Mark[style]
           esc  == Y!Escaped[style]
<1>1. mark \in esc /\ mark \in Letters
  <2>1. /\ Y!Mark["single"] = "'" /\ Y!Mark["double"] = "bs"
        /\ Y!Escaped["single"] = {"'"} /\ "bs" \in Y!Escaped["double"]
    BY Zenon DEF Y!Mark, Y!Escaped
  <2>2. "'" \in Letters /\ "bs" \in Letters
    BY Zenon DEF Letters, Y!Chars
  <2>3. style = "single" \/ style = "double"
    OBVIOUS
  <2>4. CASE style = "single"
    BY <2>1, <2>2, <2>4, Zenon
  <2>5. CASE style = "double"
    BY <2>1, <2>2, <2>5, Zenon
  <2> QED BY <2>3, <2>4, <2>5
<1>2. s \in Seq(Letters)
  BY DEF Y!Strings, Letters
<1>3. Y!Inline(s, style)
        = Y!FlattenSeq([i \in DOMAIN s |-> IF s[i] \in esc THEN <<mark, s[i]>> ELSE <<s[i]>>])
  BY Zenon DEF Y!Inline
<1> HIDE DEF mark, esc
<1>4. Y!Unquote(Y!FlattenSeq([i \in DOMAIN s |-> IF s[i] \in esc THEN <<mark, s[i]>> ELSE <<s[i]>>]), mark) = s
  BY <1>1, <1>2, UnquoteInverts
<1> QED BY <1>3, <1>4 DEF mark

\* Nothing is escaped in plain text.
LEMMA PlainIsAsItIs ==
    ASSUME NEW s \in Y!Strings
    PROVE  Y!Inline(s, "plain") = s
<1>1. Y!Escaped["plain"] = {}
  BY DEF Y!Escaped
<1>2. s \in Seq(Letters)
  BY DEF Y!Strings, Letters
<1>3. Y!Inline(s, "plain") = Y!FlattenSeq([i \in DOMAIN s |-> <<s[i]>>])
  <2>1. \A i \in DOMAIN s : (IF s[i] \in Y!Escaped["plain"] THEN <<Y!Mark["plain"], s[i]>> ELSE <<s[i]>>)
                              = <<s[i]>>
    BY <1>1
  <2> QED BY <2>1, Zenon DEF Y!Inline
<1> QED BY <1>2, <1>3, FlattenSingles

\* What looks like a number to the reader begins like one, so that
\* resolves_as_non_string looks at it.
LEMMA FloatsLookLikeIt ==
    ASSUME NEW s \in Y!Strings, s # <<>>, Y!IsFloat(s)
    PROVE  s[1] \in {"1", "-", "."}
<1>1. Len(s) \in Nat \ {0} /\ DOMAIN s = 1 .. Len(s) /\ s[1] \in Y!Words \cup Y!Chars
  BY EmptySeq DEF Y!Strings
<1>2. CASE s[1] = "-"
  BY <1>2
<1>3. CASE s[1] # "-"
  <2>1. \/ Y!Digits(s)
        \/ ~Y!Has(s, (Y!Words \cup Y!Chars) \ {"1", "."})
    BY <1>3, Zenon DEF Y!IsFloat, Y!First
  <2>2. 1 \in DOMAIN s
    BY <1>1
  <2> QED BY <2>1, <2>2, <1>1 DEF Y!Digits, Y!Has
<1> QED BY <1>2, <1>3

\* What choose_style leaves plain is read as the string it was.
LEMMA PlainReadsBack ==
    ASSUME NEW s \in Y!Strings, Y!ChooseStyle(s) = "plain"
    PROVE  Y!ReadPlain(s) = s
<1>1. /\ s # <<>> /\ ~Y!Has(s, {"nl"}) /\ ~Y!ResolvesAsNonString(s)
      /\ ~Y!Has(s, {"tab", "cr", "ctl"}) /\ Y!PlainAllowed(s)
  BY DEF Y!ChooseStyle
<1>2. ~Y!Has(s, {"nl", "cr", "tab", "ctl"})
  BY <1>1 DEF Y!Has
<1>3. ~Y!IsFloat(s)
  BY <1>1, FloatsLookLikeIt DEF Y!ResolvesAsNonString, Y!First
<1>4. ~(Len(s) = 1 /\ Y!First(s) \in Y!Untyped)
  BY <1>1 DEF Y!ResolvesAsNonString, Y!Untyped, Y!Words
<1>5. /\ Y!First(s) \notin {"#", "[", "'", "dq", " "} /\ Y!Last(s) # " "
      /\ ~(Y!First(s) \in {"-", ":"} /\ (Len(s) = 1 \/ s[2] = " "))
      /\ ~Y!HasPair(s, ":", " ") /\ Y!Last(s) # ":" /\ ~Y!HasPair(s, " ", "#")
  <2>1. ~(Len(s) > 1 /\ Len(s) = 1)
    OBVIOUS
  <2> QED BY <1>1, <2>1, Zenon DEF Y!PlainAllowed
<1> QED BY <1>2, <1>3, <1>4, <1>5, Zenon DEF Y!ReadPlain

\* The lines so far and one character more.
LinesOn(lines, char) == IF char = "nl" THEN Append(lines, <<>>) ELSE Y!Longer(lines, char)

\* As sequences of anything.
LEMMA LineAdded ==
    ASSUME NEW R, NEW L \in Seq(R), L # <<>>, NEW e \in R
    PROVE  /\ Append(L, e) \in Seq(R) /\ Append(L, e) # <<>> /\ Len(Append(L, e)) = Len(L) + 1
           /\ Begins(Append(L, e), L) /\ Append(L, e)[Len(L) + 1] = e
BY AppendProperties DEF Begins

\* A sequence whose last element is another.
LEMMA LineReplaced ==
    ASSUME NEW R, NEW L \in Seq(R), L # <<>>, NEW e \in R
    PROVE  /\ [L EXCEPT ![Len(L)] = e] \in Seq(R) /\ Len([L EXCEPT ![Len(L)] = e]) = Len(L)
           /\ \A i \in 1 .. Len(L) - 1 : [L EXCEPT ![Len(L)] = e][i] = L[i]
           /\ [L EXCEPT ![Len(L)] = e][Len(L)] = e
<1>1. Len(L) \in Nat \ {0}
  BY EmptySeq
<1> DEFINE n == Len(L)
<1>2. n \in 1 .. Len(L)
  BY <1>1
<1>3. /\ [L EXCEPT ![n] = e] \in Seq(R) /\ Len([L EXCEPT ![n] = e]) = Len(L)
      /\ \A j \in 1 .. Len(L) : [L EXCEPT ![n] = e][j] = IF j = n THEN e ELSE L[j]
  BY <1>2, ExceptSeq
<1> DEFINE M == [L EXCEPT ![n] = e]
<1>4. /\ M \in Seq(R) /\ Len(M) = Len(L)
      /\ \A j \in 1 .. Len(L) : M[j] = IF j = n THEN e ELSE L[j]
  BY <1>3
<1> HIDE DEF M, n
<1>5. (\A i \in 1 .. n - 1 : M[i] = L[i]) /\ M[n] = e
  BY <1>1, <1>2, <1>4 DEF n
<1> QED BY <1>4, <1>5 DEF M, n

\* What stays of the lines, and what the last is then.
Added(M, L, S)      == /\ Pieces(M, S) /\ Len(M) = Len(L) + 1 /\ \A i \in 1 .. Len(L) : M[i] = L[i]
                       /\ M[Len(L) + 1] = <<>>
Replaced(M, L, char, S) == /\ Pieces(M, S) /\ Len(M) = Len(L)
                           /\ \A i \in 1 .. Len(L) - 1 : M[i] = L[i]
                           /\ M[Len(L)] = Append(L[Len(L)], char)

\* Lines with one more character: a break begins a line, any other is added to the
\* last one.
LEMMA LinesOnIs ==
    ASSUME NEW S, NEW L, Pieces(L, S), L # <<>>, NEW char \in S
    PROVE  /\ char = "nl" => Added(LinesOn(L, char), L, S)
           /\ char # "nl" => Replaced(LinesOn(L, char), L, char, S)
           /\ Pieces(LinesOn(L, char), S) /\ LinesOn(L, char) # <<>>
<1> DEFINE R == Seq(S)
<1>1. L \in Seq(R) /\ <<>> \in R
  BY DEF Pieces
<1>2. Len(L) \in Nat \ {0} /\ L[Len(L)] \in R
  <2>1. Len(L) \in Nat \ {0}
    BY <1>1, EmptySeq
  <2> HIDE DEF R
  <2>2. Len(L) \in 1 .. Len(L)
    BY <2>1
  <2> QED BY <1>1, <2>1, <2>2, ElementOfSeq
<1>3. Append(L[Len(L)], char) \in R
  BY <1>2, AppendProperties
<1> HIDE DEF R
<1>4. CASE char = "nl"
  <2> DEFINE M == Append(L, <<>>)
  <2>1. /\ M \in Seq(R) /\ M # <<>> /\ Len(M) = Len(L) + 1
        /\ Begins(M, L) /\ M[Len(L) + 1] = <<>>
    BY <1>1, LineAdded
  <2>2. LinesOn(L, char) = M
    BY <1>4 DEF LinesOn
  <2> HIDE DEF M
  <2> QED BY <1>4, <2>1, <2>2, Zenon DEF Added, Pieces, Begins, R
<1>5. CASE char # "nl"
  <2> DEFINE e == Append(L[Len(L)], char)
             M == [L EXCEPT ![Len(L)] = e]
  <2>1. /\ M \in Seq(R) /\ Len(M) = Len(L) /\ \A i \in 1 .. Len(L) - 1 : M[i] = L[i]
        /\ M[Len(L)] = e
    <3>1. e \in R
      BY <1>3
    <3> HIDE DEF e
    <3> QED BY <1>1, <3>1, LineReplaced
  <2>2. LinesOn(L, char) = M
    BY <1>5, Zenon DEF LinesOn, Y!Longer
  <2>3. M # <<>>
    <3>1. Len(M) # 0
      BY <1>2, <2>1
    <3> HIDE DEF M
    <3> QED BY <3>1
  <2> HIDE DEF M
  <2> QED BY <1>5, <2>1, <2>2, <2>3, Zenon DEF Replaced, Pieces, R
<1> QED BY <1>4, <1>5

\* The text that lines make, each but the first after a break.
Glued(L) == [n \in DOMAIN L |-> IF n = 1 THEN L[n] ELSE <<"nl">> \o L[n]]
Text(L)  == Y!FlattenSeq(Glued(L))

\* The pieces that Text concatenates.
LEMMA GluedIs ==
    ASSUME NEW S, "nl" \in S, NEW L, Pieces(L, S)
    PROVE  /\ Pieces(Glued(L), S) /\ Len(Glued(L)) = Len(L) /\ Len(L) \in Nat
           /\ \A n \in 1 .. Len(L) : /\ L[n] \in Seq(S) /\ Glued(L)[n] \in Seq(S)
                                     /\ n = 1 => Glued(L)[n] = L[n]
                                     /\ n # 1 => Glued(L)[n] = Cat(<<"nl">>, L[n])
<1> DEFINE N == Len(L)
           P == Glued(L)
<1>1. N \in Nat /\ DOMAIN L = 1 .. N /\ \A n \in 1 .. N : L[n] \in Seq(S)
  BY DEF Pieces
<1> HIDE DEF N
<1>2. P = [n \in 1 .. N |-> IF n = 1 THEN L[n] ELSE Cat(<<"nl">>, L[n])]
  BY <1>1, Zenon DEF Glued, Cat
<1>3. <<"nl">> \in Seq(S)
  OBVIOUS
<1>4. \A n \in 1 .. N : /\ n = 1 => P[n] = L[n]
                        /\ n # 1 => P[n] = Cat(<<"nl">>, L[n])
  BY <1>2
<1>5. \A n \in 1 .. N : P[n] \in Seq(S)
  <2> TAKE n \in 1 .. N
  <2>1. L[n] \in Seq(S) /\ Cat(<<"nl">>, L[n]) \in Seq(S)
    BY <1>1, <1>3, CatPlaces
  <2> QED BY <1>4, <2>1
<1>6. P \in [1 .. N -> Seq(S)]
  <2>1. P = [n \in 1 .. N |-> P[n]]
    BY <1>2
  <2> HIDE DEF P
  <2> QED BY <1>5, <2>1
<1> HIDE DEF P
<1>7. Pieces(P, S) /\ Len(P) = N
  BY <1>1, <1>6 DEF Pieces
<1> QED BY <1>1, <1>4, <1>5, <1>7 DEF P, N

\* One more character of lines is one more of their text.
LEMMA TextOn ==
    ASSUME NEW S, "nl" \in S, NEW L, Pieces(L, S), L # <<>>, NEW char \in S
    PROVE  Text(L) \in Seq(S) /\ Text(LinesOn(L, char)) = Cat(Text(L), <<char>>)
<1> DEFINE M == LinesOn(L, char)
           P == Glued(L)
           Q == Glued(M)
           N == Len(L)
<1>1. /\ char = "nl" => Added(M, L, S)
      /\ char # "nl" => Replaced(M, L, char, S)
      /\ Pieces(M, S)
  BY LinesOnIs
<1>2. /\ Pieces(P, S) /\ Len(P) = N /\ N \in Nat
      /\ \A n \in 1 .. N : /\ L[n] \in Seq(S) /\ P[n] \in Seq(S)
                           /\ n = 1 => P[n] = L[n]
                           /\ n # 1 => P[n] = Cat(<<"nl">>, L[n])
  BY GluedIs
<1>3. /\ Pieces(Q, S) /\ Len(Q) = Len(M)
      /\ \A n \in 1 .. Len(M) : /\ n = 1 => Q[n] = M[n]
                                /\ n # 1 => Q[n] = Cat(<<"nl">>, M[n])
  <2> HIDE DEF M
  <2> QED BY <1>1, GluedIs
<1>4. N # 0
  BY EmptySeq DEF Pieces
<1>5. Text(L) = Y!FlattenSeq(P) /\ Text(M) = Y!FlattenSeq(Q)
  BY DEF Text
<1> HIDE DEF M, P, Q, N
<1>6. PICK g : Joins(g, P, S) /\ Y!FlattenSeq(P) = g[N]
  BY <1>2, FlattenJoins
<1>7. g[N] \in Seq(S) /\ g[N] = Cat(g[N - 1], P[N]) /\ g[N - 1] \in Seq(S) /\ N \in 1 .. N
  <2>1. N \in 1 .. N /\ N - 1 \in 0 .. N /\ N \in 0 .. N
    BY <1>2, <1>4
  <2>2. g \in [0 .. N -> Seq(S)] /\ \A n \in 1 .. N : g[n] = Cat(g[n - 1], P[n])
    BY <1>2, <1>6, Zenon DEF Joins
  <2> QED BY <2>1, <2>2
<1>a. \A s, t, u \in Seq(S) : Cat(s, Cat(t, u)) = Cat(Cat(s, t), u)
  BY CatAssociative
<1>8. CASE char = "nl"
  <2>1. /\ Len(M) = N + 1 /\ M[N + 1] = <<>> /\ \A i \in 1 .. N : M[i] = L[i]
    BY <1>1, <1>8 DEF Added, N
  <2>2. N + 1 \in 1 .. Len(M) /\ N + 1 # 1 /\ (N + 1) - 1 = N
    BY <1>2, <1>4, <2>1
  <2>3. Q[N + 1] = <<"nl">>
    <3>1. Q[N + 1] = Cat(<<"nl">>, <<>>)
      BY <1>3, <2>1, <2>2
    <3>2. <<"nl">> \o <<>> = <<"nl">>
      OBVIOUS
    <3> QED BY <3>1, <3>2 DEF Cat
  <2>4. \A i \in 1 .. N : P[i] = Q[i]
    <3> TAKE i \in 1 .. N
    <3>1. i \in 1 .. Len(M) /\ M[i] = L[i]
      BY <1>2, <2>1
    <3> QED BY <1>2, <1>3, <3>1
  <2> DEFINE n == N + 1
  <2>5. n \in Nat \ {0} /\ SameBefore(P, Q, n)
    BY <1>2, <1>3, <2>1, <2>2, <2>4 DEF SameBefore
  <2> HIDE DEF n
  <2>6. Y!FlattenSeq(Q) = Cat(g[n - 1], Q[n])
    BY <1>2, <1>3, <1>6, <2>5, FlattenLast
  <2> QED BY <1>5, <1>6, <1>7, <1>8, <2>2, <2>3, <2>6, Zenon DEF n, M
<1>9. CASE char # "nl"
  <2>1. /\ Len(M) = N /\ M[N] = Append(L[N], char) /\ \A i \in 1 .. N - 1 : M[i] = L[i]
    BY <1>1, <1>9 DEF Replaced, N
  <2>2. L[N] \in Seq(S) /\ P[N] \in Seq(S) /\ <<char>> \in Seq(S) /\ <<"nl">> \in Seq(S)
    BY <1>2, <1>7
  <2>3. M[N] = Cat(L[N], <<char>>)
    BY <2>1, <2>2, AppendIsConcat DEF Cat
  <2>4. Q[N] = Cat(P[N], <<char>>)
    <3>1. CASE N = 1
      BY <1>2, <1>3, <1>7, <2>1, <2>3, <3>1
    <3>2. CASE N # 1
      <4>1. Q[N] = Cat(<<"nl">>, Cat(L[N], <<char>>)) /\ P[N] = Cat(<<"nl">>, L[N])
        BY <1>2, <1>3, <1>7, <2>1, <2>3, <3>2
      <4>2. Cat(<<"nl">>, Cat(L[N], <<char>>)) = Cat(Cat(<<"nl">>, L[N]), <<char>>)
        BY <2>2, <1>a, Zenon
      <4> QED BY <4>1, <4>2
    <3> QED BY <3>1, <3>2
  <2>5. \A i \in 1 .. N - 1 : P[i] = Q[i]
    <3> TAKE i \in 1 .. N - 1
    <3>1. i \in 1 .. N /\ i \in 1 .. Len(M) /\ M[i] = L[i]
      BY <1>2, <2>1
    <3> QED BY <1>2, <1>3, <3>1
  <2>6. N \in Nat \ {0} /\ SameBefore(P, Q, N)
    BY <1>2, <1>3, <1>4, <2>1, <2>5 DEF SameBefore
  <2>7. Y!FlattenSeq(Q) = Cat(g[N - 1], Q[N])
    BY <1>2, <1>3, <1>6, <2>6, FlattenLast
  <2>8. Cat(g[N - 1], Cat(P[N], <<char>>)) = Cat(g[N], <<char>>)
    <3>1. g[N - 1] \in Seq(S) /\ P[N] \in Seq(S) /\ <<char>> \in Seq(S)
      BY <1>7, <2>2, Zenon
    <3>2. Cat(g[N - 1], Cat(P[N], <<char>>)) = Cat(Cat(g[N - 1], P[N]), <<char>>)
      BY <3>1, <1>a, Zenon
    <3> QED BY <3>2, <1>7, Zenon
  <2> QED BY <1>5, <1>6, <1>7, <2>4, <2>7, <2>8 DEF M
<1> QED BY <1>8, <1>9

\* What Lines yields for the first n characters of a text.
LinesUpto(u, s, S) ==
    /\ \A n \in 0 .. Len(s) : Pieces(u[n], S) /\ u[n] # <<>>
    /\ u[0] = << <<>> >> /\ \A n \in 1 .. Len(s) : u[n] = LinesOn(u[n - 1], s[n])

\* Lines is that recursion.
LEMMA LinesAre ==
    ASSUME NEW S, "nl" \in S, NEW s \in Seq(S)
    PROVE  \E u : LinesUpto(u, s, S) /\ Y!Lines(s) = u[Len(s)]
<1> DEFINE N == Len(s)
           X == Seq(Seq(S)) \ {<<>>}
           step == [n \in 1 .. N |-> [x \in X |-> LinesOn(x, s[n])]]
           Is(u) == u = [n \in 0 .. N |->
                            IF n = 0 THEN << <<>> >>
                            ELSE IF s[n] = "nl" THEN Append(u[n - 1], <<>>)
                                 ELSE Y!Longer(u[n - 1], s[n])]
           all == CHOOSE u : Is(u)
<1>1. N \in Nat /\ \A n \in 1 .. N : s[n] \in S
  OBVIOUS
<1>2. << <<>> >> \in X
  OBVIOUS
<1>3. ASSUME NEW n \in 1 .. N, NEW x \in X PROVE LinesOn(x, s[n]) \in X
  BY <1>1, LinesOnIs DEF Pieces
<1> HIDE DEF N, X
<1>4. \A n \in 1 .. N : \A x \in X : step[n][x] = LinesOn(x, s[n])
  OBVIOUS
<1> HIDE DEF step, all
<1>5. \A n \in 1 .. N : \A x \in X : step[n][x] \in X
  BY <1>3, <1>4
<1>6. PICK u : Iterates(u, X, << <<>> >>, N, step)
  BY <1>1, <1>2, <1>5, RecursionExists
<1>7. /\ u \in [0 .. N -> X] /\ u[0] = << <<>> >>
      /\ \A n \in 1 .. N : u[n] = LinesOn(u[n - 1], s[n])
  <2>1. /\ u \in [0 .. N -> X] /\ u[0] = << <<>> >> /\ \A n \in 1 .. N : u[n] = step[n][u[n - 1]]
    BY <1>6, Zenon DEF Iterates
  <2>2. \A n \in 1 .. N : n - 1 \in 0 .. N
    BY <1>1
  <2> QED BY <1>4, <2>1, <2>2
<1>8. Is(u)
  <2>1. \A n \in 0 .. N : n = 0 \/ n \in 1 .. N
    BY <1>1
  <2>2. \A n \in 0 .. N : u[n] = IF n = 0 THEN << <<>> >>
                                 ELSE IF s[n] = "nl" THEN Append(u[n - 1], <<>>)
                                      ELSE Y!Longer(u[n - 1], s[n])
    BY <1>7, <2>1, Zenon DEF LinesOn
  <2>3. u = [n \in 0 .. N |-> u[n]]
    BY <1>7
  <2> QED BY <2>2, <2>3, Zenon
<1>9. Is(all)
  <2> HIDE DEF Is
  <2> QED BY <1>8, Zenon DEF all
<1>10. Y!Lines(s) = all[N]
  BY Zenon DEF Y!Lines, all, N
<1>11. /\ all[0] = << <<>> >>
       /\ \A n \in 1 .. N : all[n] = LinesOn(all[n - 1], s[n])
  <2>1. 0 \in 0 .. N /\ \A n \in 1 .. N : n \in 0 .. N /\ n # 0
    BY <1>1
  <2>2. \A n \in 0 .. N : all[n] = IF n = 0 THEN << <<>> >>
                                   ELSE IF s[n] = "nl" THEN Append(all[n - 1], <<>>)
                                        ELSE Y!Longer(all[n - 1], s[n])
    BY <1>9, Zenon
  <2> QED BY <2>1, <2>2, Zenon DEF LinesOn
<1> HIDE DEF Is
<1>12. \A n \in 0 .. N : all[n] \in X
  <2> DEFINE T == {k \in Nat : k <= N => all[k] \in X}
  <2>1. 0 \in T
    BY <1>2, <1>11
  <2>2. ASSUME NEW k \in Nat, k \in T PROVE k + 1 \in T
    <3> DEFINE n == k + 1
    <3> SUFFICES ASSUME n <= N PROVE all[n] \in X
      OBVIOUS
    <3>1. n \in 1 .. N /\ n - 1 = k /\ all[k] \in X
      BY <1>1, <2>2
    <3> HIDE DEF n, T
    <3>2. all[n] = LinesOn(all[n - 1], s[n])
      BY <1>11, <3>1
    <3> QED BY <1>3, <3>1, <3>2
  <2> HIDE DEF T
  <2>3. Nat \subseteq T
    BY <2>1, <2>2, NatInduct
  <2> QED BY <1>1, <2>3 DEF T
<1>13. LinesUpto(all, s, S)
  BY <1>11, <1>12, Zenon DEF LinesUpto, N, X, Pieces
<1> QED BY <1>10, <1>13 DEF N

\* Lines make the text they were made of, and the first of them begins as it does.
LEMMA LinesMakeTheText ==
    ASSUME NEW S, "nl" \in S, NEW s \in Seq(S)
    PROVE  /\ Pieces(Y!Lines(s), S) /\ Y!Lines(s) # <<>> /\ Text(Y!Lines(s)) = s
           /\ s # <<>> /\ s[1] # "nl" => Y!Lines(s)[1] # <<>> /\ Y!Lines(s)[1][1] = s[1]
           /\ s = <<>> \/ s[1] = "nl" => Y!Lines(s)[1] = <<>>
<1> DEFINE N == Len(s)
<1>1. PICK u : LinesUpto(u, s, S) /\ Y!Lines(s) = u[N]
  BY LinesAre
<1>2. /\ \A n \in 0 .. N : Pieces(u[n], S) /\ u[n] # <<>>
      /\ u[0] = << <<>> >> /\ \A n \in 1 .. N : u[n] = LinesOn(u[n - 1], s[n])
  BY <1>1 DEF LinesUpto
<1>3. N \in Nat /\ \A n \in 1 .. N : s[n] \in S
  OBVIOUS
<1> HIDE DEF N
<1> DEFINE Right(n) == /\ Text(u[n]) = SubSeq(s, 1, n)
                       /\ n # 0 /\ s[1] # "nl" => u[n][1] # <<>> /\ u[n][1][1] = s[1]
                       /\ n = 0 \/ s[1] = "nl" => u[n][1] = <<>>
                       /\ n # 0 /\ s[1] = "nl" => Len(u[n]) # 1
           T == {k \in Nat : k <= N => Right(k)}
<1>4. 0 \in T
  <2>1. Text(<< <<>> >>) = <<>>
    <3>1. Glued(<< <<>> >>) = << <<>> >>
      BY DEF Glued
    <3>2. Y!FlattenSeq(<< <<>> >>) = <<>>
      <4> DEFINE one == << <<>> >>
      <4>0. Len(one) = 1 /\ one[1] = <<>>
        OBVIOUS
      <4>1. Len(one) = 1 /\ one[1] = <<>> /\ Pieces(one, S)
        <5> DEFINE Q == Seq(S)
        <5>1. <<>> \in Q
          OBVIOUS
        <5> HIDE DEF Q
        <5>2. one \in Seq(Q)
          BY <5>1
        <5> HIDE DEF one
        <5> QED BY <4>0, <5>2, Zenon DEF Pieces, Q
      <4>2. PICK g : Joins(g, one, S) /\ Y!FlattenSeq(one) = g[Len(one)]
        <5> HIDE DEF one
        <5> QED BY <4>1, FlattenJoins
      <4>3. /\ g[0] = <<>>
            /\ \A n \in 1 .. Len(one) : g[n] = Cat(g[n - 1], one[n])
        <5> HIDE DEF one
        <5> QED BY <4>2 DEF Joins
      <4> HIDE DEF one
      <4>4. g[1] = Cat(g[0], <<>>)
        BY <4>1, <4>3
      <4>5. Cat(<<>>, <<>>) = <<>>
        BY DEF Cat
      <4>6. g[Len(one)] = <<>>
        BY <4>1, <4>3, <4>4, <4>5
      <4>7. Y!FlattenSeq(one) = <<>>
        BY <4>2, <4>6
      <4> QED BY <4>7 DEF one
    <3> QED BY <3>1, <3>2 DEF Text
  <2>2. SubSeq(s, 1, 0) = <<>>
    BY SubSeqEmpty
  <2>3. u[0][1] = <<>>
    <3>1. << <<>> >>[1] = <<>>
      OBVIOUS
    <3> QED BY <1>2, <3>1, Zenon
  <2>4. Right(0)
    BY <1>2, <2>1, <2>2, <2>3, Zenon
  <2> HIDE DEF Right
  <2> QED BY <2>4
<1>5. ASSUME NEW k \in Nat, k \in T PROVE k + 1 \in T
  <2> DEFINE n == k + 1
  <2> SUFFICES ASSUME n <= N PROVE Right(n)
    OBVIOUS
  <2>1. n \in 1 .. N /\ n - 1 = k /\ k \in 0 .. N /\ Right(k) /\ 1 \in 1 .. N /\ n # 0
    BY <1>3, <1>5
  <2>2. /\ Text(u[k]) = SubSeq(s, 1, k)
        /\ k # 0 /\ s[1] # "nl" => u[k][1] # <<>> /\ u[k][1][1] = s[1]
        /\ k = 0 \/ s[1] = "nl" => u[k][1] = <<>>
        /\ k # 0 /\ s[1] = "nl" => Len(u[k]) # 1
    BY <2>1
  <2>a. k = 0 => s[1] = s[n]
    BY DEF n
  <2> HIDE DEF n, T
  <2>3. u[n] = LinesOn(u[k], s[n]) /\ Pieces(u[k], S) /\ u[k] # <<>> /\ s[n] \in S
    BY <1>2, <1>3, <2>1
  <2>4. Text(u[n]) = Cat(Text(u[k]), <<s[n]>>)
    BY <2>3, TextOn
  <2>5. SubSeq(s, 1, n) = SubSeq(s, 1, n - 1) \o <<s[n]>>
    BY <1>3, <2>1, SubSeqRecursiveSecond DEF N
  <2>6. Text(u[n]) = SubSeq(s, 1, n)
    BY <2>1, <2>2, <2>4, <2>5, Zenon DEF Cat
  <2>7. /\ s[n] = "nl" => Added(u[n], u[k], S)
        /\ s[n] # "nl" => Replaced(u[n], u[k], s[n], S)
    BY <2>3, LinesOnIs
  <2>8. Len(u[k]) \in Nat \ {0} /\ u[k][1] \in Seq(S)
    <3> DEFINE L == u[k]
    <3>1. L \in Seq(Seq(S)) /\ L # <<>>
      BY <2>3 DEF Pieces
    <3> HIDE DEF L
    <3> DEFINE Q == Seq(S)
    <3> HIDE DEF Q
    <3>2. L \in Seq(Q)
      BY <3>1 DEF Q
    <3>3. Len(L) \in Nat \ {0} /\ L[1] \in Q
      BY <3>1, <3>2, EmptySeq
    <3> QED BY <3>3 DEF L, Q
  <2>9. CASE s[n] = "nl"
    <3>1. u[n][1] = u[k][1] /\ Len(u[n]) # 1
      BY <2>7, <2>8, <2>9 DEF Added
    <3>2. k = 0 => s[1] = "nl"
      BY <2>9, <2>a
    <3> QED BY <2>1, <2>2, <2>6, <3>1, <3>2, Zenon
  <2>10. CASE s[n] # "nl"
    <3>1. Replaced(u[n], u[k], s[n], S)
      BY <2>7, <2>10
    <3>2. CASE Len(u[k]) = 1
      <4>1. u[n][1] = Append(u[k][1], s[n])
        BY <3>1, <3>2 DEF Replaced
      <4>2. /\ Append(u[k][1], s[n]) # <<>>
            /\ u[k][1] = <<>> => Append(u[k][1], s[n])[1] = s[n]
            /\ u[k][1] # <<>> => Append(u[k][1], s[n])[1] = u[k][1][1]
        <5> DEFINE x == u[k][1]
                   a == s[n]
        <5>1. x \in Seq(S) /\ a \in S
          BY <2>3, <2>8
        <5> HIDE DEF x, a
        <5>2. /\ Append(x, a) # <<>>
              /\ x = <<>> => Append(x, a)[1] = a
              /\ x # <<>> => Append(x, a)[1] = x[1]
          BY <5>1
        <5> QED BY <5>2 DEF x, a
      <4>3. u[n][1] # <<>> /\ u[n][1][1] = s[1] /\ s[1] # "nl"
        <5>1. CASE k = 0
          BY <2>2, <2>10, <2>a, <4>1, <4>2, <5>1, Zenon
        <5>2. CASE k # 0
          BY <2>2, <3>2, <4>1, <4>2, <5>2, Zenon
        <5> QED BY <5>1, <5>2, Zenon
      <4> QED BY <2>1, <2>6, <4>3, Zenon
    <3>3. CASE Len(u[k]) # 1
      <4>1. 1 \in 1 .. Len(u[k]) - 1
        <5>1. \A l \in Nat \ {0} : l # 1 => 1 \in 1 .. l - 1
          OBVIOUS
        <5> QED BY <2>8, <3>3, <5>1, Zenon
      <4>2. u[n][1] = u[k][1] /\ Len(u[n]) # 1
        BY <3>1, <3>3, <4>1 DEF Replaced
      <4>3. k # 0
        <5>1. Len(<< <<>> >>) = 1
          OBVIOUS
        <5> QED BY <1>2, <3>3, <5>1, Zenon
      <4> QED BY <2>1, <2>2, <2>6, <4>2, <4>3, Zenon
    <3> QED BY <3>2, <3>3
  <2> QED BY <2>9, <2>10
<1> HIDE DEF T, Right
<1>6. N \in T
  BY <1>3, <1>4, <1>5, NatInduct
<1>7. /\ Text(u[N]) = SubSeq(s, 1, N)
      /\ N # 0 /\ s[1] # "nl" => u[N][1] # <<>> /\ u[N][1][1] = s[1]
      /\ N = 0 \/ s[1] = "nl" => u[N][1] = <<>>
  BY <1>3, <1>6 DEF T, Right
<1>8. SubSeq(s, 1, N) = s /\ (s = <<>> <=> N = 0)
  BY SubSeqFull, EmptySeq DEF N
<1>9. N \in 0 .. N
  BY <1>3
<1> QED BY <1>1, <1>2, <1>7, <1>8, <1>9, Zenon

\* TrailingBreaks counts every break at the end, and nothing else.
LEMMA TrailingBreaksAre ==
    ASSUME NEW S, NEW s \in Seq(S)
    PROVE  /\ Y!TrailingBreaks(s) \in 0 .. Len(s)
           /\ \A i \in Len(s) - Y!TrailingBreaks(s) + 1 .. Len(s) : s[i] = "nl"
           /\ Y!TrailingBreaks(s) < Len(s) => s[Len(s) - Y!TrailingBreaks(s)] # "nl"
<1> DEFINE N == Len(s)
           Ends(n) == s[N - n] # "nl" /\ \A i \in N - n + 1 .. N : s[i] = "nl"
<1>1. N \in Nat /\ DOMAIN s = 1 .. N
  OBVIOUS
<1>2. CASE \A i \in DOMAIN s : s[i] = "nl"
  <2>1. Y!TrailingBreaks(s) = N
    BY <1>2 DEF Y!TrailingBreaks
  <2> HIDE DEF N
  <2> QED BY <1>1, <1>2, <2>1 DEF N
<1>3. CASE ~ \A i \in DOMAIN s : s[i] = "nl"
  <2>1. Y!TrailingBreaks(s) = CHOOSE n \in 0 .. N : Ends(n)
    BY <1>3, Zenon DEF Y!TrailingBreaks
  <2>2. \E n \in 0 .. N : Ends(n)
    <3> DEFINE B == {n \in Nat : n < N /\ s[N - n] # "nl"}
    <3>1. PICK i \in 1 .. N : s[i] # "nl"
      BY <1>1, <1>3
    <3> HIDE DEF N
    <3>2. N - i \in B
      BY <1>1, <3>1
    <3>3. PICK n \in B : \A m \in Nat : m < n => m \notin B
      <4>1. B \subseteq Nat
        OBVIOUS
      <4> HIDE DEF B
      <4>2. \E n \in B : \A m \in Nat : m < n => m \notin B
        BY <3>2, <4>1, LeastOf
      <4> QED BY <4>2
    <3>4. n \in 0 .. N /\ s[N - n] # "nl"
      BY <1>1, <3>3
    <3>5. ASSUME NEW j \in N - n + 1 .. N PROVE s[j] = "nl"
      <4>1. N - j \in Nat /\ N - j < n /\ N - j < N /\ N - (N - j) = j
        BY <1>1, <3>4
      <4> QED BY <3>3, <4>1
    <3> QED BY <3>4, <3>5
  <2> DEFINE T == Y!TrailingBreaks(s)
  <2>3. T \in 0 .. N /\ Ends(T)
    <3> HIDE DEF Ends
    <3> QED BY <2>1, <2>2, Zenon
  <2> QED BY <2>3, Zenon
<1> QED BY <1>2, <1>3

\* The line breaks that a literal keeps.
Breaks(n) == [i \in 1 .. n |-> "nl"]

\* A text is what comes before its last breaks, and these.
LEMMA BreaksComeLast ==
    ASSUME NEW S, NEW s \in Seq(S), NEW n \in 0 .. Len(s),
           \A i \in Len(s) - n + 1 .. Len(s) : s[i] = "nl"
    PROVE  SubSeq(s, 1, Len(s) - n) \o Breaks(n) = s
<1> DEFINE N == Len(s)
           k == N - n
           a == SubSeq(s, 1, k)
           b == Breaks(n)
           t == a \o b
<1>1. N \in Nat /\ n \in Nat /\ k \in 0 .. N /\ k + n = N
  OBVIOUS
<1>2. a \in Seq(S) /\ Len(a) = k /\ \A i \in 1 .. k : a[i] = s[i]
  <2>1. k \in 0 .. N
    BY <1>1
  <2> HIDE DEF k
  <2> QED BY <2>1
<1>3. b \in Seq({"nl"}) /\ Len(b) = n /\ \A i \in 1 .. n : b[i] = "nl"
  BY <1>1 DEF Breaks
<1>4. \A i \in k + 1 .. N : s[i] = "nl"
  OBVIOUS
<1> HIDE DEF a, b, k, N
<1>5. a \in Seq(S \cup {"nl"}) /\ b \in Seq(S \cup {"nl"}) /\ s \in Seq(S \cup {"nl"})
  BY <1>2, <1>3
<1>6. t \in Seq(S \cup {"nl"}) /\ Len(t) = N
  BY <1>1, <1>2, <1>3, <1>5
<1>7. ASSUME NEW i \in 1 .. N PROVE t[i] = s[i]
  <2>1. CASE i <= k
    BY <1>1, <1>2, <1>3, <1>5, <2>1
  <2>2. CASE i > k
    <3>1. i - k \in 1 .. n /\ i \in k + 1 .. N
      BY <1>1, <2>2
    <3>2. t[i] = b[i - k]
      BY <1>1, <1>2, <1>3, <1>5, <2>2, <3>1
    <3> QED BY <1>3, <1>4, <3>1, <3>2
  <2>3. k \in Nat /\ i \in Nat
    BY <1>1
  <2> HIDE DEF t
  <2> QED BY <2>1, <2>2, <2>3
<1> HIDE DEF t
<1>8. t = s
  <2>1. Len(s) = N
    BY DEF N
  <2> QED BY <1>5, <1>6, <1>7, <2>1, SeqEqual
<1> QED BY <1>8 DEF t, a, b, k, N

\* A text of several lines whose first line starts with a blank, or is one.
Indents(s) == s[1] \in {" ", "nl"}

\* What a lone line break is read back as: there is no text for it to end.
AsKept(s) == IF s = <<"nl">> THEN <<>> ELSE s

\* A literal is read back: its breaks at the end by the chomping indicator, its lines
\* at their column, but for the places where the model of the code says otherwise.
LEMMA LiteralReadsBack ==
    ASSUME NEW s \in Y!Strings, s # <<>>, NEW place \in Y!Places \ {"item"},
           place = "root" \/ ~Indents(s)
    PROVE  Y!ReadLiteral(Y!Literal(s, place), place) = AsKept(s)
<1> DEFINE n == Y!TrailingBreaks(s)
           k == Len(s) - n
           body == SubSeq(s, 1, k)
           content == Y!Lines(body)
           lit == Y!Literal(s, place)
           shifted == content[1] = <<>> \/ Y!First(content[1]) = " "
           column == IF lit.indicator # 0 THEN Y!KeyColumn[place] + lit.indicator ELSE lit.column
           tail == CASE lit.chomp = "strip" -> <<>>
                     [] lit.chomp = "clip" -> <<"nl">>
                     [] lit.chomp = "keep" -> [i \in 1 .. lit.blank + 1 |-> "nl"]
<1>1. s \in Seq(Letters) /\ "nl" \in Letters
  <2>1. "nl" \in Letters
    BY Zenon DEF Letters, Y!Chars
  <2> QED BY <2>1 DEF Y!Strings, Letters
<1>2. Len(s) \in Nat /\ n \in 0 .. Len(s) /\ (\A i \in k + 1 .. Len(s) : s[i] = "nl")
      /\ (n < Len(s) => s[k] # "nl")
  <2>1. /\ n \in 0 .. Len(s) /\ (\A i \in Len(s) - n + 1 .. Len(s) : s[i] = "nl")
        /\ (n < Len(s) => s[Len(s) - n] # "nl")
    <3> HIDE DEF n
    <3> QED BY <1>1, TrailingBreaksAre DEF n
  <2>2. Len(s) \in Nat
    BY <1>1
  <2> QED BY <2>1, <2>2, Zenon
<1>3. body \in Seq(Letters) /\ Len(body) = k /\ k \in 0 .. Len(s) /\ (k # 0 => body[1] = s[1])
  <2>1. k \in 0 .. Len(s)
    BY <1>2
  <2> HIDE DEF k
  <2>2. body \in Seq(Letters) /\ Len(body) = k
    BY <1>1, <2>1, SubSeqProperties
  <2>3. k # 0 => body[1] = s[1]
    <3>1. k # 0 => 1 \in 1 .. k
      BY <1>1, <2>1
    <3> QED BY <1>1, <2>1, <3>1
  <2> QED BY <2>1, <2>2, <2>3
<1>4. body \o Breaks(n) = s
  <2> HIDE DEF n
  <2> QED BY <1>1, <1>2, BreaksComeLast
<1>5. lit = [indicator |-> IF shifted THEN Y!TextColumn[place] ELSE 0,
             chomp |-> IF n = 0 THEN "strip" ELSE IF n = 1 THEN "clip" ELSE "keep",
             column |-> Y!TextColumn[place],
             lines |-> content, blank |-> IF n = 0 THEN 0 ELSE n - 1]
  BY Zenon DEF Y!Literal
<1>6. /\ lit.column = Y!TextColumn[place] /\ lit.lines = content
      /\ lit.indicator = IF shifted THEN Y!TextColumn[place] ELSE 0
      /\ lit.chomp = (IF n = 0 THEN "strip" ELSE IF n = 1 THEN "clip" ELSE "keep")
      /\ lit.blank = IF n = 0 THEN 0 ELSE n - 1
  <2> HIDE DEF lit, n, content, shifted
  <2> QED BY <1>5, Zenon
<1> HIDE DEF shifted
<1> DEFINE onlyBreaks(t) == \A i \in DOMAIN t : t[i] = "nl"
<1>7. Y!ReadLiteral(lit, place)
        = IF onlyBreaks(Text(content)) /\ lit.chomp # "keep" THEN <<>>
          ELSE IF ~onlyBreaks(Text(content)) /\ (column <= Y!KeyColumn[place] \/ column # lit.column)
          THEN Y!Unreadable ELSE Text(content) \o tail
  <2> HIDE DEF lit, n, content
  <2>1. Y!ReadLiteral(lit, place)
        = IF onlyBreaks(Text(lit.lines)) /\ lit.chomp # "keep" THEN <<>>
          ELSE IF ~onlyBreaks(Text(lit.lines)) /\ (column <= Y!KeyColumn[place] \/ column # lit.column)
          THEN Y!Unreadable ELSE Text(lit.lines) \o tail
    BY Zenon DEF Y!ReadLiteral, Text, Glued
  <2> QED BY <1>6, <2>1
<1> HIDE DEF lit
<1>8. tail = Breaks(n)
  <2>0. n \in Nat
    BY <1>2
  <2> HIDE DEF n
  <2>1. CASE n = 0
    BY <1>6, <2>1 DEF Breaks
  <2>2. CASE n = 1
    BY <1>6, <2>2 DEF Breaks
  <2>3. CASE n # 0 /\ n # 1
    <3>1. lit.chomp = "keep" /\ lit.blank + 1 = n
      BY <1>6, <2>0, <2>3
    <3> QED BY <3>1 DEF Breaks
  <2> QED BY <2>1, <2>2, <2>3
<1> HIDE DEF n, tail
<1>9. /\ Text(content) = body
      /\ body # <<>> /\ body[1] # "nl" => content[1] # <<>> /\ content[1][1] = body[1]
  <2> HIDE DEF body
  <2> QED BY <1>1, <1>3, LinesMakeTheText
<1>10. ~(column <= Y!KeyColumn[place] \/ column # lit.column)
  <2>1. CASE place = "root"
    BY <1>6, <2>1, SMT DEF Y!KeyColumn, Y!TextColumn
  <2>2. CASE place # "root"
    <3>1. s[1] # " " /\ s[1] # "nl"
      BY <2>2, Zenon DEF Indents
    <3>2. k # 0
      <4>1. Len(s) \in Nat /\ Len(s) # 0
        BY <1>1, EmptySeq
      <4>2. k = 0 => 1 \in k + 1 .. Len(s)
        BY <4>1
      <4> QED BY <1>2, <3>1, <4>2, Zenon
    <3>3. content[1] # <<>> /\ content[1][1] # " "
      <4>1. body # <<>>
        <5> HIDE DEF body
        <5> QED BY <1>3, <3>2
      <4> QED BY <1>3, <1>9, <3>1, <3>2, <4>1, Zenon
    <3>4. lit.indicator = 0
      BY <1>6, <3>3, Zenon DEF Y!First, shifted
    <3>5. place \in {"nested", "deep"}
      BY <2>2 DEF Y!Places
    <3> QED BY <1>6, <3>4, <3>5 DEF Y!KeyColumn, Y!TextColumn
  <2> QED BY <2>1, <2>2
<1>11. onlyBreaks(body) => k = 0
  <2>1. n < Len(s) => k # 0 /\ s[k] # "nl" /\ body[k] = s[k] /\ k \in DOMAIN body
    BY <1>1, <1>2, <1>3
  <2>2. n = Len(s) => k = 0
    BY <1>2
  <2> QED BY <1>2, <2>1, <2>2
<1>12. CASE onlyBreaks(body) /\ lit.chomp # "keep"
  <2>1. k = 0 /\ n \in {0, 1}
    BY <1>6, <1>11, <1>12
  <2>2. Len(s) = 1 /\ s[1] = "nl"
    BY <1>1, <1>2, <2>1, EmptySeq
  <2>3. s = <<"nl">>
    BY <1>1, <2>2
  <2>4. Y!ReadLiteral(lit, place) = AsKept(s)
    <3> HIDE DEF content, body, onlyBreaks, column
    <3> QED BY <1>7, <1>9, <1>12, <2>3, Zenon DEF AsKept
  <2> QED BY <2>4 DEF lit
<1>13. CASE ~(onlyBreaks(body) /\ lit.chomp # "keep")
  <2>1. s # <<"nl">>
    <3> SUFFICES ASSUME s = <<"nl">> PROVE FALSE
      OBVIOUS
    <3>1. Len(s) = 1 /\ s[1] = "nl"
      OBVIOUS
    <3>2. n = 1
      BY <1>2, <3>1
    <3>3. lit.chomp # "keep" /\ k = 0
      BY <1>6, <3>1, <3>2
    <3>4. onlyBreaks(body)
      BY <1>3, <3>3
    <3> QED BY <1>13, <3>3, <3>4
  <2>2. Y!ReadLiteral(lit, place) = Text(content) \o tail
    <3> HIDE DEF content, column, body, onlyBreaks
    <3> QED BY <1>7, <1>9, <1>10, <1>13, Zenon
  <2>3. Y!ReadLiteral(lit, place) = AsKept(s)
    BY <1>4, <1>8, <1>9, <2>1, <2>2, Zenon DEF AsKept
  <2> QED BY <2>3 DEF lit
<1> QED BY <1>12, <1>13

\* Every string is read back in every place, but for the literals that are not
\* (choose_style, render_inline, write_literal).
LEMMA ScalarsReadBack ==
    ASSUME NEW s \in Y!Strings, NEW place \in Y!Places
    PROVE  \/ Y!ChooseStyle(s) = "literal" /\ place = "item"
           \/ Y!ChooseStyle(s) = "literal" /\ place # "root" /\ Indents(s)
           \/ Y!ReadBack(s, place) = AsKept(s)
<1>0. ASSUME Y!ChooseStyle(s) # "literal" PROVE AsKept(s) = s
  <2> SUFFICES ASSUME s = <<"nl">> PROVE FALSE
    BY Zenon DEF AsKept
  <2>1. DOMAIN s = {1} /\ s[1] = "nl"
    OBVIOUS
  <2>2. ~Y!Has(s, {"cr", "ctl"}) /\ Y!Has(s, {"nl"})
    BY <2>1, Zenon DEF Y!Has
  <2>3. ~Y!TrailingBlank(s)
    BY <2>1, Zenon DEF Y!TrailingBlank
  <2>4. Y!LiteralAllowed(s)
    BY <2>2, <2>3, Zenon DEF Y!LiteralAllowed
  <2>5. s # <<>>
    BY <2>1
  <2> QED BY <1>0, <2>2, <2>4, <2>5, Zenon DEF Y!ChooseStyle
<1>1. Y!ChooseStyle(s) \in {"plain", "single", "double", "literal"}
  BY DEF Y!ChooseStyle
<1>2. CASE Y!ChooseStyle(s) = "plain"
  <2>1. Y!ReadBack(s, place) = Y!ReadPlain(Y!Inline(s, "plain"))
    BY <1>2 DEF Y!ReadBack
  <2> QED BY <1>0, <1>2, <2>1, PlainIsAsItIs, PlainReadsBack, Zenon
<1>3. CASE Y!ChooseStyle(s) = "single"
  <2>1. Y!ReadBack(s, place) = Y!Unquote(Y!Inline(s, "single"), Y!Mark.single)
    BY <1>3 DEF Y!ReadBack
  <2>2. "single" \in {"single", "double"}
    OBVIOUS
  <2> QED BY <1>0, <1>3, <2>1, <2>2, QuotedReadsBack, Zenon
<1>4. CASE Y!ChooseStyle(s) = "double"
  <2>1. Y!ReadBack(s, place) = Y!Unquote(Y!Inline(s, "double"), Y!Mark.double)
    BY <1>4 DEF Y!ReadBack
  <2>2. "double" \in {"single", "double"}
    OBVIOUS
  <2> QED BY <1>0, <1>4, <2>1, <2>2, QuotedReadsBack, Zenon
<1>5. CASE Y!ChooseStyle(s) = "literal"
  <2>1. Y!ReadBack(s, place) = Y!ReadLiteral(Y!Literal(s, place), place)
    BY <1>5 DEF Y!ReadBack
  <2>2. s # <<>>
    <3> SUFFICES ASSUME s = <<>> PROVE FALSE
      OBVIOUS
    <3>1. ~Y!Has(s, {"nl"})
      BY DEF Y!Has
    <3>2. Y!ChooseStyle(s) = "double"
      BY <3>1 DEF Y!ChooseStyle
    <3> QED BY <1>5, <3>2
  <2>3. CASE place = "item"
    BY <1>5, <2>3, Zenon
  <2>4. CASE place # "root" /\ Indents(s)
    BY <1>5, <2>4, Zenon
  <2>5. CASE place # "item" /\ (place = "root" \/ ~Indents(s))
    <3>1. place \in Y!Places \ {"item"}
      BY <2>5
    <3> QED BY <2>1, <2>2, <2>5, <3>1, LiteralReadsBack, Zenon
  <2> QED BY <2>3, <2>4, <2>5, Zenon
<1> QED BY <1>1, <1>2, <1>3, <1>4, <1>5

\* A reason that is not written as a literal is read.
LEMMA ReasonsAreRead ==
    \A reason \in Reasons :
        Y!ChooseStyle(reason) # "literal" => Y!ReadBack(reason, "item") # Y!Unreadable
<1> SUFFICES ASSUME NEW s \in Reasons, Y!ChooseStyle(s) # "literal"
             PROVE  Y!ReadBack(s, "item") # Y!Unreadable
  OBVIOUS
<1>1. s \in Y!Strings /\ "item" \in Y!Places
  BY StringsAssumption DEF Y!Places
<1>2. Y!ReadBack(s, "item") = s \/ Y!ReadBack(s, "item") = <<>>
  BY <1>1, ScalarsReadBack, Zenon DEF AsKept
<1>3. s # Y!Unreadable /\ <<>> # Y!Unreadable
  <2>1. "unreadable" \notin Letters
    BY Zenon DEF Letters, Y!Words, Y!Timestamps, Y!Chars
  <2>2. s \in Seq(Letters)
    BY <1>1, Zenon DEF Y!Strings, Letters
  <2> QED BY <2>1, <2>2 DEF Y!Unreadable
<1> QED BY <1>2, <1>3

-----------------------------------------------------------------------------
(* Claims: every field that is written is read, and every one that is not is empty *)

\* A field of a plain type that x was written to, or left out of when it is the default.
Entered(type, map, f, x) ==
    \/ /\ f \notin DOMAIN map
       /\ \/ type.as = "string" /\ x = ""
          \/ type.as = "strings" /\ x = <<>>
    \/ /\ f \in DOMAIN map
       /\ \/ type.as = "string" /\ map[f] = F!Str(x)
          \/ type.as = "integer" /\ map[f] = F!Node("integer", x)
          \/ type.as = "strings" /\ x = [i \in DOMAIN x |-> x[i]] /\ map[f] = F!Strs(x)

\* The field fits its schema and holds x.
LEMMA EnteredIsRead ==
    ASSUME NEW type, NEW map, NEW f, NEW x, Entered(type, map, f, x)
    PROVE  /\ f \in DOMAIN map => F!PlainFits(type, map[f])
           /\ F!PlainValue(type, map, f) = x
           /\ ~F!Nested(type)
<1>1. \A y : /\ F!Str(y).is = "string" /\ F!Str(y).of = y
             /\ F!Node("integer", y).is = "integer" /\ F!Node("integer", y).of = y
             /\ F!Strs(y).is = "sequence" /\ F!Strs(y).of = [i \in DOMAIN y |-> F!Str(y[i])]
  BY DEF F!Str, F!Node, F!Strs
<1>2. "string" # "integer" /\ "string" # "strings" /\ "integer" # "strings"
  OBVIOUS
<1>3. ~F!Nested(type)
  BY DEF Entered, F!Nested
<1>4. CASE f \notin DOMAIN map
  <2>1. ~F!IsGiven(map, f)
    BY <1>4 DEF F!IsGiven
  <2> QED BY <1>3, <1>4, <2>1 DEF Entered, F!PlainValue
<1>5. CASE f \in DOMAIN map /\ type.as = "string"
  <2>1. map[f] = F!Str(x)
    BY <1>5 DEF Entered
  <2>2. map[f].is = "string" /\ map[f].of = x /\ F!IsGiven(map, f)
    BY <1>1, <1>5, <2>1 DEF F!IsGiven
  <2> QED BY <1>3, <1>5, <2>2 DEF F!PlainValue, F!PlainFits
<1>6. CASE f \in DOMAIN map /\ type.as = "integer"
  <2>1. map[f] = F!Node("integer", x)
    BY <1>6 DEF Entered
  <2>2. map[f].is = "integer" /\ map[f].of = x /\ F!IsGiven(map, f)
    BY <1>1, <1>6, <2>1 DEF F!IsGiven
  <2> QED BY <1>3, <1>6, <2>2 DEF F!PlainValue, F!PlainFits
<1>7. CASE f \in DOMAIN map /\ type.as = "strings"
  <2>1. map[f] = F!Strs(x) /\ x = [i \in DOMAIN x |-> x[i]]
    BY <1>7 DEF Entered
  <2>2. /\ map[f].is = "sequence" /\ map[f].of = [i \in DOMAIN x |-> F!Str(x[i])]
        /\ F!IsGiven(map, f)
    BY <1>1, <1>7, <2>1 DEF F!IsGiven
  <2>3. /\ DOMAIN map[f].of = DOMAIN x
        /\ \A i \in DOMAIN x : map[f].of[i].is = "string" /\ map[f].of[i].of = x[i]
    BY <1>1, <2>2
  <2>4. [i \in DOMAIN map[f].of |-> map[f].of[i].of] = x
    BY <2>1, <2>3
  <2>5. F!PlainValue(type, map, f) = x
    BY <1>7, <2>2, <2>4 DEF F!PlainValue
  <2> QED BY <1>3, <1>7, <2>2, <2>3, <2>5 DEF F!PlainFits
<1> QED BY <1>4, <1>5, <1>6, <1>7 DEF Entered

\* A field of a nested type that the mappings ms were written to.
EnteredBelow(type, map, f, ms) ==
    \/ f \notin DOMAIN map /\ type.as \in {"list", "optional"} /\ ms = <<>>
    \/ /\ f \in DOMAIN map /\ ms = [i \in DOMAIN ms |-> ms[i]]
       /\ \/ type.as = "list" /\ map[f] = F!Maps(ms)
          \/ /\ type.as \in {"optional", "required"} /\ ms = <<ms[1]>>
             /\ map[f] = F!Node("mapping", ms[1])

\* A mapping in the node of such a field is one of ms.
OneOf(below, ms) == F!IsMapping(below) /\ \E i \in DOMAIN ms : below.of = ms[i]

\* The field fits its schema as far as it goes, and holds the mappings ms.
LEMMA EnteredBelowIsRead ==
    ASSUME NEW type, NEW map, NEW f, NEW ms, EnteredBelow(type, map, f, ms)
    PROVE  /\ f \in DOMAIN map => /\ type.as = "list" => map[f].is = "sequence"
                                  /\ \A below \in F!Inside(type, map[f]) : OneOf(below, ms)
           /\ F!Below(type, map, f) = ms
           /\ F!Nested(type)
<1>1. \A m : F!Node("mapping", m).is = "mapping" /\ F!Node("mapping", m).of = m
  BY DEF F!Node
<1>2. F!Nested(type)
  BY DEF EnteredBelow, F!Nested
<1>3. CASE f \notin DOMAIN map
  <2>1. ~F!IsGiven(map, f)
    BY <1>3 DEF F!IsGiven
  <2> QED BY <1>2, <1>3, <2>1 DEF EnteredBelow, F!Below
<1>4. CASE f \in DOMAIN map /\ type.as = "list"
  <2>1. map[f] = F!Maps(ms) /\ ms = [i \in DOMAIN ms |-> ms[i]]
    BY <1>4 DEF EnteredBelow
  <2>2. map[f].is = "sequence" /\ map[f].of = [i \in DOMAIN ms |-> F!Node("mapping", ms[i])]
    BY <2>1 DEF F!Maps, F!Node
  <2>3. F!IsGiven(map, f)
    BY <1>4, <2>2 DEF F!IsGiven
  <2>4. [i \in DOMAIN map[f].of |-> map[f].of[i].of] = ms
    BY <1>1, <2>1, <2>2
  <2>5. F!Below(type, map, f) = ms
    BY <1>4, <2>3, <2>4 DEF F!Below
  <2>6. ASSUME NEW below \in F!Inside(type, map[f]) PROVE OneOf(below, ms)
    <3>1. F!Inside(type, map[f]) = F!ToSet(map[f].of)
      BY <1>4 DEF F!Inside
    <3>2. PICK i \in DOMAIN ms : below = F!Node("mapping", ms[i])
      BY <2>2, <3>1 DEF F!ToSet
    <3> QED BY <1>1, <3>2 DEF OneOf, F!IsMapping
  <2> QED BY <1>2, <1>4, <2>2, <2>5, <2>6
<1>5. CASE f \in DOMAIN map /\ type.as \in {"optional", "required"}
  <2>1. map[f] = F!Node("mapping", ms[1]) /\ ms = <<ms[1]>>
    BY <1>5 DEF EnteredBelow
  <2>2. map[f].is = "mapping" /\ map[f].of = ms[1] /\ type.as # "list"
    BY <1>1, <1>5, <2>1
  <2>3. F!IsGiven(map, f)
    BY <1>5, <2>2 DEF F!IsGiven
  <2>4. F!Below(type, map, f) = ms
    BY <1>5, <2>1, <2>2, <2>3 DEF F!Below
  <2>5. F!Inside(type, map[f]) = {map[f]}
    BY <2>2 DEF F!Inside
  <2>6. 1 \in DOMAIN ms
    BY <2>1
  <2> QED BY <1>2, <2>2, <2>4, <2>5, <2>6 DEF OneOf, F!IsMapping
<1> QED BY <1>3, <1>4, <1>5 DEF EnteredBelow


\* A mapping fits its schema at its depth and makes the struct x.
LeafReads(table, map, x)    == F!LeafFits(table, map) /\ F!LeafValues(table, map) = x
ItemReads(table, map, x)    == F!ItemFits(table, map) /\ F!ItemValues(table, map) = x
MappingReads(table, map, x) == F!MappingFits(table, map) /\ F!MappingValues(table, map) = x
TopReads(table, map, x)     == F!Fits(table, map) /\ F!Values(table, map) = x

\* v was written to a field, in the mappings below it for a nested type.
LeafCarries(type, map, f, v) ==
    \/ Entered(type, map, f, v)
    \/ \E ms : /\ EnteredBelow(type, map, f, ms)
               /\ \/ /\ type.as # "required" /\ v = [i \in DOMAIN ms |-> v[i]]
                     /\ \A i \in DOMAIN ms : LeafReads(type.of, ms[i], v[i])
                  \/ type.as = "required" /\ LeafReads(type.of, ms[1], v)

\* A mapping whose fields hold those of x is read as x, as an item of an item.
LEMMA ItemIsRead ==
    ASSUME NEW table, NEW map, NEW x, x = [f \in DOMAIN F!Tables[table] |-> x[f]],
           \A f \in DOMAIN F!Tables[table] : LeafCarries(F!Tables[table][f], map, f, x[f])
    PROVE  ItemReads(table, map, x)
<1> DEFINE fields == F!Tables[table]
           FitBelow(f) == /\ F!Nested(fields[f]) /\ (fields[f].as = "list" => map[f].is = "sequence")
                          /\ \A below \in F!Inside(fields[f], map[f]) :
                                F!IsMapping(below) /\ F!LeafFits(fields[f].of, below.of)
           below(f) == F!Below(fields[f], map, f)
           ValueBelow(f) == F!Gathered(fields[f], [i \in DOMAIN below(f) |->
                                                      F!LeafValues(fields[f].of, below(f)[i])])
           Right(f) == \/ /\ f \in DOMAIN map => F!PlainFits(fields[f], map[f])
                          /\ F!PlainValue(fields[f], map, f) = x[f] /\ ~F!Nested(fields[f])
                       \/ /\ f \in DOMAIN map => FitBelow(f)
                          /\ ValueBelow(f) = x[f] /\ F!Nested(fields[f])
<1>1. ASSUME NEW f \in DOMAIN fields PROVE Right(f)
  <2> DEFINE type == fields[f]
             v == x[f]
  <2>1. CASE Entered(type, map, f, v)
    BY <2>1, EnteredIsRead
  <2>2. ASSUME NEW ms, EnteredBelow(type, map, f, ms),
               \/ /\ type.as # "required" /\ v = [i \in DOMAIN ms |-> v[i]]
                  /\ \A i \in DOMAIN ms : LeafReads(type.of, ms[i], v[i])
               \/ type.as = "required" /\ LeafReads(type.of, ms[1], v)
        PROVE  Right(f)
    <3> HIDE DEF type, v
    <3>1. /\ f \in DOMAIN map => /\ type.as = "list" => map[f].is = "sequence"
                                 /\ \A b \in F!Inside(type, map[f]) : OneOf(b, ms)
          /\ F!Below(type, map, f) = ms
          /\ F!Nested(type)
      BY <2>2, EnteredBelowIsRead
    <3>2. type.as = "required" => DOMAIN ms = {1} 
      BY <2>2 DEF EnteredBelow
    <3>3. \A i \in DOMAIN ms : F!LeafFits(type.of, ms[i])
      BY <2>2, <3>2, Zenon DEF LeafReads
    <3>4. F!Gathered(type, [i \in DOMAIN ms |-> F!LeafValues(type.of, ms[i])]) = v
      <4>1. CASE type.as # "required"
        <5>1. \A i \in DOMAIN ms : F!LeafValues(type.of, ms[i]) = v[i]
          BY <2>2, <4>1, Zenon DEF LeafReads
        <5>2. [i \in DOMAIN ms |-> F!LeafValues(type.of, ms[i])] = v
          BY <2>2, <4>1, <5>1
        <5> QED BY <4>1, <5>2 DEF F!Gathered
      <4>2. CASE type.as = "required"
        <5>1. F!LeafValues(type.of, ms[1]) = v /\ 1 \in DOMAIN ms
          BY <2>2, <3>2, <4>2 DEF LeafReads
        <5> QED BY <4>2, <5>1 DEF F!Gathered
      <4> QED BY <4>1, <4>2
    <3>5. f \in DOMAIN map => \A b \in F!Inside(type, map[f]) :
                                F!IsMapping(b) /\ F!LeafFits(type.of, b.of)
      BY <3>1, <3>3, Zenon DEF OneOf
    <3> QED BY <3>1, <3>4, <3>5, Zenon DEF type, v
  <2>3. LeafCarries(type, map, f, v)
    OBVIOUS
  <2> HIDE DEF Right, type, v
  <2> QED BY <2>1, <2>2, <2>3, Zenon DEF LeafCarries
<1>2. F!ItemFits(table, map)
  BY <1>1, Zenon DEF F!ItemFits, F!FieldsFit
<1>3. F!ItemValues(table, map) = x
  <2>1. F!ItemValues(table, map)
          = [f \in DOMAIN fields |-> IF F!Nested(fields[f]) THEN ValueBelow(f)
                                     ELSE F!PlainValue(fields[f], map, f)]
    BY Zenon DEF F!ItemValues, F!FieldValues
  <2>2. \A f \in DOMAIN fields : (IF F!Nested(fields[f]) THEN ValueBelow(f)
                                  ELSE F!PlainValue(fields[f], map, f)) = x[f]
    BY <1>1, Zenon
  <2>3. F!ItemValues(table, map) = [f \in DOMAIN fields |-> x[f]]
    BY <2>1, <2>2, Zenon
  <2> QED BY <2>3
<1> QED BY <1>2, <1>3 DEF ItemReads

\* v was written to a field, in the mappings below it for a nested type.
ItemCarries(type, map, f, v) ==
    \/ Entered(type, map, f, v)
    \/ \E ms : /\ EnteredBelow(type, map, f, ms)
               /\ \/ /\ type.as # "required" /\ v = [i \in DOMAIN ms |-> v[i]]
                     /\ \A i \in DOMAIN ms : ItemReads(type.of, ms[i], v[i])
                  \/ type.as = "required" /\ ItemReads(type.of, ms[1], v)

\* The same of a mapping below the top.
LEMMA MappingIsRead ==
    ASSUME NEW table, NEW map, NEW x, x = [f \in DOMAIN F!Tables[table] |-> x[f]],
           \A f \in DOMAIN F!Tables[table] : ItemCarries(F!Tables[table][f], map, f, x[f])
    PROVE  MappingReads(table, map, x)
<1> DEFINE fields == F!Tables[table]
           FitBelow(f) == /\ F!Nested(fields[f]) /\ (fields[f].as = "list" => map[f].is = "sequence")
                          /\ \A below \in F!Inside(fields[f], map[f]) :
                                F!IsMapping(below) /\ F!ItemFits(fields[f].of, below.of)
           below(f) == F!Below(fields[f], map, f)
           ValueBelow(f) == F!Gathered(fields[f], [i \in DOMAIN below(f) |->
                                                      F!ItemValues(fields[f].of, below(f)[i])])
           Right(f) == \/ /\ f \in DOMAIN map => F!PlainFits(fields[f], map[f])
                          /\ F!PlainValue(fields[f], map, f) = x[f] /\ ~F!Nested(fields[f])
                       \/ /\ f \in DOMAIN map => FitBelow(f)
                          /\ ValueBelow(f) = x[f] /\ F!Nested(fields[f])
<1>1. ASSUME NEW f \in DOMAIN fields PROVE Right(f)
  <2> DEFINE type == fields[f]
             v == x[f]
  <2>1. CASE Entered(type, map, f, v)
    BY <2>1, EnteredIsRead
  <2>2. ASSUME NEW ms, EnteredBelow(type, map, f, ms),
               \/ /\ type.as # "required" /\ v = [i \in DOMAIN ms |-> v[i]]
                  /\ \A i \in DOMAIN ms : ItemReads(type.of, ms[i], v[i])
               \/ type.as = "required" /\ ItemReads(type.of, ms[1], v)
        PROVE  Right(f)
    <3> HIDE DEF type, v
    <3>1. /\ f \in DOMAIN map => /\ type.as = "list" => map[f].is = "sequence"
                                 /\ \A b \in F!Inside(type, map[f]) : OneOf(b, ms)
          /\ F!Below(type, map, f) = ms
          /\ F!Nested(type)
      BY <2>2, EnteredBelowIsRead
    <3>2. type.as = "required" => DOMAIN ms = {1} 
      BY <2>2 DEF EnteredBelow
    <3>3. \A i \in DOMAIN ms : F!ItemFits(type.of, ms[i])
      BY <2>2, <3>2, Zenon DEF ItemReads
    <3>4. F!Gathered(type, [i \in DOMAIN ms |-> F!ItemValues(type.of, ms[i])]) = v
      <4>1. CASE type.as # "required"
        <5>1. \A i \in DOMAIN ms : F!ItemValues(type.of, ms[i]) = v[i]
          BY <2>2, <4>1, Zenon DEF ItemReads
        <5>2. [i \in DOMAIN ms |-> F!ItemValues(type.of, ms[i])] = v
          BY <2>2, <4>1, <5>1
        <5> QED BY <4>1, <5>2 DEF F!Gathered
      <4>2. CASE type.as = "required"
        <5>1. F!ItemValues(type.of, ms[1]) = v /\ 1 \in DOMAIN ms
          BY <2>2, <3>2, <4>2 DEF ItemReads
        <5> QED BY <4>2, <5>1 DEF F!Gathered
      <4> QED BY <4>1, <4>2
    <3>5. f \in DOMAIN map => \A b \in F!Inside(type, map[f]) :
                                F!IsMapping(b) /\ F!ItemFits(type.of, b.of)
      BY <3>1, <3>3, Zenon DEF OneOf
    <3> QED BY <3>1, <3>4, <3>5, Zenon DEF type, v
  <2>3. ItemCarries(type, map, f, v)
    OBVIOUS
  <2> HIDE DEF Right, type, v
  <2> QED BY <2>1, <2>2, <2>3, Zenon DEF ItemCarries
<1>2. F!MappingFits(table, map)
  BY <1>1, Zenon DEF F!MappingFits, F!FieldsFit
<1>3. F!MappingValues(table, map) = x
  <2>1. F!MappingValues(table, map)
          = [f \in DOMAIN fields |-> IF F!Nested(fields[f]) THEN ValueBelow(f)
                                     ELSE F!PlainValue(fields[f], map, f)]
    BY Zenon DEF F!MappingValues, F!FieldValues
  <2>2. \A f \in DOMAIN fields : (IF F!Nested(fields[f]) THEN ValueBelow(f)
                                  ELSE F!PlainValue(fields[f], map, f)) = x[f]
    BY <1>1, Zenon
  <2>3. F!MappingValues(table, map) = [f \in DOMAIN fields |-> x[f]]
    BY <2>1, <2>2, Zenon
  <2> QED BY <2>3
<1> QED BY <1>2, <1>3 DEF MappingReads

\* v was written to a field, in the mappings below it for a nested type.
MappingCarries(type, map, f, v) ==
    \/ Entered(type, map, f, v)
    \/ \E ms : /\ EnteredBelow(type, map, f, ms)
               /\ \/ /\ type.as # "required" /\ v = [i \in DOMAIN ms |-> v[i]]
                     /\ \A i \in DOMAIN ms : MappingReads(type.of, ms[i], v[i])
                  \/ type.as = "required" /\ MappingReads(type.of, ms[1], v)

\* The same of the top mapping.
LEMMA TopIsRead ==
    ASSUME NEW table, NEW map, NEW x, x = [f \in DOMAIN F!Tables[table] |-> x[f]],
           \A f \in DOMAIN F!Tables[table] : MappingCarries(F!Tables[table][f], map, f, x[f])
    PROVE  TopReads(table, map, x)
<1> DEFINE fields == F!Tables[table]
           FitBelow(f) == /\ F!Nested(fields[f]) /\ (fields[f].as = "list" => map[f].is = "sequence")
                          /\ \A below \in F!Inside(fields[f], map[f]) :
                                F!IsMapping(below) /\ F!MappingFits(fields[f].of, below.of)
           below(f) == F!Below(fields[f], map, f)
           ValueBelow(f) == F!Gathered(fields[f], [i \in DOMAIN below(f) |->
                                                      F!MappingValues(fields[f].of, below(f)[i])])
           Right(f) == \/ /\ f \in DOMAIN map => F!PlainFits(fields[f], map[f])
                          /\ F!PlainValue(fields[f], map, f) = x[f] /\ ~F!Nested(fields[f])
                       \/ /\ f \in DOMAIN map => FitBelow(f)
                          /\ ValueBelow(f) = x[f] /\ F!Nested(fields[f])
<1>1. ASSUME NEW f \in DOMAIN fields PROVE Right(f)
  <2> DEFINE type == fields[f]
             v == x[f]
  <2>1. CASE Entered(type, map, f, v)
    BY <2>1, EnteredIsRead
  <2>2. ASSUME NEW ms, EnteredBelow(type, map, f, ms),
               \/ /\ type.as # "required" /\ v = [i \in DOMAIN ms |-> v[i]]
                  /\ \A i \in DOMAIN ms : MappingReads(type.of, ms[i], v[i])
               \/ type.as = "required" /\ MappingReads(type.of, ms[1], v)
        PROVE  Right(f)
    <3> HIDE DEF type, v
    <3>1. /\ f \in DOMAIN map => /\ type.as = "list" => map[f].is = "sequence"
                                 /\ \A b \in F!Inside(type, map[f]) : OneOf(b, ms)
          /\ F!Below(type, map, f) = ms
          /\ F!Nested(type)
      BY <2>2, EnteredBelowIsRead
    <3>2. type.as = "required" => DOMAIN ms = {1} 
      BY <2>2 DEF EnteredBelow
    <3>3. \A i \in DOMAIN ms : F!MappingFits(type.of, ms[i])
      BY <2>2, <3>2, Zenon DEF MappingReads
    <3>4. F!Gathered(type, [i \in DOMAIN ms |-> F!MappingValues(type.of, ms[i])]) = v
      <4>1. CASE type.as # "required"
        <5>1. \A i \in DOMAIN ms : F!MappingValues(type.of, ms[i]) = v[i]
          BY <2>2, <4>1, Zenon DEF MappingReads
        <5>2. [i \in DOMAIN ms |-> F!MappingValues(type.of, ms[i])] = v
          BY <2>2, <4>1, <5>1
        <5> QED BY <4>1, <5>2 DEF F!Gathered
      <4>2. CASE type.as = "required"
        <5>1. F!MappingValues(type.of, ms[1]) = v /\ 1 \in DOMAIN ms
          BY <2>2, <3>2, <4>2 DEF MappingReads
        <5> QED BY <4>2, <5>1 DEF F!Gathered
      <4> QED BY <4>1, <4>2
    <3>5. f \in DOMAIN map => \A b \in F!Inside(type, map[f]) :
                                F!IsMapping(b) /\ F!MappingFits(type.of, b.of)
      BY <3>1, <3>3, Zenon DEF OneOf
    <3> QED BY <3>1, <3>4, <3>5, Zenon DEF type, v
  <2>3. MappingCarries(type, map, f, v)
    OBVIOUS
  <2> HIDE DEF Right, type, v
  <2> QED BY <2>1, <2>2, <2>3, Zenon DEF MappingCarries
<1>2. F!Fits(table, map)
  BY <1>1, Zenon DEF F!Fits, F!FieldsFit
<1>3. F!Values(table, map) = x
  <2>1. F!Values(table, map)
          = [f \in DOMAIN fields |-> IF F!Nested(fields[f]) THEN ValueBelow(f)
                                     ELSE F!PlainValue(fields[f], map, f)]
    BY Zenon DEF F!Values, F!FieldValues
  <2>2. \A f \in DOMAIN fields : (IF F!Nested(fields[f]) THEN ValueBelow(f)
                                  ELSE F!PlainValue(fields[f], map, f)) = x[f]
    BY <1>1, Zenon
  <2>3. F!Values(table, map) = [f \in DOMAIN fields |-> x[f]]
    BY <2>1, <2>2, Zenon
  <2> QED BY <2>3
<1> QED BY <1>2, <1>3 DEF TopReads

\* What is left out was empty.
LEMMA EnteredText ==
    ASSUME NEW all, NEW out, NEW type, type.as = "string", NEW f \in DOMAIN all, NEW x,
           all[f] = F!Str(x), f \in out => x = ""
    PROVE  Entered(type, F!LeavingOut(out, all), f, x)
BY DEF Entered, F!LeavingOut

\* The same of a list of strings.
LEMMA EnteredTexts ==
    ASSUME NEW all, NEW out, NEW type, type.as = "strings", NEW f \in DOMAIN all, NEW x,
           x = [i \in DOMAIN x |-> x[i]], all[f] = F!Strs(x), f \in out => x = <<>>
    PROVE  Entered(type, F!LeavingOut(out, all), f, x)
BY Zenon DEF Entered, F!LeavingOut

\* The same of a list of mappings.
LEMMA EnteredList ==
    ASSUME NEW all, NEW out, NEW type, type.as = "list", NEW f \in DOMAIN all, NEW ms,
           ms = [i \in DOMAIN ms |-> ms[i]], all[f] = F!Maps(ms), f \in out => ms = <<>>
    PROVE  EnteredBelow(type, F!LeavingOut(out, all), f, ms)
BY Zenon DEF EnteredBelow, F!LeavingOut

\* The same of an optional mapping.
LEMMA EnteredOption ==
    ASSUME NEW all, NEW out, NEW type, type.as = "optional", NEW f \in DOMAIN all, NEW ms,
           ms = <<>> \/ ms = <<ms[1]>>, all[f] = F!OneMap(ms), f \in out <=> ms = <<>>
    PROVE  EnteredBelow(type, F!LeavingOut(out, all), f, ms)
<1>1. CASE ms = <<>>
  BY <1>1, Zenon DEF EnteredBelow, F!LeavingOut
<1>2. CASE ms # <<>>
  <2>1. ms = [i \in DOMAIN ms |-> ms[i]]
    BY <1>2
  <2>2. F!OneMap(ms) = F!Node("mapping", ms[1])
    BY <1>2, Zenon DEF F!OneMap
  <2>3. f \in DOMAIN F!LeavingOut(out, all) /\ F!LeavingOut(out, all)[f] = all[f]
    BY <1>2 DEF F!LeavingOut
  <2> QED BY <1>2, <2>1, <2>2, <2>3, Zenon DEF EnteredBelow
<1> QED BY <1>1, <1>2

\* A sequence is the function of its elements.
LEMMA SequencesAre ==
    ASSUME NEW S, NEW q \in Seq(S)
    PROVE  q = [i \in DOMAIN q |-> q[i]] /\ \A i \in DOMAIN q : q[i] \in S
OBVIOUS

\* The span of a source is read as it was written.
LEMMA SpanIsRead ==
    ASSUME NEW s \in F!EvidenceSpans
    PROVE  ItemReads("span", F!WrittenSpan(s), s)
<1> DEFINE map == F!WrittenSpan(s)
           fields == F!SpanFields
<1>1. F!Tables["span"] = fields
  BY Zenon DEF F!Tables
<1>2. DOMAIN fields = {"evidence_id", "start_line", "end_line", "digest"}
  BY DEF F!SpanFields
<1>3. s = [f \in DOMAIN fields |-> s[f]]
  BY <1>2 DEF F!EvidenceSpans
<1>4. ASSUME NEW f \in DOMAIN fields PROVE Entered(fields[f], map, f, s[f])
  <2>1. f \in DOMAIN map /\ map[f] = IF f \in {"start_line", "end_line"} THEN F!Node("integer", s[f])
                                     ELSE F!Str(s[f])
    BY <1>2 DEF F!WrittenSpan
  <2>2. fields[f].as = IF f \in {"start_line", "end_line"} THEN "integer" ELSE "string"
    BY <1>2 DEF F!SpanFields, F!String, F!Integer
  <2> QED BY <2>1, <2>2 DEF Entered
<1> HIDE DEF map, fields
<1>5. \A f \in DOMAIN F!Tables["span"] : LeafCarries(F!Tables["span"][f], map, f, s[f])
  BY <1>1, <1>4, Zenon DEF LeafCarries
<1>6. ItemReads("span", map, s)
  BY <1>1, <1>3, <1>5, ItemIsRead, Zenon
<1> QED BY <1>6 DEF map

\* A recorded contradiction is read as it was written.
LEMMA ContradictionIsRead ==
    ASSUME NEW s \in F!Contradictions
    PROVE  ItemReads("contradiction", F!WrittenContradiction(s), s)
<1> DEFINE map == F!WrittenContradiction(s)
           fields == F!ContradictionFields
<1>1. F!Tables["contradiction"] = fields
  BY Zenon DEF F!Tables
<1>2. DOMAIN fields = {"claim_id", "heuristic"} /\ \A f \in DOMAIN fields : fields[f].as = "string"
  BY DEF F!ContradictionFields, F!String
<1>3. s = [f \in DOMAIN fields |-> s[f]]
  BY <1>2 DEF F!Contradictions
<1>4. \A f \in DOMAIN fields : Entered(fields[f], map, f, s[f])
  <2>1. \A f \in DOMAIN fields : f \in DOMAIN map /\ map[f] = F!Str(s[f])
    BY <1>2 DEF F!WrittenContradiction
  <2> QED BY <1>2, <2>1, Zenon DEF Entered
<1> HIDE DEF map, fields
<1>5. \A f \in DOMAIN F!Tables["contradiction"] :
          LeafCarries(F!Tables["contradiction"][f], map, f, s[f])
  BY <1>1, <1>4, Zenon DEF LeafCarries
<1>6. ItemReads("contradiction", map, s)
  BY <1>1, <1>3, <1>5, ItemIsRead, Zenon
<1> QED BY <1>6 DEF map

\* The authorization of a transition is read as it was written.
LEMMA AuthorizationIsRead ==
    ASSUME NEW s \in F!Authorizations
    PROVE  LeafReads("authorization", F!WrittenAuthorization(s), s)
<1> DEFINE map == F!WrittenAuthorization(s)
           fields == F!AuthorizationFields
           out == F!Blanks(s, {"method", "mcp_client"})
           all == [challenge_id |-> F!Str(s.challenge_id), method |-> F!Str(s.method),
                   mcp_client |-> F!Str(s.mcp_client)]
<1>1. F!Tables["authorization"] = fields
  BY Zenon DEF F!Tables
<1>2. /\ DOMAIN fields = {"challenge_id", "method", "mcp_client"}
      /\ \A f \in DOMAIN fields : fields[f].as = "string"
  BY DEF F!AuthorizationFields, F!String
<1>3. s = [f \in DOMAIN fields |-> s[f]]
  BY <1>2 DEF F!Authorizations
<1>4. map = F!LeavingOut(out, all)
  BY Zenon DEF F!WrittenAuthorization
<1>5. ASSUME NEW f \in DOMAIN fields PROVE Entered(fields[f], map, f, s[f])
  <2>1. f \in DOMAIN all /\ all[f] = F!Str(s[f])
    BY <1>2
  <2>2. f \in out => s[f] = ""
    BY DEF F!Blanks
  <2> HIDE DEF all, out, fields, map
  <2> QED BY <1>2, <1>4, <2>1, <2>2, EnteredText
<1>6. \A f \in DOMAIN fields : /\ f \in DOMAIN map => F!PlainFits(fields[f], map[f])
                               /\ F!PlainValue(fields[f], map, f) = s[f] /\ ~F!Nested(fields[f])
  BY <1>5, EnteredIsRead
<1> HIDE DEF map, fields
<1>7. F!LeafFits("authorization", map)
  BY <1>1, <1>6, Zenon DEF F!LeafFits, F!FieldsFit
<1>8. F!LeafValues("authorization", map) = s
  <2>1. F!LeafValues("authorization", map) = [f \in DOMAIN fields |-> s[f]]
    BY <1>1, <1>6, Zenon DEF F!LeafValues, F!FieldValues
  <2> QED BY <1>3, <2>1
<1> QED BY <1>7, <1>8 DEF map, LeafReads

\* The approval and the creation: no field of them is left out.
LEMMA PairIsRead ==
    ASSUME NEW table \in {"generated", "verified"}, NEW s, s = [f \in DOMAIN s |-> s[f]],
           DOMAIN s = DOMAIN F!Tables[table]
    PROVE  MappingReads(table, F!WrittenPair(s), s)
<1> DEFINE map == F!WrittenPair(s)
           fields == F!Tables[table]
<1>2. \A f \in DOMAIN fields : fields[f].as = "string"
  <2>1. F!Tables["generated"] = F!GeneratedFields /\ F!Tables["verified"] = F!VerifiedFields
    BY Zenon DEF F!Tables
  <2>2. /\ \A f \in DOMAIN F!GeneratedFields : F!GeneratedFields[f].as = "string"
        /\ \A f \in DOMAIN F!VerifiedFields : F!VerifiedFields[f].as = "string"
    BY DEF F!GeneratedFields, F!VerifiedFields, F!String
  <2>3. CASE table = "generated"
    BY <2>1, <2>2, <2>3
  <2>4. CASE table = "verified"
    BY <2>1, <2>2, <2>4
  <2> QED BY <2>3, <2>4
<1> HIDE DEF fields
<1>3. DOMAIN s = DOMAIN fields
  BY DEF fields
<1>4. \A f \in DOMAIN fields : Entered(fields[f], map, f, s[f])
  BY <1>2, <1>3 DEF F!WrittenPair, Entered
<1> HIDE DEF map
<1>5. \A f \in DOMAIN F!Tables[table] : ItemCarries(F!Tables[table][f], map, f, s[f])
  BY <1>4, Zenon DEF ItemCarries, fields
<1>6. s = [f \in DOMAIN F!Tables[table] |-> s[f]]
  BY <1>3, Zenon DEF fields
<1>7. MappingReads(table, map, s)
  BY <1>5, <1>6, MappingIsRead, Zenon
<1> QED BY <1>7 DEF map

\* A source is read as it was written, with its spans.
LEMMA SourceIsRead ==
    ASSUME NEW s \in F!ClaimSources
    PROVE  MappingReads("source", F!WrittenSource(s), s)
<1> DEFINE map == F!WrittenSource(s)
           fields == F!SourceFields
           out == F!Blanks(s, {"title"}) \cup F!Nones(s, {"spans"})
           ms == [i \in DOMAIN s.spans |-> F!WrittenSpan(s.spans[i])]
           all == [id |-> F!Str(s.id), resource |-> F!Str(s.resource), title |-> F!Str(s.title),
                   digest |-> F!Str(s.digest), spans |-> F!Maps(ms)]
           plain == DOMAIN fields \ {"spans"}
<1>1. F!Tables["source"] = fields
  BY Zenon DEF F!Tables
<1>2. /\ DOMAIN fields = {"id", "resource", "title", "digest", "spans"}
      /\ \A f \in plain : fields[f].as = "string"
      /\ fields["spans"].as = "list" /\ fields["spans"].of = "span"
  BY DEF F!SourceFields, F!String, F!ListOf
<1>3. s = [f \in DOMAIN fields |-> s[f]] /\ s.spans \in Seq(F!EvidenceSpans)
  BY <1>2 DEF F!ClaimSources
<1>4. map = F!LeavingOut(out, all)
  BY Zenon DEF F!WrittenSource
<1>5. ASSUME NEW f \in plain PROVE Entered(fields[f], map, f, s[f])
  <2>1. f \in DOMAIN all /\ all[f] = F!Str(s[f]) /\ f # "spans"
    BY <1>2
  <2>2. f \in out => s[f] = ""
    BY <2>1 DEF F!Blanks, F!Nones
  <2> HIDE DEF all, out, fields, map
  <2> QED BY <1>2, <1>4, <2>1, <2>2, EnteredText
<1>6. EnteredBelow(fields["spans"], map, "spans", ms)
  <2>1. "spans" \in out => s.spans = <<>>
    BY DEF F!Blanks, F!Nones
  <2>2. "spans" \in out => ms = <<>>
    BY <2>1
  <2>3. "spans" \in DOMAIN all /\ all["spans"] = F!Maps(ms) /\ ms = [i \in DOMAIN ms |-> ms[i]]
    OBVIOUS
  <2> HIDE DEF all, out, fields, map, ms
  <2> QED BY <1>2, <1>4, <2>2, <2>3, EnteredList
<1>7. /\ s.spans = [i \in DOMAIN ms |-> s.spans[i]]
      /\ \A i \in DOMAIN ms : ItemReads("span", ms[i], s.spans[i])
  <2>1. /\ s.spans = [i \in DOMAIN s.spans |-> s.spans[i]]
        /\ \A i \in DOMAIN s.spans : s.spans[i] \in F!EvidenceSpans
    BY <1>3, SequencesAre
  <2>2. DOMAIN ms = DOMAIN s.spans /\ \A i \in DOMAIN ms : ms[i] = F!WrittenSpan(s.spans[i])
    OBVIOUS
  <2>3. \A i \in DOMAIN s.spans : ItemReads("span", F!WrittenSpan(s.spans[i]), s.spans[i])
    BY <2>1, SpanIsRead, Zenon
  <2> HIDE DEF ms
  <2> QED BY <2>1, <2>2, <2>3
<1> HIDE DEF map, ms
<1>8. ASSUME NEW f \in DOMAIN fields PROVE ItemCarries(fields[f], map, f, s[f])
  <2>1. CASE f \in plain
    BY <1>5, <2>1, Zenon DEF ItemCarries
  <2>2. CASE f = "spans"
    <3> HIDE DEF fields
    <3>1. fields["spans"].as # "required"
      BY <1>2
    <3>2. ItemCarries(fields["spans"], map, "spans", s["spans"])
      <4> DEFINE type == fields["spans"]
                 v == s.spans
      <4>1. /\ EnteredBelow(type, map, "spans", ms) /\ type.as # "required"
            /\ v = [i \in DOMAIN ms |-> v[i]]
            /\ \A i \in DOMAIN ms : ItemReads(type.of, ms[i], v[i])
        BY <1>2, <1>6, <1>7, <3>1
      <4> HIDE DEF type, v
      <4>2. ItemCarries(type, map, "spans", v)
        BY <4>1, Zenon DEF ItemCarries
      <4> QED BY <4>2 DEF type, v
    <3> QED BY <2>2, <3>2
  <2> QED BY <2>1, <2>2
<1> HIDE DEF fields
<1>9. MappingReads("source", map, s)
  BY <1>1, <1>3, <1>8, MappingIsRead, Zenon
<1> QED BY <1>9 DEF map

\* A sequence of at most one.
LEMMA AtMostOne ==
    ASSUME NEW S, NEW q \in Seq(S), Len(q) <= 1
    PROVE  q = <<>> \/ q = <<q[1]>>
<1>1. CASE Len(q) = 0
  BY <1>1, EmptySeq
<1>2. CASE Len(q) = 1
  <2>1. q[1] \in S
    BY <1>2
  <2>2. <<q[1]>> \in Seq(S) /\ Len(<<q[1]>>) = 1 /\ <<q[1]>>[1] = q[1]
    BY <2>1
  <2> QED BY <1>2, <2>2, SeqEqual
<1>3. Len(q) = 0 \/ Len(q) = 1
  <2>1. Len(q) \in Nat
    OBVIOUS
  <2>2. \A l \in Nat : l <= 1 => l = 0 \/ l = 1
    OBVIOUS
  <2> QED BY <2>1, <2>2, Zenon
<1> QED BY <1>1, <1>2, <1>3, Zenon

\* A transition is read as it was written, with its authorization.
LEMMA TransitionIsRead ==
    ASSUME NEW s \in F!ClaimTransitions
    PROVE  ItemReads("transition", F!WrittenTransition(s), s)
<1> DEFINE map == F!WrittenTransition(s)
           fields == F!TransitionFields
           given == s.authorization
           ms == [i \in DOMAIN given |-> F!WrittenAuthorization(given[i])]
           out == F!Blanks(s, {"reason", "prior_verification_digest"})
                  \cup F!Nones(s, {"related_claim_ids", "authorization"})
           all == [kind |-> F!Str(s.kind), at |-> F!Str(s.at), by |-> F!Str(s.by),
                   reason |-> F!Str(s.reason), related_claim_ids |-> F!Strs(s.related_claim_ids),
                   prior_verification_digest |-> F!Str(s.prior_verification_digest),
                   authorization |-> F!OneMap(ms)]
           texts == {"kind", "at", "by", "reason", "prior_verification_digest"}
<1>1. F!Tables["transition"] = fields
  BY Zenon DEF F!Tables
<1>2. /\ DOMAIN fields = texts \cup {"related_claim_ids", "authorization"}
      /\ \A f \in texts : fields[f].as = "string"
      /\ fields["related_claim_ids"].as = "strings"
      /\ fields["authorization"].as = "optional" /\ fields["authorization"].of = "authorization"
  BY DEF F!TransitionFields, F!String, F!StringList, F!Optional
<1>3. /\ s = [f \in DOMAIN fields |-> s[f]] /\ s.related_claim_ids \in Seq(F!AnyText)
      /\ given \in Seq(F!Authorizations) /\ Len(given) <= 1
  BY <1>2 DEF F!ClaimTransitions, F!Option
<1>4. map = F!LeavingOut(out, all)
  BY Zenon DEF F!WrittenTransition
<1>5. ASSUME NEW f \in texts PROVE Entered(fields[f], map, f, s[f])
  <2>1. f \in DOMAIN all /\ all[f] = F!Str(s[f])
    OBVIOUS
  <2>2. f \in out => s[f] = ""
    BY DEF F!Blanks, F!Nones
  <2> HIDE DEF all, out, fields, map
  <2> QED BY <1>2, <1>4, <2>1, <2>2, EnteredText
<1>6. Entered(fields["related_claim_ids"], map, "related_claim_ids", s["related_claim_ids"])
  <2>1. "related_claim_ids" \in DOMAIN all /\ all["related_claim_ids"] = F!Strs(s["related_claim_ids"])
    OBVIOUS
  <2>2. "related_claim_ids" \in out => s["related_claim_ids"] = <<>>
    BY DEF F!Blanks, F!Nones
  <2> DEFINE x == s["related_claim_ids"]
  <2>3. x = [i \in DOMAIN x |-> x[i]]
    <3>1. x \in Seq(F!AnyText)
      BY <1>3
    <3> HIDE DEF x
    <3> QED BY <3>1, SequencesAre
  <2> HIDE DEF all, out, fields, map, x
  <2>4. Entered(fields["related_claim_ids"], map, "related_claim_ids", x)
    BY <1>2, <1>4, <2>1, <2>2, <2>3, EnteredTexts DEF x
  <2> QED BY <2>4 DEF x
<1>7. /\ given = [i \in DOMAIN ms |-> given[i]] /\ (ms = <<>> \/ ms = <<ms[1]>>)
      /\ (given = <<>> <=> ms = <<>>)
      /\ \A i \in DOMAIN ms : LeafReads("authorization", ms[i], given[i])
  <2>1. /\ given = [i \in DOMAIN given |-> given[i]]
        /\ \A i \in DOMAIN given : given[i] \in F!Authorizations
    <3> HIDE DEF given
    <3> QED BY <1>3, SequencesAre
  <2>2. given = <<>> \/ given = <<given[1]>>
    <3> HIDE DEF given
    <3> QED BY <1>3, AtMostOne
  <2>3. DOMAIN ms = DOMAIN given /\ \A i \in DOMAIN ms : ms[i] = F!WrittenAuthorization(given[i])
    OBVIOUS
  <2>4. \A i \in DOMAIN given : LeafReads("authorization", F!WrittenAuthorization(given[i]), given[i])
    BY <2>1, AuthorizationIsRead, Zenon
  <2>5. (ms = <<>> \/ ms = <<ms[1]>>) /\ (given = <<>> <=> ms = <<>>)
    <3>1. ms = [i \in DOMAIN given |-> ms[i]]
      OBVIOUS
    <3> HIDE DEF ms, given
    <3>2. given = <<>> => ms = <<>>
      BY <3>1
    <3>3. given = <<given[1]>> => ms = <<ms[1]>> 
      BY <3>1
    <3> QED BY <2>2, <3>2, <3>3
  <2> HIDE DEF ms, given
  <2> QED BY <2>1, <2>3, <2>4, <2>5
<1>8. EnteredBelow(fields["authorization"], map, "authorization", ms)
  <2>1. "authorization" \in out <=> given = <<>>
    BY DEF F!Blanks, F!Nones
  <2>2. "authorization" \in DOMAIN all /\ all["authorization"] = F!OneMap(ms)
    OBVIOUS
  <2> HIDE DEF all, out, fields, map, ms, given
  <2> QED BY <1>2, <1>4, <1>7, <2>1, <2>2, EnteredOption, Zenon
<1> HIDE DEF map, ms
<1>9. ASSUME NEW f \in DOMAIN fields PROVE LeafCarries(fields[f], map, f, s[f])
  <2>1. CASE f \in texts
    BY <1>5, <2>1, Zenon DEF LeafCarries
  <2>2. CASE f = "related_claim_ids"
    BY <1>6, <2>2, Zenon DEF LeafCarries
  <2>3. CASE f = "authorization"
    <3> DEFINE type == fields["authorization"]
    <3> HIDE DEF fields
    <3>1. /\ EnteredBelow(type, map, "authorization", ms) /\ type.as # "required"
          /\ given = [i \in DOMAIN ms |-> given[i]]
          /\ \A i \in DOMAIN ms : LeafReads(type.of, ms[i], given[i])
      BY <1>2, <1>7, <1>8
    <3> HIDE DEF type, given
    <3>2. LeafCarries(type, map, "authorization", given)
      BY <3>1, Zenon DEF LeafCarries
    <3> QED BY <2>3, <3>2 DEF type, given
  <2> QED BY <1>2, <2>1, <2>2, <2>3
<1> HIDE DEF fields
<1>10. ItemReads("transition", map, s)
  BY <1>1, <1>3, <1>9, ItemIsRead, Zenon
<1> QED BY <1>10 DEF map

\* The profile that is read back.
ProfileOf(c) ==
    [profile |-> F!Profile, id |-> c.id, tier |-> c.tier, basis |-> c.basis,
     evidence_ids |-> c.evidence_ids, supporting_claim_ids |-> c.supporting_claim_ids,
     supersedes |-> c.supersedes, conflicts_with |-> c.conflicts_with,
     contradicts |-> c.contradicts, transitions |-> c.transitions]

\* The fields of a claim, by kind.
ClaimTexts == {"schema", "type", "id", "tier", "status", "title", "description", "resource",
               "basis", "created_at", "created_by", "verified_at", "verified_by",
               "verified_digest", "stale_after"}
ClaimLists == {"evidence_ids", "supporting_claim_ids", "supersedes", "conflicts_with", "tags"}
ClaimNames == ClaimTexts \cup ClaimLists \cup {"sources", "contradicts", "transitions"}

\* A claim is the record of its fields.
LEMMA ClaimsAre ==
    ASSUME NEW c \in F!ClaimStructs
    PROVE  /\ c = [f \in ClaimNames |-> c[f]]
           /\ \A f \in ClaimLists : c[f] \in Seq(F!AnyText)
           /\ c.sources \in Seq(F!ClaimSources) /\ c.contradicts \in Seq(F!Contradictions)
           /\ c.transitions \in Seq(F!ClaimTransitions)
BY DEF F!ClaimStructs, ClaimNames, ClaimTexts, ClaimLists

\* The profile is read as it was written.
LEMMA ProfileIsRead ==
    ASSUME NEW c \in F!ClaimStructs
    PROVE  MappingReads("profile", F!WrittenProfile(c), ProfileOf(c))
<1> DEFINE map == F!WrittenProfile(c)
           own == ProfileOf(c)
           fields == F!ProfileFields
           found == [i \in DOMAIN c.contradicts |-> F!WrittenContradiction(c.contradicts[i])]
           changes == [i \in DOMAIN c.transitions |-> F!WrittenTransition(c.transitions[i])]
           out == F!Nones(c, F!Lists \cup {"contradicts", "transitions"})
           all == [profile |-> F!Str(F!Profile), id |-> F!Str(c.id), tier |-> F!Str(c.tier),
                   basis |-> F!Str(c.basis), evidence_ids |-> F!Strs(c.evidence_ids),
                   supporting_claim_ids |-> F!Strs(c.supporting_claim_ids),
                   supersedes |-> F!Strs(c.supersedes), conflicts_with |-> F!Strs(c.conflicts_with),
                   contradicts |-> F!Maps(found), transitions |-> F!Maps(changes)]
           texts == {"profile", "id", "tier", "basis"}
<1>1. F!Tables["profile"] = fields
  BY Zenon DEF F!Tables
<1>2. /\ DOMAIN fields = texts \cup F!Lists \cup {"contradicts", "transitions"}
      /\ \A f \in texts : fields[f].as = "string"
      /\ \A f \in F!Lists : fields[f].as = "strings"
      /\ fields["contradicts"].as = "list" /\ fields["contradicts"].of = "contradiction"
      /\ fields["transitions"].as = "list" /\ fields["transitions"].of = "transition"
  BY DEF F!ProfileFields, F!String, F!StringList, F!ListOf, F!Lists
<1>3. /\ \A f \in F!Lists : c[f] \in Seq(F!AnyText)
      /\ c.contradicts \in Seq(F!Contradictions) /\ c.transitions \in Seq(F!ClaimTransitions)
  BY ClaimsAre DEF F!Lists, ClaimLists
<1>4. /\ own = [f \in DOMAIN fields |-> own[f]]
      /\ \A f \in F!Lists \cup {"contradicts", "transitions"} : own[f] = c[f]
  BY <1>2 DEF ProfileOf, F!Lists
<1>5. map = F!LeavingOut(out, all)
  BY Zenon DEF F!WrittenProfile
<1>6. ASSUME NEW f \in texts PROVE Entered(fields[f], map, f, own[f])
  <2>1. f \in DOMAIN all /\ all[f] = F!Str(own[f])
    BY DEF ProfileOf
  <2>2. f \notin out
    BY DEF F!Nones, F!Lists
  <2> HIDE DEF all, out, fields, map, own
  <2> QED BY <1>2, <1>5, <2>1, <2>2, EnteredText
<1>7. ASSUME NEW f \in F!Lists PROVE Entered(fields[f], map, f, own[f])
  <2>1. f \in DOMAIN all /\ all[f] = F!Strs(c[f])
    BY DEF F!Lists
  <2>2. f \in out => c[f] = <<>>
    BY DEF F!Nones
  <2> DEFINE x == own[f]
  <2>3. x = [i \in DOMAIN x |-> x[i]] /\ all[f] = F!Strs(x) /\ (f \in out => x = <<>>)
    <3>1. x = c[f] /\ x \in Seq(F!AnyText)
      BY <1>3, <1>4
    <3> HIDE DEF x, all, out
    <3>2. x = [i \in DOMAIN x |-> x[i]]
      BY <3>1, SequencesAre
    <3> QED BY <2>1, <2>2, <3>1, <3>2, Zenon
  <2> HIDE DEF all, out, fields, map, x
  <2>4. Entered(fields[f], map, f, x)
    BY <1>2, <1>5, <2>1, <2>3, EnteredTexts
  <2> QED BY <2>4 DEF x
<1>8. /\ EnteredBelow(fields["contradicts"], map, "contradicts", found)
      /\ c.contradicts = [i \in DOMAIN found |-> c.contradicts[i]]
      /\ \A i \in DOMAIN found : ItemReads("contradiction", found[i], c.contradicts[i])
  <2>1. /\ c.contradicts = [i \in DOMAIN c.contradicts |-> c.contradicts[i]]
        /\ \A i \in DOMAIN c.contradicts : c.contradicts[i] \in F!Contradictions
    BY <1>3, SequencesAre
  <2>2. /\ DOMAIN found = DOMAIN c.contradicts /\ found = [i \in DOMAIN found |-> found[i]]
        /\ \A i \in DOMAIN found : found[i] = F!WrittenContradiction(c.contradicts[i])
    OBVIOUS
  <2>3. \A i \in DOMAIN c.contradicts :
            ItemReads("contradiction", F!WrittenContradiction(c.contradicts[i]), c.contradicts[i])
    BY <2>1, ContradictionIsRead, Zenon
  <2>4. "contradicts" \in out => found = <<>>
    BY DEF F!Nones
  <2>5. "contradicts" \in DOMAIN all /\ all["contradicts"] = F!Maps(found)
    OBVIOUS
  <2> HIDE DEF all, out, fields, map, found
  <2>6. EnteredBelow(fields["contradicts"], map, "contradicts", found)
    BY <1>2, <1>5, <2>2, <2>4, <2>5, EnteredList
  <2> QED BY <2>1, <2>2, <2>3, <2>6
<1>9. /\ EnteredBelow(fields["transitions"], map, "transitions", changes)
      /\ c.transitions = [i \in DOMAIN changes |-> c.transitions[i]]
      /\ \A i \in DOMAIN changes : ItemReads("transition", changes[i], c.transitions[i])
  <2>1. /\ c.transitions = [i \in DOMAIN c.transitions |-> c.transitions[i]]
        /\ \A i \in DOMAIN c.transitions : c.transitions[i] \in F!ClaimTransitions
    BY <1>3, SequencesAre
  <2>2. /\ DOMAIN changes = DOMAIN c.transitions /\ changes = [i \in DOMAIN changes |-> changes[i]]
        /\ \A i \in DOMAIN changes : changes[i] = F!WrittenTransition(c.transitions[i])
    OBVIOUS
  <2>3. \A i \in DOMAIN c.transitions :
            ItemReads("transition", F!WrittenTransition(c.transitions[i]), c.transitions[i])
    BY <2>1, TransitionIsRead, Zenon
  <2>4. "transitions" \in out => changes = <<>>
    BY DEF F!Nones
  <2>5. "transitions" \in DOMAIN all /\ all["transitions"] = F!Maps(changes)
    OBVIOUS
  <2> HIDE DEF all, out, fields, map, changes
  <2>6. EnteredBelow(fields["transitions"], map, "transitions", changes)
    BY <1>2, <1>5, <2>2, <2>4, <2>5, EnteredList
  <2> QED BY <2>1, <2>2, <2>3, <2>6
<1> HIDE DEF map, found, changes, own
<1>10. ASSUME NEW f \in DOMAIN fields PROVE ItemCarries(fields[f], map, f, own[f])
  <2>1. CASE f \in texts
    BY <1>6, <2>1, Zenon DEF ItemCarries
  <2>2. CASE f \in F!Lists
    BY <1>7, <2>2, Zenon DEF ItemCarries
  <2>3. CASE f = "contradicts"
    <3> DEFINE type == fields["contradicts"]
               v == own["contradicts"]
    <3> HIDE DEF fields
    <3>1. /\ EnteredBelow(type, map, "contradicts", found) /\ type.as # "required"
          /\ v = [i \in DOMAIN found |-> v[i]]
          /\ \A i \in DOMAIN found : ItemReads(type.of, found[i], v[i])
      BY <1>2, <1>4, <1>8
    <3> HIDE DEF type, v
    <3>2. ItemCarries(type, map, "contradicts", v)
      BY <3>1, Zenon DEF ItemCarries
    <3> QED BY <2>3, <3>2 DEF type, v
  <2>4. CASE f = "transitions"
    <3> DEFINE type == fields["transitions"]
               v == own["transitions"]
    <3> HIDE DEF fields
    <3>1. /\ EnteredBelow(type, map, "transitions", changes) /\ type.as # "required"
          /\ v = [i \in DOMAIN changes |-> v[i]]
          /\ \A i \in DOMAIN changes : ItemReads(type.of, changes[i], v[i])
      BY <1>2, <1>4, <1>9
    <3> HIDE DEF type, v
    <3>2. ItemCarries(type, map, "transitions", v)
      BY <3>1, Zenon DEF ItemCarries
    <3> QED BY <2>4, <3>2 DEF type, v
  <2> HIDE DEF fields
  <2> QED BY <1>2, <2>1, <2>2, <2>3, <2>4
<1> HIDE DEF fields
<1>11. MappingReads("profile", map, own)
  BY <1>1, <1>4, <1>10, MappingIsRead, Zenon
<1> QED BY <1>11 DEF map, own

\* The values of the top mapping that are read back.
TopOf(c) ==
    [type |-> F!OkfType, title |-> c.title, description |-> c.description,
     resource |-> c.resource, tags |-> c.tags, sources |-> c.sources,
     generated |-> F!Generated(c), verified |-> F!Verified(c), status |-> c.status,
     stale_after |-> c.stale_after, zbrain |-> ProfileOf(c)]

\* An Option of a pair and the mappings it is written to.
WrittenPairs(given) == [i \in DOMAIN given |-> F!WrittenPair(given[i])]

\* Either of the pairs is read as it was written.
LEMMA PairsAreRead ==
    ASSUME NEW table \in {"generated", "verified"}, NEW given, NEW x,
           given = <<>> \/ given = <<x>>, x = [f \in DOMAIN x |-> x[f]],
           DOMAIN x = DOMAIN F!Tables[table]
    PROVE  /\ given = [i \in DOMAIN WrittenPairs(given) |-> given[i]]
           /\ WrittenPairs(given) = <<>> \/ WrittenPairs(given) = <<WrittenPairs(given)[1]>>
           /\ \A i \in DOMAIN WrittenPairs(given) :
                 MappingReads(table, WrittenPairs(given)[i], given[i])
<1>1. CASE given = <<>>
  BY <1>1 DEF WrittenPairs
<1>2. CASE given = <<x>>
  <2>1. WrittenPairs(given) = <<F!WrittenPair(x)>>
    BY <1>2 DEF WrittenPairs
  <2>2. MappingReads(table, F!WrittenPair(x), x)
    BY PairIsRead
  <2> QED BY <1>2, <2>1, <2>2
<1> QED BY <1>1, <1>2

\* Both are.
LEMMA GeneratedAndVerified ==
    ASSUME NEW c
    PROVE  LET generated == WrittenPairs(F!Generated(c))
               verified  == WrittenPairs(F!Verified(c))
           IN  /\ F!Generated(c) = [i \in DOMAIN generated |-> F!Generated(c)[i]]
               /\ generated = <<>> \/ generated = <<generated[1]>>
               /\ \A i \in DOMAIN generated :
                     MappingReads("generated", generated[i], F!Generated(c)[i])
               /\ F!Verified(c) = [i \in DOMAIN verified |-> F!Verified(c)[i]]
               /\ verified = <<>> \/ verified = <<verified[1]>>
               /\ \A i \in DOMAIN verified :
                     MappingReads("verified", verified[i], F!Verified(c)[i])
<1> DEFINE x == [at |-> c.created_at, by |-> c.created_by]
           y == [at |-> c.verified_at, by |-> c.verified_by, digest |-> c.verified_digest]
<1>1. /\ F!Generated(c) = <<>> \/ F!Generated(c) = <<x>>
      /\ F!Verified(c) = <<>> \/ F!Verified(c) = <<y>>
  BY DEF F!Generated, F!Verified
<1>2. /\ x = [f \in DOMAIN x |-> x[f]] /\ DOMAIN x = {"at", "by"}
      /\ y = [f \in DOMAIN y |-> y[f]] /\ DOMAIN y = {"at", "by", "digest"}
  OBVIOUS
<1>3. /\ DOMAIN F!Tables["generated"] = {"at", "by"}
      /\ DOMAIN F!Tables["verified"] = {"at", "by", "digest"}
  <2>1. F!Tables["generated"] = F!GeneratedFields /\ F!Tables["verified"] = F!VerifiedFields
    BY Zenon DEF F!Tables
  <2> QED BY <2>1 DEF F!GeneratedFields, F!VerifiedFields
<1>4. "generated" \in {"generated", "verified"} /\ "verified" \in {"generated", "verified"}
  OBVIOUS
<1> HIDE DEF x, y
<1>5. DOMAIN x = DOMAIN F!Tables["generated"] /\ DOMAIN y = DOMAIN F!Tables["verified"]
  BY <1>2, <1>3
<1> DEFINE generated == WrittenPairs(F!Generated(c))
           verified  == WrittenPairs(F!Verified(c))
<1>6. /\ F!Generated(c) = [i \in DOMAIN generated |-> F!Generated(c)[i]]
      /\ generated = <<>> \/ generated = <<generated[1]>>
      /\ \A i \in DOMAIN generated : MappingReads("generated", generated[i], F!Generated(c)[i])
  BY <1>1, <1>2, <1>4, <1>5, PairsAreRead, Zenon
<1>7. /\ F!Verified(c) = [i \in DOMAIN verified |-> F!Verified(c)[i]]
      /\ verified = <<>> \/ verified = <<verified[1]>>
      /\ \A i \in DOMAIN verified : MappingReads("verified", verified[i], F!Verified(c)[i])
  BY <1>1, <1>2, <1>4, <1>5, PairsAreRead, Zenon
<1> QED BY <1>6, <1>7, Zenon

\* The whole frontmatter is read as it was written.
LEMMA TopIsReadBack ==
    ASSUME NEW c \in F!ClaimStructs
    PROVE  TopReads("okf", F!Written(c), TopOf(c))
<1> DEFINE map == F!Written(c)
           top == TopOf(c)
           fields == F!OkfFields
           generated == WrittenPairs(F!Generated(c))
           verified  == WrittenPairs(F!Verified(c))
           ss == [i \in DOMAIN c.sources |-> F!WrittenSource(c.sources[i])]
           profile == F!WrittenProfile(c)
           out == F!Blanks(c, {"description", "resource", "stale_after"})
                   \cup F!Nones(c, {"tags", "sources"})
                   \cup (IF generated = <<>> THEN {"generated"} ELSE {})
                   \cup (IF verified = <<>> THEN {"verified"} ELSE {})
           all == [type |-> F!Str(F!OkfType), title |-> F!Str(c.title), description |-> F!Str(c.description),
             resource |-> F!Str(c.resource), tags |-> F!Strs(c.tags),
             sources |-> F!Maps(ss),
             generated |-> F!OneMap(generated), verified |-> F!OneMap(verified),
             status |-> F!Str(c.status), stale_after |-> F!Str(c.stale_after),
             zbrain |-> F!Node("mapping", profile)]
           texts == {"type", "title", "description", "resource", "status", "stale_after"}
<1>1. F!Tables["okf"] = fields
  BY Zenon DEF F!Tables
<1>2. /\ DOMAIN fields = texts \cup {"tags", "sources", "generated", "verified", "zbrain"}
      /\ \A f \in texts : fields[f].as = "string"
      /\ fields["tags"].as = "strings"
      /\ fields["sources"].as = "list" /\ fields["sources"].of = "source"
      /\ fields["generated"].as = "optional" /\ fields["generated"].of = "generated"
      /\ fields["verified"].as = "optional" /\ fields["verified"].of = "verified"
      /\ fields["zbrain"].as = "required" /\ fields["zbrain"].of = "profile"
  BY DEF F!OkfFields, F!String, F!StringList, F!ListOf, F!Optional, F!Required
<1>3. c.tags \in Seq(F!AnyText) /\ c.sources \in Seq(F!ClaimSources)
  BY ClaimsAre DEF ClaimLists
<1>4. /\ top = [f \in DOMAIN fields |-> top[f]]
      /\ top["tags"] = c.tags /\ top["sources"] = c.sources
      /\ top["generated"] = F!Generated(c) /\ top["verified"] = F!Verified(c)
      /\ top["zbrain"] = ProfileOf(c)
  BY <1>2 DEF TopOf
<1>5. map = F!LeavingOut(out, all)
  BY Zenon DEF F!Written, WrittenPairs
<1>6. ASSUME NEW f \in texts PROVE Entered(fields[f], map, f, top[f])
  <2>1. f \in DOMAIN all /\ all[f] = F!Str(top[f])
    BY DEF TopOf
  <2>2. f \in out => top[f] = ""
    <3> DEFINE some == {"description", "resource", "stale_after"}
    <3>1. f \in out => f \in some /\ c[f] = ""
      <4> HIDE DEF generated, verified, fields, map, all
      <4> QED BY DEF F!Blanks, F!Nones
    <3>2. f \in some => top[f] = c[f]
      BY DEF TopOf
    <3> QED BY <3>1, <3>2, Zenon
  <2> HIDE DEF all, out, fields, map, top
  <2> QED BY <1>2, <1>5, <2>1, <2>2, EnteredText
<1>7. Entered(fields["tags"], map, "tags", top["tags"])
  <2> DEFINE x == c.tags
  <2>1. "tags" \in DOMAIN all /\ all["tags"] = F!Strs(x)
    OBVIOUS
  <2>2. "tags" \in out => x = <<>>
    BY DEF F!Blanks, F!Nones
  <2>3. x = [i \in DOMAIN x |-> x[i]]
    <3>1. x \in Seq(F!AnyText)
      BY <1>3
    <3> HIDE DEF x
    <3> QED BY <3>1, SequencesAre
  <2> HIDE DEF all, out, fields, map, x, top
  <2>4. Entered(fields["tags"], map, "tags", x)
    BY <1>2, <1>5, <2>1, <2>2, <2>3, EnteredTexts
  <2> QED BY <1>4, <2>4 DEF x
<1>8. /\ EnteredBelow(fields["sources"], map, "sources", ss)
      /\ c.sources = [i \in DOMAIN ss |-> c.sources[i]]
      /\ \A i \in DOMAIN ss : MappingReads("source", ss[i], c.sources[i])
  <2>1. /\ c.sources = [i \in DOMAIN c.sources |-> c.sources[i]]
        /\ \A i \in DOMAIN c.sources : c.sources[i] \in F!ClaimSources
    BY <1>3, SequencesAre
  <2>2. /\ DOMAIN ss = DOMAIN c.sources /\ ss = [i \in DOMAIN ss |-> ss[i]]
        /\ \A i \in DOMAIN ss : ss[i] = F!WrittenSource(c.sources[i])
    OBVIOUS
  <2>3. \A i \in DOMAIN c.sources : MappingReads("source", F!WrittenSource(c.sources[i]), c.sources[i])
    BY <2>1, SourceIsRead, Zenon
  <2>4. "sources" \in out => ss = <<>>
    BY DEF F!Blanks, F!Nones
  <2>5. "sources" \in DOMAIN all /\ all["sources"] = F!Maps(ss)
    OBVIOUS
  <2> HIDE DEF all, out, fields, map, ss
  <2>6. EnteredBelow(fields["sources"], map, "sources", ss)
    BY <1>2, <1>5, <2>2, <2>4, <2>5, EnteredList
  <2> QED BY <2>1, <2>2, <2>3, <2>6
<1>9. /\ F!Generated(c) = [i \in DOMAIN generated |-> F!Generated(c)[i]]
      /\ generated = <<>> \/ generated = <<generated[1]>>
      /\ \A i \in DOMAIN generated : MappingReads("generated", generated[i], F!Generated(c)[i])
      /\ F!Verified(c) = [i \in DOMAIN verified |-> F!Verified(c)[i]]
      /\ verified = <<>> \/ verified = <<verified[1]>>
      /\ \A i \in DOMAIN verified : MappingReads("verified", verified[i], F!Verified(c)[i])
  BY GeneratedAndVerified, Zenon
<1>10. /\ EnteredBelow(fields["generated"], map, "generated", generated)
       /\ EnteredBelow(fields["verified"], map, "verified", verified)
  <2>1. /\ "generated" \in DOMAIN all /\ all["generated"] = F!OneMap(generated)
        /\ "verified" \in DOMAIN all /\ all["verified"] = F!OneMap(verified)
    OBVIOUS
  <2> HIDE DEF generated, verified
  <2>2. /\ "generated" \in out <=> generated = <<>>
        /\ "verified" \in out <=> verified = <<>>
    BY DEF F!Blanks, F!Nones
  <2> HIDE DEF all, out, fields, map
  <2> QED BY <1>2, <1>5, <1>9, <2>1, <2>2, EnteredOption, Zenon
<1>11. /\ EnteredBelow(fields["zbrain"], map, "zbrain", <<profile>>)
       /\ MappingReads("profile", profile, ProfileOf(c))
  <2>1. "zbrain" \notin out /\ "zbrain" \in DOMAIN all /\ all["zbrain"] = F!Node("mapping", profile)
    BY DEF F!Blanks, F!Nones
  <2> HIDE DEF all, out, profile, map, fields
  <2>2. "zbrain" \in DOMAIN map /\ map["zbrain"] = F!Node("mapping", profile)
    BY <1>5, <2>1 DEF F!LeavingOut
  <2>3. EnteredBelow(fields["zbrain"], map, "zbrain", <<profile>>)
    <3> DEFINE ms == <<profile>>
    <3>1. ms = [i \in DOMAIN ms |-> ms[i]] /\ ms = <<ms[1]>> /\ ms[1] = profile
      OBVIOUS
    <3> HIDE DEF ms
    <3>2. fields["zbrain"].as \in {"optional", "required"}
      BY <1>2
    <3>3. EnteredBelow(fields["zbrain"], map, "zbrain", ms)
      BY <2>2, <3>1, <3>2, Zenon DEF EnteredBelow
    <3> QED BY <3>3 DEF ms
  <2> QED BY <2>3, ProfileIsRead DEF profile
<1> HIDE DEF map, ss, generated, verified, top, profile
<1>12. ASSUME NEW f \in DOMAIN fields PROVE MappingCarries(fields[f], map, f, top[f])
  <2>1. CASE f \in texts
    BY <1>6, <2>1, Zenon DEF MappingCarries
  <2>2. CASE f = "tags"
    BY <1>7, <2>2, Zenon DEF MappingCarries
  <2>3. CASE f = "sources"
    <3> DEFINE type == fields["sources"]
               v == top["sources"]
    <3> HIDE DEF fields
    <3>1. /\ EnteredBelow(type, map, "sources", ss) /\ type.as # "required"
          /\ v = [i \in DOMAIN ss |-> v[i]]
          /\ \A i \in DOMAIN ss : MappingReads(type.of, ss[i], v[i])
      BY <1>2, <1>4, <1>8
    <3> HIDE DEF type, v
    <3>2. MappingCarries(type, map, "sources", v)
      BY <3>1, Zenon DEF MappingCarries
    <3> QED BY <2>3, <3>2 DEF type, v
  <2>4. CASE f = "generated"
    <3> DEFINE type == fields["generated"]
               v == top["generated"]
    <3> HIDE DEF fields
    <3>1. /\ EnteredBelow(type, map, "generated", generated) /\ type.as # "required"
          /\ v = [i \in DOMAIN generated |-> v[i]]
          /\ \A i \in DOMAIN generated : MappingReads(type.of, generated[i], v[i])
      BY <1>2, <1>4, <1>9, <1>10
    <3> HIDE DEF type, v
    <3>2. MappingCarries(type, map, "generated", v)
      BY <3>1, Zenon DEF MappingCarries
    <3> QED BY <2>4, <3>2 DEF type, v
  <2>5. CASE f = "verified"
    <3> DEFINE type == fields["verified"]
               v == top["verified"]
    <3> HIDE DEF fields
    <3>1. /\ EnteredBelow(type, map, "verified", verified) /\ type.as # "required"
          /\ v = [i \in DOMAIN verified |-> v[i]]
          /\ \A i \in DOMAIN verified : MappingReads(type.of, verified[i], v[i])
      BY <1>2, <1>4, <1>9, <1>10
    <3> HIDE DEF type, v
    <3>2. MappingCarries(type, map, "verified", v)
      BY <3>1, Zenon DEF MappingCarries
    <3> QED BY <2>5, <3>2 DEF type, v
  <2>6. CASE f = "zbrain"
    <3> DEFINE type == fields["zbrain"]
               v == top["zbrain"]
               ms == <<profile>>
    <3> HIDE DEF fields
    <3>1. /\ EnteredBelow(type, map, "zbrain", ms) /\ type.as = "required"
          /\ MappingReads(type.of, ms[1], v)
      BY <1>2, <1>4, <1>11
    <3> HIDE DEF type, v, ms
    <3>2. MappingCarries(type, map, "zbrain", v)
      BY <3>1, Zenon DEF MappingCarries
    <3> QED BY <2>6, <3>2 DEF type, v
  <2> HIDE DEF fields
  <2> QED BY <1>2, <2>1, <2>2, <2>3, <2>4, <2>5, <2>6
<1> HIDE DEF fields
<1>13. TopReads("okf", map, top)
  BY <1>1, <1>4, <1>12, TopIsRead, Zenon
<1> QED BY <1>13 DEF map, top

\* A rendering is taken for a claim document of the OKF form.
LEMMA ProbeIsRead ==
    ASSUME NEW c
    PROVE  TopReads("probe", F!Written(c), [schema |-> "", type |-> F!OkfType])
<1> DEFINE map == F!Written(c)
           x == [schema |-> "", type |-> F!OkfType]
           fields == F!ProbeFields
<1>1. F!Tables["probe"] = fields
  BY Zenon DEF F!Tables
<1>2. DOMAIN fields = {"schema", "type"} /\ \A f \in DOMAIN fields : fields[f].as = "string"
  BY DEF F!ProbeFields, F!String
<1>3. "schema" \notin DOMAIN map /\ "type" \in DOMAIN map /\ map["type"] = F!Str(F!OkfType)
  BY DEF F!Written, F!LeavingOut, F!Blanks, F!Nones
<1>4. x = [f \in DOMAIN fields |-> x[f]] /\ x["schema"] = "" /\ x["type"] = F!OkfType
  BY <1>2
<1> HIDE DEF map, x, fields
<1>5. \A f \in DOMAIN fields : Entered(fields[f], map, f, x[f])
  BY <1>2, <1>3, <1>4 DEF Entered
<1>6. \A f \in DOMAIN F!Tables["probe"] : MappingCarries(F!Tables["probe"][f], map, f, x[f])
  BY <1>1, <1>5, Zenon DEF MappingCarries
<1>7. TopReads("probe", map, x)
  BY <1>1, <1>4, <1>6, TopIsRead, Zenon
<1> QED BY <1>7 DEF map, x

\* The claim that is read back: the schema is not written, the type is the only one.
AsRead(c) == [c EXCEPT !.schema = "", !.type = F!OkfType]

\* The claim made of these values is the one that was written.
LEMMA MadeOfWritten ==
    ASSUME NEW c \in F!ClaimStructs
    PROVE  F!MadeOkf(TopOf(c), ProfileOf(c), c.tier) = AsRead(c)
<1> DEFINE new == F!MadeOkf(TopOf(c), ProfileOf(c), c.tier)
           x == [at |-> c.created_at, by |-> c.created_by]
           y == [at |-> c.verified_at, by |-> c.verified_by, digest |-> c.verified_digest]
<1>1. /\ F!Pair(F!Generated(c), "at") = c.created_at /\ F!Pair(F!Generated(c), "by") = c.created_by
      /\ F!Pair(F!Verified(c), "at") = c.verified_at /\ F!Pair(F!Verified(c), "by") = c.verified_by
      /\ F!Pair(F!Verified(c), "digest") = c.verified_digest
  <2>1. /\ x["at"] = c.created_at /\ x["by"] = c.created_by
        /\ y["at"] = c.verified_at /\ y["by"] = c.verified_by /\ y["digest"] = c.verified_digest
    OBVIOUS
  <2>2. /\ F!Generated(c) = IF c.created_at = "" /\ c.created_by = "" THEN <<>> ELSE <<x>>
        /\ F!Verified(c) = IF c.verified_at = "" /\ c.verified_by = "" /\ c.verified_digest = ""
                           THEN <<>> ELSE <<y>>
    BY Zenon DEF F!Generated, F!Verified
  <2> HIDE DEF x, y
  <2>3. \A z : <<z>> # <<>> /\ <<z>>[1] = z
    OBVIOUS
  <2> QED BY <2>1, <2>2, <2>3, Zenon DEF F!Pair
<1>2. new = [schema |-> "", type |-> F!OkfType, id |-> c.id, tier |-> c.tier, status |-> c.status,
             title |-> c.title, description |-> c.description, resource |-> c.resource,
             basis |-> c.basis, created_at |-> c.created_at, created_by |-> c.created_by,
             verified_at |-> c.verified_at, verified_by |-> c.verified_by,
             verified_digest |-> c.verified_digest, stale_after |-> c.stale_after,
             sources |-> c.sources, evidence_ids |-> c.evidence_ids,
             supporting_claim_ids |-> c.supporting_claim_ids, supersedes |-> c.supersedes,
             conflicts_with |-> c.conflicts_with, contradicts |-> c.contradicts, tags |-> c.tags,
             transitions |-> c.transitions]
  BY <1>1 DEF F!MadeOkf, F!Made, TopOf, ProfileOf
<1>3. /\ new = [f \in ClaimNames |-> new[f]]
      /\ \A f \in ClaimNames : new[f] = IF f = "schema" THEN "" ELSE IF f = "type" THEN F!OkfType
                                        ELSE c[f]
  <2> HIDE DEF new
  <2>1. DOMAIN new = ClaimNames
    BY <1>2 DEF ClaimNames, ClaimTexts, ClaimLists
  <2>2. new = [f \in DOMAIN new |-> new[f]]
    BY <1>2
  <2>3. new["schema"] = "" /\ new["type"] = F!OkfType
    BY <1>2
  <2>4. \A f \in ClaimTexts \ {"schema", "type"} : new[f] = c[f]
    <3>1. /\ new["id"] = c["id"] /\ new["tier"] = c["tier"] /\ new["status"] = c["status"]
          /\ new["title"] = c["title"] /\ new["description"] = c["description"]
          /\ new["resource"] = c["resource"] /\ new["basis"] = c["basis"]
          /\ new["created_at"] = c["created_at"] /\ new["created_by"] = c["created_by"]
          /\ new["verified_at"] = c["verified_at"] /\ new["verified_by"] = c["verified_by"]
          /\ new["verified_digest"] = c["verified_digest"] /\ new["stale_after"] = c["stale_after"]
      BY <1>2
    <3> QED BY <3>1 DEF ClaimTexts
  <2>5. \A f \in ClaimLists \cup {"sources", "contradicts", "transitions"} : new[f] = c[f]
    <3>1. /\ new["evidence_ids"] = c["evidence_ids"] /\ new["supersedes"] = c["supersedes"]
          /\ new["supporting_claim_ids"] = c["supporting_claim_ids"]
          /\ new["conflicts_with"] = c["conflicts_with"] /\ new["tags"] = c["tags"]
          /\ new["sources"] = c["sources"] /\ new["contradicts"] = c["contradicts"]
          /\ new["transitions"] = c["transitions"]
      BY <1>2
    <3> QED BY <3>1 DEF ClaimLists
  <2>6. new = [f \in ClaimNames |-> new[f]]
    BY <2>1, <2>2
  <2>7. \A f \in ClaimNames : f = "schema" \/ f = "type" \/ f \in ClaimTexts \ {"schema", "type"}
                              \/ f \in ClaimLists \cup {"sources", "contradicts", "transitions"}
    BY DEF ClaimNames
  <2>8. "schema" # "type"
    OBVIOUS
  <2>9. \A f \in ClaimTexts \ {"schema", "type"} : f # "schema" /\ f # "type"
    OBVIOUS
  <2>10. \A f \in ClaimLists \cup {"sources", "contradicts", "transitions"} : f # "schema" /\ f # "type"
    BY DEF ClaimLists
  <2> QED BY <2>3, <2>4, <2>5, <2>6, <2>7, <2>8, <2>9, <2>10, Zenon
<1>4. c = [f \in ClaimNames |-> c[f]] /\ "schema" \in ClaimNames /\ "type" \in ClaimNames
  BY ClaimsAre DEF ClaimNames, ClaimTexts
<1> HIDE DEF new
<1>5. AsRead(c) = [f \in ClaimNames |-> IF f = "schema" THEN "" ELSE IF f = "type" THEN F!OkfType
                                        ELSE c[f]]
  <2> DEFINE N == ClaimNames
  <2>1. c = [f \in N |-> c[f]] /\ "schema" \in N /\ "type" \in N
    BY <1>4
  <2> HIDE DEF N
  <2>2. AsRead(c) = [f \in N |-> IF f = "schema" THEN "" ELSE IF f = "type" THEN F!OkfType ELSE c[f]]
    BY <2>1 DEF AsRead
  <2> QED BY <2>2 DEF N
<1>6. new = AsRead(c)
  BY <1>3, <1>5, Zenon
<1> QED BY <1>6 DEF new

\* It is as valid as that was.
LEMMA ValidAsRead ==
    ASSUME NEW c \in F!ClaimStructs, F!Valid(c)
    PROVE  F!Valid(AsRead(c)) /\ AsRead(c).tier = c.tier
<1> DEFINE d == AsRead(c)
           N == ClaimNames
<1>1. c = [f \in N |-> c[f]] /\ "schema" \in N /\ "type" \in N
  BY ClaimsAre DEF ClaimNames, ClaimTexts
<1>2. d.schema = "" /\ d.type = F!OkfType /\ \A f \in N : f \notin {"schema", "type"} => d[f] = c[f]
  <2> HIDE DEF N
  <2> QED BY <1>1 DEF AsRead
<1>3. /\ d.id = c.id /\ d.tier = c.tier /\ d.status = c.status /\ d.title = c.title
      /\ d.basis = c.basis /\ d.sources = c.sources /\ d.created_at = c.created_at
      /\ d.created_by = c.created_by /\ d.verified_at = c.verified_at
      /\ d.verified_by = c.verified_by /\ d.verified_digest = c.verified_digest
      /\ d.stale_after = c.stale_after /\ d.evidence_ids = c.evidence_ids
      /\ d.contradicts = c.contradicts /\ d.transitions = c.transitions
      /\ \A f \in {"supporting_claim_ids", "supersedes", "conflicts_with"} : d[f] = c[f]
  <2> HIDE DEF d
  <2> QED BY <1>2 DEF ClaimNames, ClaimTexts, ClaimLists
<1> HIDE DEF d
<1>4. F!Valid(d)
  <2>1. d.schema \in {"", F!LegacySchema} /\ d.type \in {"", F!OkfType}
    BY <1>2
  <2> QED BY <1>3, <2>1, Zenon DEF F!Valid
<1> QED BY <1>3, <1>4 DEF d

\* What render_claim_markdown writes of a valid claim, parse_claim_markdown reads as
\* that claim.
LEMMA ClaimsReadBack ==
    ASSUME NEW c \in F!ClaimStructs, F!Valid(c)
    PROVE  F!Read(F!Written(c), c.tier) = F!Claim(AsRead(c))
<1> DEFINE map == F!Written(c)
           top == TopOf(c)
           own == ProfileOf(c)
           probe == [schema |-> "", type |-> F!OkfType]
<1>1. F!Fits("probe", map) /\ F!Values("probe", map) = probe
  BY ProbeIsRead, Zenon DEF TopReads
<1>2. F!Fits("okf", map) /\ F!Values("okf", map) = top
  BY TopIsReadBack, Zenon DEF TopReads
<1>3. top.zbrain = own /\ own.profile = F!Profile
  BY DEF TopOf, ProfileOf
<1>4. probe.schema # F!LegacySchema /\ probe.type = F!OkfType
  BY DEF F!LegacySchema
<1>5. F!MadeOkf(top, own, c.tier) = AsRead(c)
  BY MadeOfWritten
<1>6. F!Valid(AsRead(c)) /\ AsRead(c).tier = c.tier
  BY ValidAsRead
<1> HIDE DEF map, top, own, probe
<1>7. F!FromOkf(top, c.tier) = F!Claim(AsRead(c))
  BY <1>3, <1>5, <1>6, Zenon DEF F!FromOkf, F!InTier, F!Checked
<1>8. F!ReadOkf(map, c.tier) = F!Claim(AsRead(c))
  BY <1>2, <1>7, Zenon DEF F!ReadOkf
<1>9. F!ReadAs(probe, map, c.tier) = F!ReadOkf(map, c.tier)
  BY <1>4 DEF F!ReadAs
<1>10. F!Read(map, c.tier) = F!Claim(AsRead(c))
  BY <1>1, <1>8, <1>9, Zenon DEF F!Read
<1> QED BY <1>10 DEF map

-----------------------------------------------------------------------------
(* A document at its path *)

ParsesAt(p, doc) ==
    /\ doc.kind = "claim" /\ (p.name \in Claims => p.name = doc.id)
    /\ doc.schema = "okf" => doc.tier \in {"", p.tier} /\ doc.digest.kind # "malformed"
    /\ doc.schema = "legacy" => (doc.digest.kind = "malformed" => doc.st = "approved")
SignedAt(p, doc) == doc.digest = Sha(doc.id, p.tier, doc.text, doc.contradicts, doc.revokes)

\* The one document of its claim among the files w.
OnlyOne(w, p) ==
    /\ ParsesAt(p, w[p])
    /\ \A q \in Paths : ParsesAt(q, w[q]) /\ w[q].id = w[p].id => q = p

\* The predicates of ClaimFiles, of the file instead of the state.
LEMMA AtPaths ==
    /\ \A p : (Parses(p) <=> ParsesAt(p, wiki[p])) /\ (Signed(p) <=> SignedAt(p, wiki[p]))
    /\ \A p : (Parses(p)' <=> ParsesAt(p, wiki'[p])) /\ (Signed(p)' <=> SignedAt(p, wiki'[p]))
BY DEF Parses, ParsesAt, Signed, SignedAt, NameFits, ParsesOkf, ParsesLegacy

\* What a scan accepts: the one document of its claim, and with digests a signed
\* one if it is approved.
LEMMA AcceptedAre ==
    /\ \A p : p \in Accepted(FALSE) <=> p \in Paths /\ OnlyOne(wiki, p)
    /\ \A p : p \in Accepted(FALSE)' <=> p \in Paths /\ OnlyOne(wiki', p)
    /\ \A p : p \in Accepted(TRUE) <=> /\ p \in Paths /\ OnlyOne(wiki, p)
                                       /\ wiki[p].st = "approved" => SignedAt(p, wiki[p])
    /\ \A p : p \in Accepted(TRUE)' <=> /\ p \in Paths /\ OnlyOne(wiki', p)
                                        /\ wiki'[p].st = "approved" => SignedAt(p, wiki'[p])
<1>1. /\ \A p : p \in Docs /\ Parses(p) <=> p \in Paths /\ ParsesAt(p, wiki[p])
      /\ \A p : (p \in Docs /\ Parses(p))' <=> p \in Paths /\ ParsesAt(p, wiki'[p])
  BY AtPaths DEF Docs, Files, ParsesAt
<1>2. /\ \A p : p \in Docs /\ Parses(p) => (Sharing(p) = {p} <=> OnlyOne(wiki, p))
      /\ \A p : (p \in Docs /\ Parses(p))' => (Sharing(p)' = {p} <=> OnlyOne(wiki', p))
  BY <1>1 DEF Sharing, OnlyOne
<1> QED BY <1>1, <1>2, AtPaths DEF Accepted, OnlyOne

\* What reads a changed document says that it is a claim, is none, or is a bad one.
LEMMA ReadKinds == \A map, tier : F!Read(map, tier).read \in {"note", "error", "claim"}
<1>1. \A map, tier : /\ F!ReadOkf(map, tier).read \in {"error", "claim"}
                     /\ F!ReadLegacy(map, tier).read \in {"error", "claim"}
  BY DEF F!ReadOkf, F!FromOkf, F!InTier, F!ReadLegacy, F!Legacy, F!Checked, F!Unread, F!Claim
<1> QED BY <1>1 DEF F!Read, F!ReadAs

\* A changed document is a file again, and has its old digest or none.
LEMMA RereadFile ==
    ASSUME NEW doc, IsFile(doc), doc.kind = "claim", NEW map, NEW was,
           was.read \in {"note", "error", "claim"}
    PROVE  /\ IsFile(Reread(doc, map, was))
           /\ Reread(doc, map, was).kind = "claim" =>
                Reread(doc, map, was).digest \in {NoDigest, doc.digest}
<1>1. CASE was.read = "note"
  BY <1>1 DEF Reread, IsFile, Note
<1>2. CASE was.read = "error"
  BY <1>2 DEF Reread, IsFile, Broken
<1>3. CASE was.read = "claim"
  <2> DEFINE tier == IF OwnTier(doc) /\ "tier" \notin DOMAIN map.zbrain.of THEN "" ELSE doc.tier
             digest == IF was.claim.verified_digest = "" THEN NoDigest ELSE doc.digest
             found == {[claim |-> d.claim_id, heuristic |-> d.heuristic] :
                          d \in ToSet(was.claim.contradicts)}
  <2>1. Reread(doc, map, was) =
           [doc EXCEPT !.tier = tier, !.digest = digest, !.contradicts = found,
                       !.revokes = Len(was.claim.transitions)]
    BY <1>3 DEF Reread
  <2>2. digest \in {NoDigest, doc.digest}
    OBVIOUS
  <2> HIDE DEF tier, digest, found
  <2>3. DOMAIN doc = {"kind", "schema", "id", "tier", "st", "text", "digest", "contradicts", "revokes"}
    BY DEF IsFile, NoDoc, Note, Broken
  <2> QED BY <2>1, <2>2, <2>3 DEF IsFile, NoDoc, Note, Broken
<1> QED BY <1>1, <1>2, <1>3

-----------------------------------------------------------------------------
(* The inductive invariant *)

Phases == {"idle", "write", "done"}

\* Some reason of a revocation is written so that it cannot be read.
SomeUnreadable == \E reason \in Reasons : Y!ReadBack(reason, "item") = Y!Unreadable

Typed ==
    /\ wiki = [p \in Paths |-> wiki[p]] /\ \A p \in Paths : IsFile(wiki[p])
    /\ mig = [phase |-> mig.phase, before |-> mig.before, todo |-> mig.todo, clean |-> mig.clean]
    /\ mig.phase \in Phases /\ mig.todo \subseteq Paths /\ mig.clean \in BOOLEAN
    /\ mig.before = [p \in Paths |-> mig.before[p]] /\ \A p \in Paths : IsFile(mig.before[p])
    /\ blessed = [c \in Claims |-> blessed[c]]

\* Every digest was given to a text that was approved.
Vouched(doc) ==
    doc.kind = "claim" =>
        \A s \in doc.digest.of :
            s.id \in Claims /\ [text |-> s.text, revokes |-> s.revokes] \in blessed[s.id]
Vouching == \A p \in Paths : Vouched(wiki[p]) /\ Vouched(mig.before[p])

\* A file that was not changed outside the program.
Kept == {p \in Paths : wiki[p].kind # "none"} \ touched

\* A command wrote it, and no other of the same claim under the same name.
Own ==
    \A p \in Kept :
        \/ wiki[p] = Note /\ SomeUnreadable
        \/ /\ ParsesAt(p, wiki[p]) /\ wiki[p].schema = "okf"
           /\ wiki[p].st = "approved" => SignedAt(p, wiki[p])
           /\ \A q \in Kept : wiki[q].kind = "claim" /\ wiki[q].id = wiki[p].id
                              /\ p.name = wiki[p].id /\ q.name = wiki[p].id => q = p

\* What a migration has still to write: legacy claims, each the only one.
Planned ==
    /\ mig.phase = "done" => mig.todo = {}
    /\ mig.phase # "idle" =>
        \A p \in mig.todo :
            /\ ParsesAt(p, mig.before[p]) /\ mig.before[p].schema = "legacy"
            /\ \A q \in mig.todo : mig.before[q].id = mig.before[p].id => q = p
            /\ \A q \in Kept : wiki[q].kind = "claim" /\ wiki[q].id = mig.before[p].id => q = p

\* What a migration has written, while nobody else writes.
Migrating ==
    mig.phase # "idle" /\ mig.clean =>
        /\ \A p \in mig.todo : wiki[p] = mig.before[p] /\ OnlyOne(wiki, p)
        /\ \A p \in Paths : OnlyOne(wiki, p) /\ wiki[p].schema = "legacy" => p \in mig.todo
        /\ \A p \in Paths : wiki[p] # mig.before[p] =>
              /\ ParsesAt(p, mig.before[p]) /\ mig.before[p].schema = "legacy"
              /\ wiki[p] = Migrated(p, mig.before[p]) /\ OnlyOne(wiki, p)

FilesInv == Typed /\ Vouching /\ Own /\ Planned /\ Migrating

\* The start: nothing was written by a command, and no migration runs.
LEMMA InitInv == Init => FilesInv
<1> SUFFICES ASSUME Init PROVE FilesInv
  OBVIOUS
<1>1. /\ wiki \in FirstWiki /\ mig = Idle /\ touched = Files
      /\ blessed = [c \in Claims |-> {[text |-> s.text, revokes |-> s.revokes] : s \in DigestsOf(c)}]
  BY DEF Init
<1>2. /\ wiki = [p \in Paths |-> wiki[p]] /\ \A p \in Paths : IsFile(wiki[p])
      /\ \A p \in Paths : wiki[p].kind = "claim" =>
            \A s \in wiki[p].digest.of : s.id \in Claims
  BY <1>1, FirstWikiAssumption
<1>3. Typed
  <2>1. IsFile(NoDoc)
    BY DEF IsFile
  <2>2. /\ mig = [phase |-> "idle", before |-> [p \in Paths |-> NoDoc], todo |-> {}, clean |-> TRUE]
        /\ DOMAIN blessed = Claims
    BY <1>1 DEF Idle
  <2>3. blessed = [c \in Claims |-> blessed[c]]
    BY <1>1
  <2> QED BY <1>2, <2>1, <2>2, <2>3 DEF Typed, Phases
<1>4. Vouching
  <2>1. \A p \in Paths : Vouched(mig.before[p])
    BY <1>1 DEF Idle, Vouched, NoDoc
  <2>2. ASSUME NEW p \in Paths, wiki[p].kind = "claim", NEW s \in wiki[p].digest.of
        PROVE  s.id \in Claims /\ [text |-> s.text, revokes |-> s.revokes] \in blessed[s.id]
    <3>1. s.id \in Claims
      BY <1>2, <2>2
    <3>2. p \in {q \in Docs : wiki[q].kind = "claim"}
      BY <2>2 DEF Docs, Files
    <3>3. s \in DigestsOf(s.id)
      BY <2>2, <3>2 DEF DigestsOf
    <3>4. blessed[s.id] = {[text |-> d.text, revokes |-> d.revokes] : d \in DigestsOf(s.id)}
      BY <1>1, <3>1
    <3> QED BY <3>1, <3>3, <3>4
  <2> QED BY <2>1, <2>2 DEF Vouching, Vouched
<1>5. Kept = {}
  BY <1>1 DEF Kept, Files
<1>6. mig.phase = "idle"
  BY <1>1 DEF Idle
<1> QED BY <1>3, <1>4, <1>5, <1>6 DEF FilesInv, Own, Planned, Migrating

-----------------------------------------------------------------------------
(* Outside edits *)

\* Each file that is there was there, perhaps elsewhere and less its digest, and a
\* file that changed counts as touched.
EditsFiles ==
    /\ mig' = [mig EXCEPT !.clean = FALSE] /\ blessed' = blessed /\ touched \subseteq touched'
    /\ wiki' = [p \in Paths |-> wiki'[p]]
    /\ \A p \in Paths :
          /\ IsFile(wiki'[p])
          /\ p \notin touched' => wiki'[p] = wiki[p]
          /\ wiki'[p].kind = "claim" =>
                \E q \in Paths : /\ wiki[q].kind = "claim"
                                 /\ wiki'[p].digest \in {NoDigest, wiki[q].digest}

\* An edit of one file.
LEMMA ReplaceEdits ==
    ASSUME Typed, NEW p \in Paths, NEW doc, wiki' = [wiki EXCEPT ![p] = doc], Outside({p}),
           IsFile(doc),
           doc.kind = "claim" =>
               \E q \in Paths : wiki[q].kind = "claim" /\ doc.digest \in {NoDigest, wiki[q].digest}
    PROVE  EditsFiles
<1>1. /\ wiki' = [r \in Paths |-> wiki'[r]] /\ wiki'[p] = doc
      /\ \A r \in Paths : r # p => wiki'[r] = wiki[r]
  BY DEF Typed
<1>2. /\ mig' = [mig EXCEPT !.clean = FALSE] /\ blessed' = blessed /\ touched' = touched \cup {p}
  BY DEF Outside
<1> QED BY <1>1, <1>2 DEF EditsFiles, Typed

\* Every step of an owner is such an edit.
LEMMA OutsideEdits ==
    ASSUME Typed, NEW p \in Paths, NEW q \in Paths,
           \/ Copy(p, q) \/ Move(p, q) \/ Damage(p)
           \/ \E text \in Texts : Rewrite(p, text)
           \/ \E st \in Statuses : SetStatus(p, st)
    PROVE  EditsFiles
<1> DEFINE Shape(doc) == doc.kind = "claim" =>
              DOMAIN doc = {"kind", "schema", "id", "tier", "st", "text", "digest", "contradicts",
                            "revokes"}
<1>0. \A doc : IsFile(doc) => Shape(doc)
  BY DEF IsFile, NoDoc, Note, Broken
<1> HIDE DEF Shape
<1>1. CASE Copy(p, q)
  <2>1. wiki' = [wiki EXCEPT ![q] = wiki[p]] /\ Outside({q}) /\ IsFile(wiki[p])
    BY <1>1 DEF Copy, Typed
  <2> QED BY <2>1, ReplaceEdits
<1>2. CASE Move(p, q)
  <2>1. /\ wiki' = [r \in Paths |-> wiki'[r]] /\ p # q
        /\ \A r \in Paths : wiki'[r] = IF r = p THEN NoDoc ELSE IF r = q THEN wiki[p] ELSE wiki[r]
    BY <1>2 DEF Move, Typed, Files
  <2>2. /\ mig' = [mig EXCEPT !.clean = FALSE] /\ blessed' = blessed
        /\ touched' = touched \cup {p, q}
    BY <1>2 DEF Move, Outside
  <2>3. IsFile(NoDoc) /\ NoDoc.kind # "claim"
    BY DEF IsFile, NoDoc
  <2> QED BY <2>1, <2>2, <2>3 DEF EditsFiles, Typed
<1>3. CASE Damage(p)
  <2>1. IsFile(NoDoc) /\ NoDoc.kind # "claim" /\ IsFile(Note) /\ Note.kind # "claim"
    BY DEF IsFile, NoDoc, Note
  <2>2. Outside({p})
    BY <1>3 DEF Damage
  <2>3. CASE wiki' = [wiki EXCEPT ![p] = NoDoc] \/ wiki' = [wiki EXCEPT ![p] = Note]
    BY <2>1, <2>2, <2>3, ReplaceEdits
  <2>4. CASE wiki[p].kind = "claim" /\ \E map \in {Document(wiki[p])} : PutSpoiled(p, map)
    <3>1. PICK map, tier : wiki' = [wiki EXCEPT ![p] = Reread(wiki[p], map, F!Read(map, tier))]
      BY <2>4, Zenon DEF PutSpoiled, PutMapping
    <3>2. /\ IsFile(Reread(wiki[p], map, F!Read(map, tier)))
          /\ Reread(wiki[p], map, F!Read(map, tier)).kind = "claim" =>
               Reread(wiki[p], map, F!Read(map, tier)).digest \in {NoDigest, wiki[p].digest}
      <4>1. IsFile(wiki[p]) /\ F!Read(map, tier).read \in {"note", "error", "claim"}
        BY ReadKinds DEF Typed
      <4> QED BY <2>4, <4>1, RereadFile
    <3> QED BY <2>2, <2>4, <3>1, <3>2, ReplaceEdits
  <2> QED BY <1>3, <2>3, <2>4 DEF Damage
<1>4. ASSUME NEW text \in Texts, Rewrite(p, text) PROVE EditsFiles
  <2>1. wiki[p].kind = "claim" /\ Outside({p}) /\ IsFile(wiki[p])
    BY <1>4 DEF Rewrite, Typed
  <2>2. wiki' = [wiki EXCEPT ![p] = [wiki[p] EXCEPT !.text = text]]
    BY <1>4 DEF Rewrite
  <2>3. /\ IsFile([wiki[p] EXCEPT !.text = text])
        /\ [wiki[p] EXCEPT !.text = text].digest = wiki[p].digest
    BY <1>0, <2>1 DEF IsFile, NoDoc, Note, Broken, Shape
  <2> QED BY <2>1, <2>2, <2>3, ReplaceEdits
<1>5. ASSUME NEW st \in Statuses, SetStatus(p, st) PROVE EditsFiles
  <2>1. wiki[p].kind = "claim" /\ Outside({p}) /\ IsFile(wiki[p])
    BY <1>5 DEF SetStatus, Typed
  <2>2. wiki' = [wiki EXCEPT ![p] = [wiki[p] EXCEPT !.st = st]]
    BY <1>5 DEF SetStatus
  <2>3. /\ IsFile([wiki[p] EXCEPT !.st = st])
        /\ [wiki[p] EXCEPT !.st = st].digest = wiki[p].digest
    BY <1>0, <2>1 DEF IsFile, NoDoc, Note, Broken, Shape
  <2> QED BY <2>1, <2>2, <2>3, ReplaceEdits
<1> QED BY <1>1, <1>2, <1>3, <1>4, <1>5

\* What is not touched stays, digests only move, and a migration is not clean.
LEMMA EditsKeep == ASSUME FilesInv, EditsFiles PROVE FilesInv'
<1> USE DEF FilesInv
<1>1. /\ mig'.phase = mig.phase /\ mig'.before = mig.before /\ mig'.todo = mig.todo
      /\ mig'.clean = FALSE
      /\ mig' = [phase |-> mig'.phase, before |-> mig'.before, todo |-> mig'.todo,
                 clean |-> mig'.clean]
  BY DEF Typed, EditsFiles
<1>2. Typed'
  BY <1>1 DEF Typed, EditsFiles
<1>3. Vouching'
  <2>1. \A p \in Paths : Vouched(mig.before[p])'
    BY <1>1 DEF EditsFiles, Vouching, Vouched
  <2>2. ASSUME NEW p \in Paths, wiki'[p].kind = "claim" PROVE Vouched(wiki[p])'
    <3>1. PICK q \in Paths : wiki[q].kind = "claim" /\ wiki'[p].digest \in {NoDigest, wiki[q].digest}
      BY <2>2 DEF EditsFiles
    <3>2. blessed' = blessed
      BY DEF EditsFiles
    <3>3. \A s \in wiki[q].digest.of :
             s.id \in Claims /\ [text |-> s.text, revokes |-> s.revokes] \in blessed[s.id]
      BY <3>1 DEF Vouching, Vouched
    <3>4. \A s \in wiki'[p].digest.of : s \in wiki[q].digest.of
      BY <3>1 DEF NoDigest
    <3> QED BY <3>2, <3>3, <3>4 DEF Vouched
  <2> QED BY <1>1, <2>1, <2>2 DEF Vouching, Vouched
<1>4. Kept' \subseteq Kept /\ \A p \in Kept' : wiki'[p] = wiki[p]
  BY DEF Kept, EditsFiles
<1>5. Own'
  BY <1>4 DEF Own
<1>6. Planned'
  BY <1>1, <1>4 DEF Planned
<1>7. Migrating'
  BY <1>1 DEF Migrating
<1> QED BY <1>2, <1>3, <1>5, <1>6, <1>7

-----------------------------------------------------------------------------
(* Commands *)

\* A command put a document of c at p, and no other file of c has c's name.
Puts(c, p, doc) ==
    /\ mig.phase = "idle" /\ mig' = mig
    /\ wiki' = [wiki EXCEPT ![p] = doc] /\ touched' = touched \ {p}
    /\ IsFile(doc) /\ doc.kind # "none"
    /\ \/ doc = Note /\ SomeUnreadable
       \/ /\ ParsesAt(p, doc) /\ doc.schema = "okf" /\ doc.id = c
          /\ doc.st = "approved" => SignedAt(p, doc)
    /\ \A q \in Paths : wiki[q].kind = "claim" /\ wiki[q].id = c /\ q.name = c => q = p

\* Any digest it holds was there before or is that of the approval it records.
Records(p, doc) ==
    /\ \A c \in Claims : blessed[c] \subseteq blessed'[c]
    /\ blessed' = [c \in Claims |-> blessed'[c]]
    /\ doc.kind = "claim" =>
          \A s \in doc.digest.of :
              \/ wiki[p].kind = "claim" /\ s \in wiki[p].digest.of
              \/ s.id \in Claims /\ [text |-> s.text, revokes |-> s.revokes] \in blessed'[s.id]

\* A command keeps the invariant if it puts a document that parses and is signed
\* where no other kept file has the name of the claim.
LEMMA PutsKeep ==
    ASSUME FilesInv, NEW c \in Claims, NEW p \in Paths, NEW doc, Puts(c, p, doc), Records(p, doc)
    PROVE  FilesInv'
<1> USE DEF FilesInv
<1>1. /\ wiki' = [q \in Paths |-> wiki'[q]] /\ wiki'[p] = doc
      /\ \A q \in Paths : q # p => wiki'[q] = wiki[q]
  BY DEF Puts, Typed
<1>2. Typed'
  BY <1>1 DEF Typed, Puts, Records
<1>3. Vouching'
  <2>1. ASSUME NEW old, old.kind = "claim", Vouched(old), NEW s \in old.digest.of
        PROVE  s.id \in Claims /\ [text |-> s.text, revokes |-> s.revokes] \in blessed'[s.id]
    BY <2>1 DEF Vouched, Records
  <2>2. \A q \in Paths : Vouched(mig.before[q])'
    BY <2>1 DEF Puts, Vouching, Vouched
  <2>3. ASSUME NEW q \in Paths PROVE Vouched(wiki[q])'
    <3>1. CASE q # p
      BY <1>1, <2>1, <3>1 DEF Vouching, Vouched
    <3>2. CASE q = p
      BY <1>1, <2>1, <3>2 DEF Vouching, Vouched, Records
    <3> QED BY <3>1, <3>2
  <2> QED BY <2>2, <2>3 DEF Vouching
<1>4. Kept' \subseteq Kept \cup {p}
  BY <1>1 DEF Kept, Puts
<1>5. Own'
  <2> SUFFICES ASSUME NEW q \in Kept'
               PROVE  \/ wiki'[q] = Note /\ SomeUnreadable
                      \/ /\ ParsesAt(q, wiki'[q]) /\ wiki'[q].schema = "okf"
                         /\ wiki'[q].st = "approved" => SignedAt(q, wiki'[q])
                         /\ \A r \in Kept' : wiki'[r].kind = "claim" /\ wiki'[r].id = wiki'[q].id
                                /\ q.name = wiki'[q].id /\ r.name = wiki'[q].id => r = q
    BY DEF Own
  <2>1. q \in Paths /\ Kept' \subseteq Paths
    BY DEF Kept
  <2>2. CASE q = p
    <3>1. CASE doc = Note
      BY <1>1, <2>2, <3>1 DEF Puts, Note, ParsesAt
    <3>2. CASE doc # Note
      <4>1. /\ ParsesAt(p, doc) /\ doc.schema = "okf" /\ doc.id = c
            /\ doc.st = "approved" => SignedAt(p, doc)
        BY <3>2 DEF Puts
      <4>2. \A r \in Kept' : wiki'[r].kind = "claim" /\ wiki'[r].id = c /\ r.name = c => r = p
        BY <1>1, <2>1 DEF Puts
      <4> QED BY <1>1, <2>2, <4>1, <4>2
    <3> QED BY <3>1, <3>2
  <2>3. CASE q # p
    <3>1. q \in Kept /\ wiki'[q] = wiki[q]
      BY <1>1, <1>4, <2>1, <2>3
    <3>2. CASE wiki[q] = Note /\ SomeUnreadable
      BY <3>1, <3>2
    <3>3. CASE /\ ParsesAt(q, wiki[q]) /\ wiki[q].schema = "okf"
               /\ wiki[q].st = "approved" => SignedAt(q, wiki[q])
               /\ \A r \in Kept : wiki[r].kind = "claim" /\ wiki[r].id = wiki[q].id
                                  /\ q.name = wiki[q].id /\ r.name = wiki[q].id => r = q
      <4>1. ASSUME NEW r \in Kept', wiki'[r].kind = "claim", wiki'[r].id = wiki[q].id,
                   q.name = wiki[q].id, r.name = wiki[q].id
            PROVE  r = q
        <5>1. CASE r # p
          <6>1. r \in Kept /\ wiki'[r] = wiki[r]
            BY <1>1, <1>4, <2>1, <5>1
          <6> QED BY <3>3, <4>1, <6>1
        <5>2. CASE r = p
          <6>1. doc.kind = "claim" /\ doc.id = wiki[q].id
            BY <1>1, <4>1, <5>2
          <6>2. doc.id = c
            BY <6>1 DEF Puts, Note
          <6>3. wiki[q].kind = "claim"
            BY <3>3 DEF ParsesAt
          <6>4. q = p
            BY <2>1, <4>1, <6>1, <6>2, <6>3 DEF Puts
          <6> QED BY <2>3, <6>4
        <5> QED BY <5>1, <5>2
      <4> QED BY <3>1, <3>3, <4>1
    <3> QED BY <3>1, <3>2, <3>3 DEF Own
  <2> QED BY <2>2, <2>3
<1>6. mig'.phase = "idle"
  BY DEF Puts
<1> QED BY <1>2, <1>3, <1>5, <1>6 DEF Planned, Migrating

\* A claim that is read by its id is the only one of it that has its name.
LEMMA ReadAlone ==
    ASSUME Typed, NEW c \in Claims, NEW p \in Paths, Reads(c, p)
    PROVE  /\ ParsesAt(p, wiki[p]) /\ wiki[p].id = c /\ IsFile(wiki[p])
           /\ \A q \in Paths : wiki[q].kind = "claim" /\ wiki[q].id = c /\ q.name = c => q = p
<1>1. Lookup(c).ok /\ Lookup(c).paths = {p}
  BY DEF Reads
<1>2. \A q \in Flat(c) : ParsesAt(q, wiki[q])
  BY <1>1, AtPaths DEF Lookup
<1>3. CASE HasNested
  <2>1. \A q \in Docs : ParsesAt(q, wiki[q])
    BY <1>1, <1>3, AtPaths DEF Lookup
  <2>2. {q \in Docs : wiki[q].id = c} = {p}
    BY <1>1, <1>3 DEF Lookup
  <2>3. \A q \in Paths : wiki[q].kind = "claim" => q \in Docs
    BY DEF Docs, Files
  <2> QED BY <2>1, <2>2, <2>3 DEF Typed
<1>4. CASE ~HasNested
  <2>1. Flat(c) = {p}
    BY <1>1, <1>4 DEF Lookup
  <2>2. \A q \in Paths : wiki[q].kind = "claim" /\ q.name = c => q \in Flat(c)
    BY <1>4, PathsAssumption DEF HasNested, Flat, Files
  <2>3. ParsesAt(p, wiki[p]) /\ p.name = c
    BY <1>2, <2>1 DEF Flat
  <2> QED BY <2>1, <2>2, <2>3 DEF Typed, ParsesAt
<1> QED BY <1>3, <1>4

\* The fields of a claim.
LEMMA ClaimDocIs ==
    ASSUME NEW schema, NEW id, NEW tier, NEW st, NEW text, NEW digest, NEW found, NEW revokes
    PROVE  LET doc == ClaimDoc(schema, id, tier, st, text, digest, found, revokes)
           IN  /\ doc.kind = "claim" /\ doc.schema = schema /\ doc.id = id /\ doc.tier = tier
               /\ doc.st = st /\ doc.text = text /\ doc.digest = digest
               /\ doc.contradicts = found /\ doc.revokes = revokes
               /\ schema \in {"okf", "legacy"} /\ id \in Claims => IsFile(doc)
BY DEF ClaimDoc, IsFile

\* Both ways to write a draft.
LEMMA DraftKeeps ==
    ASSUME FilesInv, NEW c \in Claims, NEW p \in Paths, NEW text, NEW found,
           mig.phase = "idle", UNCHANGED <<mig, blessed>>,
           Put(p, ClaimDoc("okf", c, p.tier, "draft", text, NoDigest, found, 0)),
           p.name \in Claims => p.name = c,
           \A q \in Paths : wiki[q].kind = "claim" /\ wiki[q].id = c /\ q.name = c => q = p
    PROVE  FilesInv'
<1> DEFINE doc == ClaimDoc("okf", c, p.tier, "draft", text, NoDigest, found, 0)
<1>1. /\ doc.kind = "claim" /\ doc.schema = "okf" /\ doc.id = c /\ doc.tier = p.tier
      /\ doc.st = "draft" /\ doc.digest = NoDigest /\ IsFile(doc)
  BY ClaimDocIs
<1>2. wiki' = [wiki EXCEPT ![p] = doc] /\ touched' = touched \ {p}
  BY DEF Put
<1> HIDE DEF doc
<1>3. Puts(c, p, doc)
  BY <1>1, <1>2 DEF Puts, ParsesAt, NoDigest
<1>4. Records(p, doc)
  BY <1>1 DEF Records, NoDigest, FilesInv, Typed
<1> QED BY <1>3, <1>4, PutsKeep

\* No file has the name of a new id.
LEMMA NewDraftKeeps ==
    ASSUME FilesInv, NEW c \in Claims, NEW t \in Tiers, NEW text \in Texts, NewDraft(c, t, text)
    PROVE  FilesInv'
<1> DEFINE p == Path(t, FALSE, c)
           found == C!Detect(c, text, ApprovedClaims)
<1>1. p \in Paths /\ p.tier = t /\ p.name = c
  BY DEF NewDraft, Path
<1>2. /\ mig.phase = "idle" /\ UNCHANGED <<mig, blessed>>
      /\ Put(p, ClaimDoc("okf", c, t, "draft", text, NoDigest, found, 0))
      /\ \A q \in Files : q.name # c
  BY DEF NewDraft
<1>3. \A q \in Paths : wiki[q].kind = "claim" => q \in Files
  BY DEF Files
<1> HIDE DEF p, found
<1> QED BY <1>1, <1>2, <1>3, DraftKeeps

\* A draft that exists is read alone.
LEMMA RedraftKeeps ==
    ASSUME FilesInv, NEW c \in Claims, NEW p \in Paths, NEW text \in Texts, Redraft(c, p, text)
    PROVE  FilesInv'
<1> DEFINE found == C!Detect(c, text, ApprovedClaims)
<1>1. /\ mig.phase = "idle" /\ UNCHANGED <<mig, blessed>> /\ Reads(c, p)
      /\ Put(p, ClaimDoc("okf", c, p.tier, "draft", text, NoDigest, found, 0))
  BY DEF Redraft
<1>2. /\ p.name \in Claims => p.name = c
      /\ \A q \in Paths : wiki[q].kind = "claim" /\ wiki[q].id = c /\ q.name = c => q = p
  <2>1. Typed /\ Reads(c, p)
    BY <1>1 DEF FilesInv
  <2>2. ParsesAt(p, wiki[p]) /\ wiki[p].id = c
    BY <2>1, ReadAlone
  <2> QED BY <2>1, <2>2, ReadAlone DEF ParsesAt
<1> HIDE DEF found
<1> QED BY <1>1, <1>2, DraftKeeps

\* An approval signs what it records as approved.
LEMMA ApproveKeeps ==
    ASSUME FilesInv, NEW c \in Claims, NEW p \in Paths, Approve(c, p) PROVE FilesInv'
<1> DEFINE old == wiki[p]
           digest == Sha(c, p.tier, old.text, old.contradicts, old.revokes)
           doc == ClaimDoc("okf", c, p.tier, "approved", old.text, digest, old.contradicts, old.revokes)
<1>1. /\ mig.phase = "idle" /\ mig' = mig /\ Reads(c, p)
      /\ wiki' = [wiki EXCEPT ![p] = doc] /\ touched' = touched \ {p}
      /\ blessed' = [blessed EXCEPT ![c] = @ \cup {AsApproved(p)}]
  BY DEF Approve, Put
<1>2. /\ ParsesAt(p, old) /\ old.id = c
      /\ \A q \in Paths : wiki[q].kind = "claim" /\ wiki[q].id = c /\ q.name = c => q = p
  BY <1>1, ReadAlone DEF FilesInv
<1>3. /\ doc.kind = "claim" /\ doc.schema = "okf" /\ doc.id = c /\ doc.tier = p.tier
      /\ doc.st = "approved" /\ doc.digest = digest /\ doc.text = old.text
      /\ doc.contradicts = old.contradicts /\ doc.revokes = old.revokes /\ IsFile(doc)
  BY ClaimDocIs
<1>4. /\ digest.kind = "sha"
      /\ \A s \in digest.of : s.id = c /\ s.text = old.text /\ s.revokes = old.revokes
  BY DEF Sha
<1>5. /\ [text |-> old.text, revokes |-> old.revokes] \in blessed'[c]
      /\ \A d \in Claims : blessed[d] \subseteq blessed'[d]
      /\ blessed' = [d \in Claims |-> blessed'[d]]
  BY <1>1 DEF FilesInv, Typed, AsApproved
<1>6. SignedAt(p, doc)
  BY <1>3 DEF SignedAt
<1> HIDE DEF doc, digest
<1>7. Puts(c, p, doc)
  BY <1>1, <1>2, <1>3, <1>4, <1>6 DEF Puts, ParsesAt
<1>8. Records(p, doc)
  BY <1>3, <1>4, <1>5 DEF Records
<1> QED BY <1>7, <1>8, PutsKeep

\* A revocation keeps the digest, or what it writes is a note.
LEMMA RevokeKeeps ==
    ASSUME FilesInv, NEW c \in Claims, NEW p \in Paths, NEW reason \in Reasons,
           Revoke(c, p, reason)
    PROVE  FilesInv'
<1> DEFINE old == wiki[p]
           new == ClaimDoc("okf", c, p.tier, "revoked", old.text, old.digest, old.contradicts,
                           old.revokes + 1)
           doc == Recorded(reason, new)
<1>1. /\ mig.phase = "idle" /\ mig' = mig /\ Reads(c, p) /\ Signed(p)
      /\ wiki' = [wiki EXCEPT ![p] = doc] /\ touched' = touched \ {p} /\ blessed' = blessed
  BY DEF Revoke, Put
<1>2. /\ ParsesAt(p, old) /\ old.id = c
      /\ \A q \in Paths : wiki[q].kind = "claim" /\ wiki[q].id = c /\ q.name = c => q = p
  BY <1>1, ReadAlone DEF FilesInv
<1>3. /\ new.kind = "claim" /\ new.schema = "okf" /\ new.id = c /\ new.tier = p.tier
      /\ new.st = "revoked" /\ new.digest = old.digest /\ IsFile(new)
  BY ClaimDocIs
<1>4. old.digest.kind = "sha"
  BY <1>1 DEF Signed, Sha
<1>5. \/ doc = Note /\ SomeUnreadable
      \/ doc = new
  BY DEF Recorded, SomeUnreadable
<1>6. IsFile(doc) /\ doc.kind # "none"
  BY <1>3, <1>5 DEF IsFile, Note
<1> HIDE DEF doc, new
<1>7. Puts(c, p, doc)
  <2>1. CASE doc = Note /\ SomeUnreadable
    BY <1>1, <1>2, <1>6, <2>1 DEF Puts
  <2>2. CASE doc = new
    BY <1>1, <1>2, <1>3, <1>4, <1>6, <2>2 DEF Puts, ParsesAt
  <2> QED BY <1>5, <2>1, <2>2
<1>8. Records(p, doc)
  <2>1. /\ \A d \in Claims : blessed[d] \subseteq blessed'[d]
        /\ blessed' = [d \in Claims |-> blessed'[d]]
    BY <1>1 DEF FilesInv, Typed
  <2>2. doc.kind = "claim" => doc.digest = old.digest
    BY <1>3, <1>5 DEF Note
  <2>3. old.kind = "claim"
    BY <1>2 DEF ParsesAt
  <2> QED BY <2>1, <2>2, <2>3 DEF Records
<1> QED BY <1>7, <1>8, PutsKeep

-----------------------------------------------------------------------------
(* The migration *)

\* A migrated document parses at its path, keeps id and text, and is signed if
\* it is still approved.
LEMMA MigratedIs ==
    ASSUME NEW p \in Paths, NEW doc, ParsesAt(p, doc), IsFile(doc), doc.schema = "legacy"
    PROVE  LET new == Migrated(p, doc)
           IN  /\ new.kind = "claim" /\ new.schema = "okf" /\ new.id = doc.id
               /\ new.text = doc.text /\ ParsesAt(p, new) /\ IsFile(new)
               /\ new.digest \in {NoDigest, doc.digest}
               /\ new.st = "approved" => SignedAt(p, new)
               /\ new.st # doc.st => doc.st = "approved" /\ new.st = "draft" /\ ~SignedAt(p, doc)
<1> DEFINE new == Migrated(p, doc)
           verified == SignedAt(p, doc)
           demoted == doc.st = "approved" /\ ~verified
<1>1. /\ new.kind = "claim" /\ new.schema = "okf" /\ new.id = doc.id /\ new.tier = p.tier
      /\ new.st = (IF demoted THEN "draft" ELSE doc.st) /\ new.text = doc.text
      /\ new.digest = (IF demoted THEN NoDigest ELSE doc.digest)
      /\ new.contradicts = doc.contradicts /\ new.revokes = doc.revokes
  BY DEF Migrated, ClaimDoc, SignedAt
<1>2. IsFile(new)
  <2>1. doc.id \in Claims
    BY DEF ParsesAt, IsFile, NoDoc, Note, Broken
  <2> QED BY <2>1 DEF Migrated, ClaimDoc, IsFile
<1> HIDE DEF new
<1>3. new.digest.kind # "malformed"
  <2>1. CASE demoted
    BY <1>1, <2>1 DEF NoDigest
  <2>2. CASE doc.st = "approved" /\ verified
    BY <1>1, <2>2 DEF SignedAt, Sha
  <2>3. CASE doc.st # "approved"
    BY <1>1, <2>3 DEF ParsesAt
  <2> QED BY <2>1, <2>2, <2>3
<1>4. new.st = "approved" => SignedAt(p, new)
  BY <1>1 DEF SignedAt
<1>5. ParsesAt(p, new)
  BY <1>1, <1>3 DEF ParsesAt
<1> QED BY <1>1, <1>2, <1>4, <1>5 DEF new

\* The scan of a migration finds each claim once.
LEMMA StartKeeps == ASSUME FilesInv, StartMigration PROVE FilesInv'
<1> USE DEF FilesInv
<1>1. /\ mig' = [phase |-> "write", before |-> wiki, todo |-> Legacy, clean |-> TRUE]
      /\ UNCHANGED <<wiki, edits, touched, blessed>>
  BY DEF StartMigration
<1>2. \A p : p \in Legacy <=> p \in Paths /\ OnlyOne(wiki, p) /\ wiki[p].schema = "legacy"
  BY AcceptedAre DEF Legacy
<1>3. Typed'
  <2>1. Legacy \subseteq Paths
    BY <1>2
  <2> QED BY <1>1, <2>1 DEF Typed, Phases
<1>4. Vouching'
  BY <1>1 DEF Vouching, Vouched
<1>5. Kept' = Kept /\ Own'
  BY <1>1 DEF Kept, Own
<1>6. Planned'
  <2>1. \A q \in Kept : q \in Paths /\ (wiki[q].kind = "claim" => ParsesAt(q, wiki[q]))
    BY DEF Own, Kept, Note
  <2> QED BY <1>1, <1>2, <1>5, <2>1 DEF Planned, OnlyOne
<1>7. Migrating'
  BY <1>1, <1>2 DEF Migrating
<1> QED BY <1>3, <1>4, <1>5, <1>6, <1>7

\* Each write of a migration is of the only document of its claim, so what the
\* scan accepts stays the same but for the schema.
LEMMA MigrateKeeps == ASSUME FilesInv, NEW p \in Paths, MigrateOne(p) PROVE FilesInv'
<1> USE DEF FilesInv
<1> DEFINE old == mig.before[p]
           doc == Migrated(p, old)
<1>1. /\ mig.phase = "write" /\ p \in mig.todo
      /\ wiki' = [wiki EXCEPT ![p] = doc] /\ touched' = touched \ {p}
      /\ mig' = [mig EXCEPT !.todo = @ \ {p}] /\ blessed' = blessed
  BY DEF MigrateOne, Put
<1>2. /\ wiki' = [q \in Paths |-> wiki'[q]] /\ wiki'[p] = doc
      /\ \A q \in Paths : q # p => wiki'[q] = wiki[q]
  BY <1>1 DEF Typed
<1>3. /\ mig'.phase = "write" /\ mig'.before = mig.before /\ mig'.todo = mig.todo \ {p}
      /\ mig'.clean = mig.clean
      /\ mig' = [phase |-> mig'.phase, before |-> mig'.before, todo |-> mig'.todo,
                 clean |-> mig'.clean]
  BY <1>1 DEF Typed
<1>4. ParsesAt(p, old) /\ old.schema = "legacy" /\ IsFile(old)
  BY <1>1 DEF Planned, Typed
<1>5. /\ doc.kind = "claim" /\ doc.schema = "okf" /\ doc.id = old.id
      /\ doc.text = old.text /\ ParsesAt(p, doc) /\ IsFile(doc)
      /\ doc.digest \in {NoDigest, old.digest}
      /\ doc.st = "approved" => SignedAt(p, doc)
  BY <1>4, MigratedIs
<1> HIDE DEF doc
<1>6. Typed'
  BY <1>1, <1>2, <1>3, <1>5 DEF Typed, Phases
<1>7. Vouching'
  <2>1. ASSUME NEW s \in doc.digest.of
        PROVE  s.id \in Claims /\ [text |-> s.text, revokes |-> s.revokes] \in blessed'[s.id]
    <3>1. s \in old.digest.of
      BY <1>5 DEF NoDigest
    <3>2. \A d \in old.digest.of :
             d.id \in Claims /\ [text |-> d.text, revokes |-> d.revokes] \in blessed[d.id]
      BY <1>1, <1>4 DEF Vouching, Vouched, ParsesAt, Typed
    <3> QED BY <1>1, <3>1, <3>2
  <2>2. \A q \in Paths : Vouched(mig.before[q])'
    BY <1>1, <1>3 DEF Vouching, Vouched
  <2>3. \A q \in Paths : q # p => Vouched(wiki[q])'
    BY <1>1, <1>2 DEF Vouching, Vouched
  <2>4. Vouched(wiki[p])'
    BY <1>2, <2>1 DEF Vouched
  <2> QED BY <2>2, <2>3, <2>4 DEF Vouching
<1>8. Kept' \subseteq Kept \cup {p} /\ Kept' \subseteq Paths
  BY <1>1, <1>2 DEF Kept
<1>9. \A q \in Kept' : wiki'[q].kind = "claim" /\ wiki'[q].id = old.id => q = p
  BY <1>1, <1>2, <1>8 DEF Planned
<1>10. Own'
  <2>1. ASSUME NEW q \in Kept', q # p
        PROVE  \/ wiki'[q] = Note /\ SomeUnreadable
               \/ /\ ParsesAt(q, wiki'[q]) /\ wiki'[q].schema = "okf"
                  /\ wiki'[q].st = "approved" => SignedAt(q, wiki'[q])
                  /\ \A r \in Kept' : wiki'[r].kind = "claim" /\ wiki'[r].id = wiki'[q].id
                        /\ q.name = wiki'[q].id /\ r.name = wiki'[q].id => r = q
    <3>1. q \in Kept /\ wiki'[q] = wiki[q]
      BY <1>2, <1>8, <2>1
    <3>2. CASE wiki[q] = Note /\ SomeUnreadable
      BY <3>1, <3>2
    <3>3. CASE /\ ParsesAt(q, wiki[q]) /\ wiki[q].schema = "okf"
               /\ wiki[q].st = "approved" => SignedAt(q, wiki[q])
               /\ \A r \in Kept : wiki[r].kind = "claim" /\ wiki[r].id = wiki[q].id
                                  /\ q.name = wiki[q].id /\ r.name = wiki[q].id => r = q
      <4>1. ASSUME NEW r \in Kept', wiki'[r].kind = "claim", wiki'[r].id = wiki[q].id,
                   q.name = wiki[q].id, r.name = wiki[q].id
            PROVE  r = q
        <5>1. CASE r # p
          <6>1. r \in Kept /\ wiki'[r] = wiki[r]
            BY <1>2, <1>8, <5>1
          <6> QED BY <3>3, <4>1, <6>1
        <5>2. CASE r = p
          <6>1. wiki'[q].kind = "claim" /\ wiki'[q].id = old.id
            BY <1>2, <1>5, <3>1, <3>3, <4>1, <5>2 DEF ParsesAt
          <6> QED BY <1>9, <2>1, <6>1
        <5> QED BY <5>1, <5>2
      <4> QED BY <3>1, <3>3, <4>1
    <3> QED BY <3>1, <3>2, <3>3 DEF Own
  <2>2. /\ ParsesAt(p, wiki'[p]) /\ wiki'[p].schema = "okf"
        /\ wiki'[p].st = "approved" => SignedAt(p, wiki'[p])
        /\ \A r \in Kept' : wiki'[r].kind = "claim" /\ wiki'[r].id = wiki'[p].id => r = p
    BY <1>2, <1>5, <1>9
  <2> QED BY <2>1, <2>2 DEF Own
<1>11. Planned'
  <2>1. ASSUME NEW r \in mig.todo, r # p, NEW q \in Kept', wiki'[q].kind = "claim",
               wiki'[q].id = mig.before[r].id
        PROVE  q = r
    <3>1. CASE q = p
      <4>1. old.id = mig.before[r].id
        BY <1>2, <1>5, <2>1, <3>1
      <4> QED BY <1>1, <2>1, <4>1 DEF Planned
    <3>2. CASE q # p
      <4>1. q \in Kept /\ wiki'[q] = wiki[q]
        BY <1>2, <1>8, <3>2
      <4> QED BY <1>1, <2>1, <4>1 DEF Planned
    <3> QED BY <3>1, <3>2
  <2> QED BY <1>1, <1>3, <2>1 DEF Planned
<1>12. Migrating'
  <2> SUFFICES ASSUME mig.clean = TRUE PROVE Migrating'
    BY <1>3 DEF Migrating, Typed
  <2>1. /\ wiki[p] = old /\ OnlyOne(wiki, p)
        /\ \A q \in mig.todo : wiki[q] = mig.before[q] /\ OnlyOne(wiki, q)
    BY <1>1 DEF Migrating
  <2>2. \A q \in Paths : /\ ParsesAt(q, wiki'[q]) <=> ParsesAt(q, wiki[q])
                         /\ wiki'[q].id = wiki[q].id
    BY <1>2, <1>4, <1>5, <2>1
  <2>3. \A q \in Paths : OnlyOne(wiki', q) <=> OnlyOne(wiki, q)
    BY <2>2 DEF OnlyOne
  <2>4. p \in Paths /\ mig.todo \subseteq Paths
    BY <1>1 DEF Typed
  <2>5. \A q \in mig'.todo : wiki'[q] = mig'.before[q] /\ OnlyOne(wiki', q)
    BY <1>2, <1>3, <2>1, <2>3, <2>4
  <2>6. \A q \in Paths : wiki'[q].schema = "legacy" /\ OnlyOne(wiki', q) => q \in mig'.todo
    BY <1>1, <1>2, <1>3, <1>5, <2>3 DEF Migrating
  <2>7. \A q \in Paths : wiki'[q] # mig'.before[q] =>
           /\ ParsesAt(q, mig'.before[q]) /\ mig'.before[q].schema = "legacy"
           /\ wiki'[q] = Migrated(q, mig'.before[q]) /\ OnlyOne(wiki', q)
    <3>1. \A q \in Paths : q # p => (wiki'[q] # mig'.before[q] =>
             /\ ParsesAt(q, mig'.before[q]) /\ mig'.before[q].schema = "legacy"
             /\ wiki'[q] = Migrated(q, mig'.before[q]) /\ OnlyOne(wiki', q))
      BY <1>1, <1>2, <1>3, <2>3 DEF Migrating
    <3>2. /\ ParsesAt(p, mig'.before[p]) /\ mig'.before[p].schema = "legacy"
          /\ wiki'[p] = Migrated(p, mig'.before[p]) /\ OnlyOne(wiki', p)
      BY <1>2, <1>3, <1>4, <2>1, <2>3, <2>4 DEF doc
    <3> QED BY <3>1, <3>2
  <2> QED BY <2>5, <2>6, <2>7 DEF Migrating
<1> QED BY <1>6, <1>7, <1>10, <1>11, <1>12

\* The end of a migration, whichever way.
LEMMA FinishKeeps == ASSUME FilesInv, MigrationDone \/ MigrationEnds PROVE FilesInv'
<1> USE DEF FilesInv
<1>1. UNCHANGED <<wiki, touched, blessed>> /\ Kept' = Kept
  BY DEF MigrationDone, MigrationEnds, Kept
<1>2. Own'
  BY <1>1 DEF Own
<1>3. CASE MigrationDone
  <2>1. /\ mig' = [phase |-> "done", before |-> mig.before, todo |-> mig.todo, clean |-> mig.clean]
          /\ mig.phase = "write" /\ mig.todo = {}
    BY <1>3 DEF MigrationDone, Typed
  <2>2. Typed'
    BY <1>1, <2>1 DEF Typed, Phases
  <2>3. Vouching'
    BY <1>1, <2>1 DEF Vouching, Vouched
  <2>4. Planned'
    BY <1>1, <2>1 DEF Planned
  <2>5. Migrating'
    BY <1>1, <2>1 DEF Migrating
  <2> QED BY <1>2, <2>2, <2>3, <2>4, <2>5
<1>4. CASE MigrationEnds
  <2>1. mig' = [phase |-> "idle", before |-> [p \in Paths |-> NoDoc], todo |-> {}, clean |-> TRUE]
    BY <1>4 DEF MigrationEnds, Idle
  <2>2. IsFile(NoDoc) /\ NoDoc.kind # "claim"
    BY DEF IsFile, NoDoc
  <2>3. Typed'
    BY <1>1, <2>1, <2>2 DEF Typed, Phases
  <2>4. Vouching'
    BY <1>1, <2>1, <2>2 DEF Vouching, Vouched
  <2> QED BY <1>2, <2>1, <2>3, <2>4 DEF Planned, Migrating
<1> QED BY <1>3, <1>4

\* One case per action.
LEMMA NextKeeps == FilesInv /\ [Next]_vars => FilesInv'
<1> SUFFICES ASSUME FilesInv, [Next]_vars PROVE FilesInv'
  OBVIOUS
<1>1. ASSUME NEW c \in Claims, NEW t \in Tiers, NEW text \in Texts, NewDraft(c, t, text) PROVE FilesInv'
  BY <1>1, NewDraftKeeps
<1>2. ASSUME NEW c \in Claims, NEW p \in Paths, Approve(c, p) PROVE FilesInv'
  BY <1>2, ApproveKeeps
<1>3. ASSUME NEW c \in Claims, NEW p \in Paths, NEW reason \in Reasons, Revoke(c, p, reason)
      PROVE  FilesInv'
  BY <1>3, RevokeKeeps
<1>4. ASSUME NEW c \in Claims, NEW p \in Paths, NEW text \in Texts, Redraft(c, p, text) PROVE FilesInv'
  BY <1>4, RedraftKeeps
<1>5. CASE StartMigration
  BY <1>5, StartKeeps
<1>6. CASE MigrationDone \/ MigrationEnds
  BY <1>6, FinishKeeps
<1>7. ASSUME NEW p \in Paths, MigrateOne(p) PROVE FilesInv'
  BY <1>7, MigrateKeeps
<1>8. ASSUME NEW p \in Paths, NEW q \in Paths,
             \/ Copy(p, q) \/ Move(p, q) \/ Damage(p)
             \/ \E text \in Texts : Rewrite(p, text)
             \/ \E st \in Statuses : SetStatus(p, st)
      PROVE  FilesInv'
  <2>1. EditsFiles
    BY <1>8, OutsideEdits DEF FilesInv
  <2> QED BY <2>1, EditsKeep
<1>9. CASE UNCHANGED vars
  <2>1. wiki' = wiki /\ mig' = mig /\ touched' = touched /\ blessed' = blessed
    BY <1>9 DEF vars
  <2>2. Kept' = Kept
    BY <2>1 DEF Kept
  <2>3. Typed'
    BY <2>1 DEF FilesInv, Typed
  <2>4. Vouching'
    BY <2>1 DEF FilesInv, Vouching, Vouched
  <2>5. Own'
    BY <2>1, <2>2 DEF FilesInv, Own
  <2>6. Planned'
    BY <2>1, <2>2 DEF FilesInv, Planned
  <2>7. Migrating'
    BY <2>1 DEF FilesInv, Migrating
  <2> QED BY <2>3, <2>4, <2>5, <2>6, <2>7 DEF FilesInv
<1> QED BY <1>1, <1>2, <1>3, <1>4, <1>5, <1>6, <1>7, <1>8, <1>9 DEF Next

\* The invariant holds for any claims, paths, texts and start wikis, and any number
\* of outside edits.
THEOREM FilesInvariance == Spec => []FilesInv
BY InitInv, NextKeeps, PTL DEF Spec

-----------------------------------------------------------------------------
(* Theorems *)

\* What a scan accepts as approved was approved under this id, with this text and
\* after this many revocations (verify_claim_digest, migrate_legacy_claim).
THEOREM BlessedTheorem == Spec => []OnlyBlessedText
<1>1. FilesInv => OnlyBlessedText
  <2> SUFFICES ASSUME FilesInv, NEW p \in Accepted(TRUE), wiki[p].st = "approved"
               PROVE  AsApproved(p) \in blessed[wiki[p].id]
    BY DEF OnlyBlessedText
  <2>1. p \in Paths /\ ParsesAt(p, wiki[p]) /\ SignedAt(p, wiki[p])
    BY AcceptedAre DEF OnlyOne
  <2> DEFINE s == [id |-> wiki[p].id, tier |-> p.tier, text |-> wiki[p].text,
                   contradicts |-> wiki[p].contradicts, revokes |-> wiki[p].revokes]
  <2>2. s \in wiki[p].digest.of
    BY <2>1 DEF SignedAt, Sha
  <2>3. [text |-> s.text, revokes |-> s.revokes] \in blessed[s.id]
    BY <2>1, <2>2 DEF FilesInv, Vouching, Vouched, ParsesAt
  <2> QED BY <2>3 DEF AsApproved
<1> QED BY <1>1, FilesInvariance, PTL

\* A migration that reports success, and that nobody interfered with, kept every
\* claim, its text and its status, but for approvals it cannot verify; and nothing
\* legacy that a scan accepts is left (migrate_okf).
THEOREM MigrationTheorem == Spec => []MigrationIsFaithful
<1>1. FilesInv => MigrationIsFaithful
  <2> SUFFICES ASSUME FilesInv, mig.phase = "done", mig.clean PROVE MigrationIsFaithful
    BY DEF MigrationIsFaithful
  <2>1. mig.todo = {} /\ Typed /\ Migrating
    BY DEF FilesInv, Planned
  <2>2. Legacy = {}
    <3>1. \A p : p \in Legacy <=> p \in Paths /\ OnlyOne(wiki, p) /\ wiki[p].schema = "legacy"
      BY AcceptedAre DEF Legacy
    <3> QED BY <2>1, <3>1 DEF Migrating
  <2>3. ASSUME NEW p \in Paths, wiki[p] # mig.before[p]
        PROVE  LET old == mig.before[p]  new == wiki[p]
               IN  /\ old.schema = "legacy" /\ new.id = old.id /\ new.text = old.text
                   /\ p \in Accepted(TRUE)
                   /\ new.st # old.st =>
                        /\ old.st = "approved" /\ new.st = "draft"
                        /\ old.digest # Sha(old.id, p.tier, old.text, old.contradicts, old.revokes)
    <3> DEFINE old == mig.before[p]
               new == wiki[p]
    <3>1. /\ ParsesAt(p, old) /\ old.schema = "legacy" /\ IsFile(old)
          /\ new = Migrated(p, old) /\ OnlyOne(wiki, p)
      BY <2>1, <2>3 DEF Migrating, Typed
    <3>2. /\ new.id = old.id /\ new.text = old.text
          /\ new.st = "approved" => SignedAt(p, new)
          /\ new.st # old.st => old.st = "approved" /\ new.st = "draft" /\ ~SignedAt(p, old)
      BY <3>1, MigratedIs
    <3>3. p \in Accepted(TRUE)
      BY <3>1, <3>2, AcceptedAre
    <3> QED BY <3>1, <3>2, <3>3 DEF SignedAt
  <2> QED BY <2>2, <2>3 DEF MigrationIsFaithful
<1> QED BY <1>1, FilesInvariance, PTL

\* The lookup of an id and the scan agree on the file (read_canonical_claims_by_id,
\* scan_workspace_inner).
THEOREM FoundTheorem == Spec => []FoundAsAccepted
<1>1. FilesInv => FoundAsAccepted
  <2> SUFFICES ASSUME FilesInv, NEW p \in Accepted(FALSE), Lookup(wiki[p].id).ok
               PROVE  /\ Lookup(wiki[p].id).paths \subseteq {p}
                      /\ (p.name = wiki[p].id \/ HasNested) => Lookup(wiki[p].id).paths = {p}
    BY DEF FoundAsAccepted
  <2>1. /\ p \in Paths /\ ParsesAt(p, wiki[p])
        /\ \A q \in Paths : ParsesAt(q, wiki[q]) /\ wiki[q].id = wiki[p].id => q = p
    BY AcceptedAre DEF OnlyOne
  <2>2. wiki[p].id \in Claims
    <3>1. IsFile(wiki[p]) /\ wiki[p].kind = "claim"
      BY <2>1 DEF FilesInv, Typed, ParsesAt
    <3> QED BY <3>1 DEF IsFile, NoDoc, Note, Broken
  <2>3. p \in Docs
    BY <2>1 DEF Docs, Files, ParsesAt
  <2>4. \A q \in Flat(wiki[p].id) : ParsesAt(q, wiki[q]) /\ q \in Paths /\ q.name = wiki[p].id
    BY AtPaths DEF Lookup, Flat, Files
  <2>5. CASE HasNested
    <3>1. \A q \in Docs : ParsesAt(q, wiki[q]) /\ q \in Paths
      BY <2>5, AtPaths DEF Lookup, Docs, Files
    <3>2. Lookup(wiki[p].id).paths = {q \in Docs : wiki[q].id = wiki[p].id}
      BY <2>5 DEF Lookup
    <3> QED BY <2>1, <2>3, <3>1, <3>2
  <2>6. CASE ~HasNested
    <3>1. Lookup(wiki[p].id).paths = Flat(wiki[p].id)
      BY <2>6 DEF Lookup
    <3>2. Flat(wiki[p].id) \subseteq {p}
      BY <2>1, <2>2, <2>4 DEF ParsesAt
    <3>3. p.name = wiki[p].id => p \in Flat(wiki[p].id)
      BY <2>1, <2>3, <2>6, PathsAssumption DEF Flat, HasNested, Docs
    <3> QED BY <2>6, <3>1, <3>2, <3>3
  <2> QED BY <2>5, <2>6
<1> QED BY <1>1, FilesInvariance, PTL

\* A file that a command wrote and nobody changed since is read as the claim it
\* was written for, with its digest, however often it was drafted, approved,
\* revoked or migrated (write_claim_atomic, parse_claim_markdown, scan_workspace);
\* but for a revocation whose reason cannot be read back.
THEOREM WrittenTheorem == Spec => []WrittenIsAccepted
<1>1. FilesInv => WrittenIsAccepted
  <2> SUFFICES ASSUME FilesInv, NEW p \in Files \ touched
               PROVE  \/ wiki[p] = Note /\ \E reason \in Reasons : Y!ChooseStyle(reason) = "literal"
                      \/ /\ Parses(p) /\ wiki[p].schema = "okf"
                         /\ {q \in Sharing(p) \ touched : {p.name, q.name} = {wiki[p].id}} \subseteq {p}
                         /\ Sharing(p) = {p} => p \in Accepted(TRUE)
    BY DEF WrittenIsAccepted
  <2>1. p \in Kept /\ p \in Paths
    BY DEF Kept, Files
  <2>2. CASE wiki[p] = Note /\ SomeUnreadable
    BY <2>2, ReasonsAreRead DEF SomeUnreadable
  <2>3. CASE /\ ParsesAt(p, wiki[p]) /\ wiki[p].schema = "okf"
             /\ wiki[p].st = "approved" => SignedAt(p, wiki[p])
             /\ \A q \in Kept : wiki[q].kind = "claim" /\ wiki[q].id = wiki[p].id
                                /\ p.name = wiki[p].id /\ q.name = wiki[p].id => q = p
    <3>1. Parses(p) /\ (wiki[p].st = "approved" => Signed(p)) /\ p \in Docs
      BY <2>3, AtPaths DEF Docs, ParsesAt
    <3>2. \A q \in Sharing(p) \ touched : q \in Kept /\ wiki[q].kind = "claim" /\ wiki[q].id = wiki[p].id
      BY AtPaths DEF Sharing, Docs, Files, Kept, ParsesAt
    <3>3. {q \in Sharing(p) \ touched : {p.name, q.name} = {wiki[p].id}} \subseteq {p}
      BY <2>3, <3>2
    <3>4. Sharing(p) = {p} => p \in Accepted(TRUE)
      BY <3>1 DEF Accepted
    <3> QED BY <2>3, <3>1, <3>3, <3>4
  <2> QED BY <2>1, <2>2, <2>3 DEF FilesInv, Own
<1> QED BY <1>1, FilesInvariance, PTL

\* Whatever string is written into frontmatter, wherever it is allowed to, a lone
\* line break excepted, and whatever valid claim is rendered, is read back as it was (choose_style,
\* write_literal, render_claim_markdown, parse_claim_markdown).  Nothing in it
\* depends on a state, so it holds in all.
THEOREM ReadsBackTheorem == Spec => []FrontmatterReadsBack
<1>1. FrontmatterReadsBack
  <2>1. ASSUME NEW s \in Scalars, NEW place \in Y!Places
        PROVE  \/ Y!ChooseStyle(s) = "literal" /\ place = "item"
               \/ Y!ChooseStyle(s) = "literal" /\ place # "root" /\ s[1] \in {" ", "nl"}
               \/ Y!ReadBack(s, place) = IF s = <<"nl">> THEN <<>> ELSE s
    <3>1. s \in Y!Strings
      BY StringsAssumption, Zenon
    <3> QED BY <3>1, ScalarsReadBack, Zenon DEF Indents, AsKept
  <2>2. ASSUME NEW c \in Renderings, F!Valid(c)
        PROVE  F!Read(F!Written(c), c.tier) = F!Claim([c EXCEPT !.schema = "", !.type = F!OkfType])
    <3>1. c \in F!ClaimStructs
      BY RenderingsAssumption, Zenon
    <3> QED BY <2>2, <3>1, ClaimsReadBack, Zenon DEF AsRead
  <2> QED BY <2>1, <2>2, Zenon DEF FrontmatterReadsBack
<1> QED BY <1>1, PTL

=============================================================================
