-------------------------- MODULE InductionLemmas --------------------------
(***************************************************************************)
(* Induction over the natural numbers, for sets instead of operators, and  *)
(* what follows from it for sequences that are put together.  It rests on  *)
(* the smallest element that every set of numbers has: < is well-founded.  *)
(* The last part is about definitions by recursion on other relations.     *)
(***************************************************************************)
EXTENDS Integers, SequencesExt, SequenceTheorems, WellFoundedInduction, TLAPS

\* Every set of numbers that is not empty has a smallest one.
LEMMA LeastElement ==
    ASSUME NEW T \in SUBSET Nat, T # {}
    PROVE  \E n \in T : \A m \in T : n <= m
<1> DEFINE R == OpToRel(<, Nat)
<1>1. IsWellFoundedOn(R, Nat)
  BY NatLessThanWellFounded
<1>2. \A i, j \in Nat : i < j => <<i, j>> \in R
  BY DEF OpToRel
<1> HIDE DEF R
<1>3. PICK n \in T : \A m \in T : ~ (<<m, n>> \in R)
  BY <1>1, WFMin
<1>4. ASSUME NEW m \in T PROVE n <= m
  <2>1. m \in Nat /\ n \in Nat
    OBVIOUS
  <2>2. ~(m < n)
    BY <1>2, <1>3, <2>1
  <2>3. QED
    BY <2>1, <2>2
<1>5. QED
  BY <1>4

\* A set of numbers with 0, and with n + 1 for every n in it, has them all.
LEMMA Induction ==
    ASSUME NEW T \in SUBSET Nat, 0 \in T, \A n \in T : n + 1 \in T
    PROVE  T = Nat
<1> SUFFICES ASSUME T # Nat PROVE FALSE
  OBVIOUS
<1>1. PICK n \in Nat \ T : \A m \in Nat \ T : n <= m
  BY LeastElement
<1>2. n # 0 /\ n - 1 \in Nat
  BY <1>1
<1>3. n - 1 \in T
  BY <1>1, <1>2
<1>4. n - 1 + 1 \in T
  BY <1>3
<1>5. QED
  BY <1>1, <1>4

\* What is defined by its value at 0 and a step from each value to the next.
LEMMA IterationExists ==
    ASSUME NEW T, NEW a \in T, NEW N \in Nat, NEW g \in [1..N -> [T -> T]]
    PROVE  \E f \in [0..N -> T] : f[0] = a /\ \A n \in 1..N : f[n] = g[n][f[n - 1]]
<1> DEFINE Steps(m, f) == f[0] = a /\ \A n \in 1..m : f[n] = g[n][f[n - 1]]
           P(m) == m <= N => \E f \in [0..m -> T] : Steps(m, f)
           U == {m \in Nat : P(m)}
<1>1. P(0)
  <2>1. [n \in 0..0 |-> a] \in [0..0 -> T] /\ Steps(0, [n \in 0..0 |-> a])
    OBVIOUS
  <2>2. QED
    BY <2>1
<1>2. ASSUME NEW m \in Nat, P(m)
      PROVE  P(m + 1)
  <2>1. SUFFICES ASSUME m + 1 <= N
                 PROVE  \E f \in [0..(m + 1) -> T] : Steps(m + 1, f)
    <3> HIDE DEF Steps
    <3>1. QED
      OBVIOUS
  <2>2. PICK f \in [0..m -> T] : Steps(m, f)
    <3> HIDE DEF Steps
    <3>1. QED
      BY <1>2, <2>1
  <2>3. m + 1 \in 1..N /\ f[m] \in T
    BY <2>1
  <2>4. g[m + 1][f[m]] \in T
    BY <2>3
  <2> DEFINE h == [n \in 0..(m + 1) |-> IF n = m + 1 THEN g[m + 1][f[m]] ELSE f[n]]
  <2>5. h \in [0..(m + 1) -> T]
    <3>1. \A n \in 0..(m + 1) : n = m + 1 \/ n \in 0..m
      OBVIOUS
    <3>2. QED
      BY <2>4, <3>1
  <2>6. Steps(m + 1, h)
    <3>1. h[0] = f[0] /\ h[m] = f[m] /\ h[m + 1] = g[m + 1][f[m]]
      OBVIOUS
    <3>2. ASSUME NEW n \in 1..m
          PROVE  h[n] = g[n][h[n - 1]]
      <4>1. h[n - 1] = f[n - 1] /\ h[n] = f[n]
        OBVIOUS
      <4>2. QED
        BY <2>2, <4>1
    <3> HIDE DEF h
    <3>3. ASSUME NEW n \in 1..(m + 1)
          PROVE  h[n] = g[n][h[n - 1]]
      <4>1. CASE n = m + 1
        <5>1. n - 1 = m
          BY <4>1
        <5>2. QED
          BY <3>1, <4>1, <5>1
      <4>2. CASE n # m + 1
        <5>1. n \in 1..m
          BY <4>2
        <5>2. QED
          BY <3>2, <5>1
      <4>3. QED
        BY <4>1, <4>2
    <3>4. QED
      BY <2>2, <3>1, <3>3
  <2> HIDE DEF h, Steps
  <2>7. QED
    BY <2>5, <2>6
<1>3. P(N)
  <2> HIDE DEF P
  <2>1. U \in SUBSET Nat /\ 0 \in U /\ \A m \in U : m + 1 \in U
    BY <1>1, <1>2
  <2>2. U = Nat
    <3> HIDE DEF U
    <3>1. QED
      BY <2>1, Induction
  <2>3. QED
    BY <2>2
<1>4. QED
  <2> HIDE DEF Steps
  <2>1. PICK f \in [0..N -> T] : Steps(N, f)
    BY <1>3
  <2>2. QED
    BY <2>1 DEF Steps

-----------------------------------------------------------------------------
\* FlattenSeq is the last of the sequences that are put together one by one.
LEMMA FlattenIs ==
    ASSUME NEW S, NEW seqs \in Seq(Seq(S)), seqs # <<>>,
           NEW flat, flat = [n \in 0..Len(seqs) |-> flat[n]], flat[0] = <<>>,
           \A n \in 1..Len(seqs) : flat[n] = flat[n - 1] \o seqs[n]
    PROVE  FlattenSeq(seqs) = flat[Len(seqs)]
<1> DEFINE Def(f) == [i \in 1..Len(seqs) |->
                        IF i = 1 THEN seqs[i] ELSE f[i - 1] \o seqs[i]]
           f == CHOOSE g : g = Def(g)
           h == [i \in 1..Len(seqs) |-> flat[i]]
<1>0. Len(seqs) \in Nat \ {0}
  BY EmptySeq
<1>1. h = Def(h)
  <2>1. ASSUME NEW i \in 1..Len(seqs)
        PROVE  flat[i] = IF i = 1 THEN seqs[i] ELSE h[i - 1] \o seqs[i]
    <3>1. CASE i = 1
      <4>1. flat[1] = <<>> \o seqs[1]
        BY <3>1, SMTT(30)
      <4>2. seqs[1] \in Seq(S)
        BY <3>1, ElementOfSeq
      <4>3. QED
        BY <3>1, <4>1, <4>2, ConcatEmptySeq
    <3>2. CASE i # 1
      <4>1. i - 1 \in 1..Len(seqs)
        BY <1>0, <3>2
      <4>2. QED
        BY <3>2, <4>1
    <3>3. QED
      BY <3>1, <3>2
  <2>2. QED
    BY <2>1
<1>2. f = Def(f)
  BY <1>1
<1>3. \A n \in 1..Len(seqs) : f[n] = h[n]
  <2> DEFINE T == {n \in Nat : n \in 1..Len(seqs) => f[n] = h[n]}
  <2> HIDE DEF f, h
  <2>0. /\ \A n \in 1..Len(seqs) :
             f[n] = IF n = 1 THEN seqs[n] ELSE f[n - 1] \o seqs[n]
        /\ \A n \in 1..Len(seqs) :
             h[n] = IF n = 1 THEN seqs[n] ELSE h[n - 1] \o seqs[n]
    <3>1. /\ \A n \in 1..Len(seqs) : Def(f)[n] = IF n = 1 THEN seqs[n] ELSE f[n - 1] \o seqs[n]
          /\ \A n \in 1..Len(seqs) : Def(h)[n] = IF n = 1 THEN seqs[n] ELSE h[n - 1] \o seqs[n]
      OBVIOUS
    <3> HIDE DEF Def
    <3>2. QED
      BY <1>1, <1>2, <3>1
  <2>1. 0 \in T
    OBVIOUS
  <2>2. ASSUME NEW n \in T PROVE n + 1 \in T
    <3>1. CASE n + 1 \in 1..Len(seqs)
      <4>1. /\ f[n + 1] = IF n + 1 = 1 THEN seqs[n + 1] ELSE f[n + 1 - 1] \o seqs[n + 1]
            /\ h[n + 1] = IF n + 1 = 1 THEN seqs[n + 1] ELSE h[n + 1 - 1] \o seqs[n + 1]
        BY <2>0, <3>1
      <4>2. n # 0 => n \in 1..Len(seqs)
        BY <1>0, <3>1
      <4>3. n + 1 - 1 = n
        OBVIOUS
      <4>4. QED
        BY <4>1, <4>2, <4>3
    <3>2. QED
      BY <3>1
  <2>3. T = Nat
    <3>1. T \in SUBSET Nat
      OBVIOUS
    <3> HIDE DEF T
    <3>2. QED
      BY <2>1, <2>2, <3>1, Induction
  <2>4. QED
    BY <2>3
<1>4. FlattenSeq(seqs) = f[Len(seqs)]
  BY <1>0 DEF FlattenSeq
<1> HIDE DEF f, h
<1>5. f[Len(seqs)] = h[Len(seqs)]
  BY <1>0, <1>3
<1>6. QED
  BY <1>0, <1>4, <1>5 DEF h

\* flat[n] is the first n sequences put together.
Joins(S, seqs, flat) ==
    /\ seqs \in Seq(Seq(S))
    /\ flat \in [0..Len(seqs) -> Seq(S)]
    /\ flat[0] = <<>>
    /\ \A n \in 1..Len(seqs) : flat[n] = flat[n - 1] \o seqs[n]

LEMMA JoinsExist ==
    ASSUME NEW S, NEW seqs \in Seq(Seq(S))
    PROVE  \E flat \in [0..Len(seqs) -> Seq(S)] : Joins(S, seqs, flat)
  <1> DEFINE Joined(n, flat) ==
                /\ flat[0] = <<>>
                /\ \A k \in 1..n : flat[k] = flat[k - 1] \o seqs[k]
             P(n) == n <= Len(seqs) => \E flat \in [0..n -> Seq(S)] : Joined(n, flat)
             T == {n \in Nat : P(n)}
  <1>1. Len(seqs) \in Nat /\ \A n \in 1..Len(seqs) : seqs[n] \in Seq(S)
    OBVIOUS
  <1>2. P(0)
    <2>1. <<>> \in Seq(S)
      OBVIOUS
    <2>2. [n \in 0..0 |-> <<>>] \in [0..0 -> Seq(S)] /\ Joined(0, [n \in 0..0 |-> <<>>])
      BY <2>1
    <2>3. QED
      BY <2>2
  <1>3. ASSUME NEW n \in Nat, P(n)
        PROVE  P(n + 1)
    <2>1. SUFFICES ASSUME n + 1 <= Len(seqs)
                   PROVE  \E flat \in [0..(n + 1) -> Seq(S)] : Joined(n + 1, flat)
      <3> HIDE DEF Joined
      <3>1. QED
        OBVIOUS
    <2>2. PICK flat \in [0..n -> Seq(S)] : Joined(n, flat)
      <3> HIDE DEF Joined
      <3>1. QED
        BY <1>1, <1>3, <2>1
    <2>3. seqs[n + 1] \in Seq(S) /\ flat[n] \in Seq(S)
      BY <1>1, <2>1
    <2> DEFINE more == [k \in 0..(n + 1) |-> IF k = n + 1 THEN flat[n] \o seqs[n + 1]
                                             ELSE flat[k]]
    <2>4. more \in [0..(n + 1) -> Seq(S)]
      <3>1. flat[n] \o seqs[n + 1] \in Seq(S)
        BY <2>3
      <3>2. \A k \in 0..(n + 1) : k = n + 1 \/ k \in 0..n
        OBVIOUS
      <3>3. QED
        BY <3>1, <3>2
    <2>5. Joined(n + 1, more)
      <3>1. more[0] = flat[0] /\ more[n] = flat[n] /\ more[n + 1] = flat[n] \o seqs[n + 1]
        OBVIOUS
      <3>2. ASSUME NEW k \in 1..n
            PROVE  more[k] = more[k - 1] \o seqs[k]
        <4>1. more[k - 1] = flat[k - 1] /\ more[k] = flat[k]
          OBVIOUS
        <4>2. QED
          BY <2>2, <4>1
      <3> HIDE DEF more
      <3>3. ASSUME NEW k \in 1..(n + 1)
            PROVE  more[k] = more[k - 1] \o seqs[k]
        <4>1. CASE k = n + 1
          <5>1. k - 1 = n
            BY <4>1
          <5>2. QED
            BY <3>1, <4>1, <5>1
        <4>2. CASE k # n + 1
          <5>1. k \in 1..n
            BY <4>2
          <5>2. QED
            BY <3>2, <5>1
        <4>3. QED
          BY <4>1, <4>2
      <3>4. QED
        BY <2>2, <3>1, <3>3
    <2> HIDE DEF more, Joined
    <2>6. QED
      BY <2>4, <2>5
  <1>4. P(Len(seqs))
    <2> HIDE DEF P
    <2>1. T \in SUBSET Nat /\ 0 \in T /\ \A n \in T : n + 1 \in T
      BY <1>2, <1>3
    <2>2. T = Nat
      <3> HIDE DEF T
      <3>1. QED
        BY <2>1, Induction
    <2>3. QED
      BY <1>1, <2>2
  <1>5. PICK flat \in [0..Len(seqs) -> Seq(S)] : Joined(Len(seqs), flat)
    <2> HIDE DEF Joined
    <2>1. QED
      BY <1>1, <1>4
  <1>6. Joins(S, seqs, flat)
    BY <1>5 DEF Joins
  <1>7. QED
    BY <1>6

LEMMA FlattenJoins ==
    ASSUME NEW S, NEW seqs, NEW flat, Joins(S, seqs, flat)
    PROVE  FlattenSeq(seqs) = flat[Len(seqs)]
  <1>1. CASE seqs = <<>>
    BY <1>1, EmptySeq DEF FlattenSeq, Joins
  <1>2. CASE seqs # <<>>
    BY <1>2, FlattenIs DEF Joins
  <1>3. QED
    BY <1>1, <1>2

\* What is joined later is not shorter.
LEMMA JoinsGrow ==
    ASSUME NEW S, NEW seqs, NEW flat, Joins(S, seqs, flat),
           NEW m \in 0..Len(seqs)
    PROVE  Len(flat[m]) <= Len(flat[Len(seqs)])
  <1> DEFINE P(n) == n \in m..Len(seqs) => Len(flat[m]) <= Len(flat[n])
             T == {n \in Nat : P(n)}
  <1>0. seqs \in Seq(Seq(S)) /\ flat \in [0..Len(seqs) -> Seq(S)]
    BY DEF Joins
  <1>1. Len(seqs) \in Nat /\ m \in Nat
    BY <1>0
  <1>2. ASSUME NEW k \in 0..Len(seqs)
        PROVE  flat[k] \in Seq(S) /\ Len(flat[k]) \in Nat
    <2>1. flat[k] \in Seq(S)
      BY <1>0
    <2>2. QED
      BY <2>1
  <1>3. P(0)
    BY <1>2
  <1>4. ASSUME NEW n \in Nat, P(n)
        PROVE  P(n + 1)
    <2>1. CASE n + 1 = m
      BY <1>2, <2>1
    <2>2. CASE n + 1 # m /\ n + 1 \in m..Len(seqs)
      <3>1. n \in m..Len(seqs) /\ n \in 0..Len(seqs) /\ n + 1 \in 1..Len(seqs)
        BY <1>1, <2>2
      <3>2. flat[n + 1] = flat[n] \o seqs[n + 1]
        <4>1. \A k \in 1..Len(seqs) : flat[k] = flat[k - 1] \o seqs[k]
          BY DEF Joins
        <4>2. PICK k \in 1..Len(seqs) : k = n + 1
          BY <3>1
        <4>3. flat[k] = flat[k - 1] \o seqs[k]
          BY <4>1
        <4>4. k - 1 = n
          BY <4>2
        <4>5. QED
          BY <4>2, <4>3, <4>4
      <3>3. seqs[n + 1] \in Seq(S) /\ flat[n] \in Seq(S)
        BY <1>0, <3>1, ElementOfSeq
      <3>4. Len(flat[n + 1]) = Len(flat[n]) + Len(seqs[n + 1]) /\ Len(seqs[n + 1]) \in Nat
        BY <3>2, <3>3
      <3>5. Len(flat[m]) <= Len(flat[n])
        BY <1>4, <3>1
      <3>6. Len(flat[m]) \in Nat /\ Len(flat[n]) \in Nat
        BY <1>1, <1>2, <3>1
      <3>7. Len(flat[m]) <= Len(flat[n + 1])
        <4>1. PICK before \in Nat : before = Len(flat[n])
          BY <3>6
        <4>2. PICK more \in Nat : more = Len(seqs[n + 1])
          BY <3>4
        <4>3. Len(flat[n + 1]) = before + more
          BY <3>4, <4>1, <4>2
        <4>4. QED
          BY <3>5, <3>6, <4>1, <4>3
      <3>8. QED
        BY <3>7
    <2>3. QED
      BY <2>1, <2>2
  <1>5. P(Len(seqs))
    <2> HIDE DEF P
    <2>1. T \in SUBSET Nat /\ 0 \in T /\ \A n \in T : n + 1 \in T
      BY <1>3, <1>4
    <2>2. T = Nat
      <3> HIDE DEF T
      <3>1. QED
        BY <2>1, Induction
    <2>3. QED
      BY <1>1, <2>2
  <1>6. QED
    BY <1>1, <1>5

\* What is joined stays the same where only empty sequences come.
LEMMA JoinsNothing ==
    ASSUME NEW S, NEW seqs, NEW flat, Joins(S, seqs, flat),
           NEW m \in 0..Len(seqs), NEW last \in m..Len(seqs),
           \A k \in (m + 1)..last : seqs[k] = <<>>
    PROVE  flat[last] = flat[m]
  <1> DEFINE P(n) == n \in m..last => flat[n] = flat[m]
             T == {n \in Nat : P(n)}
  <1>0. seqs \in Seq(Seq(S)) /\ flat \in [0..Len(seqs) -> Seq(S)]
    BY DEF Joins
  <1>1. Len(seqs) \in Nat /\ m \in Nat /\ last \in Nat
    BY <1>0
  <1>2. P(0)
    OBVIOUS
  <1>3. ASSUME NEW n \in Nat, P(n)
        PROVE  P(n + 1)
    <2>1. CASE n + 1 \in (m + 1)..last
      <3>1. n \in m..last /\ n \in 0..Len(seqs) /\ n + 1 \in 1..Len(seqs)
        BY <1>1, <2>1
      <3>2. flat[n + 1] = flat[n] \o seqs[n + 1]
        <4>1. \A k \in 1..Len(seqs) : flat[k] = flat[k - 1] \o seqs[k]
          BY DEF Joins
        <4>2. PICK k \in 1..Len(seqs) : k = n + 1
          BY <3>1
        <4>3. flat[k] = flat[k - 1] \o seqs[k]
          BY <4>1
        <4>4. k - 1 = n
          BY <4>2
        <4>5. QED
          BY <4>2, <4>3, <4>4
      <3>3. seqs[n + 1] = <<>> /\ flat[n] \in Seq(S)
        BY <1>0, <2>1, <3>1
      <3>4. flat[n + 1] = flat[n]
        BY <3>2, <3>3, ConcatEmptySeq
      <3>5. QED
        BY <1>3, <3>1, <3>4
    <2>2. CASE n + 1 \notin (m + 1)..last
      <3>1. n + 1 \in m..last => n + 1 = m
        BY <1>1, <2>2
      <3>2. QED
        BY <3>1
    <2>3. QED
      BY <2>1, <2>2
  <1>4. P(last)
    <2> HIDE DEF P
    <2>1. T \in SUBSET Nat /\ 0 \in T /\ \A n \in T : n + 1 \in T
      BY <1>2, <1>3
    <2>2. T = Nat
      <3> HIDE DEF T
      <3>1. QED
        BY <2>1, Induction
    <2>3. QED
      BY <1>1, <2>2
  <1>5. QED
    BY <1>1, <1>4

-----------------------------------------------------------------------------
\* No place is under itself, however far down: in every set of places there is
\* one with none of the set under it.
Grounded(D, under) ==
    \A S \in SUBSET D : S # {} => \E x \in S : under[x] \cap S = {}

\* What G says of a place depends on the places under it alone.
Local(D, T, under, G) ==
    \A x \in D : \A f, g \in [D -> T] :
        (\A y \in under[x] : f[y] = g[y]) => G[x][f] = G[x][g]

\* A value in T for each place, which G gives by the values under it.
IsRecursion(D, T, under, G) ==
    /\ T # {}
    /\ under \in [D -> SUBSET D]
    /\ G \in [D -> [[D -> T] -> T]]
    /\ Grounded(D, under)
    /\ Local(D, T, under, G)

\* A function that is defined at each place by its values at the places under
\* it exists.
LEMMA RecursionExists ==
    ASSUME NEW D, NEW T, NEW under, NEW G, IsRecursion(D, T, under, G)
    PROVE  \E f \in [D -> T] : \A x \in D : f[x] = G[x][f]
<1> /\ under \in [D -> SUBSET D]
    /\ G \in [D -> [[D -> T] -> T]]
  BY DEF IsRecursion
<1>grounded. Grounded(D, under)
  BY DEF IsRecursion
<1>local. Local(D, T, under, G)
  BY DEF IsRecursion
<1>some. PICK a : a \in T
  BY DEF IsRecursion
<1>0. ASSUME NEW x \in D, NEW f \in [D -> T], NEW g \in [D -> T],
             \A y \in under[x] : f[y] = g[y]
      PROVE  G[x][f] = G[x][g]
  BY <1>0, <1>local DEF Local
<1> DEFINE Closed(C) == C \in SUBSET D /\ \A x \in C : under[x] \subseteq C
           Solves(C, f) == f \in [D -> T] /\ \A x \in C : f[x] = G[x][f]
           Solution(x, f) == \E C \in SUBSET D : Closed(C) /\ x \in C /\ Solves(C, f)
           Good == {x \in D : \E f \in [D -> T] : Solution(x, f)}
           Chosen(x) == CHOOSE f \in [D -> T] : Solution(x, f)
           h == [x \in D |-> IF x \in Good THEN Chosen(x)[x] ELSE a]
<1>1. ASSUME NEW C, NEW f, Closed(C), Solves(C, f),
             NEW B, NEW g, Closed(B), Solves(B, g)
      PROVE  \A x \in C \cap B : f[x] = g[x]
  <2> DEFINE S == {x \in C \cap B : f[x] # g[x]}
  <2>1. SUFFICES ASSUME S # {} PROVE FALSE
    OBVIOUS
  <2>2. PICK x \in S : under[x] \cap S = {}
    <3>1. S \in SUBSET D
      BY <1>1
    <3>2. QED
      BY <1>grounded, <2>1, <3>1 DEF Grounded
  <2>3. \A y \in under[x] : f[y] = g[y]
    BY <1>1, <2>2
  <2>4. x \in D /\ f \in [D -> T] /\ g \in [D -> T] /\ f[x] = G[x][f] /\ g[x] = G[x][g]
    BY <1>1
  <2>5. G[x][f] = G[x][g]
    BY <1>0, <2>3, <2>4
  <2>6. QED
    BY <2>2, <2>4, <2>5
<1>2. ASSUME NEW x \in Good
      PROVE  Chosen(x) \in [D -> T] /\ Solution(x, Chosen(x))
  <2> HIDE DEF Solution
  <2>1. QED
    OBVIOUS
<1>3. ASSUME NEW C, NEW f, Closed(C), Solves(C, f)
      PROVE  \A x \in C : x \in Good /\ h[x] = f[x]
  <2> TAKE x \in C
  <2>1. x \in D /\ f \in [D -> T] /\ Solution(x, f)
    BY <1>3
  <2>2. x \in Good
    BY <2>1
  <2>3. PICK B \in SUBSET D : Closed(B) /\ x \in B /\ Solves(B, Chosen(x))
    <3> HIDE DEF Closed, Solves, Chosen
    <3>1. QED
      BY <1>2, <2>2
  <2>4. Chosen(x)[x] = f[x]
    <3> HIDE DEF Closed, Solves, Chosen
    <3>1. x \in C \cap B
      BY <2>3
    <3>2. QED
      BY <1>1, <1>3, <2>3, <3>1
  <2>5. h[x] = Chosen(x)[x]
    BY <2>1, <2>2
  <2>6. QED
    BY <2>2, <2>4, <2>5
<1>4. h \in [D -> T]
  <2>1. ASSUME NEW x \in D PROVE (IF x \in Good THEN Chosen(x)[x] ELSE a) \in T
    <3> HIDE DEF Solution, Chosen
    <3>1. x \in Good => Chosen(x)[x] \in T
      BY <1>2
    <3> HIDE DEF Good
    <3>2. QED
      BY <1>some, <3>1
  <2> HIDE DEF Good, Chosen
  <2>2. QED
    BY <2>1
<1> HIDE DEF h
<1>5. ASSUME NEW x \in Good
      PROVE  h[x] = G[x][h] /\ under[x] \subseteq Good
  <2>1. PICK f \in [D -> T], C \in SUBSET D : Closed(C) /\ x \in C /\ Solves(C, f)
    <3> HIDE DEF Closed, Solves
    <3>1. QED
      OBVIOUS
  <2>2. \A y \in C : y \in Good /\ h[y] = f[y]
    <3> HIDE DEF Closed, Solves, Good
    <3>1. QED
      BY <1>3, <2>1
  <2> HIDE DEF Good
  <2>3. under[x] \subseteq C /\ f[x] = G[x][f] /\ x \in D
    BY <2>1
  <2>4. G[x][f] = G[x][h]
    <3>1. \A y \in under[x] : f[y] = h[y]
      BY <2>2, <2>3
    <3>2. QED
      BY <1>0, <1>4, <2>3, <3>1
  <2>5. QED
    BY <2>1, <2>2, <2>3, <2>4
<1>6. Good = D
  <2> SUFFICES ASSUME D \ Good # {} PROVE FALSE
    OBVIOUS
  <2>1. PICK x \in D \ Good : under[x] \cap (D \ Good) = {}
    <3> HIDE DEF Good
    <3>1. QED
      BY <1>grounded DEF Grounded
  <2> DEFINE f == [h EXCEPT ![x] = G[x][h]]
             C == Good \cup {x}
  <2>2. f \in [D -> T] /\ f[x] = G[x][h] /\ \A y \in Good : f[y] = h[y]
    <3> HIDE DEF Good
    <3>1. G[x][h] \in T
      BY <1>4, <2>1
    <3>2. QED
      BY <1>4, <2>1, <3>1
  <2>3. Good \in SUBSET D
    OBVIOUS
  <2> HIDE DEF f, Good
  <2>4. Closed(C)
    BY <1>5, <2>1, <2>3
  <2>5. under[x] \subseteq Good
    BY <2>1
  <2>6. ASSUME NEW y \in C PROVE f[y] = G[y][f]
    <3>1. y \in D /\ under[y] \subseteq Good
      BY <1>5, <2>3, <2>5
    <3>2. G[y][f] = G[y][h]
      <4>1. \A z \in under[y] : f[z] = h[z]
        BY <2>2, <3>1
      <4>2. QED
        BY <1>0, <1>4, <2>2, <3>1, <4>1
    <3>3. f[y] = G[y][h]
      BY <1>5, <2>2
    <3>4. QED
      BY <3>2, <3>3
  <2>7. x \in Good
    <3> HIDE DEF C
    <3>1. Closed(C) /\ Solves(C, f)
      BY <2>2, <2>4, <2>6
    <3>2. x \in C
      BY DEF C
    <3> HIDE DEF Closed, Solves
    <3>3. QED
      BY <1>3, <3>1, <3>2
  <2>8. QED
    BY <2>1, <2>7
<1>7. \A x \in D : h[x] = G[x][h]
  <2> HIDE DEF Good
  <2>1. QED
    BY <1>5, <1>6
<1>8. QED
  BY <1>4, <1>7

=============================================================================
