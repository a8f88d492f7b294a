------------------------------ MODULE SumTheorems ------------------------------
(***************************************************************************)
(* Sums over finite sets, recursive functions of a natural number, largest *)
(* and smallest of a set, as the models use them.  The library states      *)
(* induction with an operator for the predicate, which the provers cannot  *)
(* instantiate: here the predicate is the set of what satisfies it.        *)
(***************************************************************************)
EXTENDS Sums, Sequences, FiniteSetTheorems, WellFoundedInduction, TLAPS

-----------------------------------------------------------------------------
(* Induction. *)

LEMMA LeastNatural ==
  ASSUME NEW T \in SUBSET Nat, T # {}
  PROVE  \E x \in T : \A y \in T : x <= y
  <1>1. IsWellFoundedOn(OpToRel(<, Nat), Nat)
    BY NatLessThanWellFounded
  <1> DEFINE R == OpToRel(<, Nat)
  <1>2. \A x, y \in Nat : x < y => <<x, y>> \in R
    BY DEF OpToRel
  <1> HIDE DEF R
  <1>3. PICK x \in T : \A y \in T : ~ (<<y, x>> \in R)
    BY <1>1, WFMin DEF R
  <1>4. \A y \in T : ~ (y < x)
    BY <1>2, <1>3
  <1>5. \A y \in T : x <= y
    BY <1>4
  <1> QED
    BY <1>5

\* A set that has 0 and, with each natural number, the next, has them all.
LEMMA NaturalInduction ==
  ASSUME NEW G, 0 \in G, \A n \in Nat : n \in G => n + 1 \in G
  PROVE  Nat \subseteq G
  <1> SUFFICES ASSUME Nat \ G # {} PROVE FALSE
    OBVIOUS
  <1>1. PICK x \in Nat \ G : \A y \in Nat \ G : x <= y
    BY LeastNatural
  <1>2. x # 0
    OBVIOUS
  <1>3. x - 1 \in Nat
    BY <1>2
  <1>4. x - 1 \in G
    BY <1>1, <1>3
  <1>5. x = (x - 1) + 1
    OBVIOUS
  <1>6. x \in G
    BY <1>3, <1>4, <1>5
  <1> QED
    BY <1>6

\* A collection of finite sets has one that contains no smaller one.
LEMMA MinimalSet ==
  ASSUME NEW S, IsFiniteSet(S), NEW B \in SUBSET (SUBSET S), B # {}
  PROVE  \E T \in B : \A U \in B : U \subseteq T => U = T
  <1> DEFINE C == {Cardinality(T) : T \in B}
  <1>1. \A T \in B : IsFiniteSet(T) /\ Cardinality(T) \in Nat
    BY FS_Subset, FS_CardinalityType
  <1>2. C \in SUBSET Nat /\ C # {}
    BY <1>1
  <1>3. PICK n \in C : \A m \in C : n <= m
    BY <1>2, LeastNatural
  <1>4. PICK T \in B : n = Cardinality(T)
    BY <1>3
  <1>5. ASSUME NEW U \in B, U \subseteq T, U # T PROVE FALSE
    <2>1. Cardinality(U) < Cardinality(T)
      BY <1>1, <1>5, FS_Subset
    <2>2. n <= Cardinality(U)
      BY <1>3
    <2>3. Cardinality(U) \in Nat /\ Cardinality(T) \in Nat
      BY <1>1
    <2> QED
      BY <1>4, <2>1, <2>2, <2>3
  <1> QED
    BY <1>4, <1>5

\* A collection of sets that has {} and, with each part of the finite set S, that
\* part with one more element of S, has S.
LEMMA SubsetInduction ==
  ASSUME NEW S, IsFiniteSet(S), NEW G, {} \in G,
         \A T \in SUBSET S, x \in S : T \in G /\ x \notin T => T \union {x} \in G
  PROVE  \A T \in SUBSET S : T \in G
  <1> SUFFICES ASSUME (SUBSET S) \ G # {} PROVE FALSE
    OBVIOUS
  <1>1. PICK T \in (SUBSET S) \ G : \A U \in (SUBSET S) \ G : U \subseteq T => U = T
    <2> DEFINE B == (SUBSET S) \ G
    <2>1. B \in SUBSET (SUBSET S) /\ B # {}
      OBVIOUS
    <2> HIDE DEF B
    <2>2. \E T \in B : \A U \in B : U \subseteq T => U = T
      BY <2>1, MinimalSet
    <2> QED
      BY <2>2 DEF B
  <1>2. PICK x \in T : TRUE
    OBVIOUS
  <1>3. T \ {x} \in G
    BY <1>1
  <1>4. T = (T \ {x}) \union {x}
    OBVIOUS
  <1>5. T \in G
    BY <1>3, <1>4
  <1> QED
    BY <1>1, <1>5

-----------------------------------------------------------------------------
(* Sums. *)

Chosen(s) == CHOOSE x \in s : TRUE

LEMMA ChosenIn == \A s : s # {} => Chosen(s) \in s
  BY DEF Chosen

\* g gives every part of S the sum of f over it, one chosen element at a time.
Adds(f, S, g) ==
  g = [s \in SUBSET S |-> IF s = {} THEN 0 ELSE f[Chosen(s)] + g[s \ {Chosen(s)}]]

SumFcn(f, S) == CHOOSE g : Adds(f, S, g)

LEMMA SumOnIsSumFcn == \A f, S : SumOn(f, S) = SumFcn(f, S)[S]
  BY DEF SumOn, MapThenSumSet, MapThenFoldSet, SumFcn, Adds, Chosen

LEMMA SumFcnExists ==
  ASSUME NEW f, NEW S, IsFiniteSet(S), \A x \in S : f[x] \in Int
  PROVE  \E g \in [SUBSET S -> Int] : Adds(f, S, g)
  <1> DEFINE D(n) == {s \in SUBSET S : Cardinality(s) <= n}
             Eq(g, n) == \A s \in D(n) : g[s] = IF s = {} THEN 0 ELSE f[Chosen(s)] + g[s \ {Chosen(s)}]
             G == {n \in Nat : \E g \in [D(n) -> Int] : Eq(g, n)}
  <1>1. \A s \in SUBSET S : IsFiniteSet(s) /\ Cardinality(s) \in Nat
    BY FS_Subset, FS_CardinalityType
  <1>2. \A s \in SUBSET S : Cardinality(s) = 0 <=> s = {}
    BY <1>1, FS_EmptySet
  <1>3. \A s \in SUBSET S : s # {} => /\ Chosen(s) \in s
                                      /\ Cardinality(s \ {Chosen(s)}) = Cardinality(s) - 1
    <2> SUFFICES ASSUME NEW s \in SUBSET S, s # {}
                 PROVE  Chosen(s) \in s /\ Cardinality(s \ {Chosen(s)}) = Cardinality(s) - 1
      OBVIOUS
    <2>1. Chosen(s) \in s
      BY ChosenIn
    <2> QED
      BY <1>1, <2>1, FS_RemoveElement
  <1>4. 0 \in G
    <2> DEFINE g == [s \in D(0) |-> 0]
    <2>1. \A s \in D(0) : s = {}
      BY <1>1, <1>2
    <2>2. g \in [D(0) -> Int] /\ Eq(g, 0)
      BY <2>1
    <2> QED
      BY <2>2
  <1>5. ASSUME NEW n \in Nat, n \in G PROVE n + 1 \in G
    <2>1. PICK g \in [D(n) -> Int] : Eq(g, n)
      BY <1>5
    <2> DEFINE h == [s \in D(n + 1) |-> IF s = {} THEN 0 ELSE f[Chosen(s)] + g[s \ {Chosen(s)}]]
    <2>2. \A s \in D(n + 1) : s # {} => s \ {Chosen(s)} \in D(n) /\ s \ {Chosen(s)} \in D(n + 1) /\ Chosen(s) \in S
      BY <1>1, <1>3
    <2>3. \A s \in D(n) : s \in D(n + 1) /\ h[s] = g[s]
      BY <1>1, <2>1
    <2>4. h \in [D(n + 1) -> Int]
      BY <2>2
    <2>5. Eq(h, n + 1)
      BY <2>2, <2>3
    <2> HIDE DEF h, D, Eq
    <2> QED
      BY <2>4, <2>5
  <1>6. Cardinality(S) \in G
    <2> HIDE DEF G
    <2>1. Nat \subseteq G
      BY <1>4, <1>5, NaturalInduction
    <2> QED
      BY <1>1, <2>1
  <1>7. D(Cardinality(S)) = SUBSET S
    BY <1>1, FS_Subset
  <1>8. PICK g \in [SUBSET S -> Int] : Eq(g, Cardinality(S))
    BY <1>6, <1>7
  <1>9. Adds(f, S, g)
    BY <1>7, <1>8 DEF Adds
  <1> QED
    BY <1>9

LEMMA SumFcnEquation ==
  ASSUME NEW f, NEW S, IsFiniteSet(S), \A x \in S : f[x] \in Int
  PROVE  \A s \in SUBSET S : SumFcn(f, S)[s] =
           IF s = {} THEN 0 ELSE f[Chosen(s)] + SumFcn(f, S)[s \ {Chosen(s)}]
  <1>1. Adds(f, S, SumFcn(f, S))
    BY SumFcnExists DEF SumFcn
  <1> QED
    BY <1>1 DEF Adds

\* The equation determines the sum, whatever larger set it is computed for.
LEMMA SumFcnUnique ==
  ASSUME NEW f, NEW S, IsFiniteSet(S), \A x \in S : f[x] \in Int, NEW T \in SUBSET S
  PROVE  SumOn(f, T) = SumFcn(f, S)[T]
  <1> DEFINE B == {U \in SUBSET T : SumFcn(f, T)[U] # SumFcn(f, S)[U]}
  <1>1. IsFiniteSet(T) /\ \A x \in T : f[x] \in Int
    BY FS_Subset
  <1>2. B = {}
    <2> SUFFICES ASSUME B # {} PROVE FALSE
      OBVIOUS
    <2>1. PICK U \in B : \A V \in B : V \subseteq U => V = U
      <3>1. B \in SUBSET (SUBSET T)
        OBVIOUS
      <3> HIDE DEF B
      <3> QED
        BY <1>1, <3>1, MinimalSet
    <2> DEFINE c == Chosen(U)
    <2>2. CASE U = {}
      BY <1>1, <2>2, SumFcnEquation
    <2>3. CASE U # {}
      <3>1. c \in U
        BY <2>3, ChosenIn
      <3>2. U \ {c} \notin B
        BY <2>1, <3>1
      <3>3. SumFcn(f, T)[U \ {c}] = SumFcn(f, S)[U \ {c}]
        BY <3>2
      <3>4. SumFcn(f, T)[U] = f[c] + SumFcn(f, T)[U \ {c}]
        BY <1>1, <2>3, SumFcnEquation
      <3>5. SumFcn(f, S)[U] = f[c] + SumFcn(f, S)[U \ {c}]
        <4>1. U \in SUBSET S
          OBVIOUS
        <4>2. \A s \in SUBSET S : SumFcn(f, S)[s] =
                IF s = {} THEN 0 ELSE f[Chosen(s)] + SumFcn(f, S)[s \ {Chosen(s)}]
          BY SumFcnEquation
        <4> QED
          BY <2>3, <4>1, <4>2
      <3> QED
        BY <3>3, <3>4, <3>5
    <2> QED
      BY <2>2, <2>3
  <1> QED
    BY <1>2, SumOnIsSumFcn

LEMMA SumEmpty == \A f : SumOn(f, {}) = 0
  <1> SUFFICES ASSUME NEW f PROVE SumOn(f, {}) = 0
    OBVIOUS
  <1>1. IsFiniteSet({})
    BY FS_EmptySet
  <1>2. SumFcn(f, {})[{}] = 0
    BY <1>1, SumFcnEquation
  <1> QED
    BY <1>2, SumOnIsSumFcn

\* A sum is an integer, and any element can be taken out of it.
LEMMA SumElement ==
  ASSUME NEW f, NEW S, IsFiniteSet(S), \A x \in S : f[x] \in Int
  PROVE  /\ SumOn(f, S) \in Int
         /\ \A x \in S : SumOn(f, S) = f[x] + SumOn(f, S \ {x})
  <1> DEFINE F == SumFcn(f, S)
  <1>0. \A U \in SUBSET S : SumOn(f, U) = F[U]
    BY SumFcnUnique
  <1>1. \A U \in SUBSET S : F[U] = IF U = {} THEN 0 ELSE f[Chosen(U)] + F[U \ {Chosen(U)}]
    BY SumFcnEquation
  <1> HIDE DEF F
  <1> DEFINE B == {U \in SUBSET S : F[U] \notin Int \/ \E x \in U : F[U] # f[x] + F[U \ {x}]}
  <1>3. B = {}
    <2> SUFFICES ASSUME B # {} PROVE FALSE
      OBVIOUS
    <2>1. PICK U \in B : \A V \in B : V \subseteq U => V = U
      <3>1. B \in SUBSET (SUBSET S)
        OBVIOUS
      <3> HIDE DEF B
      <3> QED
        BY <3>1, MinimalSet
    <2>2. \A V \in SUBSET U : V # U => F[V] \in Int /\ \A x \in V : F[V] = f[x] + F[V \ {x}]
      BY <2>1
    <2>3. U # {}
      <3> SUFFICES ASSUME U = {} PROVE FALSE
        OBVIOUS
      <3>1. F[U] = 0
        BY <1>1
      <3> QED
        BY <3>1, <2>1
    <2> DEFINE a == Chosen(U)
    <2>4. a \in U /\ F[U] = f[a] + F[U \ {a}]
      BY <1>1, <2>3, ChosenIn
    <2> HIDE DEF a
    <2>5. F[U \ {a}] \in Int /\ f[a] \in Int
      BY <2>2, <2>4
    <2>6. PICK x \in U : F[U] # f[x] + F[U \ {x}]
      BY <2>1, <2>4, <2>5
    <2>7. x # a
      BY <2>4, <2>6
    <2>8. F[U \ {a}] = f[x] + F[(U \ {a}) \ {x}]
      BY <2>2, <2>4, <2>7
    <2>9. F[U \ {x}] = f[a] + F[(U \ {x}) \ {a}]
      BY <2>2, <2>4, <2>7
    <2>10. (U \ {a}) \ {x} = (U \ {x}) \ {a} /\ (U \ {x}) \ {a} # U
      BY <2>4
    <2>11. F[(U \ {x}) \ {a}] \in Int /\ f[x] \in Int
      BY <2>2, <2>10
    <2>12. F[(U \ {a}) \ {x}] = F[(U \ {x}) \ {a}]
      BY <2>10
    <2> QED
      BY <2>4, <2>5, <2>6, <2>8, <2>9, <2>11, <2>12
  <1>4. F[S] \in Int /\ \A x \in S : F[S] = f[x] + F[S \ {x}]
    BY <1>3
  <1> QED
    BY <1>0, <1>4

LEMMA SumAdd ==
  ASSUME NEW f, NEW S, IsFiniteSet(S), \A x \in S : f[x] \in Int, NEW T \in SUBSET S,
         NEW x \in S, x \notin T
  PROVE  /\ SumOn(f, T) \in Int
         /\ SumOn(f, T \union {x}) = f[x] + SumOn(f, T)
  <1> DEFINE U == T \union {x}
  <1>1. IsFiniteSet(T) /\ IsFiniteSet(U) /\ U \subseteq S
    BY FS_Subset
  <1>2. U \ {x} = T
    OBVIOUS
  <1> HIDE DEF U
  <1>3. SumOn(f, U) = f[x] + SumOn(f, U \ {x})
    <2>1. x \in U
      BY DEF U
    <2> QED
      BY <1>1, <2>1, SumElement
  <1>4. SumOn(f, T) \in Int
    BY <1>1, SumElement
  <1> QED
    BY <1>2, <1>3, <1>4 DEF U

\* Larger terms, larger sum.
LEMMA SumMonotone ==
  ASSUME NEW f, NEW g, NEW S, IsFiniteSet(S),
         \A x \in S : f[x] \in Int /\ g[x] \in Int /\ f[x] <= g[x]
  PROVE  SumOn(f, S) <= SumOn(g, S)
  <1> DEFINE G == {T \in SUBSET S : SumOn(f, T) <= SumOn(g, T)}
  <1>1. {} \in G
    BY SumEmpty
  <1>2. ASSUME NEW T \in SUBSET S, NEW x \in S, T \in G, x \notin T PROVE T \union {x} \in G
    <2>1. SumOn(f, T) \in Int /\ SumOn(f, T \union {x}) = f[x] + SumOn(f, T)
      BY <1>2, SumAdd
    <2>2. SumOn(g, T) \in Int /\ SumOn(g, T \union {x}) = g[x] + SumOn(g, T)
      BY <1>2, SumAdd
    <2> QED
      BY <1>2, <2>1, <2>2
  <1> HIDE DEF G
  <1>3. S \in G
    BY <1>1, <1>2, SubsetInduction
  <1> QED
    BY <1>3 DEF G

LEMMA SumCongruence ==
  ASSUME NEW f, NEW g, NEW S, IsFiniteSet(S),
         \A x \in S : f[x] \in Int /\ f[x] = g[x]
  PROVE  SumOn(f, S) = SumOn(g, S)
  <1>1. SumOn(f, S) <= SumOn(g, S) /\ SumOn(g, S) <= SumOn(f, S)
    BY SumMonotone
  <1>2. SumOn(f, S) \in Int /\ SumOn(g, S) \in Int
    BY SumElement
  <1> QED
    BY <1>1, <1>2

LEMMA SumZero ==
  ASSUME NEW f, NEW S, IsFiniteSet(S), \A x \in S : f[x] = 0
  PROVE  SumOn(f, S) = 0
  <1> DEFINE G == {T \in SUBSET S : SumOn(f, T) = 0}
  <1>1. {} \in G
    BY SumEmpty
  <1>2. ASSUME NEW T \in SUBSET S, NEW x \in S, T \in G, x \notin T PROVE T \union {x} \in G
    <2>1. SumOn(f, T \union {x}) = f[x] + SumOn(f, T)
      BY <1>2, SumAdd
    <2> QED
      BY <1>2, <2>1
  <1> HIDE DEF G
  <1>3. S \in G
    BY <1>1, <1>2, SubsetInduction
  <1> QED
    BY <1>3 DEF G

LEMMA SumNatural ==
  ASSUME NEW f, NEW S, IsFiniteSet(S), \A x \in S : f[x] \in Nat
  PROVE  SumOn(f, S) \in Nat
  <1> DEFINE z == [x \in S |-> 0]
  <1>1. SumOn(z, S) = 0
    BY SumZero
  <1>2. SumOn(z, S) <= SumOn(f, S)
    BY SumMonotone
  <1>3. SumOn(f, S) \in Int
    BY SumElement
  <1> HIDE DEF z
  <1> QED
    BY <1>1, <1>2, <1>3

\* The sum over two disjoint sets.
LEMMA SumUnion ==
  ASSUME NEW f, NEW S, IsFiniteSet(S), \A x \in S : f[x] \in Int,
         NEW A \in SUBSET S, NEW B \in SUBSET S, A \intersect B = {}
  PROVE  SumOn(f, A \union B) = SumOn(f, A) + SumOn(f, B)
  <1> DEFINE G == {T \in SUBSET B : SumOn(f, A \union T) = SumOn(f, A) + SumOn(f, T)}
  <1>0. IsFiniteSet(B) /\ IsFiniteSet(A)
    BY FS_Subset
  <1>1. {} \in G
    <2>1. A \union {} = A /\ SumOn(f, {}) = 0
      BY SumEmpty
    <2>2. SumOn(f, A) \in Int
      BY <1>0, SumElement
    <2> QED
      BY <2>1, <2>2
  <1>2. ASSUME NEW T \in SUBSET B, NEW x \in B, T \in G, x \notin T PROVE T \union {x} \in G
    <2> DEFINE U == A \union T
    <2>1. SumOn(f, T) \in Int /\ SumOn(f, T \union {x}) = f[x] + SumOn(f, T)
      BY <1>2, SumAdd
    <2>2. U \in SUBSET S /\ x \notin U /\ x \in S
      BY <1>2
    <2>3. SumOn(f, U) \in Int /\ SumOn(f, U \union {x}) = f[x] + SumOn(f, U)
      <3> HIDE DEF U
      <3> QED
        BY <2>2, SumAdd
    <2>4. A \union (T \union {x}) = U \union {x} /\ SumOn(f, A) \in Int
      BY <1>0, SumElement
    <2>5. f[x] \in Int /\ SumOn(f, U) = SumOn(f, A) + SumOn(f, T)
      BY <1>2
    <2>6. SumOn(f, A \union (T \union {x})) = SumOn(f, U \union {x})
      BY <2>4
    <2>7. SumOn(f, U \union {x}) = SumOn(f, A) + SumOn(f, T \union {x})
      <3> HIDE DEF U
      <3> QED
        BY <2>1, <2>3, <2>4, <2>5
    <2> QED
      BY <1>2, <2>6, <2>7
  <1>3. IsFiniteSet(B) /\ B \in SUBSET B
    BY <1>0
  <1> HIDE DEF G
  <1>4. \A T \in SUBSET B : T \in G
    BY <1>1, <1>2, <1>3, SubsetInduction
  <1> QED
    BY <1>4 DEF G

\* More terms that are not negative, larger sum.
LEMMA SumSubset ==
  ASSUME NEW f, NEW S, IsFiniteSet(S), \A x \in S : f[x] \in Nat, NEW T \in SUBSET S
  PROVE  SumOn(f, T) <= SumOn(f, S)
  <1>1. S = T \union (S \ T) /\ T \intersect (S \ T) = {}
    OBVIOUS
  <1>2. SumOn(f, S) = SumOn(f, T) + SumOn(f, S \ T)
    <2> DEFINE R == S \ T
    <2>1. SumOn(f, T \union R) = SumOn(f, T) + SumOn(f, R)
      <3>1. R \in SUBSET S /\ T \intersect R = {}
        OBVIOUS
      <3> HIDE DEF R
      <3> QED
        BY <3>1, SumUnion
    <2> QED
      BY <1>1, <2>1
  <1>3. SumOn(f, T) \in Nat /\ SumOn(f, S \ T) \in Nat
    <2>1. IsFiniteSet(T) /\ IsFiniteSet(S \ T)
      BY FS_Subset, FS_Difference
    <2> QED
      BY <2>1, SumNatural
  <1> QED
    BY <1>2, <1>3

\* The sum of a sum.
LEMMA SumPlus ==
  ASSUME NEW f, NEW g, NEW h, NEW S, IsFiniteSet(S),
         \A x \in S : f[x] \in Int /\ g[x] \in Int /\ h[x] = f[x] + g[x]
  PROVE  SumOn(h, S) = SumOn(f, S) + SumOn(g, S)
  <1> DEFINE G == {T \in SUBSET S : SumOn(h, T) = SumOn(f, T) + SumOn(g, T)}
  <1>1. {} \in G
    BY SumEmpty
  <1>2. ASSUME NEW T \in SUBSET S, NEW x \in S, T \in G, x \notin T PROVE T \union {x} \in G
    <2>1. SumOn(f, T) \in Int /\ SumOn(f, T \union {x}) = f[x] + SumOn(f, T)
      BY <1>2, SumAdd
    <2>2. SumOn(g, T) \in Int /\ SumOn(g, T \union {x}) = g[x] + SumOn(g, T)
      BY <1>2, SumAdd
    <2>3. SumOn(h, T \union {x}) = h[x] + SumOn(h, T)
      BY <1>2, SumAdd
    <2> QED
      BY <1>2, <2>1, <2>2, <2>3
  <1> HIDE DEF G
  <1>3. S \in G
    BY <1>1, <1>2, SubsetInduction
  <1> QED
    BY <1>3 DEF G

(* A sum over a part of the naturals, one more term at a time. *)
LEMMA SumNext ==
  ASSUME NEW f, NEW j \in Nat, \A i \in 1..(j + 1) : f[i] \in Int
  PROVE  SumOn(f, 1..(j + 1)) = f[j + 1] + SumOn(f, 1..j)
  <1> DEFINE n == j + 1
             o == 1
             S == o..n
             T == 1..j
  <1>1. S = T \union {n} /\ T \in SUBSET S /\ n \in S /\ n \notin T
    OBVIOUS
  <1>2. IsFiniteSet(S)
    <2>1. n \in Int /\ o \in Int
      OBVIOUS
    <2> HIDE DEF n, o
    <2> QED BY <2>1, FS_Interval
  <1>3. \A i \in S : f[i] \in Int
    OBVIOUS
  <1> HIDE DEF n, S, T, o
  <1>4. SumOn(f, T \union {n}) = f[n] + SumOn(f, T)
    BY <1>1, <1>2, <1>3, SumAdd
  <1>5. SumOn(f, S) = f[n] + SumOn(f, T)
    BY <1>1, <1>4
  <1> QED BY <1>5 DEF n, S, T, o

(* Terms of at most one apart from zero sum to at most their number. *)
LEMMA SumOfUnits ==
  ASSUME NEW f, NEW n \in Nat, \A i \in 1..n : f[i] \in -1..1, NEW k \in 0..n
  PROVE  SumOn(f, 1..k) \in Int /\ -k <= SumOn(f, 1..k) /\ SumOn(f, 1..k) <= k
  <1> DEFINE G == {j \in Nat : j <= n =>
                     SumOn(f, 1..j) \in Int /\ -j <= SumOn(f, 1..j) /\ SumOn(f, 1..j) <= j}
  <1>1. 0 \in G
    <2>1. 1..0 = {} /\ SumOn(f, {}) = 0
      BY SumEmpty
    <2>2. SumOn(f, 1..0) = 0
      BY <2>1
    <2> QED BY <2>2
  <1>2. ASSUME NEW j \in Nat, j \in G PROVE j + 1 \in G
    <2> SUFFICES ASSUME j + 1 <= n
                 PROVE  SumOn(f, 1..(j + 1)) \in Int /\ -(j + 1) <= SumOn(f, 1..(j + 1))
                        /\ SumOn(f, 1..(j + 1)) <= j + 1
      OBVIOUS
    <2>1. f[j + 1] \in -1..1
      OBVIOUS
    <2>2. SumOn(f, 1..j) \in Int /\ -j <= SumOn(f, 1..j) /\ SumOn(f, 1..j) <= j
      BY <1>2
    <2>3. SumOn(f, 1..(j + 1)) = f[j + 1] + SumOn(f, 1..j)
      <3>1. \A i \in 1..(j + 1) : f[i] \in Int
        OBVIOUS
      <3> QED BY <3>1, SumNext
    <2> DEFINE s == SumOn(f, 1..j)
               x == f[j + 1]
    <2>4. SumOn(f, 1..(j + 1)) = x + s /\ x \in -1..1 /\ s \in Int /\ -j <= s /\ s <= j
      BY <2>1, <2>2, <2>3
    <2> HIDE DEF s, x
    <2> QED BY <2>4
  <1>3. Nat \subseteq G
    <2> HIDE DEF G
    <2> QED BY <1>1, <1>2, NaturalInduction
  <1> QED BY <1>3

-----------------------------------------------------------------------------
(* Recursion. *)

(* A recursive definition on 0..n has a solution. *)
Solvable(n, V, v, F) ==
  \E g \in [0..n -> V] : g[0] = v /\ \A k \in 1..n : g[k] = F[k][g[k - 1]]

LEMMA Recursion ==
  ASSUME NEW n \in Nat, NEW V, NEW v \in V, NEW F,
         \A k \in 1..n : \A x \in V : F[k][x] \in V
  PROVE  Solvable(n, V, v, F)
  <1> DEFINE Eq(g, m) == g[0] = v /\ \A k \in 1..m : g[k] = F[k][g[k - 1]]
             G == {m \in Nat : m <= n => \E g \in [0..m -> V] : Eq(g, m)}
  <1>1. 0 \in G
    <2>1. [k \in 0..0 |-> v] \in [0..0 -> V] /\ Eq([k \in 0..0 |-> v], 0)
      OBVIOUS
    <2> QED BY <2>1
  <1>2. ASSUME NEW m \in Nat, m \in G PROVE m + 1 \in G
    <2> SUFFICES ASSUME m + 1 <= n PROVE \E h \in [0..(m + 1) -> V] : Eq(h, m + 1)
      OBVIOUS
    <2>1. PICK g \in [0..m -> V] : Eq(g, m)
      BY <1>2
    <2> DEFINE h == [k \in 0..(m + 1) |-> IF k <= m THEN g[k] ELSE F[m + 1][g[m]]]
    <2>2. g[m] \in V /\ m + 1 \in 1..n
      OBVIOUS
    <2>3. h \in [0..(m + 1) -> V]
      BY <2>2
    <2>4. h[0] = v
      BY <2>1
    <2>5. ASSUME NEW k \in 1..(m + 1) PROVE h[k] = F[k][h[k - 1]]
      <3>1. CASE k <= m
        <4>1. k \in 1..m /\ h[k] = g[k] /\ h[k - 1] = g[k - 1]
          BY <3>1
        <4> HIDE DEF h
        <4> QED BY <2>1, <4>1
      <3>2. CASE k = m + 1
        <4>1. h[k] = F[m + 1][g[m]] /\ h[k - 1] = g[m]
          BY <3>2
        <4> HIDE DEF h
        <4> QED BY <3>2, <4>1
      <3> QED BY <3>1, <3>2
    <2> HIDE DEF h
    <2> QED BY <2>3, <2>4, <2>5
  <1>3. n \in G
    <2> HIDE DEF G
    <2> QED BY <1>1, <1>2, NaturalInduction
  <1> QED BY <1>3 DEF Solvable

-----------------------------------------------------------------------------
(* Largest and smallest, images, sequences. *)

(* The largest of a finite set of integers. *)
LEMMA MaxOf ==
  ASSUME NEW S, IsFiniteSet(S), S \subseteq Int, S # {}
  PROVE  Max(S) \in S /\ \A y \in S : y <= Max(S)
  <1> DEFINE G == {T \in SUBSET S : T # {} => \E x \in T : \A y \in T : y <= x}
  <1>1. {} \in G
    OBVIOUS
  <1>2. ASSUME NEW T \in SUBSET S, NEW x \in S, T \in G, x \notin T PROVE T \union {x} \in G
    <2>1. CASE T = {}
      BY <2>1
    <2>2. CASE T # {}
      <3>1. PICK m \in T : \A y \in T : y <= m
        BY <1>2, <2>2
      <3>2. \E z \in {m, x} : m <= z /\ x <= z
        BY <3>1
      <3> QED
        BY <3>1, <3>2
    <2> QED
      BY <2>1, <2>2
  <1> HIDE DEF G
  <1>3. S \in G
    <2>1. \A T \in SUBSET S, x \in S : T \in G /\ x \notin T => T \union {x} \in G
      BY <1>2
    <2> QED
      BY <1>1, <2>1, SubsetInduction
  <1>4. \E x \in S : \A y \in S : x >= y
    BY <1>3 DEF G
  <1> QED
    BY <1>4 DEF Max

(* What bounds the members of a set from within is its largest. *)
LEMMA MaxIs ==
  ASSUME NEW S, S \subseteq Int, NEW m \in S, \A y \in S : y <= m
  PROVE  Max(S) = m
  <1>1. \A x \in S : (\A y \in S : x >= y) => x = m
    OBVIOUS
  <1> QED
    BY <1>1 DEF Max

(* What is below the members of a set from within is its smallest. *)
LEMMA MinIs ==
  ASSUME NEW S, S \subseteq Int, NEW m \in S, \A y \in S : m <= y
  PROVE  Min(S) = m
  <1>1. \A x \in S : (\A y \in S : x <= y) => x = m
    OBVIOUS
  <1> QED
    BY <1>1 DEF Min

(* The smaller of two integers. *)
LEMMA MinPair ==
  ASSUME NEW x \in Int, NEW y \in Int
  PROVE  Min({x, y}) = IF x <= y THEN x ELSE y
<1> DEFINE m == IF x <= y THEN x ELSE y
<1>1. m \in {x, y} /\ m <= x /\ m <= y /\ {x, y} \subseteq Int
  OBVIOUS
<1> HIDE DEF m
<1>2. Min({x, y}) = m
  BY <1>1, MinIs
<1> QED BY <1>2 DEF m

(* Whose members are each below one of another set has no larger largest. *)
LEMMA MaxOrder ==
  ASSUME NEW S, IsFiniteSet(S), S \subseteq Int, S # {},
         NEW T, IsFiniteSet(T), T \subseteq Int, \A x \in S : \E y \in T : x <= y
  PROVE  Max(S) \in Int /\ Max(T) \in Int /\ Max(S) <= Max(T)
  <1>1. T # {}
    OBVIOUS
  <1> DEFINE a == Max(S)
             b == Max(T)
  <1>2. a \in S /\ b \in T /\ \A y \in T : y <= b
    BY <1>1, MaxOf
  <1> HIDE DEF a, b
  <1>3. PICK y \in T : a <= y
    BY <1>2
  <1>4. a \in Int /\ b \in Int /\ y \in Int /\ y <= b
    BY <1>2, <1>3
  <1>5. a <= b
    BY <1>3, <1>4
  <1> QED
    BY <1>4, <1>5 DEF a, b

(* The values of a function on a finite set, *)
LEMMA ImageFinite ==
  ASSUME NEW S, IsFiniteSet(S), NEW f
  PROVE  IsFiniteSet({f[x] : x \in S})
  <1> DEFINE T == {f[x] : x \in S}
             g == [x \in S |-> f[x]]
  <1>1. g \in Surjection(S, T)
    BY DEF Surjection
  <1> HIDE DEF T, g
  <1>2. IsFiniteSet(T)
    BY <1>1, FS_Surjection
  <1> QED
    BY <1>2 DEF T

(* as many as there are members when no two of these have the same one. *)
LEMMA ImageSize ==
  ASSUME NEW S, IsFiniteSet(S), NEW f, NEW T, T = {f[x] : x \in S},
         \A x, y \in S : f[x] = f[y] => x = y
  PROVE  IsFiniteSet(T) /\ Cardinality(T) = Cardinality(S)
  <1> DEFINE g == [x \in S |-> f[x]]
  <1>1. g \in Surjection(S, T)
    BY DEF Surjection
  <1>2. g \in Injection(S, T)
    BY DEF Injection, IsInjective
  <1> HIDE DEF g
  <1> QED
    BY <1>1, <1>2, FS_Surjection

(* The indices of a sequence. *)
LEMMA SeqFinite ==
  ASSUME NEW V, NEW s \in Seq(V)
  PROVE  IsFiniteSet(DOMAIN s) /\ Cardinality(DOMAIN s) = Len(s)
<1> DEFINE o == 1
           n == Len(s)
           D == DOMAIN s
<1>1. o \in Int /\ n \in Int /\ n \in Nat /\ D = o..n /\ (o > n => n = 0) /\ n - o + 1 = n
  OBVIOUS
<1> HIDE DEF o, n, D
<1>2. IsFiniteSet(D) /\ Cardinality(D) = IF o > n THEN 0 ELSE n - o + 1
  BY <1>1, FS_Interval
<1> QED BY <1>1, <1>2 DEF n, D

(* A sequence with another member at i. *)
LEMMA SeqWith ==
  ASSUME NEW V, NEW s \in Seq(V), NEW i \in DOMAIN s, NEW x \in V
  PROVE  /\ [s EXCEPT ![i] = x] \in Seq(V)
         /\ DOMAIN [s EXCEPT ![i] = x] = DOMAIN s /\ Len([s EXCEPT ![i] = x]) = Len(s)
         /\ \A j \in DOMAIN s : s[j] \in V /\ [s EXCEPT ![i] = x][j] = IF j = i THEN x ELSE s[j]
OBVIOUS

(* Sums of larger naturals. *)
LEMMA SumOrder ==
  ASSUME NEW D, IsFiniteSet(D), NEW f, NEW g,
         \A i \in D : f[i] \in Nat /\ g[i] \in Nat /\ f[i] <= g[i]
  PROVE  SumOn(f, D) \in Nat /\ SumOn(g, D) \in Nat /\ SumOn(f, D) <= SumOn(g, D)
<1>1. \A i \in D : f[i] \in Int /\ g[i] \in Int /\ f[i] <= g[i]
  OBVIOUS
<1>2. SumOn(f, D) \in Nat /\ SumOn(g, D) \in Nat
  BY SumNatural
<1>3. SumOn(f, D) <= SumOn(g, D)
  BY <1>1, SumMonotone
<1> QED BY <1>2, <1>3

(* A larger factor. *)
LEMMA ProductGrows ==
  ASSUME NEW a \in Nat, NEW b \in Nat, a <= b, NEW c \in Nat
  PROVE  a * c \in Nat /\ b * c \in Nat /\ a * c <= b * c
<1>1. (b - a) * c >= 0 /\ b * c = a * c + (b - a) * c
  OBVIOUS
<1> QED BY <1>1
=============================================================================
