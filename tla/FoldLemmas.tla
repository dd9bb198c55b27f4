---- MODULE FoldLemmas ----
(***************************************************************************)
(* What the folds of the community modules compute.  Their definition is   *)
(* recursive, over the subsets of a finite set: an element is chosen and   *)
(* combined with the fold of the others.  Induction is stated here with    *)
(* the SET of what is good, which the provers can instantiate where a      *)
(* predicate they cannot.                                                  *)
(***************************************************************************)
EXTENDS SequencesExt, FiniteSetTheorems, SequenceTheorems, TLAPS

\* A set of numbers that has 0, and the next of each one it has, has them all.
LEMMA NatInductionSet ==
    ASSUME NEW Good, 0 \in Good, \A n \in Nat : n \in Good => n + 1 \in Good
    PROVE  Nat \subseteq Good
<1> DEFINE Bad == Nat \ Good
<1>1. SUFFICES ASSUME Bad # {} PROVE FALSE
      OBVIOUS
<1>2. Bad \subseteq Nat
      OBVIOUS
<1>3. PICK n \in Bad : \A m \in Bad : ~(<<m, n>> \in OpToRel(<, Nat))
  <2> HIDE DEF Bad
  <2> QED BY <1>1, <1>2, NatLessThanWellFounded, WFMin
<1>4. \A m \in Bad : ~(m < n)
      BY <1>3 DEF OpToRel
<1>5. n # 0
      OBVIOUS
<1>6. n - 1 \in Nat /\ n - 1 < n
      BY <1>5
<1>7. n - 1 \in Good
      BY <1>4, <1>6
<1>8. (n - 1) + 1 \in Good
      BY <1>6, <1>7
<1>. QED BY <1>8

\* Taking an element from a finite set leaves one less.
LEMMA OneLess ==
    ASSUME NEW S, IsFiniteSet(S), NEW x \in S
    PROVE  /\ IsFiniteSet(S \ {x}) /\ Cardinality(S) \in Nat
           /\ Cardinality(S \ {x}) = Cardinality(S) - 1
<1>1. Cardinality(S) \in Nat
      BY FS_CardinalityType
<1>2. Cardinality(S \ {x}) = IF x \in S THEN Cardinality(S) - 1 ELSE Cardinality(S)
      BY FS_RemoveElement
<1>3. IsFiniteSet(S \ {x})
      BY FS_RemoveElement
<1>. QED BY <1>1, <1>2, <1>3

\* A set of subsets that has a subset as soon as it has all that lack one of its elements
\* has every subset of a finite set.
LEMMA SubsetInduction ==
    ASSUME NEW S, IsFiniteSet(S), NEW Good,
           \A s \in SUBSET S : (\A x \in s : s \ {x} \in Good) => s \in Good
    PROVE  SUBSET S \subseteq Good
<1> DEFINE Sized == {n \in Nat : \A s \in SUBSET S : Cardinality(s) = n => s \in Good}
<1>1. 0 \in Sized
  <2>1. SUFFICES ASSUME NEW s \in SUBSET S, Cardinality(s) = 0 PROVE s \in Good
        OBVIOUS
  <2>2. s = {}
        BY <2>1, FS_Subset, FS_EmptySet
  <2>. QED BY <2>2
<1>2. ASSUME NEW n \in Nat, n \in Sized PROVE n + 1 \in Sized
  <2>1. SUFFICES ASSUME NEW s \in SUBSET S, Cardinality(s) = n + 1 PROVE s \in Good
        OBVIOUS
  <2>2. IsFiniteSet(s)
        BY FS_Subset
  <2>3. ASSUME NEW x \in s PROVE s \ {x} \in Good
    <3>1. Cardinality(s \ {x}) = n
          BY <2>1, <2>2, OneLess
    <3>2. s \ {x} \in SUBSET S
          OBVIOUS
    <3>. QED BY <3>1, <3>2, <1>2
  <2>. QED BY <2>3
<1>3. Nat \subseteq Sized
  <2> HIDE DEF Sized
  <2> QED BY <1>1, <1>2, NatInductionSet
<1>4. SUFFICES ASSUME NEW s \in SUBSET S PROVE s \in Good
      OBVIOUS
<1>5. Cardinality(s) \in Nat
      BY FS_Subset, FS_CardinalityType
<1>. QED BY <1>3, <1>5

\* A function that folds the subsets of S: base for the empty set, and for another one
\* the step of the element chosen from it and of what it gives for the others.
Folds(g, S, base, step, chosen) ==
    \A s \in SUBSET S : g[s] = IF s = {} THEN base ELSE step[<<chosen[s], g[s \ {chosen[s]}]>>]

\* Functions that choose an element of each subset that has one.
Choosers(S) == {c \in [(SUBSET S) \ {{}} -> S] : \A s \in (SUBSET S) \ {{}} : c[s] \in s}

\* The recursion of a fold has a solution, whatever the step and the choice of the next element.
LEMMA FoldExists ==
    ASSUME NEW S, IsFiniteSet(S), NEW Values, NEW base \in Values,
           NEW step \in [S \X Values -> Values],
           NEW chosen \in Choosers(S)
    PROVE  \E g \in [SUBSET S -> Values] : Folds(g, S, base, step, chosen)
<1> DEFINE Law(g, s) == g[s] = IF s = {} THEN base ELSE step[<<chosen[s], g[s \ {chosen[s]}]>>]
           Reached == {n \in Nat : \E g \in [SUBSET S -> Values] :
                         \A s \in SUBSET S : Cardinality(s) <= n => Law(g, s)}
<1>c. /\ chosen \in [(SUBSET S) \ {{}} -> S]
      /\ \A s \in (SUBSET S) \ {{}} : chosen[s] \in s
      BY DEF Choosers
<1>0. \A s \in SUBSET S : IsFiniteSet(s) /\ Cardinality(s) \in Nat
      BY FS_Subset, FS_CardinalityType
<1>1. 0 \in Reached
  <2> DEFINE g == [s \in SUBSET S |-> base]
  <2>1. g \in [SUBSET S -> Values]
        OBVIOUS
  <2>2. ASSUME NEW s \in SUBSET S, Cardinality(s) <= 0 PROVE Law(g, s)
    <3>1. s = {}
          BY <2>2, <1>0, FS_EmptySet
    <3>. QED BY <3>1
  <2>. QED BY <2>1, <2>2
<1>2. ASSUME NEW n \in Nat, n \in Reached PROVE n + 1 \in Reached
  <2>1. PICK g \in [SUBSET S -> Values] :
               \A s \in SUBSET S : Cardinality(s) <= n => Law(g, s)
        BY <1>2
  <2> DEFINE h == [s \in SUBSET S |->
                     IF Cardinality(s) <= n THEN g[s] ELSE step[<<chosen[s], g[s \ {chosen[s]}]>>]]
  <2>2. ASSUME NEW s \in SUBSET S, s # {}
        PROVE  /\ chosen[s] \in S /\ s \ {chosen[s]} \in SUBSET S
               /\ Cardinality(s \ {chosen[s]}) = Cardinality(s) - 1
    <3>1. chosen[s] \in s
          BY <2>2, <1>c
    <3>2. IsFiniteSet(s)
          BY <1>0
    <3>3. Cardinality(s \ {chosen[s]}) = Cardinality(s) - 1
          BY <3>1, <3>2, OneLess
    <3>. QED BY <3>1, <3>3, <1>c
  <2>3. ASSUME NEW s \in SUBSET S PROVE h[s] \in Values
    <3>1. CASE Cardinality(s) <= n
          BY <3>1
    <3>2. CASE ~(Cardinality(s) <= n)
      <4>1. s # {}
        <5>1. SUFFICES ASSUME s = {} PROVE Cardinality(s) <= n
              BY <3>2
        <5>2. Cardinality(s) = 0
              BY <5>1, FS_EmptySet
        <5>. QED BY <5>2
      <4>2. g[s \ {chosen[s]}] \in Values /\ chosen[s] \in S
            BY <4>1, <2>2
      <4>. QED BY <4>2, <3>2
    <3>. QED BY <3>1, <3>2
  <2>4. h \in [SUBSET S -> Values]
        BY <2>3
  <2>5. ASSUME NEW s \in SUBSET S, Cardinality(s) <= n + 1 PROVE Law(h, s)
    <3>1. CASE s = {}
      <4>1. Cardinality(s) <= n
            BY <3>1, FS_EmptySet
      <4>2. h[s] = g[s] /\ g[s] = base
            BY <4>1, <2>1, <3>1
      <4>. QED BY <4>2, <3>1
    <3>2. CASE s # {}
      <4>1. Cardinality(s \ {chosen[s]}) <= n /\ s \ {chosen[s]} \in SUBSET S
            BY <2>2, <2>5, <3>2, <1>0
      <4>2. h[s \ {chosen[s]}] = g[s \ {chosen[s]}]
            BY <4>1
      <4>3. h[s] = step[<<chosen[s], g[s \ {chosen[s]}]>>]
            BY <2>1, <3>2
      <4>4. h[s] = step[<<chosen[s], h[s \ {chosen[s]}]>>]
            BY <4>2, <4>3
      <4>. QED BY <3>2, <4>4
    <3>. QED BY <3>1, <3>2
  <2>6. \A s \in SUBSET S : Cardinality(s) <= n + 1 => Law(h, s)
        BY <2>5
  <2>7. \E f \in [SUBSET S -> Values] :
          \A s \in SUBSET S : Cardinality(s) <= n + 1 => Law(f, s)
    <3> HIDE DEF h, Law
    <3> QED BY <2>4, <2>6
  <2>8. n + 1 \in Nat
        OBVIOUS
  <2>. QED
    <3> HIDE DEF h, Law
    <3> QED BY <2>7, <2>8
<1>3. Nat \subseteq Reached
  <2> HIDE DEF Reached
  <2> QED BY <1>1, <1>2, NatInductionSet
<1>4. Cardinality(S) \in Reached
      BY <1>3, FS_CardinalityType
<1>5. PICK g \in [SUBSET S -> Values] :
             \A s \in SUBSET S : Cardinality(s) <= Cardinality(S) => Law(g, s)
      BY <1>4
<1>6. \A s \in SUBSET S : Cardinality(s) <= Cardinality(S)
      BY FS_Subset
<1>7. Folds(g, S, base, step, chosen)
      BY <1>5, <1>6 DEF Folds
<1>. QED BY <1>7

----
(* Sums: SumFunctionOnSet(f, S) is what f adds up to over the finite set S. *)

First(s) == CHOOSE x \in s : TRUE

\* g computes the sums of f over the subsets of S.
SumsUp(g, f, S) ==
    g = [s \in SUBSET S |-> IF s = {} THEN 0 ELSE f[First(s)] + g[s \ {First(s)}]]

\* The definition of a sum has a solution, and the sum is computed by one.
LEMMA SumIsComputed ==
    ASSUME NEW S, IsFiniteSet(S), NEW f, \A x \in S : f[x] \in Int
    PROVE  \E g : SumsUp(g, f, S) /\ SumFunctionOnSet(f, S) = g[S]
<1> DEFINE step == [p \in S \X Int |-> f[p[1]] + p[2]]
           chosen == [s \in (SUBSET S) \ {{}} |-> First(s)]
<1>1. step \in [S \X Int -> Int]
      OBVIOUS
<1>2. \A s \in (SUBSET S) \ {{}} : chosen[s] \in s
      BY DEF First
<1>3. chosen \in [(SUBSET S) \ {{}} -> S]
      BY <1>2
<1>4. chosen \in Choosers(S)
      BY <1>2, <1>3 DEF Choosers
<1>c. PICK g \in [SUBSET S -> Int] : Folds(g, S, 0, step, chosen)
  <2>1. 0 \in Int
        OBVIOUS
  <2> HIDE DEF step, chosen
  <2> QED BY <1>1, <1>4, <2>1, FoldExists
<1>5. ASSUME NEW s \in SUBSET S
      PROVE  g[s] = IF s = {} THEN 0 ELSE f[First(s)] + g[s \ {First(s)}]
  <2>1. CASE s = {}
        BY <1>c, <2>1 DEF Folds
  <2>2. CASE s # {}
    <3>1. chosen[s] = First(s) /\ First(s) \in s
          BY <1>2, <2>2
    <3>2. step[<<First(s), g[s \ {First(s)}]>>] = f[First(s)] + g[s \ {First(s)}]
      <4>1. First(s) \in S /\ g[s \ {First(s)}] \in Int
            BY <3>1
      <4> HIDE DEF chosen
      <4>. QED BY <4>1
    <3>3. g[s] = step[<<chosen[s], g[s \ {chosen[s]}]>>]
      <4> HIDE DEF step, chosen
      <4>. QED BY <1>c, <2>2 DEF Folds
    <3>4. g[s] = step[<<First(s), g[s \ {First(s)}]>>]
      <4> HIDE DEF step, chosen
      <4>. QED BY <3>1, <3>3
    <3>. QED
      <4> HIDE DEF step, chosen
      <4>. QED BY <2>2, <3>2, <3>4
  <2>. QED BY <2>1, <2>2
<1>6. SumsUp(g, f, S)
  <2> DEFINE h == [s \in SUBSET S |-> IF s = {} THEN 0 ELSE f[First(s)] + g[s \ {First(s)}]]
  <2>1. \A s \in SUBSET S : g[s] = h[s]
        BY <1>5
  <2>2. g = h
    <3>1. DOMAIN h = SUBSET S /\ DOMAIN g = SUBSET S
          OBVIOUS
    <3>2. h = [s \in SUBSET S |-> h[s]] /\ g = [s \in SUBSET S |-> g[s]]
          OBVIOUS
    <3> HIDE DEF h
    <3>. QED BY <2>1, <3>2
  <2>. QED BY <2>2 DEF SumsUp
<1> DEFINE G == CHOOSE k : SumsUp(k, f, S)
<1>7. SumsUp(G, f, S)
      BY <1>6
<1>8. SumFunctionOnSet(f, S) = G[S]
      BY DEF SumFunctionOnSet, FoldFunctionOnSet, MapThenFoldSet, SumsUp, First
<1>. QED BY <1>7, <1>8

\* Two functions that compute sums, of the subsets of S and of T, agree where both do.
LEMMA SumIsUnique ==
    ASSUME NEW S, IsFiniteSet(S), NEW T, T \subseteq S, NEW f,
           NEW g, SumsUp(g, f, S), NEW h, SumsUp(h, f, T)
    PROVE  \A s \in SUBSET T : g[s] = h[s]
<1> DEFINE Good == {s \in SUBSET T : g[s] = h[s]}
<1>1. IsFiniteSet(T)
      BY FS_Subset
<1>2. ASSUME NEW s \in SUBSET T, \A x \in s : s \ {x} \in Good
      PROVE  s \in Good
  <2>1. CASE s = {}
        BY <2>1 DEF SumsUp
  <2>2. CASE s # {}
    <3>1. First(s) \in s
          BY <2>2 DEF First
    <3>2. g[s \ {First(s)}] = h[s \ {First(s)}]
          BY <1>2, <3>1
    <3>3. g[s] = f[First(s)] + g[s \ {First(s)}] /\ h[s] = f[First(s)] + h[s \ {First(s)}]
          BY <2>2 DEF SumsUp
    <3>. QED BY <3>2, <3>3
  <2>. QED BY <2>1, <2>2
<1>3. SUBSET T \subseteq Good
  <2> HIDE DEF Good
  <2> QED BY <1>1, <1>2, SubsetInduction
<1>. QED BY <1>3

\* The sum over the empty set is 0; over another one, the value of its first element and
\* the sum over the others.
LEMMA SumUnfolds ==
    ASSUME NEW S, IsFiniteSet(S), NEW f, \A x \in S : f[x] \in Int
    PROVE  SumFunctionOnSet(f, S) =
             IF S = {} THEN 0 ELSE f[First(S)] + SumFunctionOnSet(f, S \ {First(S)})
<1>1. PICK g : SumsUp(g, f, S) /\ SumFunctionOnSet(f, S) = g[S]
      BY SumIsComputed
<1>2. CASE S = {}
      BY <1>1, <1>2 DEF SumsUp
<1>3. CASE S # {}
  <2> DEFINE T == S \ {First(S)}
  <2>1. T \subseteq S /\ IsFiniteSet(T) /\ \A x \in T : f[x] \in Int
        BY FS_Subset
  <2>2. PICK h : SumsUp(h, f, T) /\ SumFunctionOnSet(f, T) = h[T]
    <3> HIDE DEF T
    <3> QED BY <2>1, SumIsComputed
  <2>3. g[T] = h[T]
    <3> HIDE DEF T
    <3> QED BY <1>1, <2>1, <2>2, SumIsUnique
  <2>4. g[S] = f[First(S)] + g[T]
        BY <1>1, <1>3 DEF SumsUp
  <2>. QED BY <1>1, <1>3, <2>2, <2>3, <2>4
<1>. QED BY <1>2, <1>3

\* A sum of integers is an integer.
LEMMA SumType ==
    ASSUME NEW S, IsFiniteSet(S), NEW f, \A x \in S : f[x] \in Int
    PROVE  SumFunctionOnSet(f, S) \in Int
<1> DEFINE Good == {s \in SUBSET S : SumFunctionOnSet(f, s) \in Int}
<1>1. ASSUME NEW s \in SUBSET S, \A x \in s : s \ {x} \in Good
      PROVE  s \in Good
  <2>1. IsFiniteSet(s) /\ \A x \in s : f[x] \in Int
        BY FS_Subset
  <2>2. SumFunctionOnSet(f, s) = IF s = {} THEN 0 ELSE f[First(s)] + SumFunctionOnSet(f, s \ {First(s)})
        BY <2>1, SumUnfolds
  <2>3. CASE s = {}
        BY <2>2, <2>3
  <2>4. CASE s # {}
    <3>1. First(s) \in s
          BY <2>4 DEF First
    <3>2. f[First(s)] \in Int /\ SumFunctionOnSet(f, s \ {First(s)}) \in Int
          BY <1>1, <2>1, <3>1
    <3>. QED BY <2>2, <2>4, <3>2
  <2>. QED BY <2>3, <2>4
<1>2. SUBSET S \subseteq Good
  <2> HIDE DEF Good
  <2> QED BY <1>1, SubsetInduction
<1>. QED BY <1>2

\* Any element of the set may be taken first.
LEMMA SumPick ==
    ASSUME NEW S, IsFiniteSet(S), NEW f, \A x \in S : f[x] \in Int, NEW e \in S
    PROVE  SumFunctionOnSet(f, S) = f[e] + SumFunctionOnSet(f, S \ {e})
<1> DEFINE Sum(s) == SumFunctionOnSet(f, s)
           Good == {s \in SUBSET S : \A x \in s : Sum(s) = f[x] + Sum(s \ {x})}
<1>0. \A s \in SUBSET S : IsFiniteSet(s) /\ (\A x \in s : f[x] \in Int) /\ Sum(s) \in Int
      BY FS_Subset, SumType
<1>1. ASSUME NEW s \in SUBSET S, \A x \in s : s \ {x} \in Good
      PROVE  s \in Good
  <2>1. SUFFICES ASSUME NEW x \in s PROVE Sum(s) = f[x] + Sum(s \ {x})
        OBVIOUS
  <2> DEFINE c == First(s)
  <2>2. c \in s
        BY DEF First
  <2>3. Sum(s) = f[c] + Sum(s \ {c})
        BY <1>0, SumUnfolds
  <2>4. CASE x = c
        BY <2>3, <2>4
  <2>5. CASE x # c
    <3>1. Sum(s \ {c}) = f[x] + Sum((s \ {c}) \ {x})
          BY <1>1, <2>2, <2>5
    <3>2. Sum(s \ {x}) = f[c] + Sum((s \ {x}) \ {c})
          BY <1>1, <2>2, <2>5
    <3>3. (s \ {c}) \ {x} = (s \ {x}) \ {c}
          OBVIOUS
    <3>4. f[x] \in Int /\ f[c] \in Int /\ Sum((s \ {x}) \ {c}) \in Int
      <4>1. (s \ {x}) \ {c} \in SUBSET S
            OBVIOUS
      <4>. QED BY <1>0, <2>2, <4>1
    <3> DEFINE rest == Sum((s \ {x}) \ {c})
    <3>5. Sum(s \ {c}) = f[x] + rest /\ Sum(s \ {x}) = f[c] + rest
          BY <3>1, <3>2, <3>3
    <3>6. rest \in Int
          BY <3>4
    <3> HIDE DEF rest
    <3>7. Sum(s) = f[c] + (f[x] + rest)
          BY <2>3, <3>5
    <3>8. f[c] + (f[x] + rest) = f[x] + (f[c] + rest)
          BY <3>4, <3>6
    <3>. QED BY <3>5, <3>7, <3>8
  <2>. QED BY <2>4, <2>5
<1>2. SUBSET S \subseteq Good
  <2> HIDE DEF Good
  <2> QED BY <1>1, SubsetInduction
<1>. QED BY <1>2

\* Functions that agree on the set have the same sum.
LEMMA SumSame ==
    ASSUME NEW S, IsFiniteSet(S), NEW f, NEW h, \A x \in S : f[x] \in Int /\ h[x] = f[x]
    PROVE  SumFunctionOnSet(h, S) = SumFunctionOnSet(f, S)
<1> DEFINE Good == {s \in SUBSET S : SumFunctionOnSet(h, s) = SumFunctionOnSet(f, s)}
<1>1. ASSUME NEW s \in SUBSET S, \A x \in s : s \ {x} \in Good
      PROVE  s \in Good
  <2>1. IsFiniteSet(s) /\ (\A x \in s : f[x] \in Int) /\ (\A x \in s : h[x] \in Int)
        BY FS_Subset
  <2>2. /\ SumFunctionOnSet(f, s) = IF s = {} THEN 0 ELSE f[First(s)] + SumFunctionOnSet(f, s \ {First(s)})
        /\ SumFunctionOnSet(h, s) = IF s = {} THEN 0 ELSE h[First(s)] + SumFunctionOnSet(h, s \ {First(s)})
        BY <2>1, SumUnfolds
  <2>3. CASE s = {}
        BY <2>2, <2>3
  <2>4. CASE s # {}
    <3>1. First(s) \in s
          BY <2>4 DEF First
    <3>2. SumFunctionOnSet(h, s \ {First(s)}) = SumFunctionOnSet(f, s \ {First(s)})
          BY <1>1, <3>1
    <3>3. h[First(s)] = f[First(s)]
          BY <3>1
    <3>. QED BY <2>2, <2>4, <3>2, <3>3
  <2>. QED BY <2>3, <2>4
<1>2. SUBSET S \subseteq Good
  <2> HIDE DEF Good
  <2> QED BY <1>1, SubsetInduction
<1>. QED BY <1>2

\* Naturals add up to a natural, which is not 0 only when one of them is
\* not.
LEMMA SumOfNaturals ==
    ASSUME NEW S, IsFiniteSet(S), NEW f, \A x \in S : f[x] \in Nat
    PROVE  /\ SumFunctionOnSet(f, S) \in Nat
           /\ SumFunctionOnSet(f, S) > 0 => \E x \in S : f[x] > 0
<1> DEFINE Good == {s \in SUBSET S : /\ SumFunctionOnSet(f, s) \in Nat
                                     /\ SumFunctionOnSet(f, s) > 0 => \E x \in s : f[x] > 0}
<1>1. ASSUME NEW s \in SUBSET S, \A x \in s : s \ {x} \in Good
      PROVE  s \in Good
  <2>1. IsFiniteSet(s) /\ \A x \in s : f[x] \in Int
        BY FS_Subset
  <2>2. SumFunctionOnSet(f, s) = IF s = {} THEN 0 ELSE f[First(s)] + SumFunctionOnSet(f, s \ {First(s)})
        BY <2>1, SumUnfolds
  <2>3. CASE s = {}
        BY <2>2, <2>3
  <2>4. CASE s # {}
    <3>1. First(s) \in s
          BY <2>4 DEF First
    <3> DEFINE rest == SumFunctionOnSet(f, s \ {First(s)})
               c == First(s)
    <3>2. f[c] \in Nat /\ rest \in Nat /\ (rest > 0 => \E x \in s : f[x] > 0)
          BY <1>1, <2>1, <3>1
    <3>3. SumFunctionOnSet(f, s) = f[c] + rest
          BY <2>2, <2>4
    <3>4. c \in s
          BY <3>1
    <3> HIDE DEF rest, c
    <3>5. SumFunctionOnSet(f, s) \in Nat
          BY <3>2, <3>3
    <3>6. ASSUME SumFunctionOnSet(f, s) > 0 PROVE \E x \in s : f[x] > 0
      <4>1. f[c] > 0 \/ rest > 0
            BY <3>2, <3>3, <3>6
      <4>. QED BY <3>2, <3>4, <4>1
    <3>. QED BY <3>5, <3>6
  <2>. QED BY <2>3, <2>4
<1>2. SUBSET S \subseteq Good
  <2> HIDE DEF Good
  <2> QED BY <1>1, SubsetInduction
<1>. QED BY <1>2

----
(* Maxima, and folds of sequences from left to right, which take the last index first. *)

\* A finite set of integers that has an element has a greatest one.
LEMMA MaxIsGreatest ==
    ASSUME NEW S, IsFiniteSet(S), S \subseteq Int, S # {}
    PROVE  Max(S) \in S /\ \A y \in S : y <= Max(S)
<1> DEFINE Good == {s \in SUBSET S : s # {} => \E x \in s : \A y \in s : x >= y}
<1>1. ASSUME NEW s \in SUBSET S, \A x \in s : s \ {x} \in Good
      PROVE  s \in Good
  <2>1. SUFFICES ASSUME NEW x \in s PROVE \E m \in s : \A y \in s : m >= y
        OBVIOUS
  <2>2. s \ {x} \in Good
        BY <1>1
  <2>3. x \in Int /\ \A y \in s : y \in Int
        OBVIOUS
  <2>4. CASE s \ {x} = {}
    <3>1. \A y \in s : x >= y
          BY <2>3, <2>4
    <3>. QED BY <3>1
  <2>5. CASE s \ {x} # {}
    <3>1. PICK m \in s \ {x} : \A y \in s \ {x} : m >= y
          BY <2>2, <2>5
    <3>2. CASE m >= x
      <4>1. \A y \in s : m >= y
            BY <3>1, <3>2
      <4>. QED BY <4>1
    <3>3. CASE ~(m >= x)
      <4>1. \A y \in s : x >= y
            BY <2>3, <3>1, <3>3
      <4>. QED BY <4>1
    <3>. QED BY <3>2, <3>3
  <2>. QED BY <2>4, <2>5
<1>2. SUBSET S \subseteq Good
  <2> HIDE DEF Good
  <2> QED BY <1>1, SubsetInduction
<1>3. \E x \in S : \A y \in S : x >= y
      BY <1>2
<1>4. Max(S) \in S /\ \A y \in S : Max(S) >= y
      BY <1>3 DEF Max
<1>. QED BY <1>4

\* The greatest number up to n is n.
LEMMA MaxOfPrefix ==
    ASSUME NEW n \in Nat \ {0}
    PROVE  Max(1..n) = n /\ (1..n) \ {n} = 1..(n - 1)
<1>1. IsFiniteSet(1..n) /\ 1..n \subseteq Int /\ n \in 1..n
      BY FS_Interval
<1>2. Max(1..n) \in 1..n /\ n <= Max(1..n)
      BY <1>1, MaxIsGreatest
<1>3. Max(1..n) = n
      BY <1>2
<1>4. (1..n) \ {n} = 1..(n - 1)
      OBVIOUS
<1>. QED BY <1>3, <1>4

\* The greatest element of each set of indices.
LastIndex(n) == [s \in (SUBSET (1..n)) \ {{}} |-> Max(s)]

\* The recursion of a fold from left to right has a solution.
LEMMA FoldLeftExists ==
    ASSUME NEW n \in Nat, NEW Values, NEW base \in Values,
           NEW step \in [(1..n) \X Values -> Values]
    PROVE  \E g \in [SUBSET (1..n) -> Values] : Folds(g, 1..n, base, step, LastIndex(n))
<1>1. IsFiniteSet(1..n)
      BY FS_Interval
<1>2. ASSUME NEW s \in (SUBSET (1..n)) \ {{}} PROVE Max(s) \in s
  <2>1. s \in SUBSET (1..n) /\ s # {}
        OBVIOUS
  <2>2. IsFiniteSet(s)
        BY <1>1, <2>1, FS_Subset
  <2>3. s \subseteq Int
        BY <2>1
  <2>. QED BY <2>1, <2>2, <2>3, MaxIsGreatest
<1>3. LastIndex(n) \in Choosers(1..n)
      BY <1>2 DEF Choosers, LastIndex
<1>. QED BY <1>1, <1>3, FoldExists

\* Appending to a sequence adds what is appended to its range.
LEMMA RangeOfAppend ==
    ASSUME NEW S, NEW s \in Seq(S), NEW x \in S
    PROVE  Range(Append(s, x)) = Range(s) \cup {x}
<1>1. /\ Append(s, x) \in Seq(S) /\ Len(Append(s, x)) = Len(s) + 1
      /\ \A i \in 1..Len(s) : Append(s, x)[i] = s[i]
      /\ Append(s, x)[Len(s) + 1] = x
      BY AppendProperties
<1>2. Len(s) \in Nat /\ DOMAIN s = 1..Len(s) /\ DOMAIN Append(s, x) = 1..(Len(s) + 1)
      BY <1>1, LenProperties
<1>. QED BY <1>1, <1>2 DEF Range

----
(* Lists of what is left of a list. *)

\* g computes what is left of the first elements of a list.
Keeps(g, list, ws) ==
    g = [s \in SUBSET DOMAIN list |->
           IF s = {} THEN << >>
           ELSE IF list[Max(s)] \in ws THEN g[s \ {Max(s)}]
                ELSE Append(g[s \ {Max(s)}], list[Max(s)])]

\* The elements of a list that are not left out.
Kept(list, ws) ==
    FoldLeft(LAMBDA kept, w : IF w \in ws THEN kept ELSE Append(kept, w), << >>, list)

\* The definition of Kept has a solution, and is computed by one.
LEMMA KeptIsComputed ==
    ASSUME NEW Values, NEW list \in Seq(Values), NEW ws
    PROVE  \E g : Keeps(g, list, ws) /\ Kept(list, ws) = g[DOMAIN list]
<1> DEFINE n == Len(list)
           V == Seq(Values)
           step == [p \in (1..n) \X V |-> IF list[p[1]] \in ws THEN p[2] ELSE Append(p[2], list[p[1]])]
<1>1. n \in Nat /\ DOMAIN list = 1..n /\ \A i \in 1..n : list[i] \in Values
      BY LenProperties, ElementOfSeq
<1>2. step \in [(1..n) \X V -> V]
  <2>1. ASSUME NEW p \in (1..n) \X V PROVE step[p] \in V
    <3>1. p[1] \in 1..n /\ p[2] \in V
          OBVIOUS
    <3>2. Append(p[2], list[p[1]]) \in V
          BY <1>1, <3>1, AppendProperties
    <3>. QED BY <3>1, <3>2
  <2>. QED BY <2>1
<1>3. << >> \in V
      BY EmptySeq
<1>4. PICK g \in [SUBSET (1..n) -> V] : Folds(g, 1..n, << >>, step, LastIndex(n))
  <2> HIDE DEF step, V, n
  <2> QED BY <1>1, <1>2, <1>3, FoldLeftExists
<1>5. ASSUME NEW s \in SUBSET (1..n)
      PROVE  g[s] = IF s = {} THEN << >>
                    ELSE IF list[Max(s)] \in ws THEN g[s \ {Max(s)}]
                         ELSE Append(g[s \ {Max(s)}], list[Max(s)])
  <2>1. CASE s = {}
        BY <1>4, <2>1 DEF Folds
  <2>2. CASE s # {}
    <3> DEFINE m == Max(s)
    <3>1. m \in s /\ LastIndex(n)[s] = m
      <4>1. IsFiniteSet(s)
        <5>1. IsFiniteSet(1..n)
              BY <1>1, FS_Interval
        <5>. QED BY <5>1, FS_Subset
      <4>2. s \subseteq Int
            OBVIOUS
      <4>3. Max(s) \in s
            BY <2>2, <4>1, <4>2, MaxIsGreatest
      <4>. QED BY <2>2, <4>3 DEF LastIndex
    <3>2. g[s] = step[<<m, g[s \ {m}]>>]
      <4> HIDE DEF step, m
      <4>. QED BY <1>4, <2>2, <3>1 DEF Folds
    <3>3. m \in 1..n /\ g[s \ {m}] \in V
          BY <3>1
    <3> HIDE DEF m, V, n
    <3>4. step[<<m, g[s \ {m}]>>] = IF list[m] \in ws THEN g[s \ {m}] ELSE Append(g[s \ {m}], list[m])
          BY <3>3
    <3>. QED BY <2>2, <3>2, <3>4 DEF m
  <2>. QED BY <2>1, <2>2
<1>6. Keeps(g, list, ws)
  <2> DEFINE h == [s \in SUBSET DOMAIN list |->
                     IF s = {} THEN << >>
                     ELSE IF list[Max(s)] \in ws THEN g[s \ {Max(s)}]
                          ELSE Append(g[s \ {Max(s)}], list[Max(s)])]
  <2>1. DOMAIN g = SUBSET DOMAIN list /\ \A s \in SUBSET DOMAIN list : g[s] = h[s]
        BY <1>1, <1>5
  <2>2. h = [s \in SUBSET DOMAIN list |-> h[s]] /\ g = [s \in SUBSET DOMAIN list |-> g[s]]
        BY <1>1
  <2>3. g = h
    <3> HIDE DEF h
    <3> QED BY <2>1, <2>2
  <2>. QED BY <2>3 DEF Keeps
<1> DEFINE G == CHOOSE k : Keeps(k, list, ws)
<1>7. Keeps(G, list, ws)
      BY <1>6
<1>8. Kept(list, ws) = G[DOMAIN list]
      BY DEF Kept, FoldLeft, MapThenFoldSet, Keeps
<1>. QED BY <1>7, <1>8

\* The list grows with each element that is kept.
LEMMA KeptUnfolds ==
    ASSUME NEW Values, NEW list \in Seq(Values), NEW ws
    PROVE  \E h : /\ h[0] = << >> /\ Kept(list, ws) = h[Len(list)]
                  /\ \A n \in Nat : n + 1 <= Len(list) =>
                       h[n + 1] = IF list[n + 1] \in ws THEN h[n] ELSE Append(h[n], list[n + 1])
<1>1. PICK g : Keeps(g, list, ws) /\ Kept(list, ws) = g[DOMAIN list]
      BY KeptIsComputed
<1>2. Len(list) \in Nat /\ DOMAIN list = 1..Len(list)
      BY LenProperties
<1> DEFINE h == [n \in Nat |-> g[1..n]]
<1>3. h[0] = << >>
  <2>1. 1..0 = {} /\ {} \in SUBSET DOMAIN list
        OBVIOUS
  <2>. QED BY <1>1, <2>1 DEF Keeps
<1>4. ASSUME NEW n \in Nat, n + 1 <= Len(list)
      PROVE  h[n + 1] = IF list[n + 1] \in ws THEN h[n] ELSE Append(h[n], list[n + 1])
  <2> DEFINE m == n + 1
  <2>1. m \in Nat \ {0} /\ m - 1 = n
        OBVIOUS
  <2>2. Max(1..m) = m /\ (1..m) \ {m} = 1..n
        BY <2>1, MaxOfPrefix
  <2>3. 1..m \in SUBSET DOMAIN list /\ 1..m # {}
    <3>1. 1..m \subseteq 1..Len(list) /\ m \in 1..m
          BY <1>2, <1>4
    <3> HIDE DEF m
    <3>. QED BY <1>2, <3>1
  <2>4. h[m] = g[1..m] /\ h[n] = g[1..n]
        BY <2>1
  <2> HIDE DEF m, h
  <2>5. h[m] = IF list[m] \in ws THEN h[n] ELSE Append(h[n], list[m])
        BY <1>1, <2>2, <2>3, <2>4 DEF Keeps
  <2>. QED BY <2>5 DEF m
<1>5. Kept(list, ws) = h[Len(list)]
      BY <1>1, <1>2
<1>. QED BY <1>3, <1>4, <1>5

\* Kept is a list of exactly those that are not left out.
LEMMA KeptIsLeft ==
    ASSUME NEW Values, NEW list \in Seq(Values), NEW ws
    PROVE  /\ Kept(list, ws) \in Seq(Values) /\ Range(Kept(list, ws)) = Range(list) \ ws
           /\ \A T : (\A i, j \in DOMAIN list : list[i] \in T /\ list[j] \in T => i = j) =>
                \A i, j \in DOMAIN Kept(list, ws) :
                  Kept(list, ws)[i] \in T /\ Kept(list, ws)[j] \in T => i = j
<1>1. PICK h : /\ h[0] = << >> /\ Kept(list, ws) = h[Len(list)]
               /\ \A n \in Nat : n + 1 <= Len(list) =>
                    h[n + 1] = IF list[n + 1] \in ws THEN h[n] ELSE Append(h[n], list[n + 1])
      BY KeptUnfolds
<1>2. Len(list) \in Nat /\ DOMAIN list = 1..Len(list) /\ \A i \in 1..Len(list) : list[i] \in Values
      BY LenProperties, ElementOfSeq
<1> DEFINE Once(s, T) == \A i, j \in DOMAIN s : s[i] \in T /\ s[j] \in T => i = j
           Good == {n \in Nat : n <= Len(list) =>
                      /\ h[n] \in Seq(Values)
                      /\ Range(h[n]) = {list[i] : i \in 1..n} \ ws
                      /\ \A T : Once(list, T) => Once(h[n], T)}
<1>3. 0 \in Good
  <2>1. Range(<< >>) = {} /\ \A T : Once(<< >>, T)
        BY DEF Range
  <2>2. {list[i] : i \in 1..0} = {}
        OBVIOUS
  <2>. QED BY <1>1, <2>1, <2>2, EmptySeq
<1>4. ASSUME NEW n \in Nat, n \in Good PROVE n + 1 \in Good
  <2> DEFINE m == n + 1
             rest == h[n]
  <2>1. SUFFICES ASSUME n + 1 <= Len(list)
                 PROVE  n + 1 \in Good
    <3>1. n + 1 \in Nat
          OBVIOUS
    <3>2. CASE ~ (n + 1 <= Len(list))
          BY <3>1, <3>2
    <3>. QED BY <3>2
  <2>2. h[m] = IF list[m] \in ws THEN rest ELSE Append(rest, list[m])
        BY <1>1, <2>1
  <2>3. /\ rest \in Seq(Values) /\ Range(rest) = {list[i] : i \in 1..n} \ ws
        /\ \A T : Once(list, T) => Once(rest, T)
        BY <1>4, <2>1
  <2>4. m \in 1..Len(list) /\ list[m] \in Values
        BY <1>2, <2>1
  <2>5. {list[i] : i \in 1..m} = {list[i] : i \in 1..n} \cup {list[m]}
    <3>1. 1..m = (1..n) \cup {m}
          OBVIOUS
    <3> HIDE DEF m
    <3>. QED BY <3>1
  <2>6. \A i \in 1..n : i \in DOMAIN list /\ i # m
        BY <1>2, <2>1
  <2> HIDE DEF rest, m, Once
  <2> DEFINE Longer == /\ h[m] \in Seq(Values) /\ Range(h[m]) = {list[i] : i \in 1..m} \ ws
                       /\ \A T : Once(list, T) => Once(h[m], T)
  <2>7. ASSUME list[m] \in ws PROVE Longer
        BY <2>2, <2>3, <2>5, <2>7
  <2>8. ASSUME list[m] \notin ws PROVE Longer
    <3>1. Append(rest, list[m]) \in Seq(Values)
          BY <2>3, <2>4, AppendProperties
    <3>2. Range(Append(rest, list[m])) = Range(rest) \cup {list[m]}
          BY <2>3, <2>4, RangeOfAppend
    <3>3. ASSUME NEW T, Once(list, T) PROVE Once(Append(rest, list[m]), T)
      <4>1. Once(rest, T)
            BY <2>3, <3>3
      <4>2. /\ Len(rest) \in Nat /\ DOMAIN rest = 1..Len(rest)
            /\ DOMAIN Append(rest, list[m]) = 1..(Len(rest) + 1)
            /\ Append(rest, list[m])[Len(rest) + 1] = list[m]
            /\ \A i \in 1..Len(rest) : Append(rest, list[m])[i] = rest[i]
            BY <2>3, <2>4, AppendProperties, LenProperties
      <4>3. CASE list[m] \notin T
            BY <4>1, <4>2, <4>3 DEF Once
      <4>4. CASE list[m] \in T
        <5>1. \A i \in 1..n : list[i] \notin T
              BY <1>2, <2>4, <2>6, <3>3, <4>4 DEF Once
        <5>2. \A x \in Range(rest) : x \notin T
              BY <2>3, <5>1
        <5>3. \A i \in DOMAIN rest : rest[i] \notin T
              BY <5>2 DEF Range
        <5>. QED BY <4>2, <5>3 DEF Once
      <4>. QED BY <4>3, <4>4
    <3>. QED BY <2>2, <2>3, <2>5, <2>8, <3>1, <3>2, <3>3
  <2>9. Longer
        BY <2>7, <2>8
  <2>10. n + 1 \in Nat
        OBVIOUS
  <2>. QED BY <2>9, <2>10 DEF m, Once
<1>5. Nat \subseteq Good
  <2> HIDE DEF Good
  <2> QED BY <1>3, <1>4, NatInductionSet
<1>6. Len(list) \in Good
      BY <1>2, <1>5
<1>7. /\ Kept(list, ws) \in Seq(Values) /\ Range(Kept(list, ws)) = {list[i] : i \in 1..Len(list)} \ ws
      /\ \A T : Once(list, T) => Once(Kept(list, ws), T)
      BY <1>1, <1>2, <1>6
<1>8. Range(list) = {list[i] : i \in 1..Len(list)}
      BY <1>2 DEF Range
<1>. QED BY <1>7, <1>8

----
(* Sums of the elements of a sequence. *)

SumOf(s) == SumFunctionOnSet(s, DOMAIN s)

\* A function of the positions up to n is a sequence of that length.
LEMMA SequenceOfLength ==
    ASSUME NEW S, NEW n \in Nat, NEW f \in [1..n -> S]
    PROVE  f \in Seq(S) /\ Len(f) = n
<1>1. f \in Seq(S)
      BY IsASeq
<1>2. Len(f) \in Nat /\ DOMAIN f = 1..Len(f) /\ DOMAIN f = 1..n
      BY <1>1, LenProperties
<1>3. CASE Len(f) > n
  <2>1. Len(f) \in 1..Len(f) /\ Len(f) \notin 1..n
        BY <1>2, <1>3
  <2>. QED BY <1>2, <2>1
<1>4. CASE Len(f) < n
  <2>1. n \in 1..n /\ n \notin 1..Len(f)
        BY <1>2, <1>4
  <2>. QED BY <1>2, <2>1
<1>. QED BY <1>1, <1>2, <1>3, <1>4

LEMMA SumOfType ==
    ASSUME NEW s \in Seq(Int)
    PROVE  /\ SumOf(s) \in Int /\ IsFiniteSet(DOMAIN s) /\ (\A i \in DOMAIN s : s[i] \in Int)
           /\ DOMAIN s = 1..Len(s) /\ Len(s) \in Nat
<1>1. Len(s) \in Nat /\ DOMAIN s = 1..Len(s) /\ \A i \in 1..Len(s) : s[i] \in Int
      BY LenProperties, ElementOfSeq
<1>2. IsFiniteSet(DOMAIN s)
  <2>1. 1 \in Int /\ Len(s) \in Int
        BY <1>1
  <2>. QED BY <1>1, <2>1, FS_Interval
<1>. QED BY <1>1, <1>2, SumType DEF SumOf

LEMMA SumOfEmpty == SumOf(<< >>) = 0
<1>1. DOMAIN << >> = {} /\ IsFiniteSet({})
      BY FS_EmptySet
<1> DEFINE none == << >>
<1>2. \A x \in DOMAIN none : none[x] \in Int
      BY <1>1
<1>3. SumFunctionOnSet(none, {}) = 0
  <2>1. \A x \in {} : none[x] \in Int
        OBVIOUS
  <2> HIDE DEF none
  <2>. QED BY <1>1, <2>1, SumUnfolds
<1>. QED BY <1>1, <1>3 DEF SumOf

\* An element more adds itself.
LEMMA SumOfAppend ==
    ASSUME NEW s \in Seq(Int), NEW x \in Int
    PROVE  SumOf(Append(s, x)) = SumOf(s) + x
<1> DEFINE t == Append(s, x)
           n == Len(s) + 1
<1>1. /\ t \in Seq(Int) /\ Len(t) = n /\ t[n] = x /\ \A i \in 1..Len(s) : t[i] = s[i]
      BY AppendProperties
<1>2. /\ SumOf(s) \in Int /\ IsFiniteSet(DOMAIN s) /\ (\A i \in DOMAIN s : s[i] \in Int)
      /\ DOMAIN s = 1..Len(s) /\ Len(s) \in Nat
      BY SumOfType
<1> HIDE DEF t
<1>3. IsFiniteSet(DOMAIN t) /\ (\A i \in DOMAIN t : t[i] \in Int) /\ DOMAIN t = 1..n
      BY <1>1, SumOfType
<1>4. n \in DOMAIN t /\ (DOMAIN t) \ {n} = DOMAIN s
      BY <1>2, <1>3
<1> HIDE DEF n
<1>5. SumFunctionOnSet(t, DOMAIN t) = t[n] + SumFunctionOnSet(t, (DOMAIN t) \ {n})
      BY <1>3, <1>4, SumPick
<1>6. SumFunctionOnSet(t, DOMAIN s) = SumFunctionOnSet(s, DOMAIN s)
      BY <1>1, <1>2, SumSame
<1>7. SumOf(t) = x + SumOf(s)
      BY <1>1, <1>4, <1>5, <1>6 DEF SumOf
<1>. QED BY <1>2, <1>7 DEF t

\* An element that is replaced changes the sum by the difference.
LEMMA SumOfReplaced ==
    ASSUME NEW s \in Seq(Int), NEW k \in DOMAIN s, NEW x \in Int
    PROVE  SumOf([s EXCEPT ![k] = x]) = SumOf(s) - s[k] + x
<1> DEFINE t == [s EXCEPT ![k] = x]
           rest == (DOMAIN s) \ {k}
<1>1. /\ SumOf(s) \in Int /\ IsFiniteSet(DOMAIN s) /\ (\A i \in DOMAIN s : s[i] \in Int)
      BY SumOfType
<1>2. /\ DOMAIN t = DOMAIN s /\ t[k] = x /\ (\A i \in rest : t[i] = s[i])
      /\ \A i \in DOMAIN t : t[i] \in Int
      BY <1>1
<1>3. IsFiniteSet(rest) /\ \A i \in rest : s[i] \in Int
      BY <1>1, FS_Subset
<1>4. SumFunctionOnSet(s, rest) \in Int
  <2> HIDE DEF rest
  <2>. QED BY <1>3, SumType
<1>5. SumFunctionOnSet(s, DOMAIN s) = s[k] + SumFunctionOnSet(s, rest)
      BY <1>1, SumPick
<1> HIDE DEF t
<1>6. SumFunctionOnSet(t, DOMAIN s) = t[k] + SumFunctionOnSet(t, rest)
      BY <1>1, <1>2, SumPick
<1>7. SumFunctionOnSet(t, rest) = SumFunctionOnSet(s, rest)
  <2> HIDE DEF rest
  <2>. QED BY <1>2, <1>3, SumSame
<1> HIDE DEF rest
<1>8. SumOf(s) = s[k] + SumFunctionOnSet(s, rest) /\ SumOf(t) = x + SumFunctionOnSet(s, rest)
      BY <1>2, <1>5, <1>6, <1>7 DEF SumOf
<1>9. s[k] \in Int
      BY <1>1
<1>. QED BY <1>4, <1>8, <1>9 DEF t

\* Nothing but zeros adds up to 0; of zeros and one other number, that number is the sum.
LEMMA SumOfZeros ==
    ASSUME NEW S, IsFiniteSet(S), NEW f, \A x \in S : f[x] = 0
    PROVE  SumFunctionOnSet(f, S) = 0
<1>1. \A x \in S : f[x] \in Nat /\ ~(f[x] > 0)
      OBVIOUS
<1>. QED BY <1>1, SumOfNaturals

LEMMA SumOfOne ==
    ASSUME NEW S, IsFiniteSet(S), NEW f, NEW e \in S, f[e] \in Int, \A x \in S \ {e} : f[x] = 0
    PROVE  SumFunctionOnSet(f, S) = f[e]
<1>1. \A x \in S : f[x] \in Int
      OBVIOUS
<1>2. SumFunctionOnSet(f, S) = f[e] + SumFunctionOnSet(f, S \ {e})
      BY <1>1, SumPick
<1>3. SumFunctionOnSet(f, S \ {e}) = 0
  <2> DEFINE T == S \ {e}
  <2>1. IsFiniteSet(T) /\ \A x \in T : f[x] = 0
        BY FS_Subset
  <2> HIDE DEF T
  <2>2. SumFunctionOnSet(f, T) = 0
        BY <2>1, SumOfZeros
  <2>. QED BY <2>2 DEF T
<1>. QED BY <1>2, <1>3

\* A set of positions that has an element has a least one.
LEMMA MinIsLeast ==
    ASSUME NEW n \in Nat, NEW S \in SUBSET (1..n), S # {}
    PROVE  \E x \in S : \A y \in S : x <= y
<1> DEFINE Mirror == {n + 1 - x : x \in S}
<1>1. Mirror \subseteq 1..n /\ Mirror # {}
  <2>1. \A x \in S : x \in 1..n
        OBVIOUS
  <2>2. \A x \in 1..n : n + 1 - x \in 1..n
        OBVIOUS
  <2>. QED BY <2>1, <2>2
<1>2. IsFiniteSet(Mirror) /\ Mirror \subseteq Int
  <2>1. IsFiniteSet(1..n) /\ 1..n \subseteq Int
        BY FS_Interval
  <2> HIDE DEF Mirror
  <2>. QED BY <1>1, <2>1, FS_Subset
<1>3. Max(Mirror) \in Mirror /\ \A y \in Mirror : y <= Max(Mirror)
  <2> HIDE DEF Mirror
  <2>. QED BY <1>1, <1>2, MaxIsGreatest
<1>4. PICK x \in S : Max(Mirror) = n + 1 - x
      BY <1>3
<1>5. ASSUME NEW y \in S PROVE x <= y
  <2>1. n + 1 - y <= n + 1 - x
        BY <1>3, <1>4
  <2>2. x \in Int /\ y \in Int
        OBVIOUS
  <2>. QED BY <2>1, <2>2
<1>. QED BY <1>5

====
