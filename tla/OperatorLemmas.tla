--------------------------- MODULE OperatorLemmas ---------------------------
(***************************************************************************)
(* What the models' operators return: the least and the greatest of a set  *)
(* of numbers, the sum of a function over a set, sequences joined, and the *)
(* text that the string utilities make of another.  The induction these    *)
(* need is over a set of numbers, not over an operator.                    *)
(***************************************************************************)
EXTENDS StringUtils, FiniteSetTheorems, FunctionTheorems, SequenceTheorems, TLAPS

\* A set of naturals with 0 and every successor is all of them.
LEMMA NatSetInduction ==
  ASSUME NEW X, 0 \in X, \A n \in Nat : n \in X => n + 1 \in X
  PROVE  \A n \in Nat : n \in X
<1> SUFFICES ASSUME Nat \ X # {}
             PROVE  FALSE
  OBVIOUS
<1>1. \E m \in Nat \ X : \A y \in Nat \ X : ~ (<<y, m>> \in OpToRel(<, Nat))
  <2>1. Nat \ X \subseteq Nat
    OBVIOUS
  <2> QED
    BY <2>1, NatLessThanWellFounded, WFMin
<1>2. PICK m \in Nat \ X : \A y \in Nat \ X : ~ (y < m)
  BY <1>1 DEF OpToRel
<1>3. m - 1 \in Nat /\ m - 1 \in X
  BY <1>2
<1> QED
  BY <1>2, <1>3

\* Only the empty set has none.
LEMMA NoElements ==
  ASSUME NEW S, IsFiniteSet(S), NEW T \in SUBSET S, Cardinality(T) <= 0
  PROVE  T = {}
<1>1. IsFiniteSet(T)
  BY FS_Subset
<1>2. Cardinality(T) = 0
  BY <1>1, FS_CardinalityType
<1> QED
  BY <1>1, <1>2, FS_EmptySet

\* The least of a set of naturals.
LEMMA MinOfNats ==
  ASSUME NEW S, S \subseteq Nat, S # {}
  PROVE  Min(S) \in S /\ \A x \in S : Min(S) <= x
<1>1. \E m \in S : \A y \in S : ~ (<<y, m>> \in OpToRel(<, Nat))
  BY NatLessThanWellFounded, WFMin
<1>2. \E m \in S : \A y \in S : ~ (y < m)
  BY <1>1 DEF OpToRel
<1>3. \E m \in S : \A y \in S : m =< y
  BY <1>2
<1> QED
  BY <1>3 DEF Min

\* The greatest of a finite set of naturals.
LEMMA MaxOfNats ==
  ASSUME NEW S, S \subseteq Nat, S # {}, IsFiniteSet(S)
  PROVE  Max(S) \in S /\ \A x \in S : Max(S) >= x
<1> DEFINE Bounded == {n \in Nat : \A T \in SUBSET S :
                         T # {} /\ Cardinality(T) <= n => \E m \in T : \A x \in T : m >= x}
<1>1. 0 \in Bounded
  <2>1. \A T \in SUBSET S : Cardinality(T) <= 0 => T = {}
    BY NoElements
  <2> QED
    BY <2>1
<1>2. ASSUME NEW n \in Nat, n \in Bounded
      PROVE  n + 1 \in Bounded
  <2> SUFFICES ASSUME NEW T \in SUBSET S, T # {}, Cardinality(T) <= n + 1
               PROVE  \E m \in T : \A x \in T : m >= x
    OBVIOUS
  <2>1. PICK t \in T : TRUE
    OBVIOUS
  <2>2. IsFiniteSet(T) /\ Cardinality(T) \in Nat
    BY FS_Subset, FS_CardinalityType
  <2>3. Cardinality(T \ {t}) <= n
    <3>1. Cardinality(T \ {t}) = Cardinality(T) - 1
      BY <2>1, <2>2, FS_RemoveElement
    <3> QED
      BY <2>2, <3>1
  <2>4. CASE T \ {t} = {}
    BY <2>1, <2>4
  <2>5. CASE T \ {t} # {}
    <3>1. PICK m \in T \ {t} : \A x \in T \ {t} : m >= x
      BY <1>2, <2>3, <2>5
    <3> QED
      BY <2>1, <3>1
  <2> QED
    BY <2>4, <2>5
<1>3. Cardinality(S) \in Nat
  BY FS_CardinalityType
<1>4. \A n \in Nat : n \in Bounded
  <2> HIDE DEF Bounded
  <2> QED
    BY <1>1, <1>2, NatSetInduction
<1>5. \E m \in S : \A x \in S : m >= x
  BY <1>3, <1>4
<1> QED
  BY <1>5 DEF Max

\* A finite set can be numbered, and a numbering without repetition misses
\* nothing.
LEMMA Enumeration ==
  ASSUME NEW S, IsFiniteSet(S)
  PROVE  /\ Cardinality(S) \in Nat
         /\ \E f \in [1..Cardinality(S) -> S] :
              \A a, b \in 1..Cardinality(S) : f[a] = f[b] => a = b
         /\ \A f \in [1..Cardinality(S) -> S] :
              (\A a, b \in 1..Cardinality(S) : f[a] = f[b] => a = b) =>
                \A x \in S : \E k \in 1..Cardinality(S) : f[k] = x
<1> DEFINE N == 1..Cardinality(S)
<1>1. Cardinality(S) \in Nat /\ ExistsBijection(N, S)
  BY FS_CardinalityType
<1>2. PICK g \in Bijection(N, S) : TRUE
  BY <1>1 DEF ExistsBijection
<1>3. g \in [N -> S] /\ \A a, b \in N : g[a] = g[b] => a = b
  BY <1>2, Fun_BijectionProperties
<1>4. ASSUME NEW f \in [N -> S], \A a, b \in N : f[a] = f[b] => a = b
      PROVE  \A x \in S : \E k \in N : f[k] = x
  <2>1. f \in Injection(N, S)
    BY <1>4, Fun_IsInj
  <2>2. Cardinality(N) = Cardinality(S)
    BY <1>1, FS_Interval
  <2>3. f \in Surjection(N, S)
    BY <2>1, <2>2, FS_Injection
  <2> QED
    BY <2>3 DEF Surjection
<1> QED
  BY <1>1, <1>3, <1>4
-----------------------------------------------------------------------------
(* The sum of f over S: MapThenFoldSet takes the elements one at a time.   *)

Chosen(s) == CHOOSE x \in s : TRUE

\* What MapThenFoldSet's recursive function on the subsets of S has to be.
Sums(g, f, S) ==
  g = [s \in SUBSET S |-> IF s = {} THEN 0 ELSE f[Chosen(s)] + g[s \ {Chosen(s)}]]

LEMMA ChosenRemoved ==
  ASSUME NEW S, IsFiniteSet(S), NEW s \in SUBSET S, s # {}
  PROVE  /\ Chosen(s) \in s
         /\ s \ {Chosen(s)} \in SUBSET S
         /\ Cardinality(s) \in Nat
         /\ Cardinality(s \ {Chosen(s)}) = Cardinality(s) - 1
<1>1. Chosen(s) \in s
  BY DEF Chosen
<1>2. IsFiniteSet(s)
  BY FS_Subset
<1> QED
  BY <1>1, <1>2, FS_CardinalityType, FS_RemoveElement

LEMMA SumsExist ==
  ASSUME NEW f, NEW S, IsFiniteSet(S)
  PROVE  \E g : Sums(g, f, S)
<1> DEFINE Next_(g, s) == IF s = {} THEN 0 ELSE f[Chosen(s)] + g[s \ {Chosen(s)}]
           UpTo == {n \in Nat : \E g : \A s \in SUBSET S :
                      Cardinality(s) <= n => g[s] = Next_(g, s)}
<1>1. 0 \in UpTo
  <2> DEFINE g == [s \in SUBSET S |-> 0]
  <2>1. ASSUME NEW s \in SUBSET S, Cardinality(s) <= 0
        PROVE  g[s] = Next_(g, s)
    <3>1. s = {}
      BY <2>1, NoElements
    <3> QED
      BY <3>1
  <2>2. \A s \in SUBSET S : Cardinality(s) <= 0 => g[s] = Next_(g, s)
    BY <2>1
  <2> HIDE DEF g
  <2> QED
    BY <2>2
<1>2. ASSUME NEW n \in Nat, n \in UpTo
      PROVE  n + 1 \in UpTo
  <2>1. PICK g : \A s \in SUBSET S : Cardinality(s) <= n => g[s] = Next_(g, s)
    BY <1>2
  <2> DEFINE h == [s \in SUBSET S |-> IF Cardinality(s) <= n THEN g[s] ELSE Next_(g, s)]
  <2>2. ASSUME NEW s \in SUBSET S, Cardinality(s) <= n + 1
        PROVE  h[s] = Next_(h, s)
    <3>1. h[s] = Next_(g, s)
      BY <2>1
    <3>2. CASE s = {}
      BY <3>1, <3>2
    <3>3. CASE s # {}
      <4>1. /\ s \ {Chosen(s)} \in SUBSET S
            /\ Cardinality(s \ {Chosen(s)}) <= n
        BY <2>2, <3>3, ChosenRemoved
      <4>2. h[s \ {Chosen(s)}] = g[s \ {Chosen(s)}]
        BY <4>1
      <4> HIDE DEF h
      <4> QED
        BY <3>1, <3>3, <4>2
    <3> QED
      BY <3>2, <3>3
  <2>3. \A s \in SUBSET S : Cardinality(s) <= n + 1 => h[s] = Next_(h, s)
    BY <2>2
  <2> HIDE DEF h, Next_
  <2>4. \E k : \A s \in SUBSET S : Cardinality(s) <= n + 1 => k[s] = Next_(k, s)
    BY <2>3
  <2> QED
    BY <2>4
<1>3. Cardinality(S) \in UpTo
  <2> HIDE DEF UpTo
  <2> QED
    BY <1>1, <1>2, NatSetInduction, FS_CardinalityType
<1>4. PICK g : \A s \in SUBSET S : Cardinality(s) <= Cardinality(S) => g[s] = Next_(g, s)
  BY <1>3
<1>5. \A s \in SUBSET S : g[s] = Next_(g, s)
  BY <1>4, FS_Subset
<1> DEFINE h == [s \in SUBSET S |-> g[s]]
<1>6. ASSUME NEW s \in SUBSET S
      PROVE  h[s] = Next_(h, s)
  <2>1. CASE s = {}
    BY <1>5, <2>1
  <2>2. CASE s # {}
    <3>1. h[s \ {Chosen(s)}] = g[s \ {Chosen(s)}]
      BY <2>2, ChosenRemoved
    <3>2. h[s] = Next_(g, s)
      BY <1>5
    <3> HIDE DEF h
    <3> QED
      BY <2>2, <3>1, <3>2
  <2> QED
    BY <2>1, <2>2
<1>7. h = [s \in SUBSET S |-> Next_(h, s)]
  <2>1. h = [s \in SUBSET S |-> h[s]]
    OBVIOUS
  <2> HIDE DEF h
  <2> QED
    BY <1>6, <2>1
<1> HIDE DEF h
<1> QED
  BY <1>7 DEF Sums

LEMMA SumsDefine ==
  ASSUME NEW f, NEW S, IsFiniteSet(S)
  PROVE  \E g : Sums(g, f, S) /\ SumFunctionOnSet(f, S) = g[S]
<1> DEFINE iter == CHOOSE g : Sums(g, f, S)
<1>1. Sums(iter, f, S)
  BY SumsExist
<1>2. SumFunctionOnSet(f, S) = iter[S]
  BY DEF SumFunctionOnSet, FoldFunctionOnSet, MapThenFoldSet, Sums, Chosen
<1> HIDE DEF iter
<1> QED
  BY <1>1, <1>2

LEMMA SumsAgree ==
  ASSUME NEW f, NEW S, IsFiniteSet(S), NEW T \in SUBSET S, NEW g, NEW h,
         Sums(g, f, S), Sums(h, f, T)
  PROVE  g[T] = h[T]
<1> DEFINE UpTo == {n \in Nat : \A s \in SUBSET T : Cardinality(s) <= n => g[s] = h[s]}
<1>0. IsFiniteSet(T)
  BY FS_Subset
<1>1. 0 \in UpTo
  <2>1. ASSUME NEW s \in SUBSET T, Cardinality(s) <= 0
        PROVE  g[s] = h[s]
    <3>1. s = {} /\ s \in SUBSET S
      BY <1>0, <2>1, NoElements
    <3> QED
      BY <3>1 DEF Sums
  <2> QED
    BY <2>1
<1>2. ASSUME NEW n \in Nat, n \in UpTo
      PROVE  n + 1 \in UpTo
  <2>1. ASSUME NEW s \in SUBSET T, Cardinality(s) <= n + 1
        PROVE  g[s] = h[s]
    <3>1. s \in SUBSET S
      OBVIOUS
    <3>2. CASE s = {}
      BY <3>1, <3>2 DEF Sums
    <3>3. CASE s # {}
      <4>1. /\ s \ {Chosen(s)} \in SUBSET T
            /\ Cardinality(s \ {Chosen(s)}) <= n
        BY <1>0, <2>1, <3>3, ChosenRemoved
      <4>2. g[s \ {Chosen(s)}] = h[s \ {Chosen(s)}]
        BY <1>2, <4>1
      <4>3. /\ g[s] = f[Chosen(s)] + g[s \ {Chosen(s)}]
            /\ h[s] = f[Chosen(s)] + h[s \ {Chosen(s)}]
        BY <3>1, <3>3 DEF Sums
      <4> QED
        BY <4>2, <4>3
    <3> QED
      BY <3>2, <3>3
  <2> QED
    BY <2>1
<1>3. Cardinality(T) \in UpTo
  <2> HIDE DEF UpTo
  <2> QED
    BY <1>0, <1>1, <1>2, NatSetInduction, FS_CardinalityType
<1> QED
  BY <1>3

LEMMA SumChosen ==
  ASSUME NEW f, NEW S, IsFiniteSet(S)
  PROVE  SumFunctionOnSet(f, S) =
           IF S = {} THEN 0 ELSE f[Chosen(S)] + SumFunctionOnSet(f, S \ {Chosen(S)})
<1>1. PICK g : Sums(g, f, S) /\ SumFunctionOnSet(f, S) = g[S]
  BY SumsDefine
<1>2. CASE S = {}
  BY <1>1, <1>2 DEF Sums
<1>3. CASE S # {}
  <2> DEFINE T == S \ {Chosen(S)}
  <2>1. g[S] = f[Chosen(S)] + g[T]
    BY <1>1, <1>3 DEF Sums
  <2>2. T \in SUBSET S /\ IsFiniteSet(T)
    BY FS_Subset
  <2> HIDE DEF T
  <2>3. PICK h : Sums(h, f, T) /\ SumFunctionOnSet(f, T) = h[T]
    BY <2>2, SumsDefine
  <2>4. g[T] = h[T]
    BY <1>1, <2>2, <2>3, SumsAgree
  <2> QED
    BY <1>1, <1>3, <2>1, <2>3, <2>4 DEF T
<1> QED
  BY <1>2, <1>3
-----------------------------------------------------------------------------
\* A sum of naturals is one.
LEMMA SumType ==
  ASSUME NEW f, NEW S, IsFiniteSet(S), \A x \in S : f[x] \in Nat
  PROVE  SumFunctionOnSet(f, S) \in Nat
<1> DEFINE UpTo == {n \in Nat : \A s \in SUBSET S :
                      Cardinality(s) <= n => SumFunctionOnSet(f, s) \in Nat}
<1>1. 0 \in UpTo
  <2>1. ASSUME NEW s \in SUBSET S, Cardinality(s) <= 0
        PROVE  SumFunctionOnSet(f, s) \in Nat
    <3>1. s = {}
      BY <2>1, NoElements
    <3> QED
      BY <3>1, SumChosen, FS_EmptySet
  <2> QED
    BY <2>1
<1>2. ASSUME NEW n \in Nat, n \in UpTo
      PROVE  n + 1 \in UpTo
  <2>1. ASSUME NEW s \in SUBSET S, Cardinality(s) <= n + 1
        PROVE  SumFunctionOnSet(f, s) \in Nat
    <3>1. SumFunctionOnSet(f, s) =
            IF s = {} THEN 0 ELSE f[Chosen(s)] + SumFunctionOnSet(f, s \ {Chosen(s)})
      BY SumChosen, FS_Subset
    <3>2. CASE s = {}
      BY <3>1, <3>2
    <3>3. CASE s # {}
      <4>1. /\ s \ {Chosen(s)} \in SUBSET S
            /\ Cardinality(s \ {Chosen(s)}) <= n
            /\ Chosen(s) \in S
        BY <2>1, <3>3, ChosenRemoved
      <4>2. SumFunctionOnSet(f, s \ {Chosen(s)}) \in Nat
        BY <1>2, <4>1
      <4> QED
        BY <3>1, <3>3, <4>1, <4>2
    <3> QED
      BY <3>2, <3>3
  <2> QED
    BY <2>1
<1>3. Cardinality(S) \in UpTo
  <2> HIDE DEF UpTo
  <2> QED
    BY <1>1, <1>2, NatSetInduction, FS_CardinalityType
<1> QED
  BY <1>3

\* The order in which the elements are taken does not matter.
LEMMA SumRemove ==
  ASSUME NEW f, NEW S, IsFiniteSet(S), \A x \in S : f[x] \in Nat, NEW x \in S
  PROVE  SumFunctionOnSet(f, S) = f[x] + SumFunctionOnSet(f, S \ {x})
<1> DEFINE Sum_(s) == SumFunctionOnSet(f, s)
           UpTo == {n \in Nat : \A s \in SUBSET S : \A y \in s :
                      Cardinality(s) <= n => Sum_(s) = f[y] + Sum_(s \ {y})}
<1>1. 0 \in UpTo
  <2>1. \A s \in SUBSET S : Cardinality(s) <= 0 => s = {}
    BY NoElements
  <2> QED
    BY <2>1
<1>2. ASSUME NEW n \in Nat, n \in UpTo
      PROVE  n + 1 \in UpTo
  <2>1. ASSUME NEW s \in SUBSET S, NEW y \in s, Cardinality(s) <= n + 1
        PROVE  Sum_(s) = f[y] + Sum_(s \ {y})
    <3> DEFINE c == Chosen(s)
    <3>1. Sum_(s) = f[c] + Sum_(s \ {c})
      BY SumChosen, FS_Subset
    <3>2. CASE y = c
      BY <3>1, <3>2
    <3>3. CASE y # c
      <4>1. /\ c \in s /\ s \ {c} \in SUBSET S
            /\ Cardinality(s) \in Nat /\ Cardinality(s \ {c}) = Cardinality(s) - 1
        BY ChosenRemoved
      <4>2. s \ {y} \in SUBSET S /\ Cardinality(s \ {y}) = Cardinality(s) - 1
        <5>1. IsFiniteSet(s)
          BY FS_Subset
        <5> QED
          BY <5>1, FS_RemoveElement
      <4> HIDE DEF c
      <4>3. Sum_(s \ {c}) = f[y] + Sum_((s \ {c}) \ {y})
        <5>1. y \in s \ {c} /\ Cardinality(s \ {c}) <= n
          BY <2>1, <3>3, <4>1
        <5> QED
          BY <1>2, <4>1, <5>1
      <4>4. Sum_(s \ {y}) = f[c] + Sum_((s \ {y}) \ {c})
        <5>1. c \in s \ {y} /\ Cardinality(s \ {y}) <= n
          BY <2>1, <3>3, <4>1, <4>2
        <5> QED
          BY <1>2, <4>2, <5>1
      <4>5. (s \ {c}) \ {y} = (s \ {y}) \ {c} /\ (s \ {c}) \ {y} \in SUBSET S
        OBVIOUS
      <4>6. Sum_((s \ {c}) \ {y}) \in Nat
        BY <4>5, SumType, FS_Subset
      <4>7. f[c] \in Nat /\ f[y] \in Nat
        BY <4>1
      <4> HIDE DEF Sum_
      <4>8. Sum_(s) = f[c] + (f[y] + Sum_((s \ {c}) \ {y}))
        BY <3>1, <4>3
      <4>9. Sum_(s \ {y}) = f[c] + Sum_((s \ {c}) \ {y})
        BY <4>4, <4>5
      <4> QED
        BY <4>6, <4>7, <4>8, <4>9
    <3> QED
      BY <3>2, <3>3
  <2> QED
    BY <2>1
<1>3. Cardinality(S) \in UpTo
  <2> HIDE DEF UpTo
  <2> QED
    BY <1>1, <1>2, NatSetInduction, FS_CardinalityType
<1> QED
  BY <1>3

\* Only the values on S matter.
LEMMA SumSame ==
  ASSUME NEW f, NEW g, NEW S, IsFiniteSet(S), \A x \in S : f[x] = g[x]
  PROVE  SumFunctionOnSet(f, S) = SumFunctionOnSet(g, S)
<1> DEFINE UpTo == {n \in Nat : \A s \in SUBSET S : Cardinality(s) <= n =>
                      SumFunctionOnSet(f, s) = SumFunctionOnSet(g, s)}
<1>0. ASSUME NEW s \in SUBSET S, NEW h
      PROVE  SumFunctionOnSet(h, s) =
               IF s = {} THEN 0 ELSE h[Chosen(s)] + SumFunctionOnSet(h, s \ {Chosen(s)})
  BY SumChosen, FS_Subset
<1>1. 0 \in UpTo
  <2>1. ASSUME NEW s \in SUBSET S, Cardinality(s) <= 0
        PROVE  SumFunctionOnSet(f, s) = SumFunctionOnSet(g, s)
    <3>1. s = {}
      BY <2>1, NoElements
    <3> QED
      BY <1>0, <3>1
  <2> QED
    BY <2>1
<1>2. ASSUME NEW n \in Nat, n \in UpTo
      PROVE  n + 1 \in UpTo
  <2>1. ASSUME NEW s \in SUBSET S, Cardinality(s) <= n + 1
        PROVE  SumFunctionOnSet(f, s) = SumFunctionOnSet(g, s)
    <3>1. CASE s = {}
      BY <1>0, <3>1
    <3>2. CASE s # {}
      <4>1. /\ s \ {Chosen(s)} \in SUBSET S
            /\ Cardinality(s \ {Chosen(s)}) <= n
            /\ Chosen(s) \in S
        BY <2>1, <3>2, ChosenRemoved
      <4>2. /\ SumFunctionOnSet(f, s \ {Chosen(s)}) = SumFunctionOnSet(g, s \ {Chosen(s)})
            /\ f[Chosen(s)] = g[Chosen(s)]
        BY <1>2, <4>1
      <4>3. /\ SumFunctionOnSet(f, s) = f[Chosen(s)] + SumFunctionOnSet(f, s \ {Chosen(s)})
            /\ SumFunctionOnSet(g, s) = g[Chosen(s)] + SumFunctionOnSet(g, s \ {Chosen(s)})
        BY <1>0, <3>2
      <4> QED
        BY <4>2, <4>3
    <3> QED
      BY <3>1, <3>2
  <2> QED
    BY <2>1
<1>3. Cardinality(S) \in UpTo
  <2> HIDE DEF UpTo
  <2> QED
    BY <1>1, <1>2, NatSetInduction, FS_CardinalityType
<1> QED
  BY <1>3
-----------------------------------------------------------------------------
(* FlattenSeq's recursive function, the first i sequences joined.          *)
Joins(g, seqs, N) ==
  g = [i \in 1..N |-> IF i = 1 THEN seqs[i] ELSE g[i - 1] \o seqs[i]]

LEMMA JoinsExist ==
  ASSUME NEW seqs, NEW N \in Nat
  PROVE  \E g : Joins(g, seqs, N)
<1> DEFINE Good == {n \in Nat : \E g : Joins(g, seqs, n)}
<1>1. 0 \in Good
  <2> DEFINE g == [i \in 1..0 |-> seqs[i]]
  <2>1. Joins(g, seqs, 0)
    BY DEF Joins
  <2> QED
    BY <2>1
<1>2. ASSUME NEW n \in Nat, n \in Good
      PROVE  n + 1 \in Good
  <2>1. PICK g : Joins(g, seqs, n)
    BY <1>2
  <2> DEFINE h == [i \in 1..n + 1 |->
                     IF i = 1 THEN seqs[i] ELSE IF i = n + 1 THEN g[n] \o seqs[i]
                     ELSE g[i - 1] \o seqs[i]]
  <2>2. \A i \in 1..n : h[i] = g[i]
    <3> SUFFICES ASSUME NEW i \in 1..n
                 PROVE  h[i] = g[i]
      OBVIOUS
    <3>1. g[i] = IF i = 1 THEN seqs[i] ELSE g[i - 1] \o seqs[i]
      BY <2>1 DEF Joins
    <3>2. i \in 1..n + 1 /\ i # n + 1
      OBVIOUS
    <3> QED
      BY <3>1, <3>2
  <2>3. \A i \in 1..n + 1 : h[i] = IF i = 1 THEN seqs[i] ELSE h[i - 1] \o seqs[i]
    <3> SUFFICES ASSUME NEW i \in 1..n + 1, i # 1
                 PROVE  h[i] = h[i - 1] \o seqs[i]
      OBVIOUS
    <3>1. i - 1 \in 1..n /\ (i = n + 1 => i - 1 = n)
      OBVIOUS
    <3>2. h[i] = g[i - 1] \o seqs[i]
      BY <3>1
    <3> QED
      BY <2>2, <3>1, <3>2
  <2>4. DOMAIN h = 1..n + 1 /\ h = [i \in 1..n + 1 |-> h[i]]
    OBVIOUS
  <2> HIDE DEF h
  <2>5. Joins(h, seqs, n + 1)
    BY <2>3, <2>4 DEF Joins
  <2> QED
    BY <2>5
<1> HIDE DEF Good
<1>3. N \in Good
  BY <1>1, <1>2, NatSetInduction
<1> QED
  BY <1>3 DEF Good

-----------------------------------------------------------------------------
(* What the string utilities make of a text. *)

\* All of str that is not blank at its ends: from lo to hi.
SolidPart(str, lo, hi) ==
  /\ lo \in 1..Len(str) /\ hi \in lo..Len(str)
  /\ str[lo] \notin Blanks /\ str[hi] \notin Blanks
  /\ \A k \in 1..Len(str) : k < lo \/ k > hi => str[k] \in Blanks

LEMMA PartOf ==
  ASSUME NEW S, NEW str \in Seq(S), NEW lo \in 1..Len(str), NEW hi \in lo..Len(str)
  PROVE  /\ SubSeq(str, lo, hi) \in Seq(S)
         /\ Len(SubSeq(str, lo, hi)) = hi - lo + 1
         /\ \A i \in 1..hi - lo + 1 : SubSeq(str, lo, hi)[i] = str[lo + i - 1]
<1>1. /\ Len(str) \in Nat /\ lo \in Int /\ hi \in Int /\ lo <= hi
      /\ \A i \in lo..hi : i \in 1..Len(str)
  BY LenProperties
<1>2. \A i \in lo..hi : str[i] \in S
  BY <1>1, ElementOfSeq
<1>3. /\ SubSeq(str, lo, hi) \in Seq(S)
      /\ Len(SubSeq(str, lo, hi)) = IF lo <= hi THEN hi - lo + 1 ELSE 0
      /\ \A i \in 1..hi - lo + 1 : SubSeq(str, lo, hi)[i] = str[lo + i - 1]
  BY <1>1, <1>2, SubSeqProperties
<1> QED
  BY <1>1, <1>3

LEMMA TrimBlanks ==
  ASSUME NEW S, NEW str \in Seq(S), \A k \in 1..Len(str) : str[k] \in Blanks
  PROVE  TrimString(str) = <<>>
<1>1. \A k \in 0..Len(str) - 1 : k + 1 \in 1..Len(str)
  BY LenProperties
<1>2. {k \in 0..Len(str) - 1 : str[k + 1] \notin Blanks} = {}
  BY <1>1
<1> QED
  BY <1>2 DEF TrimString

LEMMA TrimIs ==
  ASSUME NEW S, NEW str \in Seq(S), NEW lo, NEW hi, SolidPart(str, lo, hi)
  PROVE  TrimString(str) = SubSeq(str, lo, hi)
<1> DEFINE solid == {k \in 0..Len(str) - 1 : str[k + 1] \notin Blanks}
<1>1. Len(str) \in Nat /\ lo \in 1..Len(str) /\ hi \in lo..Len(str)
  BY LenProperties DEF SolidPart
<1>2. lo - 1 \in solid /\ hi - 1 \in solid
  BY <1>1 DEF SolidPart
<1>3. \A k \in solid : k \in Nat /\ lo - 1 <= k /\ k <= hi - 1
  <2> SUFFICES ASSUME NEW k \in solid
               PROVE  k \in Nat /\ lo - 1 <= k /\ k <= hi - 1
    OBVIOUS
  <2>1. k + 1 \in 1..Len(str) /\ str[k + 1] \notin Blanks /\ k \in Nat
    BY <1>1
  <2>2. ~(k + 1 < lo \/ k + 1 > hi)
    BY <2>1 DEF SolidPart
  <2> QED
    BY <2>1, <2>2, <1>1
<1>4. IsFiniteSet(solid)
  <2>1. IsFiniteSet(0..Len(str) - 1)
    BY <1>1, FS_Interval
  <2> QED
    BY <2>1, FS_Subset
<1> HIDE DEF solid
<1>5. Min(solid) = lo - 1
  <2>1. Min(solid) \in solid /\ Min(solid) <= lo - 1
    BY <1>2, <1>3, MinOfNats
  <2> QED
    BY <2>1, <1>1, <1>3
<1>6. Max(solid) = hi - 1
  <2>1. Max(solid) \in solid /\ Max(solid) >= hi - 1
    BY <1>2, <1>3, <1>4, MaxOfNats
  <2> QED
    BY <2>1, <1>1, <1>3
<1>7. Trimmed(str, lo - 1, hi - 1) = SubSeq(str, lo, hi)
  <2>1. (lo - 1) + 1 = lo /\ (lo - 1) + ((hi - 1) - (lo - 1) + 1) = hi
    BY <1>1
  <2>2. Min({hi, Len(str)}) = hi
    <3>1. {hi, Len(str)} \subseteq Nat /\ {hi, Len(str)} # {} /\ hi <= Len(str)
      BY <1>1
    <3>2. Min({hi, Len(str)}) \in {hi, Len(str)} /\ Min({hi, Len(str)}) <= hi
      BY <3>1, MinOfNats
    <3> QED
      BY <3>1, <3>2, <1>1
  <2> QED
    BY <2>1, <2>2 DEF Trimmed, Substr
<1>8. TrimString(str) = IF solid = {} THEN <<>> ELSE Trimmed(str, Min(solid), Max(solid))
  BY DEF TrimString, solid
<1> QED
  BY <1>2, <1>5, <1>6, <1>7, <1>8

\* Every text has something solid or only blanks.
LEMMA BlankOrSolid ==
  ASSUME NEW S, NEW str \in Seq(S)
  PROVE  \/ \A k \in 1..Len(str) : str[k] \in Blanks
         \/ \E lo, hi : SolidPart(str, lo, hi)
<1> DEFINE solid == {k \in 1..Len(str) : str[k] \notin Blanks}
<1>1. Len(str) \in Nat /\ solid \subseteq Nat
  BY LenProperties
<1>2. IsFiniteSet(solid)
  <2>1. IsFiniteSet(1..Len(str))
    BY <1>1, FS_Interval
  <2> QED
    BY <2>1, FS_Subset
<1>3. CASE solid = {}
  BY <1>3
<1>4. CASE solid # {}
  <2>1. PICK lo, hi : lo = Min(solid) /\ hi = Max(solid)
    OBVIOUS
  <2>2. /\ lo \in solid /\ hi \in solid
        /\ \A k \in solid : lo <= k /\ k <= hi
    <3> HIDE DEF solid
    <3>1. lo \in solid /\ \A k \in solid : lo <= k
      BY <1>1, <1>4, <2>1, MinOfNats
    <3>2. hi \in solid /\ \A k \in solid : hi >= k
      BY <1>1, <1>2, <1>4, <2>1, MaxOfNats
    <3> QED
      BY <1>1, <3>1, <3>2
  <2>3. hi \in lo..Len(str)
    BY <1>1, <2>2
  <2>4. \A k \in 1..Len(str) : k < lo \/ k > hi => str[k] \in Blanks
    BY <1>1, <2>2
  <2>5. SolidPart(str, lo, hi)
    BY <2>2, <2>3, <2>4 DEF SolidPart
  <2> QED
    BY <2>5
<1> QED
  BY <1>3, <1>4

\* One character, a text, another one.
LEMMA Between ==
  ASSUME NEW S, NEW a \in S, NEW b \in S, NEW str \in Seq(S)
  PROVE  LET all == <<a>> \o str \o <<b>>
         IN  /\ all \in Seq(S) /\ Len(all) = Len(str) + 2
             /\ all[1] = a /\ all[Len(all)] = b
             /\ \A i \in 1..Len(str) : all[i + 1] = str[i]
<1> DEFINE first == <<a>> \o str
           all == first \o <<b>>
<1>1. <<a>> \in Seq(S) /\ Len(<<a>>) = 1 /\ <<a>>[1] = a
  OBVIOUS
<1>2. <<b>> \in Seq(S) /\ Len(<<b>>) = 1 /\ <<b>>[1] = b
  OBVIOUS
<1>3. Len(str) \in Nat
  BY LenProperties
<1> DEFINE s == <<a>>
           t == <<b>>
<1> HIDE DEF s, t
<1>4. /\ s \o str \in Seq(S) /\ Len(s \o str) = 1 + Len(str)
      /\ \A i \in 1..1 + Len(str) : (s \o str)[i] = IF i <= 1 THEN s[i] ELSE str[i - 1]
  BY <1>1, ConcatProperties DEF s
<1>5. PICK u : u = s \o str
  OBVIOUS
<1>6. u \in Seq(S) /\ Len(u) = 1 + Len(str) /\ u[1] = a /\ \A i \in 1..Len(str) : u[i + 1] = str[i]
  <2>1. \A i \in 1..Len(str) : i + 1 \in 1..1 + Len(str) /\ ~(i + 1 <= 1) /\ (i + 1) - 1 = i
    BY <1>3
  <2>2. 1 \in 1..1 + Len(str) /\ s[1] = a
    BY <1>1, <1>3 DEF s
  <2> QED
    BY <1>4, <1>5, <2>1, <2>2
<1>7. PICK v : v = u \o t
  OBVIOUS
<1>8. /\ v \in Seq(S) /\ Len(v) = Len(u) + 1
      /\ \A i \in 1..Len(u) + 1 : v[i] = IF i <= Len(u) THEN u[i] ELSE t[i - Len(u)]
  BY <1>2, <1>6, <1>7, ConcatProperties DEF t
<1>9. v = all
  BY <1>5, <1>7 DEF s, t
<1>10. v[1] = a /\ Len(v) = Len(str) + 2
  BY <1>3, <1>6, <1>8
<1>11. v[Len(v)] = b
  <2>1. Len(v) \in 1..Len(u) + 1 /\ ~(Len(v) <= Len(u)) /\ Len(v) - Len(u) = 1 /\ t[1] = b
    BY <1>2, <1>3, <1>6, <1>8 DEF t
  <2> QED
    BY <1>8, <2>1
<1>12. \A i \in 1..Len(str) : v[i + 1] = str[i]
  <2>1. \A i \in 1..Len(str) : i + 1 \in 1..Len(u) + 1 /\ i + 1 <= Len(u)
    BY <1>3, <1>6
  <2> QED
    BY <1>6, <1>8, <2>1
<1> QED
  BY <1>8, <1>9, <1>10, <1>11, <1>12

\* It begins and ends with something solid.
Firm(str) == /\ str # <<>> /\ str[1] \notin Blanks /\ str[Len(str)] \notin Blanks

\* What is put between blanks comes back.
LEMMA TrimPadded ==
  ASSUME NEW S, NEW before \in Seq(S), NEW core \in Seq(S), NEW after \in Seq(S), Firm(core),
         \A k \in 1..Len(before) : before[k] \in Blanks,
         \A k \in 1..Len(after) : after[k] \in Blanks
  PROVE  TrimString(before \o core \o after) = core
<1>1. Len(before) \in Nat /\ Len(after) \in Nat /\ Len(core) \in Nat \ {0}
  BY LenProperties, EmptySeq DEF Firm
<1>2. PICK b : b = Len(before)
  OBVIOUS
<1>3. PICK c : c = Len(core)
  OBVIOUS
<1>4. PICK u : u = before \o core
  OBVIOUS
<1>5. /\ u \in Seq(S) /\ Len(u) = b + c
      /\ \A i \in 1..b + c : u[i] = IF i <= b THEN before[i] ELSE core[i - b]
  BY <1>2, <1>3, <1>4, ConcatProperties
<1>6. PICK all : all = u \o after
  OBVIOUS
<1>7. /\ all \in Seq(S) /\ Len(all) = b + c + Len(after)
      /\ \A i \in 1..b + c + Len(after) : all[i] = IF i <= b + c THEN u[i] ELSE after[i - (b + c)]
  BY <1>5, <1>6, ConcatProperties
<1>8. \A i \in 1..c : b + i \in 1..Len(all) /\ all[b + i] = core[i]
  <2> SUFFICES ASSUME NEW i \in 1..c
               PROVE  b + i \in 1..Len(all) /\ all[b + i] = core[i]
    OBVIOUS
  <2>1. /\ b + i \in 1..b + c /\ b + i \in 1..b + c + Len(after) /\ b + i <= b + c
        /\ ~(b + i <= b) /\ (b + i) - b = i
    BY <1>1, <1>2, <1>3
  <2> QED
    BY <2>1, <1>5, <1>7
<1>9. \A i \in 1..Len(all) : i < b + 1 \/ i > b + c => all[i] \in Blanks
  <2> SUFFICES ASSUME NEW i \in 1..Len(all), i < b + 1 \/ i > b + c
               PROVE  all[i] \in Blanks
    OBVIOUS
  <2>1. CASE i < b + 1
    <3>1. i \in 1..b + c /\ i \in 1..b + c + Len(after) /\ i <= b + c /\ i <= b /\ i \in 1..Len(before)
      BY <1>1, <1>2, <1>3, <1>7, <2>1
    <3> QED
      BY <3>1, <1>5, <1>7
  <2>2. CASE i > b + c
    <3>1. i \in 1..b + c + Len(after) /\ ~(i <= b + c) /\ i - (b + c) \in 1..Len(after)
      BY <1>1, <1>2, <1>3, <1>7, <2>2
    <3> QED
      BY <3>1, <1>7
  <2> QED
    BY <2>1, <2>2
<1>10. SolidPart(all, b + 1, b + c)
  <2>1. b + 1 \in 1..Len(all) /\ b + c \in b + 1..Len(all) /\ 1 \in 1..c /\ c \in 1..c
    BY <1>1, <1>2, <1>3, <1>7
  <2>2. all[b + 1] \notin Blanks /\ all[b + c] \notin Blanks
    BY <2>1, <1>3, <1>8 DEF Firm
  <2> QED
    BY <2>1, <2>2, <1>9 DEF SolidPart
<1>11. TrimString(all) = SubSeq(all, b + 1, b + c)
  BY <1>7, <1>10, TrimIs
<1>12. SubSeq(all, b + 1, b + c) = core
  <2>1. PICK s : s = SubSeq(all, b + 1, b + c)
    OBVIOUS
  <2>2. /\ s \in Seq(S) /\ Len(s) = (b + c) - (b + 1) + 1
        /\ \A i \in 1..(b + c) - (b + 1) + 1 : s[i] = all[(b + 1) + i - 1]
    <3>1. b + 1 \in 1..Len(all) /\ b + c \in b + 1..Len(all)
      BY <1>10 DEF SolidPart
    <3>2. PICK lo \in 1..Len(all) : lo = b + 1
      BY <3>1
    <3>3. PICK hi \in lo..Len(all) : hi = b + c
      BY <3>1, <3>2
    <3>4. /\ SubSeq(all, lo, hi) \in Seq(S) /\ Len(SubSeq(all, lo, hi)) = hi - lo + 1
          /\ \A i \in 1..hi - lo + 1 : SubSeq(all, lo, hi)[i] = all[lo + i - 1]
      BY <1>7, PartOf
    <3> QED
      BY <2>1, <3>2, <3>3, <3>4
  <2>3. (b + c) - (b + 1) + 1 = c
    BY <1>1, <1>2, <1>3
  <2>4. \A i \in 1..c : s[i] = core[i]
    <3>1. \A i \in 1..c : (b + 1) + i - 1 = b + i
      BY <1>1, <1>2, <1>3
    <3> QED
      BY <2>2, <2>3, <3>1, <1>8
  <2> QED
    BY <2>1, <2>2, <2>3, <2>4, <1>3, SeqEqual
<1> QED
  BY <1>4, <1>6, <1>11, <1>12

Quoted(str) == <<Quote>> \o str \o <<Quote>>

LEMMA QuoteIsSolid == Quote \notin Blanks
BY DEF Quote, Blanks

LEMMA QuotedIsFirm ==
  ASSUME NEW S, Quote \in S, NEW str \in Seq(S)
  PROVE  /\ Quoted(str) \in Seq(S) /\ Len(Quoted(str)) = Len(str) + 2
         /\ Quoted(str)[1] = Quote /\ Quoted(str)[Len(Quoted(str))] = Quote
         /\ \A i \in 1..Len(str) : Quoted(str)[i + 1] = str[i]
         /\ Firm(Quoted(str))
<1>1. /\ Quoted(str) \in Seq(S) /\ Len(Quoted(str)) = Len(str) + 2
      /\ Quoted(str)[1] = Quote /\ Quoted(str)[Len(Quoted(str))] = Quote
      /\ \A i \in 1..Len(str) : Quoted(str)[i + 1] = str[i]
  BY Between DEF Quoted
<1>2. Quoted(str) # <<>>
  BY <1>1, LenProperties
<1> QED
  BY <1>1, <1>2, QuoteIsSolid DEF Firm

\* What RemoveQuotes does to a trimmed text.
Unquoted(str) ==
  IF LongEnough(str) /\ Head(str) = Quote /\ str[Len(str)] = Quote
  THEN SubSeq(str, 2, Len(str) - 1) ELSE str

LEMMA UnquoteQuoted ==
  ASSUME NEW S, Quote \in S, NEW str \in Seq(S)
  PROVE  Unquoted(Quoted(str)) = str
<1>1. PICK q : q = Quoted(str)
  OBVIOUS
<1>2. PICK n : n = Len(str)
  OBVIOUS
<1>3. /\ q \in Seq(S) /\ Len(q) = n + 2 /\ q[1] = Quote /\ q[Len(q)] = Quote
      /\ \A i \in 1..n : q[i + 1] = str[i]
      /\ n \in Nat
  BY <1>1, <1>2, QuotedIsFirm, LenProperties
<1>4. Head(q) = Quote /\ LongEnough(q) /\ Len(q) - 1 = n + 1
  BY <1>3 DEF LongEnough
<1>5. PICK s : s = SubSeq(q, 2, n + 1)
  OBVIOUS
<1>6. s = str
  <2>1. \A i \in 2..n + 1 : i \in 1..Len(q)
    BY <1>3
  <2>2. \A i \in 2..n + 1 : q[i] \in S
    BY <1>3, <2>1, ElementOfSeq
  <2>3. /\ s \in Seq(S) /\ Len(s) = IF 2 <= n + 1 THEN n + 1 - 2 + 1 ELSE 0
        /\ \A i \in 1..n + 1 - 2 + 1 : s[i] = q[2 + i - 1]
    BY <1>3, <1>5, <2>2, SubSeqProperties
  <2>4. n + 1 - 2 + 1 = n /\ (~(2 <= n + 1) => n = 0) /\ \A i \in 1..n : 2 + i - 1 = i + 1
    BY <1>3
  <2>5. Len(s) = n
    BY <2>3, <2>4
  <2>6. \A i \in 1..n : s[i] = str[i]
    BY <1>3, <2>3, <2>4
  <2> QED
    BY <1>2, <2>3, <2>5, <2>6, SeqEqual
<1>7. Unquoted(q) = SubSeq(q, 2, n + 1)
  BY <1>3, <1>4 DEF Unquoted
<1> QED
  BY <1>1, <1>5, <1>6, <1>7

LEMMA RemovesAround ==
  ASSUME NEW str
  PROVE  RemoveQuotes(str) = Unquoted(TrimString(str))
BY DEF RemoveQuotes, Unquoted

\* A text that begins and ends with a quote is one between two quotes.
LEMMA QuotedOrAsItWas ==
  ASSUME NEW S, NEW str \in Seq(S), Unquoted(str) # str
  PROVE  /\ Len(str) \in Nat /\ Len(str) >= 2
         /\ SubSeq(str, 2, Len(str) - 1) \in Seq(S)
         /\ str = Quoted(SubSeq(str, 2, Len(str) - 1))
<1>1. Len(str) \in Nat /\ Len(str) >= 2 /\ str[1] = Quote /\ str[Len(str)] = Quote
  BY LenProperties DEF Unquoted, LongEnough
<1>2. PICK n : n = Len(str)
  OBVIOUS
<1>3. PICK s : s = SubSeq(str, 2, n - 1)
  OBVIOUS
<1>4. /\ s \in Seq(S) /\ Len(s) = n - 2
      /\ \A i \in 1..n - 2 : s[i] = str[i + 1]
  <2>1. \A i \in 2..n - 1 : i \in 1..Len(str)
    BY <1>1, <1>2
  <2>2. \A i \in 2..n - 1 : str[i] \in S
    BY <2>1, ElementOfSeq
  <2>3. /\ s \in Seq(S) /\ Len(s) = IF 2 <= n - 1 THEN n - 1 - 2 + 1 ELSE 0
        /\ \A i \in 1..n - 1 - 2 + 1 : s[i] = str[2 + i - 1]
    BY <1>1, <1>2, <1>3, <2>2, SubSeqProperties
  <2>4. n - 1 - 2 + 1 = n - 2 /\ (~(2 <= n - 1) => n - 2 = 0) /\ \A i \in 1..n - 2 : 2 + i - 1 = i + 1
    BY <1>1, <1>2
  <2>5. Len(s) = n - 2
    BY <2>3, <2>4
  <2> QED
    BY <2>3, <2>4, <2>5
<1>5. Quote \in S
  <2>1. 1 \in 1..Len(str)
    BY <1>1
  <2> QED
    BY <2>1, <1>1, ElementOfSeq
<1>6. str = Quoted(s)
  <2>1. PICK q : q = Quoted(s)
    OBVIOUS
  <2>2. /\ q \in Seq(S) /\ Len(q) = Len(s) + 2 /\ q[1] = Quote /\ q[Len(q)] = Quote
        /\ \A i \in 1..Len(s) : q[i + 1] = s[i]
    BY <1>4, <1>5, <2>1, QuotedIsFirm
  <2>3. Len(q) = n
    BY <1>1, <1>2, <1>4, <2>2
  <2>4. ASSUME NEW i \in 1..n
        PROVE  str[i] = q[i]
    <3>1. CASE i = 1
      BY <3>1, <1>1, <2>2
    <3>2. CASE i = n
      BY <3>2, <1>1, <1>2, <2>2, <2>3
    <3>3. CASE i # 1 /\ i # n
      <4>1. i - 1 \in 1..n - 2 /\ (i - 1) + 1 = i
        BY <3>3, <1>1, <1>2
      <4> QED
        BY <4>1, <1>4, <2>2
    <3> QED
      BY <3>1, <3>2, <3>3
  <2> QED
    BY <1>2, <2>1, <2>2, <2>3, <2>4, SeqEqual
<1> QED
  BY <1>1, <1>2, <1>3, <1>4, <1>6
=============================================================================
