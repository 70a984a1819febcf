---------------------------- MODULE SumTheorems -----------------------------
(***************************************************************************)
(* What a sum over a finite set is, for the balances of the arena: the     *)
(* escrow and the reservations are both stated with SumFunctionOnSet.      *)
(*                                                                         *)
(* That operator folds a recursive function whose existence has to be      *)
(* shown first.  Induction is done by minimal counterexamples, for which   *)
(* the well-foundedness of < and of strict inclusion is enough.            *)
(***************************************************************************)
EXTENDS Integers, FiniteSetTheorems, WellFoundedInduction, TLAPS

\* g is the function that SumFunctionOnSet(f, S) evaluates at S.
SumsUp(g, f, S) ==
  g = [T \in SUBSET S |-> IF T = {} THEN 0
                          ELSE LET x == CHOOSE y \in T : TRUE
                               IN  f[x] + g[T \ {x}]]

-----------------------------------------------------------------------------
(* Induction *)

\* A collection of subsets that contains a set as soon as it contains all
\* smaller ones contains every subset of a finite set.
LEMMA BySmallerSets ==
  ASSUME NEW S, IsFiniteSet(S), NEW C,
         \A T \in SUBSET S : (\A R \in SUBSET T : R # T => R \in C) => T \in C
  PROVE  \A T \in SUBSET S : T \in C
  <1> DEFINE B == {T \in SUBSET S : T \notin C}
  <1> SUFFICES ASSUME B # {} PROVE FALSE
    OBVIOUS
  <1>1. IsWellFoundedOn(StrictSubsetOrdering(S), SUBSET S)
    <2>1. FiniteSubsetsOf(S) = SUBSET S
      BY FS_FiniteSubsetsOfFinite
    <2>2. IsWellFoundedOn(StrictSubsetOrdering(S), FiniteSubsetsOf(S))
      BY FS_StrictSubsetOrderingWellFounded
    <2>. QED BY <2>1, <2>2
  <1>2. B \subseteq SUBSET S
    OBVIOUS
  <1> HIDE DEF B
  <1>3. PICK T \in B : \A R \in B : <<R, T>> \notin StrictSubsetOrdering(S)
    BY <1>1, <1>2, WFMin
  <1>4. T \in SUBSET S /\ T \notin C
    BY DEF B
  <1>5. ASSUME NEW R \in SUBSET T, R # T
        PROVE  R \in C
    <2>1. <<R, T>> \in StrictSubsetOrdering(S)
      BY <1>4, <1>5 DEF StrictSubsetOrdering
    <2>. QED BY <1>3, <1>4, <2>1 DEF B
  <1>. QED BY <1>4, <1>5

\* The same for numbers, one at a time.
LEMMA ByPredecessor ==
  ASSUME NEW C, 0 \in C, \A n \in Nat : n \in C => n + 1 \in C
  PROVE  \A n \in Nat : n \in C
  <1> DEFINE B == {n \in Nat : n \notin C}
  <1> SUFFICES ASSUME B # {} PROVE FALSE
    OBVIOUS
  <1>1. B \subseteq Nat
    OBVIOUS
  <1> HIDE DEF B
  <1>2. PICK n \in B : \A k \in B : <<k, n>> \notin OpToRel(<, Nat)
    BY <1>1, NatLessThanWellFounded, WFMin
  <1>3. n \in Nat /\ n \notin C /\ n # 0
    BY DEF B
  <1>4. n - 1 \in Nat /\ n - 1 < n /\ (n - 1) + 1 = n
    BY <1>3
  <1>5. <<n - 1, n>> \in OpToRel(<, Nat)
    BY <1>3, <1>4 DEF OpToRel
  <1>6. n - 1 \in C
    BY <1>2, <1>4, <1>5 DEF B
  <1>. QED BY <1>3, <1>4, <1>6

-----------------------------------------------------------------------------
(* The recursive function *)

LEMMA SumExists ==
  ASSUME NEW S, IsFiniteSet(S), NEW f
  PROVE  \E g : SumsUp(g, f, S)
  <1> DEFINE Low(n) == {T \in SUBSET S : Cardinality(T) <= n}
             Value(g, T) == IF T = {} THEN 0
                            ELSE LET x == CHOOSE y \in T : TRUE IN f[x] + g[T \ {x}]
             UpTo(g, n) == g = [T \in Low(n) |-> Value(g, T)]
             C == {n \in Nat : \E g : UpTo(g, n)}
  <1>1. \A T \in SUBSET S : IsFiniteSet(T) /\ Cardinality(T) \in Nat
    BY FS_Subset, FS_CardinalityType
  <1>2. 0 \in C
    <2> DEFINE g == [T \in Low(0) |-> 0]
    <2>1. \A T \in Low(0) : T = {}
      BY <1>1, FS_EmptySet
    <2>2. g = [T \in Low(0) |-> Value(g, T)]
      BY <2>1
    <2>. QED BY <2>2
  <1>3. ASSUME NEW n \in Nat, n \in C
        PROVE  n + 1 \in C
    <2>1. PICK g : UpTo(g, n)
      BY <1>3
    <2> DEFINE h == [T \in Low(n + 1) |-> Value(g, T)]
    <2>2. ASSUME NEW T \in Low(n + 1)
          PROVE  h[T] = Value(h, T)
      <3>1. CASE T = {}
        BY <3>1
      <3>2. CASE T # {}
        <4> DEFINE x == CHOOSE y \in T : TRUE
        <4>1. x \in T
          BY <3>2
        <4>2. Cardinality(T \ {x}) = Cardinality(T) - 1
          BY <1>1, <4>1, FS_RemoveElement
        <4>3. T \ {x} \in Low(n) /\ T \ {x} \in Low(n + 1)
          <5>1. T \ {x} \in SUBSET S /\ Cardinality(T) <= n + 1 /\ Cardinality(T) \in Nat
            BY <1>1
          <5>. HIDE DEF x
          <5>. QED BY <4>2, <5>1
        <4>4. g[T \ {x}] = Value(g, T \ {x}) /\ h[T \ {x}] = Value(g, T \ {x})
          <5>. HIDE DEF x, Value, Low
          <5>. QED BY <2>1, <4>3
        <4>5. h[T] = f[x] + g[T \ {x}]
          <5>. HIDE DEF Low
          <5>. QED BY <3>2
        <4>6. Value(h, T) = f[x] + h[T \ {x}]
          <5>. HIDE DEF h
          <5>. QED BY <3>2
        <4>. HIDE DEF x, h, Value
        <4>. QED BY <4>4, <4>5, <4>6
      <3>. QED BY <3>1, <3>2
    <2>3. UpTo(h, n + 1)
      <3>1. h = [T \in Low(n + 1) |-> h[T]]
        <4>. HIDE DEF Value, Low
        <4>. QED OBVIOUS
      <3>. HIDE DEF h, Value, Low
      <3>. QED BY <2>2, <3>1
    <2>. HIDE DEF h, UpTo
    <2>. QED BY <2>3
  <1>4. Cardinality(S) \in C
    <2>. HIDE DEF C
    <2>. QED BY <1>1, <1>2, <1>3, ByPredecessor
  <1>5. Low(Cardinality(S)) = SUBSET S
    BY FS_Subset, FS_CardinalityType
  <1>. QED BY <1>4, <1>5 DEF SumsUp

\* Two such functions agree where the summands do.
LEMMA SumsAgree ==
  ASSUME NEW S, IsFiniteSet(S), NEW T \in SUBSET S, NEW f, NEW k, NEW g, NEW h,
         SumsUp(g, f, S), SumsUp(h, k, T), \A x \in T : f[x] = k[x]
  PROVE  \A R \in SUBSET T : g[R] = h[R]
  <1> DEFINE C == {R \in SUBSET T : g[R] = h[R]}
  <1>1. ASSUME NEW R \in SUBSET T, \A Q \in SUBSET R : Q # R => Q \in C
        PROVE  g[R] = h[R]
    <2>1. CASE R = {}
      BY <2>1 DEF SumsUp
    <2>2. CASE R # {}
      <3> DEFINE x == CHOOSE y \in R : TRUE
      <3>1. x \in R
        BY <2>2
      <3>2. g[R] = f[x] + g[R \ {x}] /\ h[R] = k[x] + h[R \ {x}]
        BY <2>2 DEF SumsUp
      <3> HIDE DEF x
      <3>3. R \ {x} \in C
        BY <1>1, <3>1
      <3>. QED BY <3>1, <3>2, <3>3
    <2>. QED BY <2>1, <2>2
  <1>2. \A R \in SUBSET T : R \in C
    <2>1. IsFiniteSet(T)
      BY FS_Subset
    <2>2. \A R \in SUBSET T : (\A Q \in SUBSET R : Q # R => Q \in C) => R \in C
      BY <1>1
    <2>. HIDE DEF C
    <2>. QED BY <2>1, <2>2, BySmallerSets
  <1>. QED BY <1>2

LEMMA SumIsValue ==
  ASSUME NEW S, IsFiniteSet(S), NEW f, NEW g, SumsUp(g, f, S)
  PROVE  \A T \in SUBSET S : SumFunctionOnSet(f, T) = g[T]
  <1> SUFFICES ASSUME NEW T \in SUBSET S PROVE SumFunctionOnSet(f, T) = g[T]
    OBVIOUS
  <1> DEFINE h == CHOOSE h : SumsUp(h, f, T)
  <1>1. SumsUp(h, f, T)
    BY FS_Subset, SumExists
  <1>2. SumFunctionOnSet(f, T) = h[T]
    BY DEF SumFunctionOnSet, FoldFunctionOnSet, MapThenFoldSet, SumsUp
  <1>3. g[T] = h[T]
    <2>. HIDE DEF h
    <2>. QED BY <1>1, SumsAgree
  <1>. QED BY <1>2, <1>3

-----------------------------------------------------------------------------
(* What is used of sums *)

LEMMA SumOfNone == \A f : SumFunctionOnSet(f, {}) = 0
  <1> SUFFICES ASSUME NEW f PROVE SumFunctionOnSet(f, {}) = 0
    OBVIOUS
  <1>1. IsFiniteSet({})
    BY FS_EmptySet
  <1>2. PICK g : SumsUp(g, f, {})
    BY <1>1, SumExists
  <1>3. SumFunctionOnSet(f, {}) = g[{}]
    BY <1>1, <1>2, SumIsValue
  <1>. QED BY <1>2, <1>3 DEF SumsUp

\* A sum depends on nothing but its summands.
LEMMA SumOfSame ==
  ASSUME NEW S, IsFiniteSet(S), NEW f, NEW k, \A x \in S : f[x] = k[x]
  PROVE  SumFunctionOnSet(f, S) = SumFunctionOnSet(k, S)
  <1>1. PICK g : SumsUp(g, f, S)
    BY SumExists
  <1>2. PICK h : SumsUp(h, k, S)
    BY SumExists
  <1>3. g[S] = h[S]
    BY <1>1, <1>2, SumsAgree
  <1>4. SumFunctionOnSet(f, S) = g[S]
    BY <1>1, SumIsValue
  <1>5. SumFunctionOnSet(k, S) = h[S]
    BY <1>2, SumIsValue
  <1>. QED BY <1>3, <1>4, <1>5

LEMMA SumIsInt ==
  ASSUME NEW S, IsFiniteSet(S), NEW f, \A x \in S : f[x] \in Int
  PROVE  SumFunctionOnSet(f, S) \in Int
  <1>1. PICK g : SumsUp(g, f, S)
    BY SumExists
  <1> DEFINE C == {T \in SUBSET S : g[T] \in Int}
  <1>2. ASSUME NEW T \in SUBSET S, \A R \in SUBSET T : R # T => R \in C
        PROVE  T \in C
    <2>1. CASE T = {}
      BY <1>1, <2>1 DEF SumsUp
    <2>2. CASE T # {}
      <3> DEFINE x == CHOOSE y \in T : TRUE
      <3>1. x \in T
        BY <2>2
      <3>2. g[T] = f[x] + g[T \ {x}]
        BY <1>1, <2>2 DEF SumsUp
      <3> HIDE DEF x
      <3>3. T \ {x} \in C
        BY <1>2, <3>1
      <3>. QED BY <3>1, <3>2, <3>3
    <2>. QED BY <2>1, <2>2
  <1>3. \A T \in SUBSET S : T \in C
    <2>. HIDE DEF C
    <2>. QED BY <1>2, BySmallerSets
  <1>4. SumFunctionOnSet(f, S) = g[S]
    BY <1>1, SumIsValue
  <1>. QED BY <1>3, <1>4

LEMMA SumOfZeros ==
  ASSUME NEW S, IsFiniteSet(S), NEW f, \A x \in S : f[x] = 0
  PROVE  SumFunctionOnSet(f, S) = 0
  <1>1. PICK g : SumsUp(g, f, S)
    BY SumExists
  <1> DEFINE C == {T \in SUBSET S : g[T] = 0}
  <1>2. ASSUME NEW T \in SUBSET S, \A R \in SUBSET T : R # T => R \in C
        PROVE  T \in C
    <2>1. CASE T = {}
      BY <1>1, <2>1 DEF SumsUp
    <2>2. CASE T # {}
      <3> DEFINE x == CHOOSE y \in T : TRUE
      <3>1. x \in T
        BY <2>2
      <3>2. g[T] = f[x] + g[T \ {x}]
        BY <1>1, <2>2 DEF SumsUp
      <3> HIDE DEF x
      <3>3. T \ {x} \in C
        BY <1>2, <3>1
      <3>. QED BY <3>1, <3>2, <3>3
    <2>. QED BY <2>1, <2>2
  <1>3. \A T \in SUBSET S : T \in C
    <2>. HIDE DEF C
    <2>. QED BY <1>2, BySmallerSets
  <1>4. SumFunctionOnSet(f, S) = g[S]
    BY <1>1, SumIsValue
  <1>. QED BY <1>3, <1>4

\* One summand, whichever it is, may be taken out.
LEMMA SumWithout ==
  ASSUME NEW S, IsFiniteSet(S), NEW f, \A x \in S : f[x] \in Int, NEW a \in S
  PROVE  SumFunctionOnSet(f, S) = f[a] + SumFunctionOnSet(f, S \ {a})
  <1>1. PICK g : SumsUp(g, f, S)
    BY SumExists
  <1>2. \A T \in SUBSET S : SumFunctionOnSet(f, T) = g[T]
    BY <1>1, SumIsValue
  <1>3. \A T \in SUBSET S : g[T] \in Int
    <2> SUFFICES ASSUME NEW T \in SUBSET S PROVE g[T] \in Int
      OBVIOUS
    <2>1. IsFiniteSet(T)
      BY FS_Subset
    <2>2. SumFunctionOnSet(f, T) \in Int
      BY <2>1, SumIsInt
    <2>. QED BY <1>2, <2>2
  <1> DEFINE C == {T \in SUBSET S : \A b \in T : g[T] = f[b] + g[T \ {b}]}
  <1>4. ASSUME NEW T \in SUBSET S, \A R \in SUBSET T : R # T => R \in C
        PROVE  T \in C
    <2> SUFFICES ASSUME NEW b \in T PROVE g[T] = f[b] + g[T \ {b}]
      OBVIOUS
    <2> DEFINE x == CHOOSE y \in T : TRUE
    <2>1. x \in T /\ g[T] = f[x] + g[T \ {x}]
      BY <1>1 DEF SumsUp
    <2> HIDE DEF x
    <2>2. CASE b = x
      BY <2>1, <2>2
    <2>3. CASE b # x
      <3>1. T \ {x} \in C /\ T \ {b} \in C
        BY <1>4, <2>1
      <3> DEFINE rest == (T \ {x}) \ {b}
      <3>2. g[T \ {x}] = f[b] + g[rest] /\ g[T \ {b}] = f[x] + g[rest]
        <4>1. (T \ {b}) \ {x} = rest
          OBVIOUS
        <4>. QED BY <2>1, <2>3, <3>1, <4>1
      <3>3. g[rest] \in Int /\ f[b] \in Int /\ f[x] \in Int
        BY <1>3, <2>1
      <3>4. g[T] = f[x] + (f[b] + g[rest])
        BY <2>1, <3>2
      <3> HIDE DEF rest, C
      <3>5. f[x] + (f[b] + g[rest]) = f[b] + (f[x] + g[rest])
        BY <3>3
      <3>. QED BY <3>2, <3>4, <3>5
    <2>. QED BY <2>2, <2>3
  <1>5. \A T \in SUBSET S : T \in C
    <2>. HIDE DEF C
    <2>. QED BY <1>4, BySmallerSets
  <1>6. g[S] = f[a] + g[S \ {a}]
    BY <1>5
  <1>. QED BY <1>2, <1>6

\* A sum follows the one summand that changes.
LEMMA SumWithOneChanged ==
  ASSUME NEW S, IsFiniteSet(S), NEW f, NEW k, NEW a \in S,
         \A x \in S : f[x] \in Int /\ k[x] \in Int,
         \A x \in S \ {a} : k[x] = f[x]
  PROVE  SumFunctionOnSet(k, S) = SumFunctionOnSet(f, S) + (k[a] - f[a])
  <1> DEFINE rest == SumFunctionOnSet(f, S \ {a})
  <1>1. IsFiniteSet(S \ {a})
    BY FS_RemoveElement
  <1>2. rest \in Int
    BY <1>1, SumIsInt
  <1>3. SumFunctionOnSet(k, S \ {a}) = rest
    BY <1>1, SumOfSame
  <1>4. SumFunctionOnSet(k, S) = k[a] + SumFunctionOnSet(k, S \ {a})
    BY SumWithout
  <1>5. SumFunctionOnSet(f, S) = f[a] + rest
    BY SumWithout
  <1> HIDE DEF rest
  <1>. QED BY <1>2, <1>3, <1>4, <1>5

\* What two summands change by together is what the sum changes by.
LEMMA SumWithTwoChanged ==
  ASSUME NEW S, IsFiniteSet(S), NEW a \in S, NEW b \in S, a # b,
         NEW f \in [S -> Int], NEW k \in [S -> Int],
         \A x \in S \ {a, b} : k[x] = f[x]
  PROVE  SumFunctionOnSet(k, S) = SumFunctionOnSet(f, S) + (k[a] - f[a]) + (k[b] - f[b])
  <1> DEFINE h == [f EXCEPT ![a] = k[a]]
  <1>1. /\ h \in [S -> Int] /\ h[a] = k[a] /\ h[b] = f[b]
        /\ \A x \in S \ {a} : h[x] = f[x]
        /\ \A x \in S \ {b} : k[x] = h[x]
    OBVIOUS
  <1> HIDE DEF h
  <1>2. SumFunctionOnSet(h, S) = SumFunctionOnSet(f, S) + (h[a] - f[a])
    BY <1>1, SumWithOneChanged
  <1>3. SumFunctionOnSet(k, S) = SumFunctionOnSet(h, S) + (k[b] - h[b])
    BY <1>1, SumWithOneChanged
  <1>. QED BY <1>1, <1>2, <1>3

\* A sum over a set that gains or loses one element.
LEMMA SumWithOneMore ==
  ASSUME NEW S, IsFiniteSet(S), NEW f, NEW a, a \notin S,
         \A x \in S \cup {a} : f[x] \in Int
  PROVE  SumFunctionOnSet(f, S \cup {a}) = f[a] + SumFunctionOnSet(f, S)
  <1>1. IsFiniteSet(S \cup {a}) /\ (S \cup {a}) \ {a} = S
    BY FS_AddElement
  <1>. QED BY <1>1, SumWithout
=============================================================================
