------------------------------ MODULE SumTheorems ------------------------------
(***************************************************************************)
(* The sum of a function over a finite set (SumFunctionOnSet), which        *)
(* TransactionLedger adds up records and rows with: that it is the fold    *)
(* it looks like, and does not depend on the order of its elements.        *)
(*                                                                         *)
(* Induction is over the sets for which a fact holds, for the library's    *)
(* theorems with an operator for a parameter cannot be used.               *)
(***************************************************************************)
EXTENDS FiniteSetsExt, FiniteSetTheorems, TLAPS

\* The element that a fold takes first.
First(s) == CHOOSE x \in s : TRUE

\* g is the function by which the sum of f over T is defined.
Sums(g, f, T) ==
    g = [s \in SUBSET T |-> IF s = {} THEN 0 ELSE f[First(s)] + g[s \ {First(s)}]]

SumsOf(f, T) == CHOOSE g : Sums(g, f, T)

LEMMA SumIsChosen ==
    ASSUME NEW f, NEW T PROVE SumFunctionOnSet(f, T) = SumsOf(f, T)[T]
    BY DEF SumFunctionOnSet, FoldFunctionOnSet, MapThenFoldSet, Sums, SumsOf, First

\* A collection of sets that has each set all of whose parts it has, has all.
LEMMA SubsetInduction ==
    ASSUME NEW S, IsFiniteSet(S), NEW Good \in SUBSET SUBSET S,
           \A T \in SUBSET S : (\A U \in SUBSET T : U # T => U \in Good) => T \in Good
    PROVE  S \in Good
<1> DEFINE Bad == (SUBSET S) \ Good
<1>1. IsWellFoundedOn(StrictSubsetOrdering(S), SUBSET S)
    BY FS_StrictSubsetOrderingWellFounded, FS_FiniteSubsetsOfFinite
<1>2. SUFFICES ASSUME Bad # {} PROVE FALSE
    OBVIOUS
<1>3. PICK T \in Bad : \A U \in Bad : <<U, T>> \notin StrictSubsetOrdering(S)
  <2>1. Bad \subseteq SUBSET S
    OBVIOUS
  <2> HIDE DEF Bad
  <2> QED BY <1>1, <1>2, <2>1, WFMin
<1>4. \A U \in SUBSET T : U # T => U \in Good
    BY <1>3 DEF StrictSubsetOrdering
<1> QED BY <1>3, <1>4

LEMMA FirstIsIn == ASSUME NEW s, s # {} PROVE First(s) \in s
    BY DEF First

-------------------------------------------------------------------------------
\* Two such functions agree, also one on T and one on a set around it.
LEMMA SumsAgree ==
    ASSUME NEW f, NEW S, NEW T, IsFiniteSet(T), T \subseteq S,
           NEW g, Sums(g, f, S), NEW h, Sums(h, f, T)
    PROVE  g[T] = h[T]
<1> DEFINE Good == {s \in SUBSET T : g[s] = h[s]}
<1>1. ASSUME NEW s \in SUBSET T, \A u \in SUBSET s : u # s => u \in Good PROVE s \in Good
  <2>1. CASE s = {}
    BY <2>1 DEF Sums
  <2>2. CASE s # {}
    <3>1. s \ {First(s)} \in Good
      BY <1>1, <2>2, FirstIsIn
    <3>2. /\ g[s] = f[First(s)] + g[s \ {First(s)}]
          /\ h[s] = f[First(s)] + h[s \ {First(s)}]
      BY <2>2 DEF Sums
    <3> QED BY <3>1, <3>2
  <2> QED BY <2>1, <2>2
<1>2. Good \in SUBSET SUBSET T
    OBVIOUS
<1>3. T \in Good
  <2> HIDE DEF Good
  <2> QED BY <1>1, <1>2, SubsetInduction
<1> QED BY <1>3

\* There is one for every finite set.
LEMMA SumsExist == ASSUME NEW f, NEW S, IsFiniteSet(S) PROVE Sums(SumsOf(f, S), f, S)
<1> DEFINE Good == {T \in SUBSET S : Sums(SumsOf(f, T), f, T)}
<1>1. ASSUME NEW T \in SUBSET S, \A U \in SUBSET T : U # T => U \in Good PROVE T \in Good
  <2> DEFINE rest(s) == s \ {First(s)}
             h == [s \in SUBSET T |-> IF s = {} THEN 0 ELSE f[First(s)] + SumsOf(f, rest(s))[rest(s)]]
  <2>1. ASSUME NEW s \in SUBSET T, s # {} PROVE rest(s) \in SUBSET T /\ rest(s) # T
    BY <2>1, FirstIsIn
  <2>2. ASSUME NEW s \in SUBSET T, s # T PROVE h[s] = SumsOf(f, s)[s]
    <3>1. Sums(SumsOf(f, s), f, s)
      BY <1>1, <2>2
    <3>2. CASE s = {}
      BY <3>1, <3>2 DEF Sums
    <3>3. CASE s # {}
      <4>1. SumsOf(f, s)[s] = f[First(s)] + SumsOf(f, s)[rest(s)]
        BY <3>1, <3>3 DEF Sums
      <4>2. Sums(SumsOf(f, rest(s)), f, rest(s))
        BY <1>1, <2>1, <3>3
      <4>3. IsFiniteSet(rest(s))
        BY <1>1, FS_Subset
      <4>4. SumsOf(f, s)[rest(s)] = SumsOf(f, rest(s))[rest(s)]
        BY <3>1, <4>2, <4>3, SumsAgree
      <4> QED BY <3>3, <4>1, <4>4
    <3> QED BY <3>2, <3>3
  <2>3. \A s \in SUBSET T : s # {} => h[s] = f[First(s)] + h[rest(s)]
    BY <2>1, <2>2
  <2>4. Sums(h, f, T)
    BY <2>3 DEF Sums
  <2>5. Sums(SumsOf(f, T), f, T)
    <3> HIDE DEF h
    <3> QED BY <2>4 DEF SumsOf
  <2> QED BY <2>5
<1>2. Good \in SUBSET SUBSET S
    OBVIOUS
<1>3. S \in Good
  <2> HIDE DEF Good
  <2> QED BY <1>1, <1>2, SubsetInduction
<1> QED BY <1>3

-------------------------------------------------------------------------------
\* The fold, one element at a time.
LEMMA SumFirst ==
    ASSUME NEW f, NEW S, IsFiniteSet(S), S # {}
    PROVE  SumFunctionOnSet(f, S) = f[First(S)] + SumFunctionOnSet(f, S \ {First(S)})
<1> DEFINE rest == S \ {First(S)}
<1>1. IsFiniteSet(rest) /\ rest \subseteq S
    BY FS_Subset
<1>2. Sums(SumsOf(f, S), f, S) /\ Sums(SumsOf(f, rest), f, rest)
    BY <1>1, SumsExist
<1>3. SumsOf(f, S)[rest] = SumsOf(f, rest)[rest]
    BY <1>1, <1>2, SumsAgree
<1>4. SumsOf(f, S)[S] = f[First(S)] + SumsOf(f, S)[rest]
    BY <1>2 DEF Sums
<1> QED BY <1>3, <1>4, SumIsChosen

\* The sum over the empty set.
LEMMA SumEmpty == ASSUME NEW f PROVE SumFunctionOnSet(f, {}) = 0
<1>1. Sums(SumsOf(f, {}), f, {})
    BY FS_EmptySet, SumsExist
<1> QED BY <1>1, SumIsChosen DEF Sums

\* A sum of integers is one, and of natural numbers too.
LEMMA SumIsInt ==
    ASSUME NEW f, NEW S, IsFiniteSet(S), NEW N \in {Nat, Int}, \A x \in S : f[x] \in N
    PROVE  SumFunctionOnSet(f, S) \in N
<1> DEFINE Good == {T \in SUBSET S : SumFunctionOnSet(f, T) \in N}
<1>1. ASSUME NEW T \in SUBSET S, \A U \in SUBSET T : U # T => U \in Good PROVE T \in Good
  <2>1. CASE T = {}
    BY <2>1, SumEmpty
  <2>2. CASE T # {}
    <3>1. First(T) \in T /\ IsFiniteSet(T)
      BY <2>2, FirstIsIn, FS_Subset
    <3>2. SumFunctionOnSet(f, T \ {First(T)}) \in N
      BY <1>1, <3>1
    <3>3. SumFunctionOnSet(f, T) = f[First(T)] + SumFunctionOnSet(f, T \ {First(T)})
      BY <2>2, <3>1, SumFirst
    <3>4. f[First(T)] \in N
      BY <3>1
    <3> QED BY <3>2, <3>3, <3>4
  <2> QED BY <2>1, <2>2
<1>2. Good \in SUBSET SUBSET S
    OBVIOUS
<1>3. S \in Good
  <2> HIDE DEF Good
  <2> QED BY <1>1, <1>2, SubsetInduction
<1> QED BY <1>3

\* Any element can be taken out first.
LEMMA SumRemove ==
    ASSUME NEW f, NEW S, IsFiniteSet(S), \A y \in S : f[y] \in Int, NEW x \in S
    PROVE  SumFunctionOnSet(f, S) = f[x] + SumFunctionOnSet(f, S \ {x})
<1> DEFINE Sum(T) == SumFunctionOnSet(f, T)
           Good == {T \in SUBSET S : \A y \in T : Sum(T) = f[y] + Sum(T \ {y})}
<1>1. ASSUME NEW T \in SUBSET S, \A U \in SUBSET T : U # T => U \in Good PROVE T \in Good
  <2>1. ASSUME NEW y \in T PROVE Sum(T) = f[y] + Sum(T \ {y})
    <3> DEFINE c == First(T)
    <3>1. c \in T /\ IsFiniteSet(T) /\ IsFiniteSet(T \ {y}) /\ IsFiniteSet((T \ {c}) \ {y})
      BY FirstIsIn, FS_Subset
    <3>2. Sum(T) = f[c] + Sum(T \ {c})
      BY <3>1, SumFirst
    <3>3. CASE y = c
      BY <3>2, <3>3
    <3>4. CASE y # c
      <4>1. Sum(T \ {c}) = f[y] + Sum((T \ {c}) \ {y})
        <5>1. T \ {c} \in Good
          BY <1>1, <3>1
        <5> QED BY <3>4, <5>1
      <4>2. Sum(T \ {y}) = f[c] + Sum((T \ {y}) \ {c})
        <5>1. T \ {y} \in Good
          BY <1>1
        <5> QED BY <3>1, <3>4, <5>1
      <4>3. (T \ {y}) \ {c} = (T \ {c}) \ {y}
        OBVIOUS
      <4>4. Sum((T \ {c}) \ {y}) \in Int
        BY <3>1, SumIsInt
      <4>5. f[c] \in Int /\ f[y] \in Int
        BY <3>1
      <4>6. \A a, b, n \in Int : a + (b + n) = b + (a + n)
        OBVIOUS
      <4>7. Sum(T) = f[c] + (f[y] + Sum((T \ {c}) \ {y}))
        BY <3>2, <4>1
      <4>8. f[y] + Sum(T \ {y}) = f[y] + (f[c] + Sum((T \ {c}) \ {y}))
        BY <4>2, <4>3
      <4> HIDE DEF Sum, c
      <4> QED BY <4>4, <4>5, <4>6, <4>7, <4>8
    <3> QED BY <3>3, <3>4
  <2> QED BY <2>1
<1>2. Good \in SUBSET SUBSET S
    OBVIOUS
<1>3. S \in Good
  <2> HIDE DEF Good
  <2> QED BY <1>1, <1>2, SubsetInduction
<1> QED BY <1>3

\* One element more.
THEOREM SumAdd ==
    ASSUME NEW f, NEW S, IsFiniteSet(S), NEW x, x \notin S,
           \A y \in S \cup {x} : f[y] \in Int
    PROVE  SumFunctionOnSet(f, S \cup {x}) = SumFunctionOnSet(f, S) + f[x]
<1>1. IsFiniteSet(S \cup {x}) /\ (S \cup {x}) \ {x} = S
    BY FS_AddElement
<1>2. SumFunctionOnSet(f, S \cup {x}) = f[x] + SumFunctionOnSet(f, S)
    BY <1>1, SumRemove
<1>3. SumFunctionOnSet(f, S) \in Int
    BY SumIsInt
<1> QED BY <1>2, <1>3

\* The sum over one element.
THEOREM SumSingleton ==
    ASSUME NEW f, NEW x, f[x] \in Int PROVE SumFunctionOnSet(f, {x}) = f[x]
<1>1. SumFunctionOnSet(f, {} \cup {x}) = SumFunctionOnSet(f, {}) + f[x]
    BY FS_EmptySet, SumAdd
<1> QED BY <1>1, SumEmpty

\* What f says elsewhere does not matter.
THEOREM SumSame ==
    ASSUME NEW f, NEW g, NEW S, IsFiniteSet(S), \A x \in S : f[x] = g[x]
    PROVE  SumFunctionOnSet(f, S) = SumFunctionOnSet(g, S)
<1> DEFINE Good == {T \in SUBSET S : SumFunctionOnSet(f, T) = SumFunctionOnSet(g, T)}
<1>1. ASSUME NEW T \in SUBSET S, \A U \in SUBSET T : U # T => U \in Good PROVE T \in Good
  <2>1. CASE T = {}
    BY <2>1, SumEmpty
  <2>2. CASE T # {}
    <3>1. First(T) \in T /\ IsFiniteSet(T)
      BY <2>2, FirstIsIn, FS_Subset
    <3>2. SumFunctionOnSet(f, T \ {First(T)}) = SumFunctionOnSet(g, T \ {First(T)})
      BY <1>1, <3>1
    <3>3. /\ SumFunctionOnSet(f, T) = f[First(T)] + SumFunctionOnSet(f, T \ {First(T)})
          /\ SumFunctionOnSet(g, T) = g[First(T)] + SumFunctionOnSet(g, T \ {First(T)})
      BY <2>2, <3>1, SumFirst
    <3>4. f[First(T)] = g[First(T)]
      BY <3>1
    <3> QED BY <3>2, <3>3, <3>4
  <2> QED BY <2>1, <2>2
<1>2. Good \in SUBSET SUBSET S
    OBVIOUS
<1>3. S \in Good
  <2> HIDE DEF Good
  <2> QED BY <1>1, <1>2, SubsetInduction
<1> QED BY <1>3
===============================================================================
