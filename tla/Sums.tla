-------------------------------- MODULE Sums --------------------------------
(***************************************************************************)
(* What adding up a function over a finite set does (SumFunctionOnSet of   *)
(* the community modules): the order in which the elements are taken does  *)
(* not matter, so an element more adds its value.                          *)
(*                                                                         *)
(* SumFunctionOnSet is a function defined by recursion over the subsets of *)
(* the set.  Induction is over finite sets: a set of counterexamples that  *)
(* is not empty has one that is minimal under inclusion.                   *)
(***************************************************************************)
EXTENDS Integers, FiniteSets, Functions, FiniteSetTheorems, WellFoundedInduction, TLAPS

LEMMA MinimalSet ==
  ASSUME NEW S, IsFiniteSet(S), NEW T \in SUBSET (SUBSET S), T # {}
  PROVE  \E U \in T : \A V \in T : V \subseteq U => V = U
<1>1. IsWellFoundedOn(StrictSubsetOrdering(S), SUBSET S)
  BY FS_StrictSubsetOrderingWellFounded, FS_FiniteSubsetsOfFinite
<1>2. PICK U \in T : \A V \in T : ~(<<V, U>> \in StrictSubsetOrdering(S))
  BY <1>1, WFMin
<1> QED BY <1>2 DEF StrictSubsetOrdering

-----------------------------------------------------------------------------
(* The recursion has one solution.                                         *)

AnyOf(s) == CHOOSE x \in s : TRUE

\* What the sum over s is, if g gives the sums over smaller sets.
Body(g, f, s) == IF s = {} THEN 0 ELSE f[AnyOf(s)] + g[s \ {AnyOf(s)}]

\* g adds up f over the subsets of S.
Adds(g, f, S) == g = [s \in SUBSET S |-> Body(g, f, s)]

LEMMA AnyIsIn == ASSUME NEW S, S # {} PROVE AnyOf(S) \in S
  BY DEF AnyOf

LEMMA AddsUnique ==
  ASSUME NEW f, NEW S, IsFiniteSet(S), NEW U, NEW g, NEW h, Adds(g, f, S), Adds(h, f, U),
         NEW s \in SUBSET S, s \subseteq U
  PROVE  g[s] = h[s]
<1> DEFINE T == {t \in SUBSET S : t \subseteq U /\ g[t] # h[t]}
<1> SUFFICES ASSUME T # {} PROVE FALSE
  OBVIOUS
<1>1. PICK t \in T : \A v \in T : v \subseteq t => v = t
  <2>1. T \in SUBSET (SUBSET S) /\ T # {}
    OBVIOUS
  <2> HIDE DEF T
  <2> QED BY <2>1, MinimalSet
<1>2. g[t] = Body(g, f, t) /\ h[t] = Body(h, f, t)
  BY DEF Adds
<1>3. t # {} => AnyOf(t) \in t
  BY AnyIsIn
<1>4. t # {} => t \ {AnyOf(t)} \notin T /\ t \ {AnyOf(t)} \in SUBSET S /\ t \ {AnyOf(t)} \subseteq U
  BY <1>1, <1>3
<1>5. t # {} => g[t \ {AnyOf(t)}] = h[t \ {AnyOf(t)}]
  BY <1>4
<1> QED BY <1>2, <1>5 DEF Body

LEMMA AddsExists ==
  ASSUME NEW f, NEW S, IsFiniteSet(S)
  PROVE  \E g : Adds(g, f, S)
<1> DEFINE T == {t \in SUBSET S : ~ \E g : Adds(g, f, t)}
<1> SUFFICES ASSUME T # {} PROVE FALSE
  OBVIOUS
<1>1. PICK t \in T : \A v \in T : v \subseteq t => v = t
  <2>1. T \in SUBSET (SUBSET S) /\ T # {}
    OBVIOUS
  <2> HIDE DEF T
  <2> QED BY <2>1, MinimalSet
<1> DEFINE sum(v) == CHOOSE g : Adds(g, f, v)
           x == AnyOf(t)
           g == [v \in SUBSET t |-> IF v = t THEN IF t = {} THEN 0
                                             ELSE f[x] + sum(t \ {x})[t \ {x}]
                                    ELSE sum(v)[v]]
<1>2. ASSUME NEW v \in SUBSET t, v # t PROVE Adds(sum(v), f, v)
  BY <1>1, <1>2
<1>3. ASSUME NEW v \in SUBSET t PROVE g[v] = Body(g, f, v)
  <2> DEFINE y == AnyOf(v)
             w == v \ {y}
  <2>1. v # {} => y \in v
    BY AnyIsIn
  <2>2. v # {} => w \in SUBSET t /\ w # t /\ w \in SUBSET v
    BY <2>1
  <2>3. CASE v = t
    BY <2>2, <2>3 DEF Body
  <2>4. CASE v # t
    <3>1. Adds(sum(v), f, v)
      BY <1>2, <2>4
    <3>2. sum(v)[v] = Body(sum(v), f, v)
      BY <3>1 DEF Adds
    <3>3. IsFiniteSet(v)
      BY FS_Subset
    <3>4. v # {} => sum(v)[w] = sum(w)[w]
      <4> HAVE v # {}
      <4>1. Adds(sum(w), f, w)
        BY <1>2, <2>2
      <4> HIDE DEF sum, w
      <4> QED BY <2>2, <3>1, <3>3, <4>1, AddsUnique
    <3>5. g[v] = sum(v)[v] /\ (v # {} => g[w] = sum(w)[w])
      BY <2>2, <2>4
    <3> HIDE DEF g, sum
    <3> QED BY <3>2, <3>4, <3>5 DEF Body
  <2> QED BY <2>3, <2>4
<1>4. Adds(g, f, t)
  <2> DEFINE h == [v \in SUBSET t |-> Body(g, f, v)]
  <2>1. g \in [SUBSET t -> {g[v] : v \in SUBSET t}]
    OBVIOUS
  <2> HIDE DEF g
  <2>2. g = [v \in SUBSET t |-> g[v]]
    BY <2>1
  <2>3. g = h
    BY <1>3, <2>2
  <2> QED BY <2>3 DEF Adds
<1> HIDE DEF g
<1> QED BY <1>1, <1>4

LEMMA SumUnfolds ==
  ASSUME NEW f, NEW S
  PROVE  SumFunctionOnSet(f, S) = (CHOOSE g : Adds(g, f, S))[S]
  BY DEF SumFunctionOnSet, FoldFunctionOnSet, MapThenFoldSet, Adds, Body, AnyOf

LEMMA SumIsOfAny ==
  ASSUME NEW f, NEW S, IsFiniteSet(S), NEW g, Adds(g, f, S)
  PROVE  \A s \in SUBSET S : SumFunctionOnSet(f, s) = g[s]
<1> TAKE s \in SUBSET S
<1>1. IsFiniteSet(s)
  BY FS_Subset
<1> DEFINE h == CHOOSE k : Adds(k, f, s)
<1>2. Adds(h, f, s)
  BY <1>1, AddsExists
<1>3. SumFunctionOnSet(f, s) = h[s]
  BY SumUnfolds
<1> HIDE DEF h
<1> QED BY <1>1, <1>2, <1>3, AddsUnique

-----------------------------------------------------------------------------
(* Sums.                                                                   *)

LEMMA SumEmpty == \A f : SumFunctionOnSet(f, {}) = 0
<1> TAKE f
<1>1. IsFiniteSet({})
  BY FS_EmptySet
<1>2. PICK g : Adds(g, f, {})
  BY <1>1, AddsExists
<1>3. g[{}] = Body(g, f, {})
  BY <1>2 DEF Adds
<1>4. SumFunctionOnSet(f, {}) = g[{}]
  BY <1>1, <1>2, SumIsOfAny
<1> QED BY <1>3, <1>4 DEF Body

LEMMA SumTakesAny ==
  ASSUME NEW f, NEW S, IsFiniteSet(S), S # {}
  PROVE  SumFunctionOnSet(f, S) = f[AnyOf(S)] + SumFunctionOnSet(f, S \ {AnyOf(S)})
<1>1. PICK g : Adds(g, f, S)
  BY AddsExists
<1>2. g[S] = Body(g, f, S)
  BY <1>1 DEF Adds
<1>3. SumFunctionOnSet(f, S) = g[S] /\ SumFunctionOnSet(f, S \ {AnyOf(S)}) = g[S \ {AnyOf(S)}]
  BY <1>1, SumIsOfAny
<1> QED BY <1>2, <1>3 DEF Body

\* Sums of integers are integers, sums of natural numbers are natural numbers.
LEMMA SumType ==
  ASSUME NEW f, NEW S, IsFiniteSet(S), NEW N \in {Nat, Int}, \A x \in S : f[x] \in N
  PROVE  SumFunctionOnSet(f, S) \in N
<1> DEFINE T == {t \in SUBSET S : SumFunctionOnSet(f, t) \notin N}
<1> SUFFICES ASSUME T # {} PROVE FALSE
  OBVIOUS
<1>1. PICK t \in T : \A v \in T : v \subseteq t => v = t
  <2>1. T \in SUBSET (SUBSET S) /\ T # {}
    OBVIOUS
  <2> HIDE DEF T
  <2> QED BY <2>1, MinimalSet
<1>2. t # {}
  BY SumEmpty
<1>3. AnyOf(t) \in t
  BY <1>2, AnyIsIn
<1>4. SumFunctionOnSet(f, t \ {AnyOf(t)}) \in N /\ f[AnyOf(t)] \in N
  BY <1>1, <1>3
<1>5. SumFunctionOnSet(f, t) = f[AnyOf(t)] + SumFunctionOnSet(f, t \ {AnyOf(t)})
  BY <1>2, SumTakesAny, FS_Subset
<1>6. \A a, b \in N : a + b \in N
  OBVIOUS
<1> QED BY <1>4, <1>5, <1>6

LEMMA SumSame ==
  ASSUME NEW f, NEW g, NEW S, IsFiniteSet(S), \A x \in S : f[x] = g[x]
  PROVE  SumFunctionOnSet(f, S) = SumFunctionOnSet(g, S)
<1> DEFINE T == {t \in SUBSET S : SumFunctionOnSet(f, t) # SumFunctionOnSet(g, t)}
<1> SUFFICES ASSUME T # {} PROVE FALSE
  OBVIOUS
<1>1. PICK t \in T : \A v \in T : v \subseteq t => v = t
  <2>1. T \in SUBSET (SUBSET S) /\ T # {}
    OBVIOUS
  <2> HIDE DEF T
  <2> QED BY <2>1, MinimalSet
<1>2. t # {}
  BY SumEmpty
<1>3. AnyOf(t) \in t
  BY <1>2, AnyIsIn
<1>4. /\ SumFunctionOnSet(f, t \ {AnyOf(t)}) = SumFunctionOnSet(g, t \ {AnyOf(t)})
      /\ f[AnyOf(t)] = g[AnyOf(t)]
  BY <1>1, <1>3
<1>5. IsFiniteSet(t)
  BY FS_Subset
<1>6. /\ SumFunctionOnSet(f, t) = f[AnyOf(t)] + SumFunctionOnSet(f, t \ {AnyOf(t)})
      /\ SumFunctionOnSet(g, t) = g[AnyOf(t)] + SumFunctionOnSet(g, t \ {AnyOf(t)})
  BY <1>2, <1>5, SumTakesAny
<1> QED BY <1>4, <1>6

\* Any element may be taken first.
LEMMA SumRemove ==
  ASSUME NEW f, NEW S, IsFiniteSet(S), \A x \in S : f[x] \in Int, NEW x \in S
  PROVE  SumFunctionOnSet(f, S) = f[x] + SumFunctionOnSet(f, S \ {x})
<1> DEFINE sum(s) == SumFunctionOnSet(f, s)
           T == {t \in SUBSET S : \E y \in t : sum(t) # f[y] + sum(t \ {y})}
<1> SUFFICES ASSUME T # {} PROVE FALSE
  OBVIOUS
<1>1. PICK t \in T : \A v \in T : v \subseteq t => v = t
  <2>1. T \in SUBSET (SUBSET S) /\ T # {}
    OBVIOUS
  <2> HIDE DEF T
  <2> QED BY <2>1, MinimalSet
<1>2. PICK y \in t : sum(t) # f[y] + sum(t \ {y})
  OBVIOUS
<1> DEFINE a == AnyOf(t)
<1>3. a \in t /\ IsFiniteSet(t)
  BY <1>2, AnyIsIn, FS_Subset
<1>4. sum(t) = f[a] + sum(t \ {a})
  BY <1>2, <1>3, SumTakesAny
<1>5. y # a
  BY <1>2, <1>4
<1>6. t \ {a} \notin T /\ t \ {y} \notin T
  BY <1>1, <1>2, <1>3
<1>7. sum(t \ {a}) = f[y] + sum((t \ {a}) \ {y}) /\ sum(t \ {y}) = f[a] + sum((t \ {y}) \ {a})
  BY <1>2, <1>3, <1>5, <1>6
<1>8. (t \ {a}) \ {y} = (t \ {y}) \ {a}
  OBVIOUS
<1>9. f[y] \in Int /\ f[a] \in Int /\ sum((t \ {a}) \ {y}) \in Int
  <2>1. IsFiniteSet((t \ {a}) \ {y})
    BY <1>3, FS_Subset
  <2> QED BY <1>3, <2>1, SumType
<1> HIDE DEF sum, a
<1> QED BY <1>2, <1>4, <1>7, <1>8, <1>9

\* An element more adds its value.
LEMMA SumAdd ==
  ASSUME NEW f, NEW S, IsFiniteSet(S), \A y \in S : f[y] \in Int, NEW x, x \notin S, f[x] \in Int
  PROVE  SumFunctionOnSet(f, S \cup {x}) = SumFunctionOnSet(f, S) + f[x]
<1>1. IsFiniteSet(S \cup {x}) /\ (S \cup {x}) \ {x} = S
  BY FS_AddElement
<1>2. SumFunctionOnSet(f, S \cup {x}) = f[x] + SumFunctionOnSet(f, S)
  BY <1>1, SumRemove
<1>3. SumFunctionOnSet(f, S) \in Int
  BY SumType
<1> QED BY <1>2, <1>3

\* Part of a set adds up to no more than all of it, if no value is negative.
LEMMA SumPart ==
  ASSUME NEW f, NEW S, IsFiniteSet(S), \A x \in S : f[x] \in Nat, NEW V \in SUBSET S
  PROVE  SumFunctionOnSet(f, V) <= SumFunctionOnSet(f, S)
<1> DEFINE sum(s) == SumFunctionOnSet(f, s)
           T == {t \in SUBSET S : V \subseteq t /\ ~(sum(V) <= sum(t))}
<1> SUFFICES ASSUME T # {} PROVE FALSE
  OBVIOUS
<1>1. PICK t \in T : \A v \in T : v \subseteq t => v = t
  <2>1. T \in SUBSET (SUBSET S) /\ T # {}
    OBVIOUS
  <2> HIDE DEF T
  <2> QED BY <2>1, MinimalSet
<1>2. \A v \in SUBSET S : sum(v) \in Nat
  BY SumType, FS_Subset
<1>3. PICK x \in t : x \notin V
  BY <1>2
<1>4. t \ {x} \notin T
  BY <1>1, <1>3
<1>5. sum(V) <= sum(t \ {x})
  BY <1>3, <1>4
<1>6. sum(t) = f[x] + sum(t \ {x})
  BY <1>3, SumRemove, FS_Subset
<1>7. f[x] \in Nat /\ sum(t \ {x}) \in Nat /\ sum(V) \in Nat
  BY <1>2, <1>3
<1>8. ~(sum(V) <= sum(t))
  BY <1>1
<1> HIDE DEF sum, T
<1> QED BY <1>5, <1>6, <1>7, <1>8

-----------------------------------------------------------------------------
(* Adding up a whole function, as the specifications do.                   *)

\* A function without arguments adds up to nothing.
LEMMA SumOfNone ==
  ASSUME NEW f, DOMAIN f = {}
  PROVE  SumFunction(f) = 0
  BY SumEmpty DEF SumFunction

\* A function to the natural numbers, or to the integers, adds up to one.
LEMMA SumInSet ==
  ASSUME NEW S, IsFiniteSet(S), NEW N \in {Nat, Int}, NEW f \in [S -> N]
  PROVE  SumFunction(f) \in N
  BY SumType DEF SumFunction

\* One argument more adds its value.
LEMMA SumGrows ==
  ASSUME NEW S, IsFiniteSet(S), NEW x, x \notin S,
         NEW f \in [S -> Int], NEW g \in [S \cup {x} -> Int],
         \A y \in S : g[y] = f[y]
  PROVE  SumFunction(g) = SumFunction(f) + g[x]
<1>1. SumFunction(g) = SumFunctionOnSet(g, S \cup {x}) /\ SumFunction(f) = SumFunctionOnSet(f, S)
  BY DEF SumFunction
<1>2. SumFunctionOnSet(g, S) = SumFunctionOnSet(f, S)
  BY SumSame
<1>3. SumFunctionOnSet(g, S \cup {x}) = SumFunctionOnSet(g, S) + g[x]
  BY SumAdd
<1> QED BY <1>1, <1>2, <1>3

\* Fewer arguments add up to no more.
LEMMA SumOfPart ==
  ASSUME NEW S, IsFiniteSet(S), NEW V \in SUBSET S,
         NEW f \in [S -> Nat], NEW g \in [V -> Nat], \A y \in V : g[y] = f[y]
  PROVE  SumFunction(g) <= SumFunction(f)
<1>1. SumFunction(g) = SumFunctionOnSet(g, V) /\ SumFunction(f) = SumFunctionOnSet(f, S)
  BY DEF SumFunction
<1>2. SumFunctionOnSet(g, V) = SumFunctionOnSet(f, V)
  BY SumSame, FS_Subset
<1>3. SumFunctionOnSet(f, V) <= SumFunctionOnSet(f, S)
  BY SumPart
<1> QED BY <1>1, <1>2, <1>3
=============================================================================
