-------------------------------- MODULE Sums --------------------------------
(***************************************************************************)
(* What SumFunctionOnSet computes, for functions and finite sets of any     *)
(* size: the amounts of build_obligations are sums over the rows of an       *)
(* order.  The fold takes the elements in the order of a CHOOSE, so that     *)
(* neither its value on a larger set nor its independence of the order is    *)
(* seen from its definition.                                                *)
(***************************************************************************)
EXTENDS Integers, Functions, FiniteSetTheorems, WellFoundedInduction, TLAPS

\* A set of numbers has a least one.  This is how the proofs below do induction:
\* they look at a least counterexample.
LEMMA Least ==
    ASSUME NEW T \in SUBSET Nat, T # {}
    PROVE  \E x \in T : \A y \in T : x <= y
<1> DEFINE Below == OpToRel(<, Nat)
<1>1. \A x, y \in Nat : y < x => <<y, x>> \in Below
  BY DEF OpToRel
<1>2. IsWellFoundedOn(Below, Nat)
  BY NatLessThanWellFounded
<1> HIDE DEF Below
<1>3. PICK x \in T : \A y \in T : ~ (<<y, x>> \in Below)
  BY <1>2, WFMin
<1>4. ASSUME NEW y \in T PROVE x <= y
  <2>1. x \in Nat /\ y \in Nat
    OBVIOUS
  <2>2. ~ (<<y, x>> \in Below)
    BY <1>3
  <2>3. ~ (y < x)
    BY <1>1, <2>1, <2>2, Zenon
  <2>4. QED
    BY <2>1, <2>3
<1>5. QED
  BY <1>4

\* Among some subsets of a finite set there is one that contains no other.
LEMMA Smallest ==
    ASSUME NEW S, IsFiniteSet(S), NEW B \in SUBSET (SUBSET S), B # {}
    PROVE  \E s \in B : \A t \in B : t \subseteq s => t = s
<1> DEFINE sizes == {Cardinality(s) : s \in B}
<1>1. \A s \in B : IsFiniteSet(s) /\ Cardinality(s) \in Nat
  BY FS_Subset, FS_CardinalityType
<1>2. sizes \in SUBSET Nat /\ sizes # {}
  BY <1>1
<1>3. PICK n \in sizes : \A m \in sizes : n <= m
  BY <1>2, Least
<1>4. PICK s \in B : Cardinality(s) = n
  BY <1>3
<1>5. ASSUME NEW t \in B, t \subseteq s, t # s PROVE FALSE
  <2>1. Cardinality(t) < Cardinality(s)
    BY <1>1, <1>5, FS_Subset
  <2>2. n <= Cardinality(t) /\ n \in Nat /\ Cardinality(t) \in Nat
    BY <1>1, <1>2, <1>3
  <2>3. QED
    BY <1>4, <2>1, <2>2
<1>6. QED
  BY <1>5

----------------------------------------------------------------------------
\* The element that the fold takes first, and its recursion on a family F of
\* sets that is closed under taking it away.
First(s) == CHOOSE x \in s : TRUE

Adds(g, v, F) ==
    g = [s \in F |-> IF s = {} THEN 0 ELSE v[First(s)] + g[s \ {First(s)}]]

LEMMA FirstIn == ASSUME NEW s, s # {} PROVE First(s) \in s
BY DEF First

LEMMA Unfold ==
    ASSUME NEW v, NEW S
    PROVE  SumFunctionOnSet(v, S) = (CHOOSE g : Adds(g, v, SUBSET S))[S]
BY DEF SumFunctionOnSet, FoldFunctionOnSet, MapThenFoldSet, Adds, First

LEMMA Added ==
    ASSUME NEW g, NEW v, NEW F, Adds(g, v, F), NEW s \in F
    PROVE  g[s] = IF s = {} THEN 0 ELSE v[First(s)] + g[s \ {First(s)}]
<1> DEFINE e(t) == IF t = {} THEN 0 ELSE v[First(t)] + g[t \ {First(t)}]
<1>1. g = [t \in F |-> e(t)]
  BY DEF Adds
<1> HIDE DEF e
<1>2. g[s] = e(s)
  BY <1>1
<1>3. QED
  BY <1>2 DEF e

\* What such a family g of sums says of the set s.
OneApart(g, v, s) ==
    /\ s = {} => g[s] = 0
    /\ s # {} => First(s) \in s /\ g[s] = v[First(s)] + g[s \ {First(s)}]

LEMMA AddedOn ==
    \A g, v, S : Adds(g, v, SUBSET S) => \A s \in SUBSET S : OneApart(g, v, s)
<1>1. ASSUME NEW g, NEW v, NEW S, Adds(g, v, SUBSET S), NEW s \in SUBSET S
      PROVE  OneApart(g, v, s)
  <2> DEFINE F == SUBSET S
  <2>1. s \in F /\ Adds(g, v, F)
    BY <1>1
  <2> HIDE DEF F
  <2>2. QED
    BY <2>1, Added, FirstIn DEF OneApart
<1>2. QED
  BY <1>1, Zenon

\* The recursion has a solution: those on the subsets of at most n elements can
\* be extended by one element more.
LEMMA Solvable ==
    ASSUME NEW v, NEW S, IsFiniteSet(S)
    PROVE  \E g : Adds(g, v, SUBSET S)
<1> DEFINE Upto(n) == {s \in SUBSET S : Cardinality(s) <= n}
           Open == {n \in Nat : ~ \E g : Adds(g, v, Upto(n))}
<1>1. \A s \in SUBSET S : IsFiniteSet(s) /\ Cardinality(s) \in Nat
  BY FS_Subset, FS_CardinalityType
<1>2. ASSUME NEW n \in Open, \A m \in Open : n <= m PROVE FALSE
  <2>1. CASE n = 0
    <3> DEFINE g == [s \in Upto(0) |-> 0]
    <3>1. \A s \in Upto(0) : s = {}
      BY <1>1, FS_EmptySet
    <3>2. Adds(g, v, Upto(0))
      BY <3>1 DEF Adds
    <3>3. QED
      BY <2>1, <3>2
  <2>2. CASE n # 0
    <3>1. n \in Nat /\ n - 1 \in Nat /\ n - 1 < n
      BY <2>2
    <3>2. n - 1 \notin Open
      <4> HIDE DEF Open
      <4>1. n - 1 \in Open => n <= n - 1
        BY <1>2
      <4>2. QED
        BY <3>1, <4>1
    <3>3. PICK g : Adds(g, v, Upto(n - 1))
      BY <3>1, <3>2
    <3> DEFINE h == [s \in Upto(n) |-> IF s = {} THEN 0
                                       ELSE v[First(s)] + g[s \ {First(s)}]]
    <3>4. ASSUME NEW s \in Upto(n), s # {}
          PROVE  h[s \ {First(s)}] = g[s \ {First(s)}]
      <4> DEFINE t == s \ {First(s)}
      <4>1. First(s) \in s /\ t \in SUBSET S
        BY <3>4, FirstIn
      <4>2. Cardinality(t) = Cardinality(s) - 1
        BY <1>1, <4>1, FS_RemoveElement
      <4>3. t \in Upto(n - 1) /\ t \in Upto(n)
        BY <1>1, <3>1, <4>1, <4>2
      <4> HIDE DEF t
      <4>4. g[t] = IF t = {} THEN 0 ELSE v[First(t)] + g[t \ {First(t)}]
        BY <3>3, <4>3, Added
      <4>5. h[t] = IF t = {} THEN 0 ELSE v[First(t)] + g[t \ {First(t)}]
        BY <4>3
      <4>6. QED
        BY <4>4, <4>5 DEF t
    <3>5. Adds(h, v, Upto(n))
      <4>1. h = [s \in Upto(n) |-> IF s = {} THEN 0 ELSE v[First(s)] + h[s \ {First(s)}]]
        <5> HIDE DEF Upto
        <5>1. \A s \in Upto(n) : s # {} => h[s \ {First(s)}] = g[s \ {First(s)}]
          BY <3>4
        <5>2. [s \in Upto(n) |-> IF s = {} THEN 0 ELSE v[First(s)] + g[s \ {First(s)}]]
              = [s \in Upto(n) |-> IF s = {} THEN 0 ELSE v[First(s)] + h[s \ {First(s)}]]
          <6> HIDE DEF h
          <6>1. QED
            BY <5>1
        <5>3. QED
          BY <5>2
      <4>2. QED
        BY <4>1 DEF Adds
    <3>6. QED
      BY <3>5
  <2>3. QED
    BY <2>1, <2>2
<1>3. Open = {}
  <2>1. Open \in SUBSET Nat
    OBVIOUS
  <2> HIDE DEF Open
  <2>2. QED
    BY <1>2, <2>1, Least
<1>4. Cardinality(S) \in Nat /\ Upto(Cardinality(S)) = SUBSET S
  BY <1>1, FS_Subset, FS_CardinalityType
<1>5. QED
  BY <1>3, <1>4

----------------------------------------------------------------------------
\* What the fold yields is a solution, and solutions agree on the sets they share.
LEMMA Solved ==
    ASSUME NEW v, NEW S, IsFiniteSet(S)
    PROVE  \E g : Adds(g, v, SUBSET S) /\ SumFunctionOnSet(v, S) = g[S]
<1> DEFINE g == CHOOSE h : Adds(h, v, SUBSET S)
<1>1. Adds(g, v, SUBSET S)
  BY Solvable
<1>2. SumFunctionOnSet(v, S) = g[S]
  BY Unfold
<1> HIDE DEF g
<1>3. QED
  BY <1>1, <1>2

LEMMA SumIsSolution ==
    ASSUME NEW S, IsFiniteSet(S), NEW v, NEW g, Adds(g, v, SUBSET S),
           NEW T \in SUBSET S
    PROVE  SumFunctionOnSet(v, T) = g[T]
<1>1. IsFiniteSet(T)
  BY FS_Subset
<1>2. PICK h : Adds(h, v, SUBSET T) /\ SumFunctionOnSet(v, T) = h[T]
  BY <1>1, Solved
<1> DEFINE B == {s \in SUBSET T : g[s] # h[s]}
<1>3. ASSUME NEW s \in B, \A t \in B : t \subseteq s => t = s PROVE FALSE
  <2>1. s \in SUBSET T /\ s \in SUBSET S /\ g[s] # h[s]
    OBVIOUS
  <2>2. /\ s = {} => g[s] = 0 /\ h[s] = 0
        /\ s # {} => /\ First(s) \in s
                      /\ g[s] = v[First(s)] + g[s \ {First(s)}]
                      /\ h[s] = v[First(s)] + h[s \ {First(s)}]
    <3>1. Adds(h, v, SUBSET T)
      BY <1>2
    <3>2. OneApart(g, v, s) /\ OneApart(h, v, s)
      BY <2>1, <3>1, AddedOn, Zenon
    <3>3. QED
      BY <3>2 DEF OneApart
  <2>3. s # {} /\ First(s) \in s
    BY <2>1, <2>2
  <2>4. g[s \ {First(s)}] = h[s \ {First(s)}]
    <3>1. s \ {First(s)} \subseteq s /\ s \ {First(s)} # s /\ s \ {First(s)} \in SUBSET T
      BY <2>1, <2>3
    <3>2. s \ {First(s)} \notin B
      <4> HIDE DEF B
      <4>1. QED
        BY <1>3, <3>1
    <3>3. QED
      BY <3>1, <3>2
  <2>5. QED
    BY <2>1, <2>2, <2>3, <2>4
<1>4. B = {}
  <2>1. B \in SUBSET (SUBSET T)
    OBVIOUS
  <2> HIDE DEF B
  <2>2. QED
    BY <1>1, <1>3, <2>1, Smallest
<1>5. T \in SUBSET T
  OBVIOUS
<1>6. QED
  BY <1>2, <1>4, <1>5

\* A sum of integers is one.
LEMMA IntegerSolution ==
    ASSUME NEW S, IsFiniteSet(S), NEW v, \A x \in S : v[x] \in Int,
           NEW g, Adds(g, v, SUBSET S)
    PROVE  \A s \in SUBSET S : g[s] \in Int
<1> DEFINE B == {s \in SUBSET S : g[s] \notin Int}
<1>1. ASSUME NEW s \in B, \A t \in B : t \subseteq s => t = s PROVE FALSE
  <2>1. s \in SUBSET S /\ g[s] \notin Int
    OBVIOUS
  <2>2. g[s] = IF s = {} THEN 0 ELSE v[First(s)] + g[s \ {First(s)}]
    BY <2>1, Added
  <2>3. s # {} /\ First(s) \in s
    BY <2>1, <2>2, FirstIn
  <2>4. s \ {First(s)} \subseteq s /\ s \ {First(s)} # s /\ s \ {First(s)} \in SUBSET S
    BY <2>1, <2>3
  <2>5. s \ {First(s)} \notin B
    <3> HIDE DEF B
    <3>1. QED
      BY <1>1, <2>4
  <2>6. g[s \ {First(s)}] \in Int /\ v[First(s)] \in Int
    BY <2>1, <2>3, <2>4, <2>5
  <2>7. QED
    BY <2>1, <2>2, <2>3, <2>6
<1>2. B = {}
  <2>1. B \in SUBSET (SUBSET S)
    OBVIOUS
  <2> HIDE DEF B
  <2>2. QED
    BY <1>1, <2>1, Smallest
<1>3. QED
  BY <1>2

\* Any element can be taken first.
LEMMA AnyFirst ==
    ASSUME NEW S, IsFiniteSet(S), NEW v, \A x \in S : v[x] \in Int,
           NEW g, Adds(g, v, SUBSET S)
    PROVE  \A s \in SUBSET S : \A x \in s : g[s] = v[x] + g[s \ {x}]
<1> DEFINE Right(s) == \A x \in s : g[s] = v[x] + g[s \ {x}]
           B == {s \in SUBSET S : ~ Right(s)}
<1>1. ASSUME NEW s \in B, \A t \in B : t \subseteq s => t = s PROVE FALSE
  <2>1. s \in SUBSET S /\ ~ Right(s)
    OBVIOUS
  <2>2. PICK x \in s : g[s] # v[x] + g[s \ {x}]
    BY <2>1
  <2> DEFINE y == First(s)
             both == s \ {x, y}
  <2>3. y \in s /\ g[s] = v[y] + g[s \ {y}]
    <3>1. OneApart(g, v, s)
      BY <2>1, AddedOn, Zenon
    <3>2. QED
      BY <3>1 DEF OneApart
  <2> HIDE DEF y
  <2>4. x # y
    BY <2>2, <2>3
  <2>5. ASSUME NEW z \in s PROVE Right(s \ {z})
    <3>1. s \ {z} \in SUBSET S /\ s \ {z} \subseteq s /\ s \ {z} # s
      BY <2>1
    <3>2. s \ {z} \notin B
      <4> HIDE DEF B
      <4>1. QED
        BY <1>1, <3>1
    <3> HIDE DEF Right
    <3>3. QED
      BY <3>1, <3>2
  <2>6. g[s \ {y}] = v[x] + g[both]
    <3>1. x \in s \ {y} /\ (s \ {y}) \ {x} = both
      BY <2>4
    <3>2. QED
      BY <2>3, <2>5, <3>1
  <2>7. g[s \ {x}] = v[y] + g[both]
    <3>1. y \in s \ {x} /\ (s \ {x}) \ {y} = both
      BY <2>3, <2>4
    <3>2. QED
      BY <2>5, <3>1
  <2>8. g[both] \in Int /\ v[x] \in Int /\ v[y] \in Int
    BY <2>1, <2>3, IntegerSolution
  <2>9. g[s] = v[x] + g[s \ {x}]
    BY <2>3, <2>6, <2>7, <2>8
  <2>10. QED
    BY <2>2, <2>9
<1>2. B = {}
  <2>1. B \in SUBSET (SUBSET S)
    OBVIOUS
  <2> HIDE DEF B
  <2>2. QED
    BY <1>1, <2>1, Smallest
<1>3. QED
  BY <1>2

----------------------------------------------------------------------------
\* The sum as its users know it.

LEMMA SumOfNothing == \A v : SumFunctionOnSet(v, {}) = 0
<1>1. ASSUME NEW v PROVE SumFunctionOnSet(v, {}) = 0
  <2>1. PICK g : Adds(g, v, SUBSET {}) /\ SumFunctionOnSet(v, {}) = g[{}]
    BY Solved, FS_EmptySet
  <2>2. g[{}] = 0
    BY <2>1, Added
  <2>3. QED
    BY <2>1, <2>2
<1>2. QED
  BY <1>1

LEMMA SumIsInteger ==
    ASSUME NEW S, IsFiniteSet(S), NEW v, \A x \in S : v[x] \in Int
    PROVE  SumFunctionOnSet(v, S) \in Int
<1>1. PICK g : Adds(g, v, SUBSET S) /\ SumFunctionOnSet(v, S) = g[S]
  BY Solved
<1>2. QED
  BY <1>1, IntegerSolution

\* One summand can be set apart, whichever it is.
LEMMA SumSplits ==
    ASSUME NEW S, IsFiniteSet(S), NEW v, \A x \in S : v[x] \in Int, NEW x \in S
    PROVE  SumFunctionOnSet(v, S) = v[x] + SumFunctionOnSet(v, S \ {x})
<1>1. PICK g : Adds(g, v, SUBSET S) /\ SumFunctionOnSet(v, S) = g[S]
  BY Solved
<1>2. Adds(g, v, SUBSET S) /\ S \in SUBSET S /\ S \ {x} \in SUBSET S
  BY <1>1
<1>3. SumFunctionOnSet(v, S \ {x}) = g[S \ {x}]
  BY <1>2, SumIsSolution
<1>4. g[S] = v[x] + g[S \ {x}]
  BY <1>2, AnyFirst
<1>5. QED
  BY <1>1, <1>3, <1>4

\* A sum does not depend on what its summands are called: the sum over the
\* positions of a list is the one over what it lists.
LEMMA SumMoves ==
    ASSUME NEW S, IsFiniteSet(S), NEW v, NEW w, NEW f,
           \A x, y \in S : f[x] = f[y] => x = y,
           \A x \in S : v[x] \in Int /\ w[f[x]] = v[x]
    PROVE  SumFunctionOnSet(v, S) = SumFunctionOnSet(w, {f[x] : x \in S})
<1> DEFINE Im(s) == {f[x] : x \in s}
           B == {s \in SUBSET S : SumFunctionOnSet(v, s) # SumFunctionOnSet(w, Im(s))}
<1>1. ASSUME NEW s \in B, \A t \in B : t \subseteq s => t = s PROVE FALSE
  <2>1. s \in SUBSET S /\ SumFunctionOnSet(v, s) # SumFunctionOnSet(w, Im(s))
    OBVIOUS
  <2>2. PICK x \in s : TRUE
    <3>1. s # {}
      <4>1. s = {} => Im(s) = {}
        OBVIOUS
      <4> HIDE DEF Im
      <4>2. QED
        BY <2>1, <4>1, SumOfNothing
    <3>2. QED
      BY <3>1
  <2>3. IsFiniteSet(s) /\ IsFiniteSet(Im(s))
    <3>1. IsFiniteSet(s)
      BY <2>1, FS_Subset
    <3> DEFINE h == [z \in s |-> f[z]]
    <3>2. h \in Surjection(s, Im(s))
      BY DEF Surjection
    <3> HIDE DEF h, Im, B
    <3>3. QED
      BY <3>1, <3>2, FS_Surjection
  <2>4. SumFunctionOnSet(v, s) = v[x] + SumFunctionOnSet(v, s \ {x})
    BY <2>1, <2>3, SumSplits
  <2>5. f[x] \in Im(s) /\ Im(s) \ {f[x]} = Im(s \ {x}) /\ \A z \in Im(s) : w[z] \in Int
    BY <2>1
  <2>6. SumFunctionOnSet(w, Im(s)) = w[f[x]] + SumFunctionOnSet(w, Im(s \ {x}))
    <3> HIDE DEF Im
    <3>1. SumFunctionOnSet(w, Im(s)) = w[f[x]] + SumFunctionOnSet(w, Im(s) \ {f[x]})
      BY <2>3, <2>5, SumSplits
    <3>2. QED
      BY <2>5, <3>1
  <2>7. SumFunctionOnSet(v, s \ {x}) = SumFunctionOnSet(w, Im(s \ {x}))
    <3>1. s \ {x} \in SUBSET S /\ s \ {x} \subseteq s /\ s \ {x} # s
      BY <2>1
    <3>2. s \ {x} \notin B
      <4> HIDE DEF B
      <4>1. QED
        BY <1>1, <3>1
    <3> HIDE DEF Im
    <3>3. QED
      BY <3>1, <3>2
  <2>8. w[f[x]] = v[x]
    BY <2>1
  <2> HIDE DEF Im, B
  <2>9. QED
    BY <2>1, <2>4, <2>6, <2>7, <2>8
<1>2. B = {}
  <2>1. B \in SUBSET (SUBSET S)
    OBVIOUS
  <2> HIDE DEF B
  <2>2. QED
    BY <1>1, <2>1, Smallest
<1>3. QED
  BY <1>2
=============================================================================
