---------------------------- MODULE SetInduction ----------------------------
(***************************************************************************)
(* Induction stated for sets.  The library's induction theorems take an    *)
(* operator; these take the set of the values the claim holds of, and come *)
(* from the well-foundedness of < and of strict inclusion.                 *)
(***************************************************************************)
EXTENDS Integers, FiniteSets, FiniteSetTheorems, WellFoundedInduction, TLAPS

(* A set of naturals that is not empty has a least element.                 *)
LEMMA NatLeast ==
  ASSUME NEW A \in SUBSET Nat, A # {}
  PROVE  \E n \in A : \A m \in A : n <= m
<1> DEFINE R == {ss \in Nat \X Nat : ss[1] < ss[2]}
<1>1. IsWellFoundedOn(R, Nat)
  BY NatLessThanWellFounded DEF OpToRel
<1>2. PICK n \in A : \A m \in A : ~ (<<m, n>> \in R)
  <2> HIDE DEF R
  <2> QED
    BY <1>1, WFMin
<1>3. \A m \in A : <<m, n>> \in R <=> m < n
  OBVIOUS
<1> HIDE DEF R
<1>4. \A m \in A : ~ (m < n)
  BY <1>2, <1>3
<1> QED
  BY <1>4

(* A set that holds 0, and n + 1 with n, holds every natural.               *)
LEMMA NatAll ==
  ASSUME NEW A, 0 \in A, \A n \in Nat : n \in A => n + 1 \in A
  PROVE  Nat \subseteq A
<1> SUFFICES ASSUME Nat \ A # {} PROVE FALSE
  OBVIOUS
<1>1. PICK n \in Nat \ A : \A m \in Nat \ A : n <= m
  BY NatLeast
<1>2. n - 1 \in Nat /\ n - 1 \in A /\ n = (n - 1) + 1
  <2>1. n # 0
    OBVIOUS
  <2>2. n - 1 \in Nat
    BY <2>1
  <2>3. ~ (n <= n - 1)
    BY <2>2
  <2> QED
    BY <1>1, <2>2, <2>3
<1> QED
  BY <1>2

(* The same for naturals with a bound: a greatest element.                  *)
LEMMA NatGreatest ==
  ASSUME NEW A \in SUBSET Nat, A # {}, NEW b \in Nat, \A m \in A : m <= b
  PROVE  \E n \in A : \A m \in A : m <= n
<1> DEFINE B == {k \in Nat : \E m \in A : k = b - m}
<1>1. B # {}
  <2>1. PICK m : m \in A
    OBVIOUS
  <2>2. b - m \in B
    BY <2>1
  <2> QED
    BY <2>2
<1>2. PICK k \in B : \A j \in B : k <= j
  BY <1>1, NatLeast
<1>3. PICK n \in A : k = b - n
  BY <1>2
<1>4. \A m \in A : m <= n
  <2> TAKE m \in A
  <2>1. b - m \in B
    OBVIOUS
  <2>2. b - n <= b - m
    BY <1>2, <1>3, <2>1
  <2> QED
    BY <2>2
<1> QED
  BY <1>4

(* What holds of the empty set and is kept when an element is added holds   *)
(* of every finite set.                                                     *)
LEMMA FiniteAll ==
  ASSUME NEW S, IsFiniteSet(S), NEW C,
         {} \in C,
         \A T \in SUBSET S : \A x \in S \ T : T \in C => T \cup {x} \in C
  PROVE  S \in C
<1> DEFINE A == {n \in Nat : \A T \in SUBSET S : Cardinality(T) = n => T \in C}
<1>1. 0 \in A
  <2> SUFFICES ASSUME NEW T \in SUBSET S, Cardinality(T) = 0 PROVE T \in C
    OBVIOUS
  <2> QED
    BY FS_Subset, FS_EmptySet
<1>2. ASSUME NEW n \in Nat, n \in A PROVE n + 1 \in A
  <2> SUFFICES ASSUME NEW T \in SUBSET S, Cardinality(T) = n + 1 PROVE T \in C
    OBVIOUS
  <2>1. IsFiniteSet(T)
    BY FS_Subset
  <2>2. PICK x : x \in T
    <3>1. Cardinality({}) = 0
      BY FS_EmptySet
    <3>2. T # {}
      BY <3>1
    <3> QED
      BY <3>2
  <2>3. Cardinality(T \ {x}) = n
    <3>1. Cardinality(T \ {x}) = Cardinality(T) - 1
      BY <2>1, <2>2, FS_RemoveElement
    <3> QED
      BY <3>1
  <2>4. T \ {x} \in C
    BY <1>2, <2>3
  <2>5. (T \ {x}) \cup {x} \in C
    BY <2>2, <2>4
  <2>6. (T \ {x}) \cup {x} = T
    BY <2>2
  <2> QED
    BY <2>5, <2>6
<1>3. Cardinality(S) \in Nat
  BY FS_CardinalityType
<1> HIDE DEF A
<1>4. Nat \subseteq A
  BY <1>1, <1>2, NatAll
<1> QED
  BY <1>3, <1>4 DEF A

-----------------------------------------------------------------------------
(* Sums over a finite set, as the folds of the community modules define     *)
(* them: a function on the subsets that takes the elements one by one.      *)

Pick(s) == CHOOSE x \in s : TRUE

SumsUp(h, S, a) ==
  h = [s \in SUBSET S |-> IF s = {} THEN 0 ELSE h[s \ {Pick(s)}] + a[Pick(s)]]

LEMMA PickLess ==
  ASSUME NEW S, IsFiniteSet(S), NEW s \in SUBSET S, s # {}
  PROVE  /\ Pick(s) \in s /\ s \ {Pick(s)} \in SUBSET S
         /\ Cardinality(s) \in Nat \ {0} /\ Cardinality(s \ {Pick(s)}) = Cardinality(s) - 1
<1>1. Pick(s) \in s
  BY DEF Pick
<1>2. IsFiniteSet(s) /\ Cardinality(s) \in Nat
  BY FS_Subset, FS_CardinalityType
<1>3. Cardinality(s) # 0
  BY <1>2, FS_EmptySet
<1> QED
  BY <1>1, <1>2, <1>3, FS_RemoveElement

LEMMA SumExists ==
  ASSUME NEW S, IsFiniteSet(S), NEW a, \A x \in S : a[x] \in Nat
  PROVE  \E h : SumsUp(h, S, a)
<1> DEFINE D(n) == {s \in SUBSET S : Cardinality(s) <= n}
           Sums(h, n) == \A s \in D(n) :
             h[s] = IF s = {} THEN 0 ELSE h[s \ {Pick(s)}] + a[Pick(s)]
           A == {n \in Nat : \E h \in [D(n) -> Nat] : Sums(h, n)}
<1>1. \A s \in SUBSET S : Cardinality(s) \in Nat
  BY FS_Subset, FS_CardinalityType
<1>2. 0 \in A
  <2> DEFINE h == [s \in D(0) |-> 0]
  <2>1. h \in [D(0) -> Nat]
    OBVIOUS
  <2>2. \A s \in D(0) : s = {}
    <3> SUFFICES ASSUME NEW s \in SUBSET S, Cardinality(s) <= 0 PROVE s = {}
      OBVIOUS
    <3> QED
      <4>1. s # {} => Cardinality(s) \in Nat \ {0}
        BY PickLess
      <4>2. ~(Cardinality(s) \in Nat \ {0})
        BY <1>1
      <4> QED
        BY <4>1, <4>2
  <2>3. Sums(h, 0)
    BY <2>2
  <2> HIDE DEF h
  <2> QED
    BY <2>1, <2>3
<1>3. ASSUME NEW n \in Nat, n \in A PROVE n + 1 \in A
  <2>1. PICK h \in [D(n) -> Nat] : Sums(h, n)
    BY <1>3
  <2> DEFINE g == [s \in D(n + 1) |->
                     IF s \in D(n) THEN h[s] ELSE h[s \ {Pick(s)}] + a[Pick(s)]]
  <2>2. \A s \in D(n + 1) : s # {} =>
          /\ Pick(s) \in S /\ s \ {Pick(s)} \in D(n) /\ s \ {Pick(s)} \in D(n + 1)
          /\ s \in D(n + 1)
    <3> SUFFICES ASSUME NEW s \in SUBSET S, Cardinality(s) <= n + 1, s # {}
                 PROVE  /\ Pick(s) \in S /\ s \ {Pick(s)} \in SUBSET S
                        /\ Cardinality(s \ {Pick(s)}) <= n
                        /\ Cardinality(s \ {Pick(s)}) <= n + 1
      OBVIOUS
    <3>1. /\ Pick(s) \in s /\ s \ {Pick(s)} \in SUBSET S
          /\ Cardinality(s) \in Nat \ {0} /\ Cardinality(s \ {Pick(s)}) = Cardinality(s) - 1
      BY PickLess
    <3> QED
      BY <3>1
  <2>3. {} \in D(n) /\ {} \in D(n + 1)
    BY FS_EmptySet
  <2>4. \A s \in D(n) : s \in D(n + 1)
    BY <1>1
  <2>5. \A s \in D(n + 1) :
          g[s] = IF s \in D(n) THEN h[s] ELSE h[s \ {Pick(s)}] + a[Pick(s)]
    OBVIOUS
  <2>6. g = [s \in D(n + 1) |-> g[s]]
    OBVIOUS
  <2>7. Sums(h, n)
    BY <2>1
  <2>8. \A s \in D(n) : s # {} => h[s] = h[s \ {Pick(s)}] + a[Pick(s)]
    BY <2>7
  <2>9. h[{}] = 0
    BY <2>3, <2>7
  <2> HIDE DEF g, D
  <2>10. g \in [D(n + 1) -> Nat]
    <3>1. \A s \in D(n + 1) : g[s] \in Nat
      <4> SUFFICES ASSUME NEW s \in D(n + 1) PROVE g[s] \in Nat
        OBVIOUS
      <4>1. CASE s \in D(n)
        BY <2>1, <2>5, <4>1
      <4>2. CASE s \notin D(n)
        <5>1. h[s \ {Pick(s)}] \in Nat /\ a[Pick(s)] \in Nat
          BY <2>1, <2>2, <2>3, <4>2
        <5>2. g[s] = h[s \ {Pick(s)}] + a[Pick(s)]
          BY <2>5, <4>2
        <5> QED
          BY <5>1, <5>2
      <4> QED
        BY <4>1, <4>2
    <3> QED
      BY <2>6, <3>1
  <2>11. \A s \in D(n + 1) : g[s] = IF s = {} THEN 0 ELSE g[s \ {Pick(s)}] + a[Pick(s)]
    <3> SUFFICES ASSUME NEW s \in D(n + 1)
                 PROVE  g[s] = IF s = {} THEN 0 ELSE g[s \ {Pick(s)}] + a[Pick(s)]
      OBVIOUS
    <3>1. CASE s = {}
      BY <2>3, <2>5, <2>9, <3>1
    <3>2. CASE s # {}
      <4>1. g[s \ {Pick(s)}] = h[s \ {Pick(s)}]
        BY <2>2, <2>5, <3>2
      <4>2. g[s] = h[s \ {Pick(s)}] + a[Pick(s)]
        BY <2>5, <2>8, <3>2
      <4> QED
        BY <3>2, <4>1, <4>2
    <3> QED
      BY <3>1, <3>2
  <2> QED
    <3>1. Sums(g, n + 1)
      BY <2>11
    <3>2. n + 1 \in Nat
      OBVIOUS
    <3> HIDE DEF Sums
    <3> QED
      BY <2>10, <3>1, <3>2
<1>4. Cardinality(S) \in A
  <2> HIDE DEF A
  <2>1. Nat \subseteq A
    BY <1>2, <1>3, NatAll
  <2> QED
    BY <1>1, <2>1
<1>5. PICK h \in [D(Cardinality(S)) -> Nat] : Sums(h, Cardinality(S))
  BY <1>4
<1>6. D(Cardinality(S)) = SUBSET S
  BY FS_Subset
<1>7. h = [s \in SUBSET S |-> IF s = {} THEN 0 ELSE h[s \ {Pick(s)}] + a[Pick(s)]]
  <2>1. h = [s \in SUBSET S |-> h[s]]
    BY <1>6
  <2>2. \A s \in SUBSET S : h[s] = IF s = {} THEN 0 ELSE h[s \ {Pick(s)}] + a[Pick(s)]
    BY <1>5, <1>6
  <2> HIDE DEF D, Sums
  <2> QED
    BY <2>1, <2>2
<1> QED
  BY <1>7 DEF SumsUp

(* A sum of naturals is a natural.                                          *)
LEMMA SumIsNatural ==
  ASSUME NEW S, IsFiniteSet(S), NEW a, \A x \in S : a[x] \in Nat
  PROVE  (CHOOSE h : SumsUp(h, S, a))[S] \in Nat
<1> DEFINE sum == CHOOSE h : SumsUp(h, S, a)
<1>1. sum = [s \in SUBSET S |-> IF s = {} THEN 0 ELSE sum[s \ {Pick(s)}] + a[Pick(s)]]
  <2>1. SumsUp(sum, S, a)
    BY SumExists
  <2> QED
    BY <2>1 DEF SumsUp
<1>2. \A s \in SUBSET S : sum[s] = IF s = {} THEN 0 ELSE sum[s \ {Pick(s)}] + a[Pick(s)]
  <2> HIDE DEF sum
  <2> QED
    BY <1>1
<1> HIDE DEF sum
<1> DEFINE A == {n \in Nat : \A s \in SUBSET S : Cardinality(s) = n => sum[s] \in Nat}
<1>3. 0 \in A
  <2> SUFFICES ASSUME NEW s \in SUBSET S, Cardinality(s) = 0 PROVE sum[s] \in Nat
    OBVIOUS
  <2>1. s = {}
    BY PickLess
  <2> QED
    BY <1>2, <2>1
<1>4. ASSUME NEW n \in Nat, n \in A PROVE n + 1 \in A
  <2> SUFFICES ASSUME NEW s \in SUBSET S, Cardinality(s) = n + 1 PROVE sum[s] \in Nat
    OBVIOUS
  <2>1. s # {}
    BY FS_EmptySet
  <2>2. /\ Pick(s) \in S /\ s \ {Pick(s)} \in SUBSET S /\ Cardinality(s \ {Pick(s)}) = n
    <3>1. /\ Pick(s) \in s /\ s \ {Pick(s)} \in SUBSET S
          /\ Cardinality(s \ {Pick(s)}) = Cardinality(s) - 1
      BY <2>1, PickLess
    <3> QED
      BY <3>1
  <2>3. sum[s \ {Pick(s)}] \in Nat
    BY <1>4, <2>2
  <2> HIDE DEF A
  <2> QED
    BY <1>2, <2>1, <2>2, <2>3
<1>5. Nat \subseteq A
  <2> HIDE DEF A
  <2> QED
    BY <1>3, <1>4, NatAll
<1>6. Cardinality(S) \in Nat /\ S \in SUBSET S
  BY FS_CardinalityType
<1>7. sum[S] \in Nat
  BY <1>5, <1>6
<1> QED
  BY <1>7 DEF sum


(* Recursion over a set whose elements are reached from below: a body that  *)
(* asks its function only for what is below defines one.                    *)
FromBelow(C, Below) ==
  /\ Below \in [C -> SUBSET C]
  /\ \A S \in SUBSET C : S # {} => \E c \in S : Below[c] \cap S = {}

AsksBelow(C, Below, V, Body) ==
  /\ Body \in [C \X [C -> V] -> V]
  /\ \A c \in C : \A f, g \in [C -> V] :
       (\A d \in Below[c] : f[d] = g[d]) => Body[<<c, f>>] = Body[<<c, g>>]

LEMMA ByRecursion ==
  ASSUME NEW C, NEW Below, NEW V, NEW Body,
         V # {}, FromBelow(C, Below), AsksBelow(C, Below, V, Body)
  PROVE  \E f \in [C -> V] : \A c \in C : f[c] = Body[<<c, f>>]
<1>0. /\ Below \in [C -> SUBSET C] /\ Body \in [C \X [C -> V] -> V]
      /\ \A S \in SUBSET C : S # {} => \E c \in S : Below[c] \cap S = {}
      /\ \A c \in C : \A f, g \in [C -> V] :
           (\A d \in Below[c] : f[d] = g[d]) => Body[<<c, f>>] = Body[<<c, g>>]
  BY DEF FromBelow, AsksBelow
<1> HIDE DEF FromBelow, AsksBelow
<1> USE <1>0
<1> DEFINE Closed(S) == \A c \in S : Below[c] \subseteq S
           Solves(S, f) == \A c \in S : f[c] = Body[<<c, f>>]
           Solved == {S \in SUBSET C : Closed(S) /\ \E f \in [C -> V] : Solves(S, f)}
<1>1. ASSUME NEW S \in SUBSET C, NEW R \in SUBSET C, Closed(S), Closed(R),
             NEW f \in [C -> V], NEW g \in [C -> V], Solves(S, f), Solves(R, g)
      PROVE  \A c \in S \cap R : f[c] = g[c]
  <2> DEFINE Differ == {c \in S \cap R : f[c] # g[c]}
  <2>1. SUFFICES ASSUME Differ # {} PROVE FALSE
    OBVIOUS
  <2>2. PICK c \in Differ : Below[c] \cap Differ = {}
    <3>1. Differ \in SUBSET C
      OBVIOUS
    <3> HIDE DEF Differ
    <3> QED
      BY <2>1, <3>1
  <2>3. c \in C /\ c \in S /\ c \in R /\ f[c] # g[c]
    BY <2>2
  <2>4. \A d \in Below[c] : f[d] = g[d]
    BY <1>1, <2>2, <2>3
  <2>5. Body[<<c, f>>] = Body[<<c, g>>]
    BY <2>3, <2>4
  <2> QED
    BY <1>1, <2>3, <2>5
<1> DEFINE All == UNION Solved
<1>2. All \in SUBSET C /\ Closed(All)
  OBVIOUS
<1>3. PICK f \in [C -> V] : Solves(All, f)
  <2> DEFINE Values(c) == {v \in V : \E S \in Solved : \E g \in [C -> V] :
                                       Solves(S, g) /\ c \in S /\ v = g[c]}
             f == [c \in C |-> IF c \in All THEN CHOOSE v : v \in Values(c)
                               ELSE CHOOSE v : v \in V]
  <2>1. ASSUME NEW S \in Solved, NEW g \in [C -> V], Solves(S, g), NEW c \in S
        PROVE  f[c] = g[c]
    <3>1. c \in C /\ c \in All /\ g[c] \in Values(c)
      BY <2>1
    <3>2. \A v \in Values(c) : v = g[c]
      <4> TAKE v \in Values(c)
      <4>1. PICK R \in Solved : \E h \in [C -> V] : Solves(R, h) /\ c \in R /\ v = h[c]
        OBVIOUS
      <4>2. PICK h \in [C -> V] : Solves(R, h) /\ c \in R /\ v = h[c]
        BY <4>1
      <4>3. c \in R \cap S /\ R \in SUBSET C /\ S \in SUBSET C /\ Closed(R) /\ Closed(S)
        BY <2>1, <4>1, <4>2
      <4>4. \A d \in R \cap S : h[d] = g[d]
        <5> HIDE DEF Closed, Solves, Solved, Values, f
        <5> QED
          BY <1>1, <2>1, <4>2, <4>3
      <4> QED
        BY <4>2, <4>3, <4>4
    <3>3. (CHOOSE v : v \in Values(c)) = g[c]
      <4> HIDE DEF Values
      <4> QED
        BY <3>1, <3>2
    <3> HIDE DEF Values
    <3> QED
      BY <3>1, <3>3
  <2>2. f \in [C -> V]
    <3>1. ASSUME NEW c \in C, c \in All PROVE (CHOOSE v : v \in Values(c)) \in V
      <4>1. PICK S \in Solved : c \in S
        BY <3>1
      <4>2. PICK g \in [C -> V] : Solves(S, g)
        OBVIOUS
      <4>3. g[c] \in Values(c)
        BY <4>1, <4>2
      <4>4. Values(c) \subseteq V
        OBVIOUS
      <4> HIDE DEF Values
      <4> QED
        BY <4>3, <4>4
    <3>2. (CHOOSE v : v \in V) \in V
      OBVIOUS
    <3> HIDE DEF Values
    <3> QED
      BY <3>1, <3>2
  <2>3. ASSUME NEW c \in All PROVE f[c] = Body[<<c, f>>]
    <3>1. PICK S \in Solved : c \in S
      BY <2>3
    <3>2. PICK g \in [C -> V] : Solves(S, g)
      OBVIOUS
    <3>3. \A d \in S : f[d] = g[d]
      <4> HIDE DEF f, Solves, Solved
      <4> QED
        BY <2>1, <3>2
    <3>4. \A d \in Below[c] : f[d] = g[d]
      <4>1. Below[c] \subseteq S
        BY <3>1
      <4> HIDE DEF f, Solves, Solved
      <4> QED
        BY <3>3, <4>1
    <3>5. c \in C /\ g[c] = Body[<<c, g>>]
      BY <3>1, <3>2
    <3>6. Body[<<c, f>>] = Body[<<c, g>>]
      <4>1. \A h, k \in [C -> V] :
              (\A d \in Below[c] : h[d] = k[d]) => Body[<<c, h>>] = Body[<<c, k>>]
        BY <3>5
      <4> HIDE DEF f, Solves, Solved
      <4> QED
        BY <2>2, <3>4, <4>1
    <3> HIDE DEF f, Solves, Solved
    <3> QED
      BY <3>1, <3>3, <3>5, <3>6
  <2> HIDE DEF f, All
  <2> QED
    BY <2>2, <2>3
<1>4. All = C
  <2>1. SUFFICES ASSUME C \ All # {} PROVE FALSE
    BY <1>2
  <2>2. PICK c \in C \ All : Below[c] \cap (C \ All) = {}
    <3> HIDE DEF All
    <3> QED
      BY <2>1
  <2>3. Below[c] \subseteq All /\ c \notin Below[c] /\ c \notin All
    <3> HIDE DEF All
    <3> QED
      BY <2>2
  <2> DEFINE g == [f EXCEPT ![c] = Body[<<c, f>>]]
  <2>4. Body[<<c, f>>] \in V /\ g \in [C -> V]
    <3> HIDE DEF All
    <3> QED
      BY <1>3, <2>2
  <2>5. g[c] = Body[<<c, f>>] /\ \A d \in All : g[d] = f[d]
    <3> HIDE DEF All
    <3> QED
      BY <1>2, <1>3, <2>2
  <2>6. \A d \in All \cup {c} : \A e \in Below[d] : g[e] = f[e]
    <3> HIDE DEF All, g
    <3> QED
      BY <1>2, <2>3, <2>5
  <2>7. \A d \in All \cup {c} : Body[<<d, g>>] = Body[<<d, f>>]
    <3> TAKE d \in All \cup {c}
    <3>1. d \in C /\ \A e \in Below[d] : g[e] = f[e]
      <4> HIDE DEF All, g
      <4> QED
        BY <1>2, <2>2, <2>6
    <3>2. \A h \in [C -> V] :
            (\A e \in Below[d] : h[e] = f[e]) => Body[<<d, h>>] = Body[<<d, f>>]
      <4>1. \A h, k \in [C -> V] :
              (\A e \in Below[d] : h[e] = k[e]) => Body[<<d, h>>] = Body[<<d, k>>]
        BY <3>1
      <4>2. f \in [C -> V]
        BY <1>3
      <4> QED
        BY <4>1, <4>2
    <3> HIDE DEF All, g
    <3> QED
      BY <2>4, <3>1, <3>2
  <2>8. Solves(All \cup {c}, g)
    <3> HIDE DEF All, g
    <3> QED
      BY <1>3, <2>5, <2>7
  <2>9. Closed(All \cup {c}) /\ All \cup {c} \in SUBSET C
    <3> HIDE DEF All
    <3> QED
      BY <1>2, <2>2, <2>3
  <2>10. All \cup {c} \in Solved
    <3> HIDE DEF All, g
    <3> QED
      BY <2>4, <2>8, <2>9
  <2> HIDE DEF Solved, g
  <2> QED
    BY <2>3, <2>10
<1> HIDE DEF All
<1> QED
  BY <1>3, <1>4
=============================================================================
