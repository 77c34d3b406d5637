-------------------------------- MODULE Sums --------------------------------
(***************************************************************************)
(* Sums over finite sets, as FiniteSetsExt defines them, without induction *)
(* over an operator: of what is left one is picked and the rest added up, so*)
(* what is to be shown is shown of a least set for which it fails.         *)
(***************************************************************************)
EXTENDS Integers, FiniteSetsExt, FiniteSetTheorems, WellFoundedInduction, TLAPS

\* Of some numbers one is the least.
LEMMA ALeastOne ==
    ASSUME NEW T \in SUBSET Nat, T # {}
    PROVE  \E n \in T : \A m \in T : n <= m
<1> DEFINE R == OpToRel(<, Nat)
<1>1. PICK n \in T : \A m \in T : <<m, n>> \notin R
  <2>1. IsWellFoundedOn(R, Nat)
    BY NatLessThanWellFounded
  <2> HIDE DEF R
  <2> QED BY <2>1, WFMin
<1>2. \A m \in T : ~(m < n)
  <2> SUFFICES ASSUME NEW m \in T, m < n PROVE FALSE
    OBVIOUS
  <2>1. <<m, n>> \in R
    BY DEF OpToRel
  <2> QED BY <1>1, <2>1
<1> QED BY <1>2

-----------------------------------------------------------------------------
(* The sum of the values of a function over a finite set, as FiniteSetsExt *)
(* works it out: of what is left one is picked, and the rest added up.     *)

Pick(s) == CHOOSE x \in s : TRUE
Adds(f, g, s) == IF s = {} THEN 0 ELSE f[Pick(s)] + g[s \ {Pick(s)}]
AddsUp(f, S, g) == g = [s \in SUBSET S |-> Adds(f, g, s)]

SumOn(f, S) == MapThenSumSet(LAMBDA x : f[x], S)

\* A sum is taken from a function that adds up.
LEMMA SumsAre ==
    ASSUME NEW f, NEW S
    PROVE  SumOn(f, S) = (CHOOSE g : AddsUp(f, S, g))[S]
BY DEF SumOn, MapThenSumSet, MapThenFoldSet, AddsUp, Adds, Pick

\* What is picked is there, and the rest is smaller by one.
LEMMA Picked ==
    ASSUME NEW s, s # {}
    PROVE  /\ Pick(s) \in s
           /\ IsFiniteSet(s) => /\ IsFiniteSet(s \ {Pick(s)})
                                /\ Cardinality(s) \in Nat \ {0}
                                /\ Cardinality(s \ {Pick(s)}) = Cardinality(s) - 1
<1>1. Pick(s) \in s
  BY DEF Pick
<1>2. ASSUME IsFiniteSet(s)
      PROVE  /\ IsFiniteSet(s \ {Pick(s)}) /\ Cardinality(s) \in Nat \ {0}
             /\ Cardinality(s \ {Pick(s)}) = Cardinality(s) - 1
  BY <1>1, <1>2, FS_RemoveElement, FS_CardinalityType, FS_EmptySet
<1> QED BY <1>1, <1>2

\* There is such a function: on the sets of so many, for every number.
LEMMA SumsExist ==
    ASSUME NEW f, NEW S, IsFiniteSet(S)
    PROVE  \E g : AddsUp(f, S, g)
<1> DEFINE Upto(n, g) == \A s \in SUBSET S : Cardinality(s) <= n => g[s] = Adds(f, g, s)
           Bad == {n \in Nat : ~\E g : Upto(n, g)}
<1>0. \A s \in SUBSET S : IsFiniteSet(s) /\ Cardinality(s) \in Nat /\ Cardinality(s) <= Cardinality(S)
  BY FS_Subset, FS_CardinalityType
<1>1. Bad = {}
  <2> SUFFICES ASSUME Bad # {} PROVE FALSE
    OBVIOUS
  <2>1. PICK n \in Bad : \A m \in Bad : n <= m
    <3>1. Bad \subseteq Nat
      OBVIOUS
    <3> HIDE DEF Bad
    <3> QED BY <3>1, ALeastOne
  <2>2. n \in Nat /\ ~\E g : Upto(n, g)
    OBVIOUS
  <2>3. CASE n = 0
    <3> DEFINE g == [s \in SUBSET S |-> 0]
    <3>1. \A s \in SUBSET S : Cardinality(s) <= 0 => s = {}
      BY <1>0, FS_EmptySet
    <3>2. Upto(0, g)
      BY <3>1 DEF Adds
    <3> QED BY <2>2, <2>3, <3>2
  <2>4. CASE n # 0
    <3>1. n - 1 \in Nat /\ n - 1 \notin Bad
      BY <2>1, <2>2, <2>4
    <3>2. PICK g : Upto(n - 1, g)
      BY <3>1
    <3> DEFINE h == [s \in SUBSET S |-> IF Cardinality(s) <= n - 1 THEN g[s] ELSE Adds(f, g, s)]
    <3>3. ASSUME NEW s \in SUBSET S, Cardinality(s) <= n PROVE h[s] = Adds(f, h, s)
      <4>1. h[s] = Adds(f, g, s)
        BY <3>2
      <4>2. CASE s = {}
        BY <4>1, <4>2 DEF Adds
      <4>3. CASE s # {}
        <5> DEFINE t == s \ {Pick(s)}
        <5>1. t \in SUBSET S /\ Cardinality(t) <= n - 1
          BY <1>0, <2>2, <3>3, <4>3, Picked
        <5>2. h[t] = g[t]
          BY <5>1
        <5> HIDE DEF h
        <5> QED BY <4>1, <4>3, <5>2 DEF Adds
      <4> QED BY <4>2, <4>3
    <3>4. Upto(n, h)
      BY <3>3
    <3> QED BY <2>2, <3>4
  <2> QED BY <2>3, <2>4
<1>2. PICK g : Upto(Cardinality(S), g)
  <2>1. Cardinality(S) \in Nat
    BY <1>0
  <2> QED BY <1>1, <2>1
<1> DEFINE h == [s \in SUBSET S |-> g[s]]
<1>3. ASSUME NEW s \in SUBSET S PROVE h[s] = Adds(f, h, s)
  <2>1. h[s] = Adds(f, g, s)
    BY <1>0, <1>2
  <2>2. s # {} => h[s \ {Pick(s)}] = g[s \ {Pick(s)}]
    OBVIOUS
  <2> QED BY <2>1, <2>2 DEF Adds
<1>4. h = [s \in SUBSET S |-> Adds(f, h, s)]
  <2>1. h = [s \in SUBSET S |-> h[s]]
    OBVIOUS
  <2> HIDE DEF h
  <2> QED BY <1>3, <2>1
<1> QED BY <1>4 DEF AddsUp

\* Two of them agree on what both are about, if their functions do.
LEMMA SumsAgree ==
    ASSUME NEW f, NEW e, NEW S, NEW T, NEW g, NEW h, AddsUp(f, S, g), AddsUp(e, T, h),
           NEW U, U \subseteq S, U \subseteq T, IsFiniteSet(U), \A x \in U : f[x] = e[x]
    PROVE  g[U] = h[U]
<1> DEFINE Bad == {s \in SUBSET U : g[s] # h[s]}
           Sizes == {Cardinality(s) : s \in Bad}
<1>0. \A s \in SUBSET U : IsFiniteSet(s) /\ Cardinality(s) \in Nat
  BY FS_Subset, FS_CardinalityType
<1>1. \A s \in SUBSET U : g[s] = Adds(f, g, s) /\ h[s] = Adds(e, h, s)
  BY DEF AddsUp
<1>2. Bad = {}
  <2> SUFFICES ASSUME Bad # {} PROVE FALSE
    OBVIOUS
  <2>1. PICK n \in Sizes : \A m \in Sizes : n <= m
    <3>1. Sizes \subseteq Nat /\ Sizes # {}
      BY <1>0
    <3> HIDE DEF Sizes
    <3> QED BY <3>1, ALeastOne
  <2>2. PICK s \in Bad : n = Cardinality(s)
    OBVIOUS
  <2>3. s # {}
    BY <1>1 DEF Adds
  <2> DEFINE t == s \ {Pick(s)}
  <2>4. t \in SUBSET U /\ Cardinality(t) = n - 1 /\ n \in Nat /\ Pick(s) \in U
    BY <1>0, <2>2, <2>3, Picked
  <2>5. g[t] = h[t]
    BY <2>1, <2>4
  <2>6. g[s] = h[s]
    BY <1>1, <2>3, <2>4, <2>5 DEF Adds
  <2> QED BY <2>6
<1> QED BY <1>2

\* The order does not matter: any element may come first.
LEMMA AnyFirst ==
    ASSUME NEW S, IsFiniteSet(S), NEW f, \A x \in S : f[x] \in Int, NEW g, AddsUp(f, S, g)
    PROVE  /\ g[{}] = 0
           /\ \A s \in SUBSET S : g[s] \in Int
           /\ \A s \in SUBSET S : \A x \in s : g[s] = f[x] + g[s \ {x}]
<1>0. \A s \in SUBSET S : IsFiniteSet(s) /\ Cardinality(s) \in Nat
  BY FS_Subset, FS_CardinalityType
<1>1. \A s \in SUBSET S : g[s] = Adds(f, g, s)
  BY DEF AddsUp
<1>2. g[{}] = 0
  BY <1>1 DEF Adds
<1>3. \A s \in SUBSET S : g[s] \in Int
  <2> DEFINE Bad == {s \in SUBSET S : g[s] \notin Int}
             Sizes == {Cardinality(s) : s \in Bad}
  <2> SUFFICES ASSUME Bad # {} PROVE FALSE
    OBVIOUS
  <2>1. PICK n \in Sizes : \A m \in Sizes : n <= m
    <3>1. Sizes \subseteq Nat /\ Sizes # {}
      BY <1>0
    <3> HIDE DEF Sizes
    <3> QED BY <3>1, ALeastOne
  <2>2. PICK s \in Bad : n = Cardinality(s)
    OBVIOUS
  <2>3. s # {}
    <3>1. g[s] \notin Int /\ 0 \in Int
      OBVIOUS
    <3> QED BY <1>2, <3>1
  <2> DEFINE t == s \ {Pick(s)}
  <2>4. t \in SUBSET S /\ Cardinality(t) = n - 1 /\ n \in Nat /\ Pick(s) \in S
    BY <1>0, <2>2, <2>3, Picked
  <2>5. g[t] \in Int
    BY <2>1, <2>4
  <2>6. g[s] = f[Pick(s)] + g[t]
    BY <1>1, <2>3 DEF Adds
  <2> QED BY <2>4, <2>5, <2>6
<1>4. \A s \in SUBSET S : \A x \in s : g[s] = f[x] + g[s \ {x}]
  <2> DEFINE Bad == {s \in SUBSET S : \E x \in s : g[s] # f[x] + g[s \ {x}]}
             Sizes == {Cardinality(s) : s \in Bad}
  <2> SUFFICES ASSUME Bad # {} PROVE FALSE
    OBVIOUS
  <2>1. PICK n \in Sizes : \A m \in Sizes : n <= m
    <3>1. Sizes \subseteq Nat /\ Sizes # {}
      BY <1>0
    <3> HIDE DEF Sizes
    <3> QED BY <3>1, ALeastOne
  <2>2. PICK s \in Bad : n = Cardinality(s)
    OBVIOUS
  <2>3. PICK x \in s : g[s] # f[x] + g[s \ {x}]
    OBVIOUS
  <2> DEFINE c == Pick(s)
  <2>4. c \in s /\ g[s] = f[c] + g[s \ {c}]
    BY <1>1, <2>3, Picked DEF Adds
  <2>5. x # c
    BY <2>3, <2>4
  <2>6. \A y \in s : s \ {y} \in SUBSET S /\ s \ {y} \notin Bad
    <3> TAKE y \in s
    <3>1. Cardinality(s \ {y}) = Cardinality(s) - 1
      BY <1>0, FS_RemoveElement
    <3>2. Cardinality(s) \in Nat /\ s \ {y} \in SUBSET S
      BY <1>0
    <3> QED BY <2>1, <2>2, <3>1, <3>2
  <2> HIDE DEF c
  <2>7. g[s \ {c}] = f[x] + g[(s \ {c}) \ {x}]
    BY <2>4, <2>5, <2>6
  <2>8. g[s \ {x}] = f[c] + g[(s \ {x}) \ {c}]
    BY <2>4, <2>5, <2>6
  <2>9. (s \ {c}) \ {x} = (s \ {x}) \ {c}
    OBVIOUS
  <2>10. f[x] \in Int /\ f[c] \in Int /\ g[(s \ {x}) \ {c}] \in Int
    BY <1>3, <2>4
  <2> DEFINE r == g[(s \ {x}) \ {c}]
  <2>11. g[s] = f[c] + (f[x] + r) /\ g[s \ {x}] = f[c] + r
    BY <2>4, <2>7, <2>8, <2>9
  <2>12. r \in Int
    BY <2>10
  <2> HIDE DEF r
  <2>13. f[c] + (f[x] + r) = f[x] + (f[c] + r)
    BY <2>10, <2>12
  <2> QED BY <2>3, <2>11, <2>13
<1> QED BY <1>2, <1>3, <1>4

-----------------------------------------------------------------------------
\* The sum is what any such function says.
LEMMA SumIs ==
    ASSUME NEW f, NEW S, NEW T, S \subseteq T, IsFiniteSet(S), NEW g, AddsUp(f, T, g)
    PROVE  SumOn(f, S) = g[S]
<1>1. PICK h : h = CHOOSE k : AddsUp(f, S, k)
  OBVIOUS
<1>2. AddsUp(f, S, h)
  BY <1>1, SumsExist
<1>3. h[S] = g[S]
  BY <1>2, SumsAgree
<1> QED BY <1>1, <1>3, SumsAre

\* Nothing adds up to 0; taking one out leaves the rest.
LEMMA SumSteps ==
    ASSUME NEW S, IsFiniteSet(S), NEW f, \A x \in S : f[x] \in Int
    PROVE  /\ SumOn(f, {}) = 0
           /\ SumOn(f, S) \in Int
           /\ \A x \in S : SumOn(f, S) = f[x] + SumOn(f, S \ {x})
<1>1. PICK g : AddsUp(f, S, g)
  BY SumsExist
<1>2. \A s \in SUBSET S : SumOn(f, s) = g[s]
  BY <1>1, SumIs, FS_Subset
<1>3. /\ g[{}] = 0 /\ g[S] \in Int
      /\ \A x \in S : g[S] = f[x] + g[S \ {x}]
  BY <1>1, AnyFirst
<1> QED BY <1>2, <1>3

\* The same values have the same sum.
LEMMA SumSame ==
    ASSUME NEW S, IsFiniteSet(S), NEW f, NEW e, \A x \in S : f[x] = e[x]
    PROVE  SumOn(f, S) = SumOn(e, S)
<1>1. PICK g : AddsUp(f, S, g)
  BY SumsExist
<1>2. PICK h : AddsUp(e, S, h)
  BY SumsExist
<1>3. g[S] = h[S]
  BY <1>1, <1>2, SumsAgree
<1> QED BY <1>1, <1>2, <1>3, SumIs

\* One value changes: the sum changes by the difference.
LEMMA SumChanges ==
    ASSUME NEW S, IsFiniteSet(S), NEW f, NEW e, NEW x \in S,
           \A y \in S : f[y] \in Int, e[x] \in Int, \A y \in S \ {x} : e[y] = f[y]
    PROVE  SumOn(e, S) = SumOn(f, S) + e[x] - f[x]
<1>1. SumOn(f, S) = f[x] + SumOn(f, S \ {x})
  BY SumSteps
<1>2. SumOn(e, S) = e[x] + SumOn(e, S \ {x})
  <2>1. \A y \in S : e[y] \in Int
    OBVIOUS
  <2> QED BY <2>1, SumSteps
<1>3. SumOn(e, S \ {x}) = SumOn(f, S \ {x})
  BY SumSame, FS_RemoveElement
<1>4. SumOn(f, S \ {x}) \in Int
  BY SumSteps, FS_RemoveElement
<1> QED BY <1>1, <1>2, <1>3, <1>4

\* Noughts add up to 0.
LEMMA SumOfNothing ==
    ASSUME NEW S, IsFiniteSet(S), NEW f, \A x \in S : f[x] = 0
    PROVE  SumOn(f, S) = 0
<1> DEFINE Bad == {s \in SUBSET S : SumOn(f, s) # 0}
           Sizes == {Cardinality(s) : s \in Bad}
<1>0. \A s \in SUBSET S : IsFiniteSet(s) /\ Cardinality(s) \in Nat
  BY FS_Subset, FS_CardinalityType
<1>1. \A s \in SUBSET S : \A x \in s : SumOn(f, s) = f[x] + SumOn(f, s \ {x})
  BY <1>0, SumSteps
<1>2. Bad = {}
  <2> SUFFICES ASSUME Bad # {} PROVE FALSE
    OBVIOUS
  <2>1. PICK n \in Sizes : \A m \in Sizes : n <= m
    <3>1. Sizes \subseteq Nat /\ Sizes # {}
      BY <1>0
    <3> HIDE DEF Sizes
    <3> QED BY <3>1, ALeastOne
  <2>2. PICK s \in Bad : n = Cardinality(s)
    OBVIOUS
  <2>3. s # {}
    <3>1. IsFiniteSet(S) /\ \A x \in S : f[x] \in Int
      OBVIOUS
    <3>2. SumOn(f, {}) = 0
      BY <3>1, SumSteps
    <3> QED BY <3>2
  <2>4. PICK x \in s : TRUE
    BY <2>3
  <2>5. Cardinality(s \ {x}) = Cardinality(s) - 1
    BY <1>0, FS_RemoveElement
  <2>6. s \ {x} \in SUBSET S /\ Cardinality(s) \in Nat /\ n \in Nat
    BY <1>0, <2>2
  <2>7. s \ {x} \notin Bad
    BY <2>1, <2>2, <2>5, <2>6
  <2>8. SumOn(f, s) = 0
    BY <1>1, <2>2, <2>6, <2>7
  <2> QED BY <2>8
<1>3. S \notin Bad
  BY <1>2
<1> QED BY <1>3

\* What is not negative adds up to no less than any of it.
LEMMA SumIsNoLess ==
    ASSUME NEW S, IsFiniteSet(S), NEW f, \A x \in S : f[x] \in Nat
    PROVE  /\ SumOn(f, S) \in Nat
           /\ \A x \in S : f[x] =< SumOn(f, S)
<1> DEFINE Bad == {s \in SUBSET S : SumOn(f, s) \notin Nat}
           Sizes == {Cardinality(s) : s \in Bad}
<1>0. \A s \in SUBSET S : IsFiniteSet(s) /\ Cardinality(s) \in Nat
  BY FS_Subset, FS_CardinalityType
<1>1. \A s \in SUBSET S : \A x \in s : SumOn(f, s) = f[x] + SumOn(f, s \ {x})
  <2>1. \A x \in S : f[x] \in Int
    OBVIOUS
  <2> QED BY <1>0, <2>1, SumSteps
<1>2. Bad = {}
  <2> SUFFICES ASSUME Bad # {} PROVE FALSE
    OBVIOUS
  <2>1. PICK n \in Sizes : \A m \in Sizes : n <= m
    <3>1. Sizes \subseteq Nat /\ Sizes # {}
      BY <1>0
    <3> HIDE DEF Sizes
    <3> QED BY <3>1, ALeastOne
  <2>2. PICK s \in Bad : n = Cardinality(s)
    OBVIOUS
  <2>3. s # {}
    <3>1. IsFiniteSet(S) /\ \A x \in S : f[x] \in Int
      OBVIOUS
    <3>2. SumOn(f, {}) = 0
      BY <3>1, SumSteps
    <3> QED BY <3>2
  <2>4. PICK x \in s : TRUE
    BY <2>3
  <2>5. Cardinality(s \ {x}) = Cardinality(s) - 1
    BY <1>0, FS_RemoveElement
  <2>6. s \ {x} \in SUBSET S /\ Cardinality(s) \in Nat /\ n \in Nat
    BY <1>0, <2>2
  <2>7. s \ {x} \notin Bad
    BY <2>1, <2>2, <2>5, <2>6
  <2>8. SumOn(f, s \ {x}) \in Nat /\ f[x] \in Nat
    BY <2>6, <2>7
  <2>9. SumOn(f, s) = f[x] + SumOn(f, s \ {x})
    BY <1>1
  <2> QED BY <2>8, <2>9
<1>3. \A s \in SUBSET S : SumOn(f, s) \in Nat
  BY <1>2
<1> HIDE DEF Bad
<1>4. \A x \in S : S \in SUBSET S /\ S \ {x} \in SUBSET S
  OBVIOUS
<1>5. ASSUME NEW x \in S PROVE f[x] =< SumOn(f, S)
  <2>1. SumOn(f, S) = f[x] + SumOn(f, S \ {x})
    BY <1>1, <1>4
  <2>2. SumOn(f, S \ {x}) \in Nat /\ f[x] \in Nat
    BY <1>3, <1>4
  <2> QED BY <2>1, <2>2
<1> QED BY <1>3, <1>5

\* What is so of nothing, and of a set if it is of the set without one of its elements,
\* is so of every finite set: a set of subsets stands for what is so of them.
LEMMA OneByOne ==
    ASSUME NEW S, IsFiniteSet(S), NEW Good, {} \in Good,
           \A s \in SUBSET S : \A x \in s : s \ {x} \in Good => s \in Good
    PROVE  S \in Good
<1> DEFINE Bad == {s \in SUBSET S : s \notin Good}
           Sizes == {Cardinality(s) : s \in Bad}
<1>0. \A s \in SUBSET S : IsFiniteSet(s) /\ Cardinality(s) \in Nat
  BY FS_Subset, FS_CardinalityType
<1>1. ASSUME Bad # {} PROVE FALSE
  <2>1. PICK n \in Sizes : \A m \in Sizes : n <= m
    <3>1. Sizes \subseteq Nat /\ Sizes # {}
      BY <1>0, <1>1
    <3> HIDE DEF Sizes
    <3> QED BY <3>1, ALeastOne
  <2>2. PICK s \in Bad : n = Cardinality(s)
    OBVIOUS
  <2>3. PICK x \in s : TRUE
    OBVIOUS
  <2>4. Cardinality(s \ {x}) = Cardinality(s) - 1
    BY <1>0, FS_RemoveElement
  <2>5. s \ {x} \in SUBSET S /\ n \in Nat
    BY <1>0, <2>2
  <2>6. s \ {x} \notin Bad
    BY <1>0, <2>1, <2>2, <2>4, <2>5
  <2> QED BY <2>5, <2>6
<1>2. S \notin Bad
  BY <1>1
<1> QED BY <1>2

\* The sum of two sets that have nothing in common.
LEMMA SumOfBoth ==
    ASSUME NEW A, NEW B, IsFiniteSet(A), IsFiniteSet(B), A \cap B = {},
           NEW f, \A x \in A \cup B : f[x] \in Int
    PROVE  SumOn(f, A \cup B) = SumOn(f, A) + SumOn(f, B)
<1> DEFINE Good == {s \in SUBSET A : SumOn(f, s \cup B) = SumOn(f, s) + SumOn(f, B)}
<1>0. \A s \in SUBSET A : /\ IsFiniteSet(s) /\ SumOn(f, s) \in Int
                          /\ IsFiniteSet(s \cup B) /\ SumOn(f, s \cup B) \in Int
  <2> TAKE s \in SUBSET A
  <2>1. IsFiniteSet(s) /\ IsFiniteSet(s \cup B)
    BY FS_Subset, FS_Union
  <2>2. SumOn(f, s) \in Int
    BY <2>1, SumSteps
  <2>3. SumOn(f, s \cup B) \in Int
    <3>1. \A x \in s \cup B : f[x] \in Int
      OBVIOUS
    <3> QED BY <2>1, <3>1, SumSteps
  <2> QED BY <2>1, <2>2, <2>3
<1>1. SumOn(f, B) \in Int
  BY SumSteps
<1>2. {} \in Good
  <2>1. {} \cup B = B /\ SumOn(f, {}) = 0
    BY SumSteps
  <2> QED BY <1>1, <2>1
<1>3. ASSUME NEW s \in SUBSET A, NEW x \in s, s \ {x} \in Good PROVE s \in Good
  <2>1. SumOn(f, s) = f[x] + SumOn(f, s \ {x})
    BY <1>0, SumSteps
  <2>2. SumOn(f, s \cup B) = f[x] + SumOn(f, (s \cup B) \ {x})
    <3>1. \A y \in s \cup B : f[y] \in Int
      OBVIOUS
    <3> QED BY <1>0, <3>1, SumSteps
  <2>3. (s \cup B) \ {x} = (s \ {x}) \cup B
    OBVIOUS
  <2>4. SumOn(f, (s \ {x}) \cup B) = SumOn(f, s \ {x}) + SumOn(f, B)
    BY <1>3
  <2>5. f[x] \in Int /\ SumOn(f, s \ {x}) \in Int
    BY <1>0
  <2>6. SumOn(f, s \cup B) = f[x] + (SumOn(f, s \ {x}) + SumOn(f, B))
    BY <2>2, <2>3, <2>4
  <2>7. SumOn(f, s \cup B) = SumOn(f, s) + SumOn(f, B)
    <3> HIDE DEF Good
    <3> QED BY <1>1, <2>1, <2>5, <2>6
  <2> QED BY <2>7
<1>4. A \in Good
  <2> HIDE DEF Good
  <2> QED BY <1>2, <1>3, OneByOne
<1> QED BY <1>4

\* Noughts may be left out.
LEMMA SumOfPart ==
    ASSUME NEW S, IsFiniteSet(S), NEW T \in SUBSET S, NEW f, \A x \in S : f[x] \in Int,
           \A x \in S \ T : f[x] = 0
    PROVE  SumOn(f, T) = SumOn(f, S)
<1>1. IsFiniteSet(T) /\ IsFiniteSet(S \ T) /\ T \cup (S \ T) = S /\ T \cap (S \ T) = {}
  BY FS_Subset
<1>2. SumOn(f, S) = SumOn(f, T) + SumOn(f, S \ T)
  BY <1>1, SumOfBoth
<1>3. SumOn(f, S \ T) = 0
  BY <1>1, SumOfNothing
<1>4. SumOn(f, T) \in Int
  BY <1>1, SumSteps
<1> QED BY <1>2, <1>3, <1>4

\* Two sums at once.
LEMMA SumsTogether ==
    ASSUME NEW S, IsFiniteSet(S), NEW f, NEW e, NEW h,
           \A x \in S : f[x] \in Int /\ e[x] \in Int /\ h[x] = f[x] + e[x]
    PROVE  SumOn(h, S) = SumOn(f, S) + SumOn(e, S)
<1> DEFINE Good == {s \in SUBSET S : SumOn(h, s) = SumOn(f, s) + SumOn(e, s)}
<1>0. \A s \in SUBSET S : IsFiniteSet(s)
  BY FS_Subset
<1>1. \A s \in SUBSET S : SumOn(f, s) \in Int /\ SumOn(e, s) \in Int /\ SumOn(h, s) \in Int
  <2>1. \A x \in S : f[x] \in Int /\ e[x] \in Int /\ h[x] \in Int
    OBVIOUS
  <2> QED BY <1>0, <2>1, SumSteps
<1>2. {} \in Good
  <2>1. SumOn(f, {}) = 0 /\ SumOn(e, {}) = 0 /\ SumOn(h, {}) = 0
    <3>1. \A x \in S : f[x] \in Int /\ e[x] \in Int /\ h[x] \in Int
      OBVIOUS
    <3> QED BY <3>1, SumSteps
  <2> QED BY <2>1
<1>3. ASSUME NEW s \in SUBSET S, NEW x \in s, s \ {x} \in Good PROVE s \in Good
  <2>0. \A y \in s : f[y] \in Int /\ e[y] \in Int /\ h[y] \in Int
    OBVIOUS
  <2>1. SumOn(f, s) = f[x] + SumOn(f, s \ {x})
    BY <1>0, <2>0, SumSteps
  <2>2. SumOn(e, s) = e[x] + SumOn(e, s \ {x})
    BY <1>0, <2>0, SumSteps
  <2>3. SumOn(h, s) = h[x] + SumOn(h, s \ {x})
    BY <1>0, <2>0, SumSteps
  <2>4. SumOn(h, s \ {x}) = SumOn(f, s \ {x}) + SumOn(e, s \ {x}) /\ h[x] = f[x] + e[x]
    BY <1>3
  <2>5. SumOn(f, s \ {x}) \in Int /\ SumOn(e, s \ {x}) \in Int /\ f[x] \in Int /\ e[x] \in Int
    BY <1>1, <2>0
  <2> QED BY <2>1, <2>2, <2>3, <2>4, <2>5
<1>4. S \in Good
  <2> HIDE DEF Good
  <2> QED BY <1>2, <1>3, OneByOne
<1> QED BY <1>4

\* As many times the same value.
LEMMA SumOfSame ==
    ASSUME NEW S, IsFiniteSet(S), NEW w \in Int, NEW f, \A x \in S : f[x] = w
    PROVE  SumOn(f, S) = Cardinality(S) * w
<1> DEFINE Good == {s \in SUBSET S : SumOn(f, s) = Cardinality(s) * w}
<1>0. \A s \in SUBSET S : IsFiniteSet(s) /\ Cardinality(s) \in Nat
  BY FS_Subset, FS_CardinalityType
<1>2. {} \in Good
  <2>1. \A x \in S : f[x] \in Int
    OBVIOUS
  <2>2. SumOn(f, {}) = 0 /\ Cardinality({}) = 0
    BY <2>1, SumSteps, FS_EmptySet
  <2>3. 0 * w = 0
    OBVIOUS
  <2> QED BY <2>2, <2>3
<1>3. ASSUME NEW s \in SUBSET S, NEW x \in s, s \ {x} \in Good PROVE s \in Good
  <2>0. \A y \in s : f[y] \in Int
    OBVIOUS
  <2>1. SumOn(f, s) = w + SumOn(f, s \ {x})
    <3>1. SumOn(f, s) = f[x] + SumOn(f, s \ {x})
      BY <1>0, <2>0, SumSteps
    <3>2. f[x] = w
      OBVIOUS
    <3> QED BY <3>1, <3>2
  <2>2. Cardinality(s \ {x}) = Cardinality(s) - 1
    BY <1>0, FS_RemoveElement
  <2>3. SumOn(f, s \ {x}) = Cardinality(s \ {x}) * w
    BY <1>3
  <2>4. PICK n \in Nat : n = Cardinality(s)
    BY <1>0
  <2>5. w + (n - 1) * w = n * w
    OBVIOUS
  <2> QED BY <2>1, <2>2, <2>3, <2>4, <2>5
<1>4. S \in Good
  <2> HIDE DEF Good
  <2> QED BY <1>2, <1>3, OneByOne
<1> QED BY <1>4

\* No value is greater: no more is their sum, and if that is the same, so are they.
LEMMA SumsCompare ==
    ASSUME NEW S, IsFiniteSet(S), NEW f, NEW e,
           \A x \in S : f[x] \in Int /\ e[x] \in Int /\ f[x] =< e[x]
    PROVE  /\ SumOn(f, S) =< SumOn(e, S)
           /\ SumOn(f, S) = SumOn(e, S) => \A x \in S : f[x] = e[x]
<1> DEFINE d == [x \in S |-> e[x] - f[x]]
<1>1. \A x \in S : d[x] \in Nat /\ d[x] \in Int /\ e[x] = f[x] + d[x]
  OBVIOUS
<1>2. SumOn(e, S) = SumOn(f, S) + SumOn(d, S)
  <2> HIDE DEF d
  <2> QED BY <1>1, SumsTogether
<1>3. SumOn(d, S) \in Nat /\ \A x \in S : d[x] =< SumOn(d, S)
  <2> HIDE DEF d
  <2> QED BY <1>1, SumIsNoLess
<1>4. SumOn(f, S) \in Int
  BY SumSteps
<1> HIDE DEF d
<1>5. ASSUME SumOn(f, S) = SumOn(e, S), NEW x \in S PROVE f[x] = e[x]
  <2>1. SumOn(d, S) = 0
    BY <1>2, <1>3, <1>4, <1>5
  <2>2. d[x] = 0
    BY <1>1, <1>3, <2>1
  <2> QED BY <1>1, <2>2
<1> QED BY <1>2, <1>3, <1>4, <1>5

\* group sorts the members of D by their value g, a member of S.
GroupsOf(D, S, g, group) ==
    /\ \A i \in D : g[i] \in S
    /\ \A x \in S : group[x] \subseteq D
    /\ \A x \in S : \A i \in D : i \in group[x] <=> g[i] = x

\* What is added up for each value of g is what is added up at once.
LEMMA ValuesAddUp ==
    ASSUME NEW D, IsFiniteSet(D), NEW f, \A i \in D : f[i] \in Int,
           NEW S, IsFiniteSet(S), NEW g, \A i \in D : g[i] \in S
    PROVE  \E group, h : /\ \A x \in S : group[x] \subseteq D
                         /\ \A x \in S : \A i \in D : i \in group[x] <=> g[i] = x
                         /\ \A x \in S : h[x] = SumOn(f, group[x])
                         /\ SumOn(h, S) = SumOn(f, D)
<1> DEFINE In(s, x) == {i \in s : g[i] = x}
           H(s) == [x \in S |-> SumOn(f, In(s, x))]
           Good == {s \in SUBSET D : SumOn(H(s), S) = SumOn(f, s)}
<1>0. \A s \in SUBSET D : /\ IsFiniteSet(s) /\ SumOn(f, s) \in Int
                          /\ \A x \in S : IsFiniteSet(In(s, x)) /\ SumOn(f, In(s, x)) \in Int
  <2>1. \A s \in SUBSET D : IsFiniteSet(s) /\ SumOn(f, s) \in Int
    <3> TAKE s \in SUBSET D
    <3>1. IsFiniteSet(s)
      BY FS_Subset
    <3> QED BY <3>1, SumSteps
  <2>2. \A s \in SUBSET D : \A x \in S : In(s, x) \in SUBSET D
    OBVIOUS
  <2> HIDE DEF In
  <2> QED BY <2>1, <2>2
<1>1. {} \in Good
  <2>1. SumOn(f, {}) = 0
    BY SumSteps
  <2>2. \A x \in S : In({}, x) = {}
    OBVIOUS
  <2>3. \A x \in S : H({})[x] = 0
    BY <2>1, <2>2
  <2>4. SumOn(H({}), S) = 0
    <3> HIDE DEF H
    <3> QED BY <2>3, SumOfNothing
  <2> QED BY <2>1, <2>4
<1>2. ASSUME NEW s \in SUBSET D, NEW j \in s, s \ {j} \in Good PROVE s \in Good
  <2> DEFINE t == s \ {j}
  <2>1. t \in SUBSET D /\ g[j] \in S /\ f[j] \in Int
    OBVIOUS
  <2>2. \A x \in S \ {g[j]} : In(s, x) = In(t, x)
    OBVIOUS
  <2>3. In(t, g[j]) = In(s, g[j]) \ {j} /\ j \in In(s, g[j]) /\ In(s, g[j]) \in SUBSET D
    OBVIOUS
  <2>4. SumOn(f, In(s, g[j])) = f[j] + SumOn(f, In(t, g[j]))
    <3>1. IsFiniteSet(In(s, g[j]))
      BY <1>0, <2>1
    <3>2. \A i \in In(s, g[j]) : f[i] \in Int
      OBVIOUS
    <3>3. PICK T : T = In(s, g[j])
      OBVIOUS
    <3> HIDE DEF In, t
    <3>4. SumOn(f, T) = f[j] + SumOn(f, T \ {j})
      BY <2>3, <3>1, <3>2, <3>3, SumSteps
    <3> QED BY <2>3, <3>3, <3>4
  <2>5. SumOn(f, s) = f[j] + SumOn(f, t)
    <3>1. \A i \in s : f[i] \in Int
      OBVIOUS
    <3> QED BY <1>0, <3>1, SumSteps
  <2>6. /\ \A x \in S : H(t)[x] \in Int
        /\ \A x \in S \ {g[j]} : H(s)[x] = H(t)[x]
        /\ H(s)[g[j]] = f[j] + H(t)[g[j]] /\ H(s)[g[j]] \in Int
    <3>1. \A x \in S : H(t)[x] = SumOn(f, In(t, x)) /\ H(s)[x] = SumOn(f, In(s, x))
      OBVIOUS
    <3> HIDE DEF H, In, t
    <3> QED BY <1>0, <2>1, <2>2, <2>4, <3>1
  <2>7. SumOn(H(s), S) = SumOn(H(t), S) + H(s)[g[j]] - H(t)[g[j]]
    <3>1. PICK old : old = H(t)
      OBVIOUS
    <3>2. PICK new : new = H(s)
      OBVIOUS
    <3>3. PICK x \in S : x = g[j]
      BY <2>1
    <3> HIDE DEF H, t
    <3>4. SumOn(new, S) = SumOn(old, S) + new[x] - old[x]
      <4>1. \A y \in S : old[y] \in Int
        BY <2>6, <3>1
      <4>2. new[x] \in Int /\ \A y \in S \ {x} : new[y] = old[y]
        BY <2>6, <3>1, <3>2, <3>3
      <4> QED BY <4>1, <4>2, SumChanges
    <3> QED BY <3>1, <3>2, <3>3, <3>4
  <2>8. SumOn(H(t), S) = SumOn(f, t)
    BY <1>2
  <2>9. SumOn(f, t) \in Int /\ H(t)[g[j]] \in Int
    BY <1>0, <2>1, <2>6
  <2>10. SumOn(H(s), S) = SumOn(f, s)
    <3> HIDE DEF H, t
    <3> QED BY <2>1, <2>5, <2>6, <2>7, <2>8, <2>9
  <2> QED BY <2>10
<1>3. D \in Good
  <2> HIDE DEF Good
  <2> QED BY <1>1, <1>2, OneByOne
<1> DEFINE group == [x \in S |-> In(D, x)]
<1>4. /\ \A x \in S : group[x] \subseteq D
      /\ \A x \in S : \A i \in D : i \in group[x] <=> g[i] = x
  OBVIOUS
<1>5. \A x \in S : H(D)[x] = SumOn(f, group[x])
  OBVIOUS
<1>6. SumOn(H(D), S) = SumOn(f, D)
  BY <1>3
<1> HIDE DEF H, In, Good, group
<1> QED BY <1>4, <1>5, <1>6

\* What is added up group by group is what is added up at once.
LEMMA GroupsAddUp ==
    ASSUME NEW D, IsFiniteSet(D), NEW f, \A i \in D : f[i] \in Int, NEW S, IsFiniteSet(S),
           NEW g, NEW group, GroupsOf(D, S, g, group),
           NEW h, \A x \in S : h[x] = SumOn(f, group[x])
    PROVE  SumOn(h, S) = SumOn(f, D)
<1>1. /\ \A i \in D : g[i] \in S
      /\ \A x \in S : group[x] \subseteq D
      /\ \A x \in S : \A i \in D : i \in group[x] <=> g[i] = x
  BY DEF GroupsOf
<1>2. PICK grp, H : /\ \A x \in S : grp[x] \subseteq D
                    /\ \A x \in S : \A i \in D : i \in grp[x] <=> g[i] = x
                    /\ \A x \in S : H[x] = SumOn(f, grp[x])
                    /\ SumOn(H, S) = SumOn(f, D)
  BY <1>1, ValuesAddUp
<1>3. ASSUME NEW x \in S PROVE h[x] = H[x]
  <2>1. /\ group[x] \subseteq D /\ grp[x] \subseteq D
        /\ \A i \in D : (i \in group[x] <=> g[i] = x) /\ (i \in grp[x] <=> g[i] = x)
    BY <1>1, <1>2
  <2>2. group[x] = grp[x]
    BY <2>1
  <2> QED BY <1>2, <2>2
<1>4. SumOn(h, S) = SumOn(H, S)
  BY <1>3, SumSame
<1> QED BY <1>2, <1>4
=============================================================================
