----------------------------- MODULE SumLemmas -----------------------------
(***************************************************************************)
(* What SumFunctionOnSet of the community module Functions computes, for   *)
(* every finite index set.  It folds a set in the order of CHOOSE; these   *)
(* lemmas make it a sum: an index may be taken out in any order, and a set *)
(* may be split.  The induction is over the least number, or the smallest  *)
(* subset, for which a claim fails.                                        *)
(***************************************************************************)
EXTENDS Functions, FiniteSetTheorems, WellFoundedInduction, TLAPS

Pick(s) == CHOOSE x \in s : TRUE
Body(f, g, s) == IF s = {} THEN 0 ELSE f[Pick(s)] + g[s \ {Pick(s)}]

\* g is the recursive function of a sum of f on the sets of D.
IsSumOn(f, g, D) == g = [s \in D |-> Body(f, g, s)]

\* A set of naturals has a least element.
LEMMA LeastNumber ==
  ASSUME NEW T \in SUBSET Nat, T # {}
  PROVE  \E n \in T : \A m \in T : n <= m
<1> DEFINE R == {ss \in Nat \X Nat : ss[1] < ss[2]}
<1>1. IsWellFoundedOn(R, Nat) BY NatLessThanWellFounded DEF OpToRel
<1> HIDE DEF R
<1>2. PICK n \in T : \A m \in T : ~(<<m, n>> \in R) BY <1>1, WFMin
<1>3. \A m \in T : ~(m < n) BY <1>2 DEF R
<1> QED BY <1>3

\* Among subsets of a finite set there is one without a smaller one.
LEMMA SmallestSubset ==
  ASSUME NEW S, IsFiniteSet(S), NEW T \in SUBSET (SUBSET S), T # {}
  PROVE  \E s \in T : \A r \in T : r \subseteq s => r = s
<1> DEFINE R == StrictSubsetOrdering(S)
<1>1. IsWellFoundedOn(R, SUBSET S)
  BY FS_StrictSubsetOrderingWellFounded, FS_FiniteSubsetsOfFinite
<1> HIDE DEF R
<1>2. PICK s \in T : \A r \in T : ~(<<r, s>> \in R) BY <1>1, WFMin
<1>3. \A r \in T : ~(r \subseteq s /\ r # s) BY <1>2 DEF R, StrictSubsetOrdering
<1> QED BY <1>3

\* CHOOSE picks a member.
LEMMA PickIn ==
  ASSUME NEW s, s # {}
  PROVE  Pick(s) \in s
  BY Zenon DEF Pick

Layer(S, n) == {s \in SUBSET S : Cardinality(s) <= n}

\* The recursive function exists.
LEMMA SumExists ==
  ASSUME NEW f, NEW S, IsFiniteSet(S)
  PROVE  \E g : IsSumOn(f, g, SUBSET S)
<1> DEFINE Bad == {n \in Nat : ~\E g : IsSumOn(f, g, Layer(S, n))}
<1>1. \A s \in SUBSET S : IsFiniteSet(s) /\ Cardinality(s) \in Nat
  BY FS_Subset, FS_CardinalityType
<1>2. ASSUME NEW n \in Bad PROVE \E m \in Bad : m < n
  <2>1. CASE n = 0
    <3> DEFINE g == [s \in Layer(S, 0) |-> 0]
    <3>1. \A s \in Layer(S, 0) : s = {} BY <1>1, FS_EmptySet DEF Layer
    <3>2. \A s \in Layer(S, 0) : Body(f, g, s) = 0 BY <3>1 DEF Body
    <3>3. g = [s \in Layer(S, 0) |-> Body(f, g, s)] BY <3>2
    <3>4. IsSumOn(f, g, Layer(S, 0)) BY <3>3 DEF IsSumOn
    <3> QED BY <2>1, <3>4
  <2>2. ASSUME n # 0, n - 1 \notin Bad PROVE FALSE
    <3>1. n \in Nat /\ n - 1 \in Nat BY <2>2
    <3>2. PICK g : IsSumOn(f, g, Layer(S, n - 1)) BY <2>2, <3>1
    <3> DEFINE h == [s \in Layer(S, n) |-> Body(f, g, s)]
    <3>3. ASSUME NEW s \in Layer(S, n), s # {} PROVE s \ {Pick(s)} \in Layer(S, n - 1)
      <4>1. Pick(s) \in s BY <3>3, PickIn
      <4>2. s \in SUBSET S /\ Cardinality(s) <= n /\ IsFiniteSet(s) /\ Cardinality(s) \in Nat
        BY <1>1 DEF Layer
      <4>3. Cardinality(s \ {Pick(s)}) = Cardinality(s) - 1 BY <4>1, <4>2, FS_RemoveElement
      <4> QED BY <3>1, <4>2, <4>3 DEF Layer
    <3>4. ASSUME NEW s \in Layer(S, n - 1) PROVE s \in Layer(S, n) /\ h[s] = g[s]
      <4>1. s \in Layer(S, n) BY <1>1, <3>1 DEF Layer
      <4>2. g[s] = Body(f, g, s) BY <3>2 DEF IsSumOn
      <4> QED BY <4>1, <4>2
    <3>5. \A s \in Layer(S, n) : Body(f, h, s) = Body(f, g, s) BY <3>3, <3>4 DEF Body
    <3>6. h = [s \in Layer(S, n) |-> Body(f, h, s)] BY <3>5
    <3>7. IsSumOn(f, h, Layer(S, n)) BY <3>6 DEF IsSumOn
    <3> QED BY <3>7
  <2> QED BY <2>1, <2>2
<1>3. Bad = {}
  <2>1. Bad \in SUBSET Nat OBVIOUS
  <2> HIDE DEF Bad
  <2>2. ASSUME Bad # {} PROVE FALSE
    <3>1. PICK n \in Bad : \A m \in Bad : n <= m BY <2>1, <2>2, LeastNumber
    <3>2. PICK m \in Bad : m < n BY <1>2
    <3> QED BY <2>1, <3>1, <3>2
  <2> QED BY <2>2
<1>4. Cardinality(S) \in Nat BY FS_CardinalityType
<1>5. PICK g : IsSumOn(f, g, Layer(S, Cardinality(S))) BY <1>3, <1>4
<1>6. Layer(S, Cardinality(S)) = SUBSET S BY FS_Subset DEF Layer
<1> QED BY <1>5, <1>6

\* The sum is the value of that function.
LEMMA SumIs ==
  ASSUME NEW f, NEW S, IsFiniteSet(S)
  PROVE  \E g : IsSumOn(f, g, SUBSET S) /\ SumFunctionOnSet(f, S) = g[S]
<1> DEFINE g == CHOOSE g : IsSumOn(f, g, SUBSET S)
<1>1. SumFunctionOnSet(f, S) = g[S]
  BY Zenon DEF SumFunctionOnSet, FoldFunctionOnSet, MapThenFoldSet, IsSumOn, Body, Pick
<1>2. IsSumOn(f, g, SUBSET S) BY SumExists, Zenon
<1> QED BY <1>1, <1>2

\* Two such functions agree on a set on which what they add up does.
LEMMA SumUnique ==
  ASSUME NEW f, NEW g, NEW e, NEW h, NEW S, NEW T, NEW R, IsFiniteSet(R),
         R \subseteq S, R \subseteq T, \A x \in R : f[x] = e[x],
         IsSumOn(f, g, SUBSET S), IsSumOn(e, h, SUBSET T)
  PROVE  g[R] = h[R]
<1> DEFINE Bad == {s \in SUBSET R : g[s] # h[s]}
<1>1. \A s \in SUBSET R : g[s] = Body(f, g, s) /\ h[s] = Body(e, h, s) BY DEF IsSumOn
<1>2. ASSUME NEW s \in Bad, \A r \in Bad : r \subseteq s => r = s PROVE FALSE
  <2>1. s # {} BY <1>1 DEF Body
  <2>2. Pick(s) \in s BY <2>1, PickIn
  <2>3. g[s \ {Pick(s)}] = h[s \ {Pick(s)}] BY <1>2, <2>2
  <2> QED BY <1>1, <2>1, <2>2, <2>3 DEF Body
<1>3. Bad \in SUBSET (SUBSET R) OBVIOUS
<1>4. Bad = {}
  <2> HIDE DEF Bad
  <2> QED BY <1>2, <1>3, SmallestSubset
<1> QED BY <1>4

----------------------------------------------------------------------------
(* What the modules use.                                                    *)

\* The sum of nothing is zero.
THEOREM SumEmpty ==
  ASSUME NEW f
  PROVE  SumFunctionOnSet(f, {}) = 0
<1>1. PICK g : IsSumOn(f, g, SUBSET {}) /\ SumFunctionOnSet(f, {}) = g[{}]
  BY SumIs, FS_EmptySet
<1> QED BY <1>1 DEF IsSumOn, Body

\* The sum depends on the values of the indices only.
THEOREM SumSame ==
  ASSUME NEW f, NEW e, NEW S, IsFiniteSet(S), \A x \in S : f[x] = e[x]
  PROVE  SumFunctionOnSet(f, S) = SumFunctionOnSet(e, S)
<1>1. PICK g : IsSumOn(f, g, SUBSET S) /\ SumFunctionOnSet(f, S) = g[S] BY SumIs
<1>2. PICK h : IsSumOn(e, h, SUBSET S) /\ SumFunctionOnSet(e, S) = h[S] BY SumIs
<1> QED BY <1>1, <1>2, SumUnique

\* A sum of naturals is a natural.
THEOREM SumNat ==
  ASSUME NEW f, NEW S, IsFiniteSet(S), \A x \in S : f[x] \in Nat
  PROVE  SumFunctionOnSet(f, S) \in Nat
<1>1. PICK g : IsSumOn(f, g, SUBSET S) /\ SumFunctionOnSet(f, S) = g[S] BY SumIs
<1> DEFINE Bad == {s \in SUBSET S : g[s] \notin Nat}
<1>2. \A s \in SUBSET S : g[s] = Body(f, g, s) BY <1>1 DEF IsSumOn
<1>3. ASSUME NEW s \in Bad, \A r \in Bad : r \subseteq s => r = s PROVE FALSE
  <2>1. s # {} BY <1>2 DEF Body
  <2>2. Pick(s) \in s BY <2>1, PickIn
  <2>3. g[s \ {Pick(s)}] \in Nat BY <1>3, <2>2
  <2> QED BY <1>2, <2>1, <2>2, <2>3 DEF Body
<1>4. Bad \in SUBSET (SUBSET S) OBVIOUS
<1>5. Bad = {}
  <2> HIDE DEF Bad
  <2> QED BY <1>3, <1>4, SmallestSubset
<1> QED BY <1>1, <1>5

\* A sum of zeros is zero.
THEOREM SumZero ==
  ASSUME NEW f, NEW S, IsFiniteSet(S), \A x \in S : f[x] = 0
  PROVE  SumFunctionOnSet(f, S) = 0
<1>1. PICK g : IsSumOn(f, g, SUBSET S) /\ SumFunctionOnSet(f, S) = g[S] BY SumIs
<1> DEFINE Bad == {s \in SUBSET S : g[s] # 0}
<1>2. \A s \in SUBSET S : g[s] = Body(f, g, s) BY <1>1 DEF IsSumOn
<1>3. ASSUME NEW s \in Bad, \A r \in Bad : r \subseteq s => r = s PROVE FALSE
  <2>1. s # {} BY <1>2 DEF Body
  <2>2. Pick(s) \in s BY <2>1, PickIn
  <2>3. g[s \ {Pick(s)}] = 0 BY <1>3, <2>2
  <2> QED BY <1>2, <2>1, <2>2, <2>3 DEF Body
<1>4. Bad \in SUBSET (SUBSET S) OBVIOUS
<1>5. Bad = {}
  <2> HIDE DEF Bad
  <2> QED BY <1>3, <1>4, SmallestSubset
<1> QED BY <1>1, <1>5

\* Any index may be taken out of a sum of naturals.
THEOREM SumRemove ==
  ASSUME NEW f, NEW S, IsFiniteSet(S), \A x \in S : f[x] \in Nat, NEW i \in S
  PROVE  SumFunctionOnSet(f, S) = f[i] + SumFunctionOnSet(f, S \ {i})
<1>1. PICK g : IsSumOn(f, g, SUBSET S) /\ SumFunctionOnSet(f, S) = g[S] BY SumIs
<1>2. \A s \in SUBSET S : IsFiniteSet(s) BY FS_Subset
<1>3. ASSUME NEW s \in SUBSET S PROVE g[s] = SumFunctionOnSet(f, s) /\ g[s] \in Nat
  <2>1. PICK h : IsSumOn(f, h, SUBSET s) /\ SumFunctionOnSet(f, s) = h[s] BY <1>2, SumIs
  <2> QED BY <1>1, <1>2, <2>1, SumUnique, SumNat
<1> DEFINE Bad == {s \in SUBSET S : \E x \in s : g[s] # f[x] + g[s \ {x}]}
<1>4. \A s \in SUBSET S : g[s] = Body(f, g, s) BY <1>1 DEF IsSumOn
<1>5. ASSUME NEW s \in Bad, \A r \in Bad : r \subseteq s => r = s PROVE FALSE
  <2>1. PICK x \in s : g[s] # f[x] + g[s \ {x}] OBVIOUS
  <2> DEFINE c == Pick(s)
  <2>2. c \in s BY <2>1, PickIn
  <2>3. g[s] = f[c] + g[s \ {c}] BY <1>4, <2>1 DEF Body
  <2> HIDE DEF c
  <2>4. c # x BY <2>1, <2>3
  <2> DEFINE r == s \ {c, x}
  <2>5. ASSUME NEW y \in s, NEW z \in s, z # y PROVE g[s \ {y}] = f[z] + g[s \ {y, z}]
    <3>1. s \ {y} \in SUBSET S /\ s \ {y} \subseteq s /\ s \ {y} # s /\ z \in s \ {y} BY <2>5
    <3>2. s \ {y} \notin Bad BY <1>5, <3>1
    <3>3. g[s \ {y}] = f[z] + g[(s \ {y}) \ {z}] BY <3>1, <3>2
    <3>4. (s \ {y}) \ {z} = s \ {y, z} OBVIOUS
    <3> QED BY <3>3, <3>4
  <2>6. s \ {x, c} = r OBVIOUS
  <2>7. g[s \ {c}] = f[x] + g[r] /\ g[s \ {x}] = f[c] + g[r] BY <2>2, <2>4, <2>5, <2>6
  <2>8. f[c] \in Nat /\ f[x] \in Nat /\ g[r] \in Nat BY <1>3, <2>1, <2>2
  <2> HIDE DEF r
  <2>9. f[c] + (f[x] + g[r]) = f[x] + (f[c] + g[r]) BY <2>8
  <2> QED BY <2>1, <2>3, <2>7, <2>9
<1>6. Bad \in SUBSET (SUBSET S) OBVIOUS
<1>7. Bad = {}
  <2> HIDE DEF Bad
  <2> QED BY <1>5, <1>6, SmallestSubset
<1> QED BY <1>1, <1>3, <1>7

\* Changing the value of one index.
THEOREM SumUpdate ==
  ASSUME NEW f, NEW e, NEW S, IsFiniteSet(S), \A x \in S : f[x] \in Nat /\ e[x] \in Nat,
         NEW i \in S, \A x \in S \ {i} : f[x] = e[x]
  PROVE  SumFunctionOnSet(e, S) + f[i] = SumFunctionOnSet(f, S) + e[i]
<1>1. IsFiniteSet(S \ {i}) BY FS_RemoveElement
<1>2. SumFunctionOnSet(f, S \ {i}) = SumFunctionOnSet(e, S \ {i}) BY <1>1, SumSame
<1>3. SumFunctionOnSet(f, S \ {i}) \in Nat BY <1>1, SumNat
<1> QED BY <1>2, <1>3, SumRemove

\* A sum over a set is that over a part of it and over the rest.
THEOREM SumSplit ==
  ASSUME NEW f, NEW S, IsFiniteSet(S), \A x \in S : f[x] \in Nat, NEW R \in SUBSET S
  PROVE  SumFunctionOnSet(f, S) = SumFunctionOnSet(f, R) + SumFunctionOnSet(f, S \ R)
<1> DEFINE Sum(s) == SumFunctionOnSet(f, s)
           Bad == {s \in SUBSET S : Sum(S) # Sum(s) + Sum(S \ s)}
<1>1. \A s \in SUBSET S : IsFiniteSet(s) BY FS_Subset
<1>2. \A s \in SUBSET S : Sum(s) \in Nat BY <1>1, SumNat
<1>3. ASSUME NEW s \in Bad, \A r \in Bad : r \subseteq s => r = s PROVE FALSE
  <2>1. s # {}
    <3>1. S \ {} = S /\ Sum({}) = 0 /\ Sum(S) \in Nat BY <1>2, SumEmpty
    <3>2. Sum(S) = Sum({}) + Sum(S \ {}) BY <3>1
    <3> QED BY <1>3, <3>2
  <2>2. PICK x : x \in s BY <2>1
  <2>3. Sum(S) = Sum(s \ {x}) + Sum(S \ (s \ {x})) BY <1>3, <2>2
  <2>4. Sum(s) = f[x] + Sum(s \ {x}) BY <1>1, <2>2, SumRemove
  <2> DEFINE T == S \ (s \ {x})
  <2>5. T \in SUBSET S /\ x \in T /\ T \ {x} = S \ s BY <2>2
  <2>6. Sum(T) = f[x] + Sum(T \ {x}) BY <1>1, <2>5, SumRemove
  <2>7. f[x] \in Nat /\ Sum(s \ {x}) \in Nat /\ Sum(S \ s) \in Nat BY <1>2, <2>2
  <2>8. Sum(S) # Sum(s) + Sum(S \ s) BY <1>3
  <2>9. Sum(T) = f[x] + Sum(S \ s) BY <2>5, <2>6
  <2>10. Sum(S) = Sum(s \ {x}) + Sum(T) BY <2>3
  <2> DEFINE a == Sum(s \ {x})
             b == Sum(S \ s)
             d == Sum(s)
             t == Sum(T)
             u == Sum(S)
  <2>11. u = a + t /\ t = f[x] + b /\ d = f[x] + a /\ a \in Nat /\ b \in Nat /\ u # d + b
    BY <2>4, <2>7, <2>8, <2>9, <2>10
  <2> HIDE DEF a, b, d, t, u
  <2> QED BY <2>7, <2>11
<1>4. Bad \in SUBSET (SUBSET S) OBVIOUS
<1>5. Bad = {}
  <2> HIDE DEF Bad
  <2> QED BY <1>3, <1>4, SmallestSubset
<1> QED BY <1>5

=============================================================================
