-------------------------------- MODULE Sums --------------------------------
(***************************************************************************)
(* What the proofs need to know of sums over finite sets, which scores and *)
(* deductions are: SumFunctionOnSet of the community module Functions.     *)
(* Its recursive function exists, and facts about all finite sets follow   *)
(* from there being no smallest set for which they fail.                   *)
(***************************************************************************)
EXTENDS FiniteSetTheorems, TLAPS

\* Of sets of subsets of a finite set, one that is not empty has a smallest member.
LEMMA SmallestSubset ==
  ASSUME NEW S, IsFiniteSet(S), NEW bad \in SUBSET (SUBSET S), bad # {}
  PROVE  \E s \in bad : \A t \in bad : t \subseteq s => t = s
<1>1. IsWellFoundedOn(StrictSubsetOrdering(S), SUBSET S)
  BY FS_StrictSubsetOrderingWellFounded, FS_FiniteSubsetsOfFinite
<1> DEFINE R == StrictSubsetOrdering(S)
           All == SUBSET S
<1>2. PICK s \in bad : \A t \in bad : ~(<<t, s>> \in R)
  <2>1. bad \subseteq All /\ IsWellFoundedOn(R, All)
    BY <1>1
  <2> HIDE DEF R, All
  <2> QED  BY <2>1, WFMin
<1>3. \A t \in bad : t \subseteq s /\ t # s => <<t, s>> \in R
  BY DEF StrictSubsetOrdering
<1> HIDE DEF R
<1>4. \A t \in bad : t \subseteq s => t = s
  BY <1>2, <1>3
<1> QED  BY <1>4

-----------------------------------------------------------------------------
(* The function that SumFunctionOnSet defines by recursion *)

One(s) == CHOOSE x \in s : TRUE

SumStep(f, g, s) == IF s = {} THEN 0 ELSE f[One(s)] + g[s \ {One(s)}]

IsSum(f, S, g) == g = [s \in SUBSET S |-> SumStep(f, g, s)]

LEMMA SumUnfolds ==
  ASSUME NEW f, NEW S
  PROVE  SumFunctionOnSet(f, S) = (CHOOSE g : IsSum(f, S, g))[S]
BY DEF SumFunctionOnSet, FoldFunctionOnSet, MapThenFoldSet, IsSum, SumStep, One

\* Two such functions agree where both are defined.
LEMMA SumsAgree ==
  ASSUME NEW f, NEW S, IsFiniteSet(S), NEW T \in SUBSET S, NEW U \in SUBSET S,
         NEW g, NEW h, IsSum(f, T, g), IsSum(f, U, h), NEW s \in SUBSET (T \cap U)
  PROVE  g[s] = h[s]
<1> DEFINE bad == {t \in SUBSET (T \cap U) : g[t] # h[t]}
<1>1. SUFFICES ASSUME bad # {}  PROVE FALSE
  OBVIOUS
<1>2. PICK t \in bad : \A u \in bad : u \subseteq t => u = t
  <2>1. bad \in SUBSET (SUBSET S)
    OBVIOUS
  <2> HIDE DEF bad
  <2> QED  BY <1>1, <2>1, SmallestSubset
<1>3. g[t] = SumStep(f, g, t) /\ h[t] = SumStep(f, h, t)
  BY DEF IsSum
<1>4. t # {}
  BY <1>3 DEF SumStep
<1>5. t \ {One(t)} \in SUBSET (T \cap U) /\ t \ {One(t)} # t
  BY <1>4 DEF One
<1>6. g[t \ {One(t)}] = h[t \ {One(t)}]
  BY <1>2, <1>5
<1> QED  BY <1>2, <1>3, <1>6 DEF SumStep

\* There is one for every finite set.
LEMMA SumExists ==
  ASSUME NEW f, NEW S, IsFiniteSet(S)
  PROVE  \E g : IsSum(f, S, g)
<1> DEFINE bad == {T \in SUBSET S : ~\E g : IsSum(f, T, g)}
<1>1. SUFFICES ASSUME bad # {}  PROVE FALSE
  OBVIOUS
<1>2. PICK T \in bad : \A u \in bad : u \subseteq T => u = T
  <2>1. bad \in SUBSET (SUBSET S)
    OBVIOUS
  <2> HIDE DEF bad
  <2> QED  BY <1>1, <2>1, SmallestSubset
<1> DEFINE G(s) == CHOOSE g : IsSum(f, s, g)
           top == IF T = {} THEN 0 ELSE f[One(T)] + G(T \ {One(T)})[T \ {One(T)}]
           h == [s \in SUBSET T |-> IF s = T THEN top ELSE G(s)[s]]
<1>3. ASSUME NEW s \in SUBSET T, s # T  PROVE IsSum(f, s, G(s))
  <2>1. \E g : IsSum(f, s, g)
    BY <1>2, <1>3
  <2> QED  BY <2>1
<1>4. \A s \in SUBSET T : s # T => h[s] = G(s)[s]
  OBVIOUS
<1>5. h[T] = top
  OBVIOUS
<1> HIDE DEF G
<1>6. ASSUME NEW s \in SUBSET T  PROVE h[s] = SumStep(f, h, s)
  <2> DEFINE rest == s \ {One(s)}
  <2>1. s # {} => rest \in SUBSET T /\ rest # T /\ rest # s /\ rest \subseteq s
    BY DEF One
  <2>2. s # {} => h[rest] = G(rest)[rest]
    BY <1>4, <2>1
  <2>3. CASE s = T
    <3>1. s # {} => h[s] = f[One(s)] + G(rest)[rest]
      BY <1>5, <2>3
    <3>2. s = {} => h[s] = 0
      BY <1>5, <2>3
    <3> QED  BY <2>2, <3>1, <3>2 DEF SumStep
  <2>4. CASE s # T
    <3>1. h[s] = G(s)[s] /\ G(s)[s] = SumStep(f, G(s), s)
      <4>1. G(s) = [u \in SUBSET s |-> SumStep(f, G(s), u)]
        BY <1>3, <2>4 DEF IsSum
      <4> QED  BY <1>4, <2>4, <4>1
    <3>2. s # {} => G(s)[rest] = G(rest)[rest]
      <4>1. SUFFICES ASSUME s # {}  PROVE G(s)[rest] = G(rest)[rest]
        OBVIOUS
      <4>2. IsSum(f, s, G(s)) /\ IsSum(f, rest, G(rest))
        BY <1>3, <2>1, <2>4, <4>1
      <4>3. rest \in SUBSET (s \cap rest) /\ s \in SUBSET S /\ rest \in SUBSET S
        BY <1>2
      <4> HIDE DEF rest
      <4> QED  BY <4>2, <4>3, SumsAgree
    <3> QED  BY <2>2, <3>1, <3>2 DEF SumStep
  <2> QED  BY <2>3, <2>4
<1>7. IsSum(f, T, h)
  BY <1>6 DEF IsSum
<1> QED  BY <1>2, <1>7

-----------------------------------------------------------------------------
(* The sum of a set, from the sums of its subsets *)

LEMMA SumOfEmpty ==
  ASSUME NEW f
  PROVE  SumFunctionOnSet(f, {}) = 0
<1>1. PICK g : IsSum(f, {}, g)
  BY FS_EmptySet, SumExists
<1>2. IsSum(f, {}, CHOOSE h : IsSum(f, {}, h))
  BY <1>1
<1> QED  BY <1>2, SumUnfolds DEF IsSum, SumStep

\* A sum is that without the chosen element, and this element's.
LEMMA SumOfOne ==
  ASSUME NEW f, NEW S, IsFiniteSet(S), S # {}
  PROVE  SumFunctionOnSet(f, S) = f[One(S)] + SumFunctionOnSet(f, S \ {One(S)})
<1> DEFINE G(s) == CHOOSE g : IsSum(f, s, g)
           rest == S \ {One(S)}
<1>1. IsFiniteSet(rest) /\ rest \in SUBSET S /\ S \in SUBSET S /\ rest \in SUBSET (S \cap rest)
  BY FS_Subset
<1>2. IsSum(f, S, G(S)) /\ IsSum(f, rest, G(rest))
  <2>1. \E g : IsSum(f, S, g)
    BY SumExists
  <2>2. \E g : IsSum(f, rest, g)
    BY <1>1, SumExists
  <2> QED  BY <2>1, <2>2
<1>3. SumFunctionOnSet(f, S) = G(S)[S] /\ SumFunctionOnSet(f, rest) = G(rest)[rest]
  BY SumUnfolds
<1> HIDE DEF G
<1>4. G(S)[S] = f[One(S)] + G(S)[rest]
  BY <1>2 DEF IsSum, SumStep
<1>5. G(S)[rest] = G(rest)[rest]
  <2> HIDE DEF rest
  <2> QED  BY <1>1, <1>2, SumsAgree
<1> QED  BY <1>3, <1>4, <1>5

\* A sum of naturals is one.
LEMMA SumIsNat ==
  ASSUME NEW f, NEW S, IsFiniteSet(S), \A x \in S : f[x] \in Nat
  PROVE  SumFunctionOnSet(f, S) \in Nat
<1> DEFINE bad == {T \in SUBSET S : SumFunctionOnSet(f, T) \notin Nat}
<1>1. SUFFICES ASSUME bad # {}  PROVE FALSE
  OBVIOUS
<1>2. PICK T \in bad : \A u \in bad : u \subseteq T => u = T
  <2>1. bad \in SUBSET (SUBSET S)
    OBVIOUS
  <2> HIDE DEF bad
  <2> QED  BY <1>1, <2>1, SmallestSubset
<1>3. T # {}
  <2>1. SumFunctionOnSet(f, {}) \in Nat
    BY SumOfEmpty
  <2> QED  BY <1>2, <2>1
<1>4. One(T) \in T
  BY <1>3 DEF One
<1>5. SumFunctionOnSet(f, T \ {One(T)}) \in Nat
  BY <1>2, <1>4
<1>6. IsFiniteSet(T)
  BY FS_Subset
<1>7. SumFunctionOnSet(f, T) = f[One(T)] + SumFunctionOnSet(f, T \ {One(T)})
  BY <1>3, <1>6, SumOfOne
<1> QED  BY <1>2, <1>4, <1>5, <1>7

\* Any element may be the one that is taken out.
LEMMA SumWithout ==
  ASSUME NEW f, NEW S, IsFiniteSet(S), \A x \in S : f[x] \in Nat, NEW x \in S
  PROVE  SumFunctionOnSet(f, S) = f[x] + SumFunctionOnSet(f, S \ {x})
<1> DEFINE bad == {T \in SUBSET S :
                     \E y \in T : SumFunctionOnSet(f, T) # f[y] + SumFunctionOnSet(f, T \ {y})}
<1>1. SUFFICES ASSUME bad # {}  PROVE FALSE
  OBVIOUS
<1>2. PICK T \in bad : \A u \in bad : u \subseteq T => u = T
  <2>1. bad \in SUBSET (SUBSET S)
    OBVIOUS
  <2> HIDE DEF bad
  <2> QED  BY <1>1, <2>1, SmallestSubset
<1>3. PICK y \in T : SumFunctionOnSet(f, T) # f[y] + SumFunctionOnSet(f, T \ {y})
  BY <1>2
<1> DEFINE z == One(T)
<1>4. z \in T
  BY DEF One
<1>5. IsFiniteSet(T)
  BY FS_Subset
<1>6. SumFunctionOnSet(f, T) = f[z] + SumFunctionOnSet(f, T \ {z})
  BY <1>5, SumOfOne
<1> HIDE DEF z
<1>7. y # z
  BY <1>3, <1>6
<1>8. /\ SumFunctionOnSet(f, T \ {z}) = f[y] + SumFunctionOnSet(f, (T \ {z}) \ {y})
      /\ SumFunctionOnSet(f, T \ {y}) = f[z] + SumFunctionOnSet(f, (T \ {y}) \ {z})
  <2>1. T \ {z} \notin bad /\ T \ {y} \notin bad /\ T \ {z} \in SUBSET S /\ T \ {y} \in SUBSET S
    BY <1>2, <1>4
  <2> QED  BY <1>4, <1>7, <2>1
<1>9. (T \ {z}) \ {y} = (T \ {y}) \ {z}
  OBVIOUS
<1>10. /\ f[y] \in Nat /\ f[z] \in Nat
       /\ SumFunctionOnSet(f, (T \ {y}) \ {z}) \in Nat
  BY <1>4, <1>5, FS_Subset, SumIsNat
<1> QED  BY <1>3, <1>6, <1>8, <1>9, <1>10

\* A sum is no more than another whose terms are no less, each for one of its own.
LEMMA SumIsMonotone ==
  ASSUME NEW v, NEW S, IsFiniteSet(S), \A x \in S : v[x] \in Nat,
         NEW w, NEW T, IsFiniteSet(T), \A x \in T : w[x] \in Nat,
         NEW F, \A x \in S : F[x] \in T /\ v[x] <= w[F[x]],
         \A x, y \in S : F[x] = F[y] => x = y
  PROVE  SumFunctionOnSet(v, S) <= SumFunctionOnSet(w, T)
<1> DEFINE Into(P, Q) == \A x \in P : F[x] \in Q
           bad == {P \in SUBSET S :
                     \E Q \in SUBSET T : Into(P, Q) /\ ~(SumFunctionOnSet(v, P) <= SumFunctionOnSet(w, Q))}
<1>1. SUFFICES ASSUME bad # {}  PROVE FALSE
  OBVIOUS
<1>2. PICK P \in bad : \A u \in bad : u \subseteq P => u = P
  <2>1. bad \in SUBSET (SUBSET S)
    OBVIOUS
  <2> HIDE DEF bad
  <2> QED  BY <1>1, <2>1, SmallestSubset
<1>3. PICK Q \in SUBSET T : Into(P, Q) /\ ~(SumFunctionOnSet(v, P) <= SumFunctionOnSet(w, Q))
  BY <1>2
<1>4. IsFiniteSet(P) /\ IsFiniteSet(Q) /\ P \in SUBSET S
  BY FS_Subset
<1>5. SumFunctionOnSet(w, Q) \in Nat
  BY <1>4, SumIsNat
<1>6. P # {}
  BY <1>3, <1>5, SumOfEmpty
<1>7. PICK x \in P : TRUE
  BY <1>6
<1>8. SumFunctionOnSet(v, P \ {x}) <= SumFunctionOnSet(w, Q \ {F[x]})
  <2>1. P \ {x} \in SUBSET S /\ P \ {x} \notin bad /\ Q \ {F[x]} \in SUBSET T
    BY <1>2, <1>4, <1>7
  <2>2. Into(P \ {x}, Q \ {F[x]})
    BY <1>3, <1>4
  <2> HIDE DEF Into
  <2> QED  BY <2>1, <2>2
<1>9. SumFunctionOnSet(v, P) = v[x] + SumFunctionOnSet(v, P \ {x})
  BY <1>4, SumWithout
<1>10. SumFunctionOnSet(w, Q) = w[F[x]] + SumFunctionOnSet(w, Q \ {F[x]})
  BY <1>3, <1>4, SumWithout
<1>11. /\ v[x] \in Nat /\ w[F[x]] \in Nat /\ v[x] <= w[F[x]]
       /\ SumFunctionOnSet(v, P \ {x}) \in Nat /\ SumFunctionOnSet(w, Q \ {F[x]}) \in Nat
  BY <1>4, FS_Subset, SumIsNat
<1> QED  BY <1>3, <1>8, <1>9, <1>10, <1>11
=============================================================================
