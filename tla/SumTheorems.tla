---------------------------- MODULE SumTheorems -----------------------------
(***************************************************************************)
(* Sums of natural numbers over a finite set, as SumFunctionOnSet of the   *)
(* community modules defines them, and the largest of finitely many: what  *)
(* the proofs about quantities need.                                       *)
(*                                                                         *)
(* Induction is over the subsets of a finite set, from the library's       *)
(* theorem that every nonempty set of them has a minimal member; it needs  *)
(* no operator parameter, and neither do the lemmas.                       *)
(***************************************************************************)
EXTENDS FiniteSetTheorems, TLAPS

(* A property that every subset of a finite set inherits from its strict   *)
(* subsets holds for all of them.                                          *)
LEMMA SubsetInduction ==
  ASSUME NEW S, IsFiniteSet(S), NEW Good,
         ASSUME NEW s \in SUBSET S,
                \A u \in SUBSET s : u # s => u \in Good
         PROVE  s \in Good
  PROVE  SUBSET S \subseteq Good
<1> DEFINE Bad == (SUBSET S) \ Good
<1>1. SUFFICES ASSUME Bad # {} PROVE FALSE
  OBVIOUS
<1>2. IsWellFoundedOn(StrictSubsetOrdering(S), SUBSET S)
  BY FS_StrictSubsetOrderingWellFounded, FS_FiniteSubsetsOfFinite
<1>3. PICK s \in Bad : \A u \in Bad : ~(<<u, s>> \in StrictSubsetOrdering(S))
  <2> HIDE DEF Bad
  <2>1. Bad \subseteq SUBSET S
    BY DEF Bad
  <2> QED
    BY <1>1, <1>2, <2>1, WFMin
<1>4. ASSUME NEW u \in SUBSET s, u # s
      PROVE  u \in Good
  BY <1>3, <1>4 DEF StrictSubsetOrdering
<1>5. s \in Good
  BY <1>4
<1> QED
  BY <1>5

(* The sum over a set is read from a function on its subsets: g is one for *)
(* S when each of its values is a member's and the rest's.                 *)
First(s) == CHOOSE x \in s : TRUE
Rest(s) == s \ {First(s)}
SumStep(f, g, s) == IF s = {} THEN 0 ELSE f[First(s)] + g[Rest(s)]
IsSummation(f, g, S) == g = [s \in SUBSET S |-> SumStep(f, g, s)]

LEMMA FirstRest ==
  ASSUME NEW s, s # {}
  PROVE  First(s) \in s /\ Rest(s) \in SUBSET s /\ Rest(s) # s
BY DEF First, Rest

(* Two of them agree. *)
LEMMA SummationUnique ==
  ASSUME NEW f, NEW S, NEW T, NEW g, NEW h,
         IsFiniteSet(S), S \subseteq T,
         IsSummation(f, g, S), IsSummation(f, h, T)
  PROVE  \A s \in SUBSET S : g[s] = h[s]
<1> DEFINE Good == {s \in SUBSET S : g[s] = h[s]}
<1>1. ASSUME NEW s \in SUBSET S, \A u \in SUBSET s : u # s => u \in Good
      PROVE  s \in Good
  <2>1. g[s] = SumStep(f, g, s) /\ h[s] = SumStep(f, h, s)
    BY DEF IsSummation
  <2>2. CASE s = {}
    BY <2>1, <2>2 DEF SumStep
  <2>3. CASE s # {}
    <3>1. g[Rest(s)] = h[Rest(s)]
      BY <1>1, <2>3, FirstRest
    <3> QED
      BY <2>1, <2>3, <3>1 DEF SumStep
  <2> QED
    BY <2>2, <2>3
<1> HIDE DEF Good
<1>2. SUBSET S \subseteq Good
  BY <1>1, SubsetInduction
<1> QED
  BY <1>2 DEF Good

(* There is one for every finite set. *)
LEMMA SummationExists ==
  ASSUME NEW f, NEW S, IsFiniteSet(S)
  PROVE  \E g : IsSummation(f, g, S)
<1> DEFINE Good == {s \in SUBSET S : \E g : IsSummation(f, g, s)}
<1>1. ASSUME NEW s \in SUBSET S, \A u \in SUBSET s : u # s => u \in Good
      PROVE  s \in Good
  <2> DEFINE G(u) == CHOOSE g : IsSummation(f, g, u)
             g == [u \in SUBSET s |->
                     IF u = {} THEN 0 ELSE f[First(u)] + G(Rest(u))[Rest(u)]]
  <2>1. ASSUME NEW u \in SUBSET s, u # s
        PROVE  IsSummation(f, G(u), u)
    BY <1>1, <2>1
  <2>2. ASSUME NEW u \in SUBSET s, u # s
        PROVE  g[u] = G(u)[u]
    <3>0. IsSummation(f, G(u), u)
      BY <2>1, <2>2
    <3>1. G(u)[u] = SumStep(f, G(u), u)
      <4> HIDE DEF G
      <4> QED BY <3>0 DEF IsSummation
    <3>2. CASE u = {}
      <4> HIDE DEF G
      <4> QED BY <3>1, <3>2 DEF SumStep
    <3>3. CASE u # {}
      <4>1. Rest(u) \in SUBSET u /\ Rest(u) \in SUBSET s /\ Rest(u) # s
        BY <2>2, <3>3, FirstRest
      <4>2. IsSummation(f, G(Rest(u)), Rest(u))
        BY <2>1, <4>1
      <4>3. IsFiniteSet(Rest(u))
        BY <4>1, FS_Subset
      <4>4. G(Rest(u))[Rest(u)] = G(u)[Rest(u)]
        <5> HIDE DEF G
        <5> QED BY <3>0, <4>1, <4>2, <4>3, SummationUnique
      <4> HIDE DEF G
      <4> QED
        BY <3>1, <3>3, <4>4 DEF SumStep
    <3> QED
      BY <3>2, <3>3
  <2>3. ASSUME NEW u \in SUBSET s
        PROVE  g[u] = SumStep(f, g, u)
    <3>1. CASE u = {}
      BY <3>1 DEF SumStep
    <3>2. CASE u # {}
      <4>1. Rest(u) \in SUBSET s /\ Rest(u) # s
        BY <3>2, FirstRest
      <4>2. g[Rest(u)] = G(Rest(u))[Rest(u)]
        <5> HIDE DEF g, G
        <5> QED BY <2>2, <4>1
      <4>3. g[u] = f[First(u)] + G(Rest(u))[Rest(u)]
        BY <3>2
      <4> HIDE DEF g, G
      <4> QED
        BY <3>2, <4>2, <4>3 DEF SumStep
    <3> QED
      BY <3>1, <3>2
  <2>4. g = [u \in SUBSET s |-> g[u]]
    OBVIOUS
  <2>5. IsSummation(f, g, s)
    <3> HIDE DEF g
    <3> QED
      BY <2>3, <2>4 DEF IsSummation
  <2> QED
    BY <2>5
<1> HIDE DEF Good
<1>2. SUBSET S \subseteq Good
  BY <1>1, SubsetInduction
<1> QED
  BY <1>2 DEF Good

(* The community module's sum is read from the summation of the whole set. *)
LEMMA SumIsSummation ==
  ASSUME NEW f, NEW S, NEW g, IsFiniteSet(S), IsSummation(f, g, S)
  PROVE  SumFunctionOnSet(f, S) = g[S]
<1> DEFINE iter == CHOOSE h : IsSummation(f, h, S)
<1>1. SumFunctionOnSet(f, S) = iter[S]
  BY DEF SumFunctionOnSet, FoldFunctionOnSet, MapThenFoldSet, IsSummation,
     SumStep, First, Rest
<1>2. IsSummation(f, iter, S)
  OBVIOUS
<1>3. S \in SUBSET S
  OBVIOUS
<1> HIDE DEF iter
<1>4. iter[S] = g[S]
  BY <1>2, <1>3, SummationUnique
<1> QED
  BY <1>1, <1>4

(* The sum over nothing, and over a set by its chosen member. *)
LEMMA SumOfNone ==
  ASSUME NEW f
  PROVE  SumFunctionOnSet(f, {}) = 0
<1>1. IsFiniteSet({})
  BY FS_EmptySet
<1>2. PICK g : IsSummation(f, g, {})
  BY <1>1, SummationExists
<1>3. g[{}] = 0
  BY <1>2 DEF IsSummation, SumStep
<1> QED
  BY <1>1, <1>2, <1>3, SumIsSummation

LEMMA SumByFirst ==
  ASSUME NEW f, NEW S, IsFiniteSet(S), S # {}
  PROVE  SumFunctionOnSet(f, S) = f[First(S)] + SumFunctionOnSet(f, Rest(S))
<1>1. PICK g : IsSummation(f, g, S)
  BY SummationExists
<1>2. Rest(S) \in SUBSET S /\ IsFiniteSet(Rest(S))
  BY FirstRest, FS_Subset
<1>3. PICK h : IsSummation(f, h, Rest(S))
  BY <1>2, SummationExists
<1>4. g[Rest(S)] = h[Rest(S)]
  BY <1>1, <1>2, <1>3, SummationUnique
<1>5. g[S] = f[First(S)] + g[Rest(S)]
  BY <1>1 DEF IsSummation, SumStep
<1>6. SumFunctionOnSet(f, S) = g[S]
  BY <1>1, SumIsSummation
<1>7. SumFunctionOnSet(f, Rest(S)) = h[Rest(S)]
  BY <1>2, <1>3, SumIsSummation
<1> QED
  BY <1>4, <1>5, <1>6, <1>7

-----------------------------------------------------------------------------
(* A sum of natural numbers is one. *)
LEMMA SumType ==
  ASSUME NEW S, IsFiniteSet(S), NEW f, \A x \in S : f[x] \in Nat
  PROVE  SumFunctionOnSet(f, S) \in Nat
<1> DEFINE Good == {s \in SUBSET S : SumFunctionOnSet(f, s) \in Nat}
<1>1. ASSUME NEW s \in SUBSET S, \A u \in SUBSET s : u # s => u \in Good
      PROVE  s \in Good
  <2>1. CASE s = {}
    BY <2>1, SumOfNone
  <2>2. CASE s # {}
    <3>1. IsFiniteSet(s)
      BY FS_Subset
    <3>2. First(s) \in S /\ SumFunctionOnSet(f, Rest(s)) \in Nat
      BY <1>1, <2>2, FirstRest
    <3>3. SumFunctionOnSet(f, s) = f[First(s)] + SumFunctionOnSet(f, Rest(s))
      BY <2>2, <3>1, SumByFirst
    <3> QED
      BY <3>2, <3>3
  <2> QED
    BY <2>1, <2>2
<1> HIDE DEF Good
<1>2. SUBSET S \subseteq Good
  BY <1>1, SubsetInduction
<1> QED
  BY <1>2 DEF Good

(* Functions that agree on a set have the same sum over it. *)
LEMMA SumEqual ==
  ASSUME NEW S, IsFiniteSet(S), NEW f, NEW g, \A x \in S : f[x] = g[x]
  PROVE  SumFunctionOnSet(f, S) = SumFunctionOnSet(g, S)
<1> DEFINE Good == {s \in SUBSET S :
                      SumFunctionOnSet(f, s) = SumFunctionOnSet(g, s)}
<1>1. ASSUME NEW s \in SUBSET S, \A u \in SUBSET s : u # s => u \in Good
      PROVE  s \in Good
  <2>1. CASE s = {}
    BY <2>1, SumOfNone
  <2>2. CASE s # {}
    <3>1. IsFiniteSet(s)
      BY FS_Subset
    <3>2. /\ f[First(s)] = g[First(s)]
          /\ SumFunctionOnSet(f, Rest(s)) = SumFunctionOnSet(g, Rest(s))
      BY <1>1, <2>2, FirstRest
    <3>3. SumFunctionOnSet(f, s) = f[First(s)] + SumFunctionOnSet(f, Rest(s))
      BY <2>2, <3>1, SumByFirst
    <3>4. SumFunctionOnSet(g, s) = g[First(s)] + SumFunctionOnSet(g, Rest(s))
      BY <2>2, <3>1, SumByFirst
    <3> QED
      BY <3>2, <3>3, <3>4
  <2> QED
    BY <2>1, <2>2
<1> HIDE DEF Good
<1>2. SUBSET S \subseteq Good
  BY <1>1, SubsetInduction
<1> QED
  BY <1>2 DEF Good

(* Any member can be added last. *)
LEMMA SumByMember ==
  ASSUME NEW S, IsFiniteSet(S), NEW f, \A x \in S : f[x] \in Nat,
         NEW m \in S
  PROVE  SumFunctionOnSet(f, S) = f[m] + SumFunctionOnSet(f, S \ {m})
<1> DEFINE Good == {s \in SUBSET S : \A x \in s :
              SumFunctionOnSet(f, s) = f[x] + SumFunctionOnSet(f, s \ {x})}
<1>0. ASSUME NEW s \in SUBSET S
      PROVE  IsFiniteSet(s) /\ SumFunctionOnSet(f, s) \in Nat
  <2>1. IsFiniteSet(s)
    BY FS_Subset
  <2> QED
    BY <2>1, SumType
<1>1. ASSUME NEW s \in SUBSET S, \A u \in SUBSET s : u # s => u \in Good
      PROVE  s \in Good
  <2> SUFFICES ASSUME NEW x \in s
               PROVE  SumFunctionOnSet(f, s)
                        = f[x] + SumFunctionOnSet(f, s \ {x})
    OBVIOUS
  <2>1. SumFunctionOnSet(f, s) = f[First(s)] + SumFunctionOnSet(f, Rest(s))
    BY <1>0, SumByFirst
  <2>2. CASE x = First(s)
    BY <2>1, <2>2 DEF Rest
  <2>3. CASE x # First(s)
    <3>1. Rest(s) \in SUBSET s /\ Rest(s) # s /\ x \in Rest(s)
          /\ First(s) \in s \ {x} /\ s \ {x} \in SUBSET s /\ s \ {x} # s
      BY <2>3, FirstRest DEF Rest
    <3>2. SumFunctionOnSet(f, Rest(s))
            = f[x] + SumFunctionOnSet(f, Rest(s) \ {x})
      BY <1>1, <3>1
    <3>3. SumFunctionOnSet(f, s \ {x})
            = f[First(s)] + SumFunctionOnSet(f, (s \ {x}) \ {First(s)})
      BY <1>1, <3>1
    <3>4. Rest(s) \ {x} = (s \ {x}) \ {First(s)}
      BY DEF Rest
    <3>5. /\ f[x] \in Nat /\ f[First(s)] \in Nat
          /\ SumFunctionOnSet(f, Rest(s) \ {x}) \in Nat
      BY <1>0, <3>1
    <3> DEFINE a == f[x]
               b == f[First(s)]
               c == SumFunctionOnSet(f, Rest(s) \ {x})
    <3>6. SumFunctionOnSet(f, s) = b + (a + c)
      BY <2>1, <3>2
    <3>7. SumFunctionOnSet(f, s \ {x}) = b + c
      BY <3>3, <3>4
    <3>8. a \in Nat /\ b \in Nat /\ c \in Nat
      BY <3>5
    <3> HIDE DEF Good, a, b, c
    <3>9. b + (a + c) = a + (b + c)
      BY <3>8
    <3> QED
      BY <3>6, <3>7, <3>9 DEF a
  <2> QED
    BY <2>2, <2>3
<1> HIDE DEF Good
<1>2. SUBSET S \subseteq Good
  BY <1>1, SubsetInduction
<1> QED
  BY <1>2 DEF Good

-----------------------------------------------------------------------------
(* No member exceeds the sum, and zeros add up to zero. *)
LEMMA SumAtLeast ==
  ASSUME NEW S, IsFiniteSet(S), NEW f, \A x \in S : f[x] \in Nat,
         NEW m \in S
  PROVE  f[m] <= SumFunctionOnSet(f, S)
<1>1. IsFiniteSet(S \ {m})
  BY FS_Subset
<1>2. SumFunctionOnSet(f, S \ {m}) \in Nat
  BY <1>1, SumType
<1> QED
  BY <1>2, SumByMember

LEMMA SumOfZeros ==
  ASSUME NEW S, IsFiniteSet(S), NEW f, \A x \in S : f[x] = 0
  PROVE  SumFunctionOnSet(f, S) = 0
<1> DEFINE Good == {s \in SUBSET S : SumFunctionOnSet(f, s) = 0}
<1>1. ASSUME NEW s \in SUBSET S, \A u \in SUBSET s : u # s => u \in Good
      PROVE  s \in Good
  <2>1. CASE s = {}
    BY <2>1, SumOfNone
  <2>2. CASE s # {}
    <3>1. IsFiniteSet(s)
      BY FS_Subset
    <3>2. First(s) \in S /\ SumFunctionOnSet(f, Rest(s)) = 0
      BY <1>1, <2>2, FirstRest
    <3>3. SumFunctionOnSet(f, s) = f[First(s)] + SumFunctionOnSet(f, Rest(s))
      BY <2>2, <3>1, SumByFirst
    <3> QED
      BY <3>2, <3>3
  <2> QED
    BY <2>1, <2>2
<1> HIDE DEF Good
<1>2. SUBSET S \subseteq Good
  BY <1>1, SubsetInduction
<1> QED
  BY <1>2 DEF Good

(* A single member may carry the whole sum. *)
LEMMA SumOfOne ==
  ASSUME NEW S, IsFiniteSet(S), NEW f, NEW m \in S, f[m] \in Nat,
         \A x \in S \ {m} : f[x] = 0
  PROVE  SumFunctionOnSet(f, S) = f[m]
<1>1. SumFunctionOnSet(f, S) = f[m] + SumFunctionOnSet(f, S \ {m})
  BY SumByMember
<1>2. IsFiniteSet(S \ {m})
  BY FS_Subset
<1>3. SumFunctionOnSet(f, S \ {m}) = 0
  BY <1>2, SumOfZeros
<1> QED
  BY <1>1, <1>3

(* A function that is nowhere larger has no larger sum, and the same sum   *)
(* only if it is the same.                                                 *)
LEMMA SumMonotone ==
  ASSUME NEW S, IsFiniteSet(S), NEW f, NEW g,
         \A x \in S : f[x] \in Nat /\ g[x] \in Nat /\ f[x] <= g[x]
  PROVE  SumFunctionOnSet(f, S) <= SumFunctionOnSet(g, S)
<1> DEFINE Good == {s \in SUBSET S :
                      SumFunctionOnSet(f, s) <= SumFunctionOnSet(g, s)}
<1>1. ASSUME NEW s \in SUBSET S, \A u \in SUBSET s : u # s => u \in Good
      PROVE  s \in Good
  <2>0. IsFiniteSet(s) /\ IsFiniteSet(Rest(s)) /\ Rest(s) \in SUBSET S
    BY FS_Subset DEF Rest
  <2>1. CASE s = {}
    BY <2>1, SumOfNone
  <2>2. CASE s # {}
    <3>1. /\ First(s) \in S
          /\ SumFunctionOnSet(f, Rest(s)) <= SumFunctionOnSet(g, Rest(s))
      BY <1>1, <2>2, FirstRest
    <3>2. SumFunctionOnSet(f, s) = f[First(s)] + SumFunctionOnSet(f, Rest(s))
      BY <2>0, <2>2, SumByFirst
    <3>3. SumFunctionOnSet(g, s) = g[First(s)] + SumFunctionOnSet(g, Rest(s))
      BY <2>0, <2>2, SumByFirst
    <3>4. SumFunctionOnSet(f, Rest(s)) \in Nat
      BY <2>0, SumType
    <3>5. SumFunctionOnSet(g, Rest(s)) \in Nat
      BY <2>0, SumType
    <3> QED
      BY <3>1, <3>2, <3>3, <3>4, <3>5
  <2> QED
    BY <2>1, <2>2
<1> HIDE DEF Good
<1>2. SUBSET S \subseteq Good
  BY <1>1, SubsetInduction
<1> QED
  BY <1>2 DEF Good

LEMMA SumTight ==
  ASSUME NEW S, IsFiniteSet(S), NEW f, NEW g,
         \A x \in S : f[x] \in Nat /\ g[x] \in Nat /\ f[x] <= g[x],
         SumFunctionOnSet(f, S) = SumFunctionOnSet(g, S),
         NEW m \in S
  PROVE  f[m] = g[m]
<1>1. IsFiniteSet(S \ {m})
  BY FS_Subset
<1>2. SumFunctionOnSet(f, S) = f[m] + SumFunctionOnSet(f, S \ {m})
  BY SumByMember
<1>3. SumFunctionOnSet(g, S) = g[m] + SumFunctionOnSet(g, S \ {m})
  BY SumByMember
<1>4. SumFunctionOnSet(f, S \ {m}) <= SumFunctionOnSet(g, S \ {m})
  BY <1>1, SumMonotone
<1>5. SumFunctionOnSet(f, S \ {m}) \in Nat
  BY <1>1, SumType
<1>6. SumFunctionOnSet(g, S \ {m}) \in Nat
  BY <1>1, SumType
<1> DEFINE a == f[m]
           b == g[m]
           c == SumFunctionOnSet(f, S \ {m})
           d == SumFunctionOnSet(g, S \ {m})
<1>7. a + c = b + d /\ c <= d /\ a <= b
  BY <1>2, <1>3, <1>4
<1>8. a \in Nat /\ b \in Nat /\ c \in Nat /\ d \in Nat
  BY <1>5, <1>6
<1> HIDE DEF a, b, c, d
<1>9. a = b
  BY <1>7, <1>8
<1> QED
  BY <1>9 DEF a, b

-----------------------------------------------------------------------------
(* A finite set of natural numbers has a largest member.                   *)
LEMMA LargestExists ==
  ASSUME NEW S, IsFiniteSet(S), S \subseteq Nat, S # {}
  PROVE  \E m \in S : \A x \in S : m >= x
<1> DEFINE Good == {s \in SUBSET S :
                      s # {} => \E m \in s : \A x \in s : m >= x}
<1>1. ASSUME NEW s \in SUBSET S, \A u \in SUBSET s : u # s => u \in Good
      PROVE  s \in Good
  <2> SUFFICES ASSUME s # {}
               PROVE  \E m \in s : \A x \in s : m >= x
    OBVIOUS
  <2>1. First(s) \in s /\ Rest(s) \in SUBSET s /\ Rest(s) # s
    BY FirstRest
  <2>2. \A x \in s : x = First(s) \/ x \in Rest(s)
    BY DEF Rest
  <2>3. CASE Rest(s) = {}
    <3>1. First(s) \in Nat /\ \A x \in s : x = First(s)
      BY <2>1, <2>2, <2>3
    <3>2. \A x \in s : First(s) >= x
      BY <3>1
    <3> QED
      BY <2>1, <3>2
  <2>4. CASE Rest(s) # {}
    <3>1. PICK m \in Rest(s) : \A x \in Rest(s) : m >= x
      BY <1>1, <2>1, <2>4
    <3>2. m \in s /\ m \in Nat /\ First(s) \in Nat
      BY <2>1
    <3>3. CASE m >= First(s)
      BY <2>2, <3>1, <3>2, <3>3
    <3>4. CASE First(s) >= m
      <4>1. \A x \in s : First(s) >= x
        BY <2>2, <3>1, <3>2, <3>4
      <4> QED
        BY <2>1, <4>1
    <3> QED
      BY <3>2, <3>3, <3>4
  <2> QED
    BY <2>3, <2>4
<1> HIDE DEF Good
<1>2. SUBSET S \subseteq Good
  BY <1>1, SubsetInduction
<1> QED
  BY <1>2 DEF Good
=============================================================================
