----------------------------- MODULE SumTheorems -----------------------------
(***************************************************************************)
(* Sums of amounts over finite sets (SumFunctionOnSet): what ledgers,      *)
(* budgets and statistics need of them.  SumFunctionOnSet takes elements in*)
(* an order of its own by a recursive function; the facts are found without*)
(* an induction rule for operators, from the well-founded order of the     *)
(* finite subsets of a set, which speaks of sets alone.                    *)
(***************************************************************************)
EXTENDS Functions, FiniteSetTheorems, WellFoundedInduction, TLAPS

(* A set of subsets that holds every subset whose strict subsets it holds. *)
LEMMA SubsetInduction ==
    ASSUME NEW S, IsFiniteSet(S), NEW T,
           \A s \in SUBSET S : (\A t \in SUBSET s : t # s => t \in T) => s \in T
    PROVE  \A s \in SUBSET S : s \in T
<1> DEFINE left == (SUBSET S) \ T
<1>1. SUFFICES ASSUME left # {}  PROVE FALSE
  OBVIOUS
<1>2. IsWellFoundedOn(StrictSubsetOrdering(S), SUBSET S)
  BY FS_StrictSubsetOrderingWellFounded, FS_FiniteSubsetsOfFinite
<1>3. PICK s \in left : \A t \in left : ~ (<<t, s>> \in StrictSubsetOrdering(S))
  <2>1. left \subseteq SUBSET S /\ left # {}
    BY <1>1
  <2> HIDE DEF left
  <2> QED BY <1>2, <2>1, WFMin
<1>4. \A t \in SUBSET s : t # s => t \in T
  BY <1>3 DEF StrictSubsetOrdering
<1> QED BY <1>3, <1>4

(* g gives the sum of f over every subset of S.                            *)
IsSum(g, f, S) ==
    /\ g \in [SUBSET S -> Int] /\ g[{}] = 0
    /\ \A s \in SUBSET S : \A x \in s : g[s] = f[x] + g[s \ {x}]

(* A sum exists: an element more adds its amount, in whatever order.       *)
LEMMA SumExists ==
    ASSUME NEW S, IsFiniteSet(S), NEW f, \A x \in S : f[x] \in Int
    PROVE  \E g : IsSum(g, f, S)
<1> DEFINE T == {s \in SUBSET S : \E g : IsSum(g, f, s)}
<1>1. ASSUME NEW s \in SUBSET S, \A t \in SUBSET s : t # s => t \in T
      PROVE  s \in T
  <2>1. CASE s = {}
    <3> DEFINE g == [t \in SUBSET {} |-> 0]
    <3>1. g \in [SUBSET {} -> Int] /\ g[{}] = 0
      OBVIOUS
    <3>2. IsSum(g, f, {})
      <4> HIDE DEF g
      <4> QED BY <3>1 DEF IsSum
    <3> QED BY <2>1, <3>2
  <2>2. CASE s # {}
    <3>1. PICK x : x \in s
      BY <2>2
    <3>2. PICK h : IsSum(h, f, s \ {x})
      <4>1. s \ {x} \in SUBSET s /\ s \ {x} # s
        BY <3>1
      <4> QED BY <1>1, <4>1
    <3> DEFINE r == s \ {x}
               g == [t \in SUBSET s |-> IF x \in t THEN f[x] + h[t \ {x}] ELSE h[t]]
    <3>3. /\ h \in [SUBSET r -> Int] /\ h[{}] = 0
          /\ \A t \in SUBSET r : \A y \in t : h[t] = f[y] + h[t \ {y}]
          /\ f[x] \in Int /\ (\A y \in s : f[y] \in Int)
      BY <3>1, <3>2 DEF IsSum
    <3>4. ASSUME NEW t \in SUBSET s
          PROVE  /\ x \in t => t \ {x} \in SUBSET r
                 /\ x \notin t => t \in SUBSET r
      OBVIOUS
    <3>5. g \in [SUBSET s -> Int]
      <4>1. ASSUME NEW t \in SUBSET s  PROVE g[t] \in Int
        <5>1. CASE x \in t
          <6>1. h[t \ {x}] \in Int
            BY <3>3, <3>4, <5>1
          <6> QED BY <3>3, <5>1, <6>1
        <5>2. CASE x \notin t
          BY <3>3, <3>4, <5>2
        <5> QED BY <5>1, <5>2
      <4> QED BY <4>1
    <3>6. g[{}] = 0
      BY <3>3
    <3>7. ASSUME NEW t \in SUBSET s, NEW y \in t  PROVE g[t] = f[y] + g[t \ {y}]
      <4>1. t \ {y} \in SUBSET s
        OBVIOUS
      <4>2. CASE y = x
        <5>1. g[t] = f[x] + h[t \ {x}] /\ g[t \ {x}] = h[t \ {x}]
          BY <4>1, <4>2
        <5> QED BY <4>2, <5>1
      <4>3. CASE y # x /\ x \in t
        <5>1. g[t] = f[x] + h[t \ {x}] /\ g[t \ {y}] = f[x] + h[(t \ {y}) \ {x}]
          BY <4>1, <4>3
        <5>2. t \ {x} \in SUBSET r /\ y \in t \ {x} /\ (t \ {y}) \ {x} = (t \ {x}) \ {y}
          BY <4>3
        <5>3. h[t \ {x}] = f[y] + h[(t \ {x}) \ {y}]
          BY <3>3, <5>2
        <5>4. h[(t \ {x}) \ {y}] \in Int
          BY <3>3, <5>2
        <5>5. f[y] \in Int /\ f[x] \in Int
          BY <3>3
        <5> DEFINE a == h[(t \ {x}) \ {y}]
        <5> HIDE DEF g, a
        <5>6. g[t] = f[x] + (f[y] + a) /\ g[t \ {y}] = f[x] + a
          BY <5>1, <5>2, <5>3 DEF a
        <5>7. a \in Int
          BY <5>4 DEF a
        <5> QED BY <5>5, <5>6, <5>7
      <4>4. CASE y # x /\ x \notin t
        <5>1. g[t] = h[t] /\ g[t \ {y}] = h[t \ {y}] /\ t \in SUBSET r
          BY <4>1, <4>4
        <5> HIDE DEF g
        <5> QED BY <3>3, <5>1
      <4> QED BY <4>2, <4>3, <4>4
    <3>8. IsSum(g, f, s)
      <4> HIDE DEF g
      <4> QED BY <3>5, <3>6, <3>7 DEF IsSum
    <3> QED BY <3>8
  <2> QED BY <2>1, <2>2
<1>2. \A s \in SUBSET S : s \in T
  <2> HIDE DEF T
  <2> QED BY <1>1, SubsetInduction
<1>3. S \in T
  BY <1>2
<1> QED BY <1>3

(* The element that SumFunctionOnSet takes first.                          *)
Pick(s) == CHOOSE x \in s : TRUE

(* SumFunctionOnSet gives that sum.                                        *)
LEMMA SumIs ==
    ASSUME NEW S, IsFiniteSet(S), NEW f, NEW g, IsSum(g, f, S)
    PROVE  SumFunctionOnSet(f, S) = g[S]
<1> DEFINE Body(h) == [s \in SUBSET S |-> IF s = {} THEN 0 ELSE f[Pick(s)] + h[s \ {Pick(s)}]]
           iter == CHOOSE h : h = Body(h)
<1>1. g = Body(g)
  <2>1. ASSUME NEW s \in SUBSET S  PROVE g[s] = Body(g)[s]
    <3>1. CASE s = {}
      BY <3>1 DEF IsSum
    <3>2. CASE s # {}
      <4>1. Pick(s) \in s
        BY <3>2 DEF Pick
      <4> QED BY <3>2, <4>1 DEF IsSum
    <3> QED BY <3>1, <3>2
  <2>2. g = [s \in SUBSET S |-> g[s]]
    BY DEF IsSum
  <2> QED BY <2>1, <2>2
<1>2. iter = Body(iter)
  BY <1>1
<1>3. SumFunctionOnSet(f, S) = iter[S]
  BY DEF SumFunctionOnSet, FoldFunctionOnSet, MapThenFoldSet, Pick
<1> DEFINE T == {s \in SUBSET S : iter[s] = g[s]}
<1>4. ASSUME NEW s \in SUBSET S, \A t \in SUBSET s : t # s => t \in T
      PROVE  s \in T
  <2>1. CASE s = {}
    <3>1. Body(iter)[s] = 0
      BY <2>1
    <3> HIDE DEF iter
    <3> QED BY <1>2, <2>1, <3>1 DEF IsSum
  <2>2. CASE s # {}
    <3>1. Pick(s) \in s
      BY <2>2 DEF Pick
    <3>2. iter[s \ {Pick(s)}] = g[s \ {Pick(s)}]
      BY <1>4, <3>1
    <3>3. Body(iter)[s] = f[Pick(s)] + iter[s \ {Pick(s)}]
      BY <2>2
    <3>4. g[s] = f[Pick(s)] + g[s \ {Pick(s)}]
      BY <3>1 DEF IsSum
    <3> HIDE DEF iter
    <3> QED BY <1>2, <3>2, <3>3, <3>4
  <2> QED BY <2>1, <2>2
<1>5. \A s \in SUBSET S : s \in T
  <2> HIDE DEF T
  <2> QED BY <1>4, SubsetInduction
<1> QED BY <1>3, <1>5

-----------------------------------------------------------------------------
(* What proofs about totals cite.                                          *)

LEMMA SumOfNone == ASSUME NEW f  PROVE SumFunctionOnSet(f, {}) = 0
<1>1. IsFiniteSet({}) /\ \A x \in {} : f[x] \in Int
  BY FS_EmptySet
<1>2. PICK g : IsSum(g, f, {})
  BY <1>1, SumExists
<1> QED BY <1>1, <1>2, SumIs DEF IsSum

LEMMA SumIsInt ==
    ASSUME NEW S, IsFiniteSet(S), NEW f, \A x \in S : f[x] \in Int
    PROVE  SumFunctionOnSet(f, S) \in Int
<1>1. PICK g : IsSum(g, f, S)
  BY SumExists
<1>2. g[S] \in Int
  BY <1>1 DEF IsSum
<1> QED BY <1>1, <1>2, SumIs

LEMMA SumSplits ==
    ASSUME NEW S, IsFiniteSet(S), NEW f, \A x \in S : f[x] \in Int, NEW x \in S
    PROVE  SumFunctionOnSet(f, S) = f[x] + SumFunctionOnSet(f, S \ {x})
<1>1. PICK g : IsSum(g, f, S)
  BY SumExists
<1> DEFINE r == S \ {x}
           h == [s \in SUBSET r |-> g[s]]
<1>2. IsSum(h, f, r)
  <2>1. h \in [SUBSET r -> Int] /\ h[{}] = 0
    BY <1>1 DEF IsSum
  <2>2. ASSUME NEW s \in SUBSET r, NEW y \in s  PROVE h[s] = f[y] + h[s \ {y}]
    <3>1. h[s] = g[s] /\ h[s \ {y}] = g[s \ {y}] /\ s \in SUBSET S
      OBVIOUS
    <3> HIDE DEF h
    <3> QED BY <1>1, <3>1 DEF IsSum
  <2> HIDE DEF h
  <2> QED BY <2>1, <2>2 DEF IsSum
<1>3. IsFiniteSet(r)
  BY FS_RemoveElement
<1>4. SumFunctionOnSet(f, r) = g[r] /\ SumFunctionOnSet(f, S) = g[S]
  <2>1. h[r] = g[r]
    OBVIOUS
  <2> HIDE DEF h, r
  <2> QED BY <1>1, <1>2, <1>3, <2>1, SumIs
<1>5. g[S] = f[x] + g[r]
  BY <1>1 DEF IsSum
<1> QED BY <1>4, <1>5

LEMMA SumIsMonotone ==
    ASSUME NEW S, IsFiniteSet(S), NEW f, NEW h,
           \A x \in S : f[x] \in Int /\ h[x] \in Int /\ f[x] <= h[x]
    PROVE  SumFunctionOnSet(f, S) <= SumFunctionOnSet(h, S)
<1>1. PICK g : IsSum(g, f, S)
  BY SumExists
<1>2. PICK k : IsSum(k, h, S)
  BY SumExists
<1> DEFINE T == {s \in SUBSET S : g[s] <= k[s]}
<1>3. ASSUME NEW s \in SUBSET S, \A t \in SUBSET s : t # s => t \in T
      PROVE  s \in T
  <2>1. CASE s = {}
    BY <1>1, <1>2, <2>1 DEF IsSum
  <2>2. CASE s # {}
    <3>1. PICK x : x \in s
      BY <2>2
    <3> DEFINE r == s \ {x}
    <3>2. g[r] <= k[r] /\ r \in SUBSET S
      BY <1>3, <3>1
    <3>3. g[s] = f[x] + g[r] /\ k[s] = h[x] + k[r]
      BY <1>1, <1>2, <3>1 DEF IsSum
    <3>4. g[r] \in Int /\ k[r] \in Int /\ f[x] \in Int /\ h[x] \in Int /\ f[x] <= h[x]
      BY <1>1, <1>2, <3>1, <3>2 DEF IsSum
    <3> HIDE DEF r
    <3>5. g[s] <= k[s]
      BY <3>2, <3>3, <3>4
    <3> QED BY <3>5
  <2> QED BY <2>1, <2>2
<1>4. \A s \in SUBSET S : s \in T
  <2> HIDE DEF T
  <2> QED BY <1>3, SubsetInduction
<1>5. g[S] <= k[S]
  BY <1>4
<1> QED BY <1>1, <1>2, <1>5, SumIs

LEMMA SumIsSame ==
    ASSUME NEW S, IsFiniteSet(S), NEW f, NEW h, \A x \in S : f[x] \in Int /\ h[x] = f[x]
    PROVE  SumFunctionOnSet(h, S) = SumFunctionOnSet(f, S)
<1>1. SumFunctionOnSet(f, S) <= SumFunctionOnSet(h, S)
  BY SumIsMonotone
<1>2. SumFunctionOnSet(h, S) <= SumFunctionOnSet(f, S)
  BY SumIsMonotone
<1>3. SumFunctionOnSet(f, S) \in Int /\ SumFunctionOnSet(h, S) \in Int
  BY SumIsInt
<1> QED BY <1>1, <1>2, <1>3

(* One amount changes.                                                     *)
LEMMA SumChanges ==
    ASSUME NEW S, IsFiniteSet(S), NEW f, NEW h, NEW x \in S, f[x] \in Int, h[x] \in Int,
           \A y \in S \ {x} : f[y] \in Int /\ h[y] = f[y]
    PROVE  SumFunctionOnSet(h, S) = SumFunctionOnSet(f, S) - f[x] + h[x]
<1>1. IsFiniteSet(S \ {x}) /\ (\A y \in S : f[y] \in Int /\ h[y] \in Int)
  BY FS_RemoveElement
<1>2. SumFunctionOnSet(f, S) = f[x] + SumFunctionOnSet(f, S \ {x})
  BY <1>1, SumSplits
<1>3. SumFunctionOnSet(h, S) = h[x] + SumFunctionOnSet(h, S \ {x})
  BY <1>1, SumSplits
<1>4. SumFunctionOnSet(h, S \ {x}) = SumFunctionOnSet(f, S \ {x})
  BY <1>1, SumIsSame
<1>5. SumFunctionOnSet(f, S \ {x}) \in Int
  BY <1>1, SumIsInt
<1> QED BY <1>2, <1>3, <1>4, <1>5

(* Nothing but zeros.                                                      *)
LEMMA SumIsZero ==
    ASSUME NEW S, IsFiniteSet(S), NEW f, \A x \in S : f[x] = 0
    PROVE  SumFunctionOnSet(f, S) = 0
<1> DEFINE g == [s \in SUBSET S |-> 0]
<1>1. IsSum(g, f, S)
  BY DEF IsSum
<1>2. SumFunctionOnSet(f, S) = g[S]
  BY <1>1, SumIs
<1> QED BY <1>2


(* Amounts that are not negative: fewer elements do not sum to more.       *)
LEMMA SumOfFewer ==
    ASSUME NEW S, IsFiniteSet(S), NEW f, \A x \in S : f[x] \in Int /\ f[x] >= 0,
           NEW R \in SUBSET S
    PROVE  SumFunctionOnSet(f, R) <= SumFunctionOnSet(f, S)
<1> DEFINE T == {s \in SUBSET S : SumFunctionOnSet(f, s \cap R) <= SumFunctionOnSet(f, s)}
<1>1. ASSUME NEW s \in SUBSET S, \A t \in SUBSET s : t # s => t \in T
      PROVE  s \in T
  <2>1. CASE s = {}
    <3>1. s \cap R = {} /\ SumFunctionOnSet(f, {}) = 0
      BY <2>1, SumOfNone
    <3>2. SumFunctionOnSet(f, s \cap R) <= SumFunctionOnSet(f, s)
      BY <2>1, <3>1
    <3> QED BY <3>2
  <2>2. CASE s # {}
    <3>1. PICK x : x \in s
      BY <2>2
    <3> DEFINE r == s \ {x}
    <3>2. SumFunctionOnSet(f, r \cap R) <= SumFunctionOnSet(f, r)
      BY <1>1, <3>1
    <3>3. /\ IsFiniteSet(s) /\ IsFiniteSet(s \cap R) /\ IsFiniteSet(r) /\ IsFiniteSet(r \cap R)
          /\ f[x] \in Int /\ f[x] >= 0
      BY <3>1, FS_Subset
    <3>4. SumFunctionOnSet(f, s) = f[x] + SumFunctionOnSet(f, r)
      BY <3>1, <3>3, SumSplits
    <3>5. SumFunctionOnSet(f, s \cap R) =
            (IF x \in R THEN f[x] ELSE 0) + SumFunctionOnSet(f, r \cap R)
      <4>1. /\ SumFunctionOnSet(f, r) \in Int /\ SumFunctionOnSet(f, r \cap R) \in Int
        BY <3>3, SumIsInt
      <4>2. CASE x \in R
        <5>1. (s \cap R) \ {x} = r \cap R /\ x \in s \cap R
          BY <3>1, <4>2
        <5>2. SumFunctionOnSet(f, s \cap R) = f[x] + SumFunctionOnSet(f, (s \cap R) \ {x})
          BY <3>3, <5>1, SumSplits
        <5> QED BY <4>2, <5>1, <5>2
      <4>3. CASE x \notin R
        <5>1. s \cap R = r \cap R
          BY <3>1, <4>3
        <5> QED BY <4>1, <4>3, <5>1
      <4> QED BY <4>2, <4>3
    <3>6. SumFunctionOnSet(f, r) \in Int /\ SumFunctionOnSet(f, r \cap R) \in Int
      BY <3>3, SumIsInt
    <3> HIDE DEF r
    <3>7. SumFunctionOnSet(f, s \cap R) <= SumFunctionOnSet(f, s)
      BY <3>2, <3>3, <3>4, <3>5, <3>6
    <3> QED BY <3>7
  <2> QED BY <2>1, <2>2
<1>2. \A s \in SUBSET S : s \in T
  <2> HIDE DEF T
  <2> QED BY <1>1, SubsetInduction
<1>3. SumFunctionOnSet(f, S \cap R) <= SumFunctionOnSet(f, S) /\ S \cap R = R
  BY <1>2
<1> QED BY <1>3
=============================================================================
