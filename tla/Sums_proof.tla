----------------------------- MODULE Sums_proof -----------------------------
(***************************************************************************)
(* Induction over the natural numbers, and the total of the values of a    *)
(* function with a finite domain (SumFunction): the order in which its     *)
(* recursion takes the elements does not matter, and a change of one value *)
(* changes the total by as much.                                           *)
(***************************************************************************)
EXTENDS Integers, Functions, FiniteSets, FiniteSetTheorems, WellFoundedInduction, TLAPS

-----------------------------------------------------------------------------
(* Induction over the natural numbers, for sets. *)

LEMMA LeastNumber ==
  ASSUME NEW S \in SUBSET Nat, S # {}
  PROVE  \E x \in S : \A y \in S : x <= y
<1> DEFINE R == OpToRel(<, Nat)
<1>1. IsWellFoundedOn(R, Nat)
  BY NatLessThanWellFounded
<1>2. \A x, y \in Nat : x < y => <<x, y>> \in R
  BY DEF OpToRel
<1> HIDE DEF R
<1>3. PICK x \in S : \A y \in S : ~ (<<y, x>> \in R)
  BY <1>1, WFMin
<1>4. ASSUME NEW y \in S PROVE x <= y
  <2>1. x \in Nat /\ y \in Nat /\ ~(y < x)
    BY <1>2, <1>3
  <2> QED
    BY <2>1
<1> QED
  BY <1>4

LEMMA SetInduction ==
  ASSUME NEW S, 0 \in S, \A n \in Nat : n \in S => n + 1 \in S
  PROVE  Nat \subseteq S
<1> SUFFICES ASSUME Nat \ S # {} PROVE FALSE
  OBVIOUS
<1>1. PICK x \in Nat \ S : \A y \in Nat \ S : x <= y
  <2>1. Nat \ S \in SUBSET Nat
    OBVIOUS
  <2> QED
    BY <2>1, LeastNumber
<1>2. x # 0
  OBVIOUS
<1>3. x - 1 \in Nat /\ ~(x <= x - 1) /\ (x - 1) + 1 = x
  BY <1>2
<1>4. x - 1 \in S
  BY <1>1, <1>3
<1> QED
  BY <1>3, <1>4

\* A family of finite sets that holds the empty set, and with a set every set of
\* one element more, holds every finite set of the kind considered.
LEMMA FiniteInduction ==
  ASSUME NEW D, IsFiniteSet(D), NEW F, {} \in F,
         \A s \in SUBSET D : s # {} /\ (\A x \in s : s \ {x} \in F) => s \in F
  PROVE  \A s \in SUBSET D : s \in F
<1> DEFINE S == {n \in Nat : \A s \in SUBSET D : Cardinality(s) = n => s \in F}
<1>1. 0 \in S
  <2> SUFFICES ASSUME NEW s \in SUBSET D, Cardinality(s) = 0 PROVE s \in F
    OBVIOUS
  <2>1. IsFiniteSet(s)
    BY FS_Subset
  <2>2. s = {}
    BY <2>1, FS_EmptySet
  <2> QED
    BY <2>2
<1>2. ASSUME NEW n \in Nat, n \in S PROVE n + 1 \in S
  <2> SUFFICES ASSUME NEW s \in SUBSET D, Cardinality(s) = n + 1 PROVE s \in F
    OBVIOUS
  <2>1. IsFiniteSet(s)
    BY FS_Subset
  <2>2. s # {}
    <3>1. Cardinality({}) = 0
      BY FS_EmptySet
    <3> QED
      BY <3>1
  <2>3. ASSUME NEW x \in s PROVE s \ {x} \in F
    <3>1. Cardinality(s \ {x}) = Cardinality(s) - 1
      BY <2>1, FS_RemoveElement
    <3>2. Cardinality(s \ {x}) = n /\ s \ {x} \in SUBSET D
      BY <3>1
    <3> QED
      BY <1>2, <3>2
  <2> QED
    BY <2>2, <2>3
<1>3. Nat \subseteq S
  <2> HIDE DEF S
  <2> QED
    BY <1>1, <1>2, SetInduction
<1>4. ASSUME NEW s \in SUBSET D PROVE s \in F
  <2>1. IsFiniteSet(s)
    BY FS_Subset
  <2>2. Cardinality(s) \in Nat
    BY <2>1, FS_CardinalityType
  <2> QED
    BY <1>3, <2>2
<1> QED
  BY <1>4

-----------------------------------------------------------------------------
(* The recursion of SumFunction and the function it defines. *)

Pick(s) == CHOOSE x \in s : TRUE
OneMore(f, s, it) == IF s = {} THEN 0 ELSE f[Pick(s)] + it[s \ {Pick(s)}]
Totals(f) == CHOOSE it : it = [s \in SUBSET (DOMAIN f) |-> OneMore(f, s, it)]

LEMMA SumIsTotal ==
  ASSUME NEW f
  PROVE  SumFunction(f) = Totals(f)[DOMAIN f]
BY DEF SumFunction, SumFunctionOnSet, FoldFunctionOnSet, MapThenFoldSet, Totals, OneMore, Pick

LEMMA PickIsIn ==
  ASSUME NEW s, s # {}
  PROVE  Pick(s) \in s
BY DEF Pick

\* The recursion for the sets of at most n elements
Level(D, n) == {s \in SUBSET D : Cardinality(s) <= n}
UpTo(f, n, it) == it = [s \in Level(DOMAIN f, n) |-> OneMore(f, s, it)]

LEMMA OneLess ==
  ASSUME NEW D, IsFiniteSet(D), NEW s \in SUBSET D, s # {}
  PROVE  /\ Pick(s) \in s /\ s \ {Pick(s)} \in SUBSET D
         /\ Cardinality(s) \in Nat \ {0}
         /\ Cardinality(s \ {Pick(s)}) = Cardinality(s) - 1
<1>1. IsFiniteSet(s)
  BY FS_Subset
<1>2. Pick(s) \in s
  BY PickIsIn
<1>3. Cardinality(s) \in Nat /\ Cardinality(s) # 0
  BY <1>1, FS_CardinalityType, FS_EmptySet
<1>4. Cardinality(s \ {Pick(s)}) = Cardinality(s) - 1
  BY <1>1, <1>2, FS_RemoveElement
<1> QED
  BY <1>2, <1>3, <1>4

LEMMA UpToExists ==
  ASSUME NEW f, IsFiniteSet(DOMAIN f)
  PROVE  \A n \in Nat : \E it : UpTo(f, n, it)
<1> DEFINE D == DOMAIN f
           S == {n \in Nat : \E it : UpTo(f, n, it)}
<1>1. 0 \in S
  <2> DEFINE it == [s \in Level(D, 0) |-> 0]
  <2>1. ASSUME NEW s \in Level(D, 0) PROVE OneMore(f, s, it) = 0
    <3>1. s \in SUBSET D /\ Cardinality(s) <= 0
      BY DEF Level
    <3>2. s = {}
      <4> SUFFICES ASSUME s # {} PROVE FALSE
        OBVIOUS
      <4>1. Cardinality(s) \in Nat \ {0}
        BY <3>1, OneLess
      <4> QED
        BY <3>1, <4>1
    <3> QED
      BY <3>2 DEF OneMore
  <2>2. it = [s \in Level(D, 0) |-> OneMore(f, s, it)]
    BY <2>1
  <2> QED
    BY <2>2 DEF UpTo
<1>2. ASSUME NEW n \in Nat, n \in S PROVE n + 1 \in S
  <2>1. PICK it : UpTo(f, n, it)
    BY <1>2
  <2> DEFINE jt == [s \in Level(D, n + 1) |-> OneMore(f, s, it)]
  <2>2. ASSUME NEW s \in Level(D, n) PROVE jt[s] = it[s]
    <3>1. it[s] = OneMore(f, s, it)
      BY <2>1 DEF UpTo
    <3>2. s \in Level(D, n + 1)
      <4>1. s \in SUBSET D /\ Cardinality(s) <= n
        BY DEF Level
      <4>2. IsFiniteSet(s)
        BY <4>1, FS_Subset
      <4>3. Cardinality(s) \in Nat
        BY <4>2, FS_CardinalityType
      <4> QED
        BY <4>1, <4>3 DEF Level
    <3> QED
      BY <3>1, <3>2
  <2>3. ASSUME NEW s \in Level(D, n + 1)
        PROVE  OneMore(f, s, jt) = OneMore(f, s, it)
    <3>1. s \in SUBSET D /\ Cardinality(s) <= n + 1
      BY DEF Level
    <3>2. CASE s = {}
      BY <3>2 DEF OneMore
    <3>3. CASE s # {}
      <4>1. s \ {Pick(s)} \in Level(D, n)
        BY <3>1, <3>3, OneLess DEF Level
      <4>2. jt[s \ {Pick(s)}] = it[s \ {Pick(s)}]
        BY <4>1, <2>2
      <4> QED
        BY <4>2 DEF OneMore
    <3> QED
      BY <3>2, <3>3
  <2>4. jt = [s \in Level(D, n + 1) |-> OneMore(f, s, jt)]
    BY <2>3
  <2>5. UpTo(f, n + 1, jt)
    BY <2>4 DEF UpTo
  <2> HIDE DEF jt
  <2> QED
    BY <2>5
<1> HIDE DEF S
<1>3. Nat \subseteq S
  BY <1>1, <1>2, SetInduction
<1> QED
  BY <1>3 DEF S

\* What the recursion gives for every part of the domain
LEMMA TotalsAre ==
  ASSUME NEW f, IsFiniteSet(DOMAIN f)
  PROVE  \A s \in SUBSET (DOMAIN f) : Totals(f)[s] = OneMore(f, s, Totals(f))
<1> DEFINE D == DOMAIN f
<1>1. Cardinality(D) \in Nat
  BY FS_CardinalityType
<1>2. Level(D, Cardinality(D)) = SUBSET D
  <2>1. ASSUME NEW s \in SUBSET D PROVE Cardinality(s) <= Cardinality(D)
    BY FS_Subset
  <2> QED
    BY <2>1 DEF Level
<1>3. PICK it : UpTo(f, Cardinality(D), it)
  BY <1>1, UpToExists
<1>4. it = [s \in SUBSET D |-> OneMore(f, s, it)]
  BY <1>2, <1>3 DEF UpTo
<1>5. Totals(f) = [s \in SUBSET D |-> OneMore(f, s, Totals(f))]
  BY <1>4 DEF Totals
<1> QED
  BY <1>5

-----------------------------------------------------------------------------
(* What SumFunction returns. *)

LEMMA TotalsInt ==
  ASSUME NEW f, IsFiniteSet(DOMAIN f), \A x \in DOMAIN f : f[x] \in Int
  PROVE  \A s \in SUBSET (DOMAIN f) : Totals(f)[s] \in Int
<1> DEFINE D == DOMAIN f
           F == {s \in SUBSET D : Totals(f)[s] \in Int}
<1>1. {} \in F
  <2>1. Totals(f)[{}] = 0
    BY TotalsAre DEF OneMore
  <2> QED
    BY <2>1
<1>2. ASSUME NEW s \in SUBSET D, s # {}, \A x \in s : s \ {x} \in F
      PROVE  s \in F
  <2>1. Pick(s) \in s
    BY <1>2, PickIsIn
  <2>2. Totals(f)[s] = f[Pick(s)] + Totals(f)[s \ {Pick(s)}]
    BY <1>2, TotalsAre DEF OneMore
  <2>3. f[Pick(s)] \in Int /\ Totals(f)[s \ {Pick(s)}] \in Int
    BY <1>2, <2>1
  <2> QED
    BY <2>2, <2>3
<1>3. \A s \in SUBSET D : s \in F
  <2> HIDE DEF F
  <2> QED
    BY <1>1, <1>2, FiniteInduction
<1> QED
  BY <1>3

\* Any element may be taken first.
LEMMA TotalsSplit ==
  ASSUME NEW f, IsFiniteSet(DOMAIN f), \A x \in DOMAIN f : f[x] \in Int
  PROVE  \A s \in SUBSET (DOMAIN f) : \A x \in s : Totals(f)[s] = f[x] + Totals(f)[s \ {x}]
<1> DEFINE D == DOMAIN f
           T(s) == Totals(f)[s]
           F == {s \in SUBSET D : \A x \in s : T(s) = f[x] + T(s \ {x})}
<1>1. {} \in F
  OBVIOUS
<1>2. ASSUME NEW s \in SUBSET D, s # {}, \A x \in s : s \ {x} \in F
      PROVE  s \in F
  <2> SUFFICES ASSUME NEW x \in s PROVE T(s) = f[x] + T(s \ {x})
    OBVIOUS
  <2> DEFINE y == Pick(s)
  <2>1. y \in s
    BY <1>2, PickIsIn
  <2>2. T(s) = f[y] + T(s \ {y})
    BY <1>2, TotalsAre DEF OneMore
  <2> HIDE DEF y
  <2>3. CASE x = y
    BY <2>2, <2>3
  <2>4. CASE x # y
    <3>1. x \in s \ {y} /\ y \in s \ {x} /\ (s \ {y}) \ {x} = (s \ {x}) \ {y}
      BY <2>1, <2>4
    <3>2. T(s \ {y}) = f[x] + T((s \ {y}) \ {x})
      BY <1>2, <2>1, <3>1
    <3>3. T(s \ {x}) = f[y] + T((s \ {x}) \ {y})
      BY <1>2, <3>1
    <3>4. f[x] \in Int /\ f[y] \in Int /\ T((s \ {y}) \ {x}) \in Int
      BY <2>1, TotalsInt
    <3>5. T((s \ {y}) \ {x}) = T((s \ {x}) \ {y})
      BY <3>1
    <3> HIDE DEF T
    <3> QED
      BY <2>2, <3>2, <3>3, <3>4, <3>5
  <2> QED
    BY <2>3, <2>4
<1>3. \A s \in SUBSET D : s \in F
  <2> HIDE DEF F
  <2> QED
    BY <1>1, <1>2, FiniteInduction
<1> QED
  BY <1>3

\* Only the values at the elements taken count.
LEMMA TotalsAgree ==
  ASSUME NEW f, NEW g, IsFiniteSet(DOMAIN f), IsFiniteSet(DOMAIN g),
         NEW d \in SUBSET (DOMAIN f), d \subseteq DOMAIN g, \A x \in d : f[x] = g[x]
  PROVE  Totals(f)[d] = Totals(g)[d]
<1> DEFINE F == {s \in SUBSET d : Totals(f)[s] = Totals(g)[s]}
<1>1. {} \in F
  BY TotalsAre DEF OneMore
<1>2. ASSUME NEW s \in SUBSET d, s # {}, \A x \in s : s \ {x} \in F
      PROVE  s \in F
  <2>1. Pick(s) \in s
    BY <1>2, PickIsIn
  <2>2. Totals(f)[s] = f[Pick(s)] + Totals(f)[s \ {Pick(s)}]
    BY <1>2, TotalsAre DEF OneMore
  <2>3. Totals(g)[s] = g[Pick(s)] + Totals(g)[s \ {Pick(s)}]
    BY <1>2, TotalsAre DEF OneMore
  <2>4. f[Pick(s)] = g[Pick(s)] /\ Totals(f)[s \ {Pick(s)}] = Totals(g)[s \ {Pick(s)}]
    BY <1>2, <2>1
  <2> QED
    BY <2>2, <2>3, <2>4
<1>3. IsFiniteSet(d)
  BY FS_Subset
<1>4. \A s \in SUBSET d : s \in F
  <2> HIDE DEF F
  <2> QED
    BY <1>1, <1>2, <1>3, FiniteInduction
<1> QED
  BY <1>4


Summable(f) == IsFiniteSet(DOMAIN f) /\ \A x \in DOMAIN f : f[x] \in Int

LEMMA SumEmpty ==
  ASSUME NEW f, DOMAIN f = {}
  PROVE  SumFunction(f) = 0
BY SumIsTotal, TotalsAre, FS_EmptySet DEF OneMore

LEMMA SumInt ==
  ASSUME NEW f, Summable(f)
  PROVE  SumFunction(f) \in Int
BY SumIsTotal, TotalsInt DEF Summable

\* The total without one element
LEMMA SumSplit ==
  ASSUME NEW f, Summable(f), NEW x \in DOMAIN f,
         NEW g, DOMAIN g = DOMAIN f \ {x}, \A y \in DOMAIN g : g[y] = f[y]
  PROVE  SumFunction(f) = f[x] + SumFunction(g)
<1> DEFINE D == DOMAIN f
<1>1. SumFunction(f) = f[x] + Totals(f)[D \ {x}]
  <2>1. \A s \in SUBSET D : \A u \in s : Totals(f)[s] = f[u] + Totals(f)[s \ {u}]
    BY TotalsSplit, Zenon DEF Summable
  <2>2. Totals(f)[D] = f[x] + Totals(f)[D \ {x}]
    BY <2>1
  <2> QED
    BY <2>2, SumIsTotal
<1>2. IsFiniteSet(D) /\ IsFiniteSet(D \ {x})
  BY FS_Subset DEF Summable
<1>3. Totals(f)[D \ {x}] = Totals(g)[D \ {x}]
  BY <1>2, TotalsAgree
<1>4. SumFunction(g) = Totals(g)[D \ {x}]
  BY SumIsTotal
<1> QED
  BY <1>1, <1>3, <1>4

\* One value changed
LEMMA SumChange ==
  ASSUME NEW f, Summable(f), NEW g, Summable(g), DOMAIN g = DOMAIN f,
         NEW x \in DOMAIN f, \A y \in DOMAIN f : y # x => g[y] = f[y]
  PROVE  SumFunction(g) = (SumFunction(f) - f[x]) + g[x]
<1> DEFINE h == [y \in DOMAIN f \ {x} |-> f[y]]
<1>1. SumFunction(f) = f[x] + SumFunction(h)
  BY SumSplit
<1>2. SumFunction(g) = g[x] + SumFunction(h)
  BY SumSplit
<1>3. IsFiniteSet(DOMAIN f \ {x})
  BY FS_Subset DEF Summable
<1>4. SumFunction(h) \in Int
  <2>1. Summable(h)
    BY <1>3 DEF Summable
  <2> QED
    BY <2>1, SumInt
<1>5. f[x] \in Int /\ g[x] \in Int
  BY DEF Summable
<1> HIDE DEF h
<1> QED
  BY <1>1, <1>2, <1>4, <1>5

\* The same values
LEMMA SumSame ==
  ASSUME NEW f, IsFiniteSet(DOMAIN f), NEW g, DOMAIN g = DOMAIN f,
         \A x \in DOMAIN f : g[x] = f[x]
  PROVE  SumFunction(g) = SumFunction(f)
BY SumIsTotal, TotalsAgree

\* A total of totals may be taken in either order, and a sum term by term.
LEMMA SumPlus ==
  ASSUME NEW f, Summable(f), NEW g, Summable(g), DOMAIN g = DOMAIN f,
         NEW h, Summable(h), DOMAIN h = DOMAIN f, \A x \in DOMAIN f : h[x] = f[x] + g[x]
  PROVE  SumFunction(h) = SumFunction(f) + SumFunction(g)
<1> DEFINE D == DOMAIN f
           F == {s \in SUBSET D : Totals(h)[s] = Totals(f)[s] + Totals(g)[s]}
<1>1. {} \in F
  <2>1. Totals(h)[{}] = 0 /\ Totals(f)[{}] = 0 /\ Totals(g)[{}] = 0
    BY TotalsAre DEF OneMore, Summable
  <2> QED
    BY <2>1
<1>2. ASSUME NEW s \in SUBSET D, s # {}, \A x \in s : s \ {x} \in F
      PROVE  s \in F
  <2>1. PICK x \in s : TRUE
    BY <1>2
  <2> DEFINE r == s \ {x}
  <2>2. Totals(f)[s] = f[x] + Totals(f)[r]
    BY TotalsSplit DEF Summable
  <2>3. Totals(g)[s] = g[x] + Totals(g)[r]
    BY TotalsSplit DEF Summable
  <2>4. Totals(h)[s] = h[x] + Totals(h)[r]
    BY TotalsSplit DEF Summable
  <2>5. Totals(h)[r] = Totals(f)[r] + Totals(g)[r]
    BY <1>2
  <2>6. Totals(f)[r] \in Int /\ Totals(g)[r] \in Int
    BY TotalsInt DEF Summable
  <2>7. f[x] \in Int /\ g[x] \in Int /\ h[x] = f[x] + g[x]
    BY DEF Summable
  <2>8. Totals(h)[s] = Totals(f)[s] + Totals(g)[s]
    <3> HIDE DEF r
    <3> QED
      BY <2>2, <2>3, <2>4, <2>5, <2>6, <2>7
  <2> QED
    BY <2>8
<1>3. \A s \in SUBSET D : s \in F
  <2>1. IsFiniteSet(D)
    BY DEF Summable
  <2> HIDE DEF F
  <2> QED
    BY <1>1, <1>2, <2>1, FiniteInduction
<1>4. D \in F
  BY <1>3
<1> QED
  BY <1>4, SumIsTotal

\* Larger values have a larger total.
LEMMA SumMonotone ==
  ASSUME NEW f, Summable(f), NEW g, Summable(g), DOMAIN g = DOMAIN f,
         \A x \in DOMAIN f : f[x] <= g[x]
  PROVE  SumFunction(f) <= SumFunction(g)
<1> DEFINE D == DOMAIN f
           F == {s \in SUBSET D : Totals(f)[s] <= Totals(g)[s]}
<1>1. {} \in F
  <2>1. Totals(f)[{}] = 0 /\ Totals(g)[{}] = 0
    BY TotalsAre DEF OneMore, Summable
  <2> QED
    BY <2>1
<1>2. ASSUME NEW s \in SUBSET D, s # {}, \A x \in s : s \ {x} \in F
      PROVE  s \in F
  <2>1. PICK x \in s : TRUE
    BY <1>2
  <2> DEFINE r == s \ {x}
  <2>2. Totals(f)[s] = f[x] + Totals(f)[r]
    BY TotalsSplit DEF Summable
  <2>3. Totals(g)[s] = g[x] + Totals(g)[r]
    BY TotalsSplit DEF Summable
  <2>4. Totals(f)[r] <= Totals(g)[r]
    BY <1>2
  <2>5. Totals(f)[r] \in Int /\ Totals(g)[r] \in Int
    BY TotalsInt DEF Summable
  <2>6. f[x] \in Int /\ g[x] \in Int /\ f[x] <= g[x]
    BY DEF Summable
  <2>7. Totals(f)[s] <= Totals(g)[s]
    <3> HIDE DEF r
    <3> QED
      BY <2>2, <2>3, <2>4, <2>5, <2>6
  <2> QED
    BY <2>7
<1>3. \A s \in SUBSET D : s \in F
  <2>1. IsFiniteSet(D)
    BY DEF Summable
  <2> HIDE DEF F
  <2> QED
    BY <1>1, <1>2, <2>1, FiniteInduction
<1>4. D \in F
  BY <1>3
<1> QED
  BY <1>4, SumIsTotal

\* Nothing adds up to nothing.
LEMMA SumZero ==
  ASSUME NEW f, IsFiniteSet(DOMAIN f), \A x \in DOMAIN f : f[x] = 0
  PROVE  SumFunction(f) = 0
<1> DEFINE D == DOMAIN f
           F == {s \in SUBSET D : Totals(f)[s] = 0}
<1>1. {} \in F
  BY TotalsAre DEF OneMore
<1>2. ASSUME NEW s \in SUBSET D, s # {}, \A x \in s : s \ {x} \in F
      PROVE  s \in F
  <2>1. PICK x \in s : TRUE
    BY <1>2
  <2>2. Totals(f)[s] = f[x] + Totals(f)[s \ {x}]
    BY TotalsSplit
  <2> QED
    BY <1>2, <2>2
<1>3. \A s \in SUBSET D : s \in F
  <2> HIDE DEF F
  <2> QED
    BY <1>1, <1>2, FiniteInduction
<1> QED
  BY <1>3, SumIsTotal
\* Terms that are zero may be left out.
LEMMA SumSubset ==
  ASSUME NEW f, Summable(f), NEW A \in SUBSET (DOMAIN f), \A x \in DOMAIN f : x \notin A => f[x] = 0,
         NEW g, DOMAIN g = A, \A x \in A : g[x] = f[x]
  PROVE  SumFunction(g) = SumFunction(f)
<1> DEFINE D == DOMAIN f
           F == {s \in SUBSET D : Totals(f)[s] = Totals(f)[s \cap A]}
<1>1. IsFiniteSet(D) /\ \A x \in D : f[x] \in Int
  BY DEF Summable
<1>2. {} \in F
  <2>1. {} \cap A = {}
    OBVIOUS
  <2> QED
    BY <2>1
<1>3. ASSUME NEW s \in SUBSET D, s # {}, \A x \in s : s \ {x} \in F
      PROVE  s \in F
  <2>1. PICK x \in s : TRUE
    BY <1>3
  <2>2. Totals(f)[s] = f[x] + Totals(f)[s \ {x}]
    BY <1>1, TotalsSplit
  <2>3. Totals(f)[s \ {x}] = Totals(f)[(s \ {x}) \cap A]
    BY <1>3, <2>1
  <2>4. CASE x \in A
    <3>1. (s \ {x}) \cap A = (s \cap A) \ {x} /\ x \in s \cap A /\ s \cap A \in SUBSET D
      BY <2>4
    <3>2. Totals(f)[s \cap A] = f[x] + Totals(f)[(s \cap A) \ {x}]
      BY <1>1, <3>1, TotalsSplit
    <3> QED
      BY <2>2, <2>3, <3>1, <3>2
  <2>5. CASE x \notin A
    <3>1. (s \ {x}) \cap A = s \cap A /\ s \cap A \in SUBSET D
      BY <2>5
    <3>2. f[x] = 0
      BY <2>5
    <3>3. Totals(f)[s \cap A] \in Int
      BY <1>1, <3>1, TotalsInt
    <3>4. PICK n \in Int : n = Totals(f)[s \cap A]
      BY <3>3
    <3>5. Totals(f)[s] = 0 + n
      BY <2>2, <2>3, <3>1, <3>2, <3>4
    <3>6. 0 + n = n
      OBVIOUS
    <3> QED
      BY <3>4, <3>5, <3>6
  <2> QED
    BY <2>4, <2>5
<1> HIDE DEF F
<1>4. \A s \in SUBSET D : s \in F
  BY <1>1, <1>2, <1>3, FiniteInduction
<1>5. D \cap A = A /\ D \in SUBSET D
  OBVIOUS
<1>6. Totals(f)[D] = Totals(f)[A]
  BY <1>4, <1>5 DEF F
<1>7. IsFiniteSet(A)
  BY <1>1, FS_Subset
<1>8. Totals(f)[A] = Totals(g)[A]
  BY <1>1, <1>7, TotalsAgree
<1> QED
  BY <1>6, <1>8, SumIsTotal

=============================================================================
