-------------------------------- MODULE Sums --------------------------------
(***************************************************************************)
(* Facts about SumFunctionOnSet, the sum of a function's values over a     *)
(* finite set, that the proofs of budgets need: what one member more adds, *)
(* and that a sum of smaller terms is smaller. The sum takes the members   *)
(* in the order CHOOSE gives; the facts show that the order is immaterial. *)
(*                                                                         *)
(* Induction is by least counterexamples, as sets: WFMin gives the one     *)
(* with the fewest members.                                                *)
(***************************************************************************)
EXTENDS Integers, Functions, FiniteSetTheorems, TLAPS

-----------------------------------------------------------------------------
(* The sum is what its recursive definition says *)

\* The sum over s, from the sums g of smaller sets.
OneMore(f, g, s) == IF s = {} THEN 0 ELSE LET x == CHOOSE x \in s : TRUE IN f[x] + g[s \ {x}]

Sums(f, g, D) == g = [s \in D |-> OneMore(f, g, s)]

LEMMA NatMin ==
  ASSUME NEW T, T \subseteq Nat, T # {}
  PROVE  \E x \in T : \A y \in T : x <= y
<1> DEFINE R == {ss \in Nat \X Nat : ss[1] < ss[2]}
<1>1. IsWellFoundedOn(R, Nat)
  BY NatLessThanWellFounded DEF OpToRel
<1> HIDE DEF R
<1>2. PICK x \in T : \A y \in T : ~(<<y, x>> \in R)
  BY <1>1, WFMin
<1>3. \A y \in T : x <= y
  <2> TAKE y \in T
  <2>1. x \in Nat /\ y \in Nat
    OBVIOUS
  <2>2. ~(y < x)
    BY <1>2, <2>1 DEF R
  <2> QED
    BY <2>1, <2>2
<1> QED
  BY <1>3

LEMMA NatMax ==
  ASSUME NEW T, T \subseteq Nat, T # {}, NEW n \in Nat, \A x \in T : x <= n
  PROVE  \E x \in T : \A y \in T : x >= y
<1> DEFINE gaps == {n - x : x \in T}
<1>1. gaps \subseteq Nat /\ gaps # {}
  <2>1. \A x \in T : n - x \in Nat
    <3> TAKE x \in T
    <3>1. x \in Nat /\ x <= n
      OBVIOUS
    <3> QED
      BY <3>1
  <2>2. PICK x \in T : TRUE
    OBVIOUS
  <2>3. n - x \in gaps
    OBVIOUS
  <2> QED
    BY <2>1, <2>3
<1>2. PICK gap \in gaps : \A other \in gaps : gap <= other
  <2> HIDE DEF gaps
  <2> QED
    BY <1>1, NatMin
<1>3. PICK x \in T : gap = n - x
  OBVIOUS
<1>4. \A y \in T : x >= y
  <2> TAKE y \in T
  <2>1. n - x <= n - y
    BY <1>2, <1>3
  <2> QED
    BY <2>1
<1> QED
  BY <1>4

LEMMA SumDef == \A f, S : SumFunctionOnSet(f, S) = (CHOOSE g : Sums(f, g, SUBSET S))[S]
BY DEF Sums, OneMore, SumFunctionOnSet, FoldFunctionOnSet, MapThenFoldSet

\* Up to any number of members there is a function that fits the definition.
LEMMA SumsExist ==
  ASSUME NEW f, NEW S, IsFiniteSet(S) PROVE \E g : Sums(f, g, SUBSET S)
<1> DEFINE Small(n) == {s \in SUBSET S : Cardinality(s) <= n}
           Bad == {n \in Nat : ~\E g : Sums(f, g, Small(n))}
<1>0. \A s \in SUBSET S : IsFiniteSet(s) /\ Cardinality(s) \in Nat
  BY FS_Subset, FS_CardinalityType
<1>1. \A n \in Nat : \E g : Sums(f, g, Small(n))
  <2> SUFFICES ASSUME Bad # {} PROVE FALSE
    OBVIOUS
  <2>1. PICK n \in Bad : \A m \in Bad : n <= m
    <3> HIDE DEF Bad
    <3>1. Bad \subseteq Nat
      BY DEF Bad
    <3> QED
      BY <3>1, NatMin
  <2>2. n \in Nat
    OBVIOUS
  <2>3. CASE n = 0
    <3>1. Small(0) = {{}}
      <4>1. \A s \in SUBSET S : Cardinality(s) <= 0 <=> s = {}
        BY <1>0, FS_EmptySet
      <4> QED
        BY <4>1
    <3>2. Sums(f, [s \in {{}} |-> 0], Small(0))
      BY <3>1 DEF Sums, OneMore
    <3> QED
      BY <2>3, <3>2
  <2>4. CASE n > 0
    <3>1. PICK g : Sums(f, g, Small(n - 1))
      <4>1. n - 1 \in Nat /\ ~(n <= n - 1)
        BY <2>2, <2>4
      <4> HIDE DEF Small
      <4>2. n - 1 \notin Bad
        <5> HIDE DEF Bad
        <5> QED
          BY <2>1, <4>1
      <4> QED
        BY <4>1, <4>2
    <3> DEFINE h == [s \in Small(n) |-> OneMore(f, g, s)]
    <3>2. \A s \in Small(n - 1) : h[s] = g[s]
      <4>1. \A s \in Small(n - 1) : s \in Small(n)
        BY <1>0, <2>2
      <4> QED
        BY <3>1, <4>1 DEF Sums
    <3>3. \A s \in Small(n) : s # {} => s \ {CHOOSE x \in s : TRUE} \in Small(n - 1)
      <4> TAKE s \in Small(n)
      <4> HAVE s # {}
      <4> DEFINE x == CHOOSE x \in s : TRUE
      <4>1. x \in s /\ s \in SUBSET S
        OBVIOUS
      <4> HIDE DEF x
      <4>2. Cardinality(s \ {x}) = Cardinality(s) - 1
        BY <1>0, <4>1, FS_RemoveElement
      <4>3. s \ {x} \in SUBSET S /\ Cardinality(s) \in Nat /\ Cardinality(s) <= n
        BY <1>0, <4>1
      <4>4. Cardinality(s) - 1 <= n - 1
        BY <4>3, <2>2
      <4>5. s \ {x} \in Small(n - 1)
        BY <4>2, <4>3, <4>4
      <4> QED
        BY <4>5 DEF x
    <3>4. Sums(f, h, Small(n))
      <4>1. \A s \in Small(n) : OneMore(f, g, s) = OneMore(f, h, s)
        <5> HIDE DEF Small, h
        <5> QED
          BY <3>2, <3>3 DEF OneMore
      <4> QED
        BY <4>1 DEF Sums
    <3> QED
      BY <3>4
  <2> QED
    BY <2>2, <2>3, <2>4
<1>2. Small(Cardinality(S)) = SUBSET S
  <2>1. \A s \in SUBSET S : Cardinality(s) <= Cardinality(S)
    BY FS_Subset
  <2> QED
    BY <2>1
<1>3. Cardinality(S) \in Nat
  BY FS_CardinalityType
<1> HIDE DEF Small
<1>4. \E g : Sums(f, g, Small(Cardinality(S)))
  BY <1>1, <1>3
<1> QED
  BY <1>2, <1>4

Agree(g, h, s) == g[s] = h[s]

\* The sums over the subsets of S and of a part of it are the same.
LEMMA SumsAgree ==
  ASSUME NEW f, NEW S, IsFiniteSet(S), NEW U, U \subseteq S, NEW g, NEW h,
         Sums(f, g, SUBSET S), Sums(f, h, SUBSET U)
  PROVE  Agree(g, h, U)
<1> DEFINE Bad == {s \in SUBSET U : g[s] # h[s]}
           n(s) == Cardinality(s)
<1>0. IsFiniteSet(U)
  BY FS_Subset
<1> SUFFICES ASSUME Bad # {} PROVE FALSE
  BY DEF Agree
<1>1. PICK s \in Bad : \A t \in Bad : <<t, s>> \notin StrictSubsetOrdering(U)
  <2>1. Bad \subseteq FiniteSubsetsOf(U)
    BY <1>0, FS_Subset DEF FiniteSubsetsOf
  <2> HIDE DEF Bad
  <2> QED
    BY <2>1, FS_StrictSubsetOrderingWellFounded, WFMin
<1>2. s \in SUBSET U /\ s \in SUBSET S
  OBVIOUS
<1>3. g[s] = OneMore(f, g, s)
  BY <1>2 DEF Sums
<1>4. h[s] = OneMore(f, h, s)
  BY <1>2 DEF Sums
<1>5. s # {}
  BY <1>3, <1>4 DEF OneMore
<1> DEFINE x == CHOOSE x \in s : TRUE
<1>6. x \in s
  BY <1>5
<1> HIDE DEF x
<1>7. g[s \ {x}] = h[s \ {x}]
  <2>1. <<s \ {x}, s>> \in StrictSubsetOrdering(U)
    BY <1>2, <1>6 DEF StrictSubsetOrdering
  <2>2. s \ {x} \in SUBSET U
    BY <1>2
  <2> QED
    BY <1>1, <2>1, <2>2
<1> QED
  BY <1>3, <1>4, <1>5, <1>7 DEF x, OneMore

LEMMA SumChosen ==
  ASSUME NEW f, NEW S, IsFiniteSet(S)
  PROVE  SumFunctionOnSet(f, S) =
           IF S = {} THEN 0 ELSE LET x == CHOOSE x \in S : TRUE IN f[x] + SumFunctionOnSet(f, S \ {x})
<1> DEFINE g == CHOOSE g : Sums(f, g, SUBSET S)
<1>1. Sums(f, g, SUBSET S)
  BY SumsExist
<1>2. SumFunctionOnSet(f, S) = g[S]
  BY SumDef
<1> HIDE DEF g
<1>3. g[S] = OneMore(f, g, S)
  BY <1>1 DEF Sums
<1>4. ASSUME NEW x \in S PROVE g[S \ {x}] = SumFunctionOnSet(f, S \ {x})
  <2>1. S \ {x} \subseteq S /\ IsFiniteSet(S \ {x})
    BY FS_Subset
  <2>2. PICK h : h = CHOOSE k : Sums(f, k, SUBSET (S \ {x}))
    OBVIOUS
  <2>3. Sums(f, h, SUBSET (S \ {x}))
    BY <2>1, <2>2, SumsExist
  <2>4. SumFunctionOnSet(f, S \ {x}) = h[S \ {x}]
    BY <2>2, SumDef
  <2>5. Agree(g, h, S \ {x})
    BY <1>1, <2>1, <2>3, SumsAgree
  <2> QED
    BY <2>4, <2>5 DEF Agree
<1>5. S # {} => (CHOOSE x \in S : TRUE) \in S
  OBVIOUS
<1> QED
  BY <1>2, <1>3, <1>4, <1>5 DEF OneMore

-----------------------------------------------------------------------------
(* What sums are like *)

LEMMA SumEmpty == \A f : SumFunctionOnSet(f, {}) = 0
<1> TAKE f
<1>1. IsFiniteSet({})
  BY FS_EmptySet
<1> QED
  BY <1>1, SumChosen

\* What holds of a set if it holds of the set without any one of its members
\* holds of every finite set.
LEMMA SubsetInduction ==
  ASSUME NEW S, IsFiniteSet(S), NEW Good,
         \A T \in SUBSET S : (\A x \in T : T \ {x} \in Good) => T \in Good
  PROVE  S \in Good
<1> DEFINE Bad == {T \in SUBSET S : T \notin Good}
<1>1. Bad \subseteq FiniteSubsetsOf(S)
  BY FS_Subset DEF FiniteSubsetsOf
<1> SUFFICES ASSUME Bad # {} PROVE FALSE
  OBVIOUS
<1>2. PICK T \in Bad : \A U \in Bad : <<U, T>> \notin StrictSubsetOrdering(S)
  <2> HIDE DEF Bad
  <2> QED
    BY <1>1, FS_StrictSubsetOrderingWellFounded, WFMin
<1>3. ASSUME NEW x \in T PROVE T \ {x} \in Good
  <2>1. <<T \ {x}, T>> \in StrictSubsetOrdering(S) /\ T \ {x} \in SUBSET S
    BY DEF StrictSubsetOrdering
  <2> QED
    BY <1>2, <2>1
<1> QED
  BY <1>3

LEMMA SumType ==
  ASSUME NEW S, IsFiniteSet(S), NEW f, \A x \in S : f[x] \in Nat
  PROVE  SumFunctionOnSet(f, S) \in Nat
<1> DEFINE Good == {T \in SUBSET S : SumFunctionOnSet(f, T) \in Nat}
<1>1. ASSUME NEW T \in SUBSET S, \A x \in T : T \ {x} \in Good PROVE T \in Good
  <2>1. SumFunctionOnSet(f, T) =
          IF T = {} THEN 0 ELSE LET x == CHOOSE x \in T : TRUE IN f[x] + SumFunctionOnSet(f, T \ {x})
    BY FS_Subset, SumChosen
  <2>2. \A x \in T : f[x] \in Nat /\ SumFunctionOnSet(f, T \ {x}) \in Nat
    BY <1>1
  <2>3. CASE T = {}
    BY <2>1, <2>3
  <2>4. CASE T # {}
    <3>1. PICK x \in T : SumFunctionOnSet(f, T) = f[x] + SumFunctionOnSet(f, T \ {x})
      BY <2>1, <2>4
    <3>2. f[x] \in Nat /\ SumFunctionOnSet(f, T \ {x}) \in Nat
      BY <2>2
    <3> QED
      BY <3>1, <3>2
  <2> QED
    BY <2>3, <2>4
<1> HIDE DEF Good
<1>2. S \in Good
  BY <1>1, SubsetInduction
<1> QED
  BY <1>2 DEF Good

\* The order does not matter.
LEMMA SumSplit ==
  ASSUME NEW S, IsFiniteSet(S), NEW f, \A x \in S : f[x] \in Nat, NEW x \in S
  PROVE  SumFunctionOnSet(f, S) = f[x] + SumFunctionOnSet(f, S \ {x})
<1> DEFINE Good == {T \in SUBSET S :
             \A y \in T : SumFunctionOnSet(f, T) = f[y] + SumFunctionOnSet(f, T \ {y})}
<1>1. ASSUME NEW T \in SUBSET S, \A y \in T : T \ {y} \in Good PROVE T \in Good
  <2> SUFFICES ASSUME NEW y \in T PROVE SumFunctionOnSet(f, T) = f[y] + SumFunctionOnSet(f, T \ {y})
    OBVIOUS
  <2>1. PICK z \in T : SumFunctionOnSet(f, T) = f[z] + SumFunctionOnSet(f, T \ {z})
    <3>1. IsFiniteSet(T) /\ T # {} /\ (CHOOSE z \in T : TRUE) \in T
      BY FS_Subset
    <3>2. SumFunctionOnSet(f, T) =
            IF T = {} THEN 0 ELSE LET z == CHOOSE z \in T : TRUE IN f[z] + SumFunctionOnSet(f, T \ {z})
      BY <3>1, SumChosen
    <3> QED
      BY <3>1, <3>2
  <2>2. CASE y # z
    <3>1. SumFunctionOnSet(f, T \ {z}) = f[y] + SumFunctionOnSet(f, (T \ {z}) \ {y})
      <4>1. T \ {z} \in Good /\ y \in T \ {z}
        BY <1>1, <2>2
      <4> QED
        BY <4>1
    <3>2. SumFunctionOnSet(f, T \ {y}) = f[z] + SumFunctionOnSet(f, (T \ {y}) \ {z})
      <4>1. T \ {y} \in Good /\ z \in T \ {y}
        BY <1>1, <2>2
      <4> QED
        BY <4>1
    <3>3. (T \ {z}) \ {y} = (T \ {y}) \ {z}
      OBVIOUS
    <3>4. f[y] \in Nat /\ f[z] \in Nat /\ SumFunctionOnSet(f, (T \ {y}) \ {z}) \in Nat
      <4>1. IsFiniteSet((T \ {y}) \ {z}) /\ \A w \in (T \ {y}) \ {z} : f[w] \in Nat
        BY FS_Subset
      <4> QED
        BY <4>1, SumType
    <3> QED
      BY <2>1, <3>1, <3>2, <3>3, <3>4
  <2> QED
    BY <2>1, <2>2
<1> HIDE DEF Good
<1>2. S \in Good
  BY <1>1, SubsetInduction
<1> QED
  BY <1>2 DEF Good

\* Smaller terms have a smaller sum.
LEMMA SumLeq ==
  ASSUME NEW S, IsFiniteSet(S), NEW f, NEW g,
         \A x \in S : f[x] \in Nat /\ g[x] \in Nat /\ f[x] <= g[x]
  PROVE  SumFunctionOnSet(f, S) <= SumFunctionOnSet(g, S)
<1> DEFINE Good == {T \in SUBSET S : SumFunctionOnSet(f, T) <= SumFunctionOnSet(g, T)}
<1>1. ASSUME NEW T \in SUBSET S, \A y \in T : T \ {y} \in Good PROVE T \in Good
  <2>1. IsFiniteSet(T)
    BY FS_Subset
  <2>2. CASE T = {}
    BY <2>2, SumEmpty
  <2>3. CASE T # {}
    <3>1. PICK x \in T : TRUE
      BY <2>3
    <3>2. /\ SumFunctionOnSet(f, T) = f[x] + SumFunctionOnSet(f, T \ {x})
          /\ SumFunctionOnSet(g, T) = g[x] + SumFunctionOnSet(g, T \ {x})
      BY <2>1, SumSplit
    <3>3. SumFunctionOnSet(f, T \ {x}) <= SumFunctionOnSet(g, T \ {x})
      BY <1>1
    <3>4. SumFunctionOnSet(f, T \ {x}) \in Nat /\ SumFunctionOnSet(g, T \ {x}) \in Nat
      <4>1. IsFiniteSet(T \ {x})
        BY <2>1, FS_Subset
      <4> QED
        BY <4>1, SumType
    <3>5. f[x] \in Nat /\ g[x] \in Nat /\ f[x] <= g[x]
      OBVIOUS
    <3> QED
      BY <3>2, <3>3, <3>4, <3>5
  <2> QED
    BY <2>2, <2>3
<1> HIDE DEF Good
<1>2. S \in Good
  BY <1>1, SubsetInduction
<1> QED
  BY <1>2 DEF Good

\* One member more.
LEMMA SumAdd ==
  ASSUME NEW S, IsFiniteSet(S), NEW x, x \notin S, NEW f, \A y \in S \union {x} : f[y] \in Nat
  PROVE  SumFunctionOnSet(f, S \union {x}) = f[x] + SumFunctionOnSet(f, S)
<1>1. IsFiniteSet(S \union {x}) /\ (S \union {x}) \ {x} = S
  BY FS_AddElement
<1>2. SumFunctionOnSet(f, S \union {x}) = f[x] + SumFunctionOnSet(f, (S \union {x}) \ {x})
  BY <1>1, SumSplit
<1> QED
  BY <1>1, <1>2

\* Only the values on the set count.
LEMMA SumSame ==
  ASSUME NEW S, IsFiniteSet(S), NEW f, NEW g, \A x \in S : f[x] \in Nat /\ g[x] = f[x]
  PROVE  SumFunctionOnSet(g, S) = SumFunctionOnSet(f, S)
<1>1. /\ SumFunctionOnSet(f, S) <= SumFunctionOnSet(g, S)
      /\ SumFunctionOnSet(g, S) <= SumFunctionOnSet(f, S)
  BY SumLeq
<1>2. SumFunctionOnSet(f, S) \in Nat /\ SumFunctionOnSet(g, S) \in Nat
  BY SumType
<1> QED
  BY <1>1, <1>2


LEMMA SumZero ==
  ASSUME NEW S, IsFiniteSet(S), NEW f, \A x \in S : f[x] = 0
  PROVE  SumFunctionOnSet(f, S) = 0
<1> DEFINE Good == {T \in SUBSET S : SumFunctionOnSet(f, T) = 0}
<1>1. ASSUME NEW T \in SUBSET S, \A y \in T : T \ {y} \in Good PROVE T \in Good
  <2>1. IsFiniteSet(T)
    BY FS_Subset
  <2>2. CASE T = {}
    BY <2>2, SumEmpty
  <2>3. CASE T # {}
    <3>1. PICK x \in T : TRUE
      BY <2>3
    <3>2. SumFunctionOnSet(f, T) = f[x] + SumFunctionOnSet(f, T \ {x})
      BY <2>1, SumSplit
    <3> QED
      BY <1>1, <3>1, <3>2
  <2> QED
    BY <2>2, <2>3
<1>2. S \in Good
  <2> HIDE DEF Good
  <2> QED
    BY <1>1, SubsetInduction
<1> QED
  BY <1>2


\* Terms may be summed apart.
LEMMA SumPlus ==
  ASSUME NEW S, IsFiniteSet(S), NEW f, NEW g, NEW h,
         \A x \in S : f[x] \in Nat /\ g[x] \in Nat /\ h[x] = f[x] + g[x]
  PROVE  SumFunctionOnSet(h, S) = SumFunctionOnSet(f, S) + SumFunctionOnSet(g, S)
<1> DEFINE Good == {T \in SUBSET S :
             SumFunctionOnSet(h, T) = SumFunctionOnSet(f, T) + SumFunctionOnSet(g, T)}
<1>1. ASSUME NEW T \in SUBSET S, \A y \in T : T \ {y} \in Good PROVE T \in Good
  <2>1. IsFiniteSet(T)
    BY FS_Subset
  <2>2. CASE T = {}
    BY <2>2, SumEmpty
  <2>3. CASE T # {}
    <3>1. PICK x \in T : TRUE
      BY <2>3
    <3>2. /\ SumFunctionOnSet(f, T) = f[x] + SumFunctionOnSet(f, T \ {x})
          /\ SumFunctionOnSet(g, T) = g[x] + SumFunctionOnSet(g, T \ {x})
          /\ SumFunctionOnSet(h, T) = h[x] + SumFunctionOnSet(h, T \ {x})
      BY <2>1, SumSplit
    <3>3. /\ SumFunctionOnSet(f, T \ {x}) \in Nat /\ SumFunctionOnSet(g, T \ {x}) \in Nat
          /\ SumFunctionOnSet(h, T \ {x}) \in Nat
      <4>1. /\ IsFiniteSet(T \ {x})
            /\ \A y \in T \ {x} : f[y] \in Nat /\ g[y] \in Nat /\ h[y] \in Nat
        BY <2>1, FS_Subset
      <4> QED
        BY <4>1, SumType
    <3>4. SumFunctionOnSet(h, T \ {x}) =
            SumFunctionOnSet(f, T \ {x}) + SumFunctionOnSet(g, T \ {x})
      BY <1>1, <3>1
    <3>5. f[x] \in Nat /\ g[x] \in Nat /\ h[x] = f[x] + g[x]
      BY <3>1
    <3> QED
      BY <3>2, <3>3, <3>4, <3>5
  <2> QED
    BY <2>2, <2>3
<1>2. S \in Good
  <2> HIDE DEF Good
  <2> QED
    BY <1>1, SubsetInduction
<1> QED
  BY <1>2

\* S falls into a part for each i in I, where h puts its members; their sums.
PartSums(f, h, S, I) == [i \in I |-> SumFunctionOnSet(f, {x \in S : h[x] = i})]

\* A sum over a set is the sum, over the parts it falls into, of their sums.
LEMMA SumFibres ==
  ASSUME NEW S, IsFiniteSet(S), NEW I, IsFiniteSet(I), NEW f, \A x \in S : f[x] \in Nat,
         NEW h, \A x \in S : h[x] \in I
  PROVE  SumFunctionOnSet(f, S) = SumFunctionOnSet(PartSums(f, h, S, I), I)
<1> DEFINE Part(T, i) == {x \in T : h[x] = i}
           F(T) == [i \in I |-> SumFunctionOnSet(f, Part(T, i))]
           Good == {T \in SUBSET S : SumFunctionOnSet(f, T) = SumFunctionOnSet(F(T), I)}
<1>1. \A T \in SUBSET S : \A i \in I : F(T)[i] \in Nat
  <2> TAKE T \in SUBSET S
  <2> TAKE i \in I
  <2>1. IsFiniteSet(Part(T, i)) /\ \A x \in Part(T, i) : f[x] \in Nat
    BY FS_Subset
  <2> HIDE DEF Part
  <2> QED
    BY <2>1, SumType
<1>2. ASSUME NEW T \in SUBSET S, \A y \in T : T \ {y} \in Good PROVE T \in Good
  <2>1. IsFiniteSet(T)
    BY FS_Subset
  <2>2. CASE T = {}
    <3>1. \A i \in I : F(T)[i] = 0
      <4> TAKE i \in I
      <4>1. Part(T, i) = {}
        BY <2>2
      <4> HIDE DEF Part
      <4> QED
        BY <4>1, SumEmpty
    <3> HIDE DEF F
    <3>2. SumFunctionOnSet(F(T), I) = 0
      BY <3>1, SumZero
    <3> QED
      BY <2>2, <3>2, SumEmpty
  <2>3. CASE T # {}
    <3>1. PICK x \in T : TRUE
      BY <2>3
    <3> DEFINE U == T \ {x}
               j == h[x]
    <3>2. x \in S /\ j \in I /\ f[x] \in Nat /\ U \in SUBSET S /\ IsFiniteSet(U) /\ U \in Good
      BY <1>2, <2>1, <3>1, FS_Subset
    <3>3. SumFunctionOnSet(f, T) = f[x] + SumFunctionOnSet(f, U)
      BY <2>1, <3>1, SumSplit
    <3>4. F(T)[j] = f[x] + F(U)[j]
      <4>1. /\ IsFiniteSet(Part(T, j)) /\ x \in Part(T, j) /\ Part(T, j) \ {x} = Part(U, j)
            /\ \A y \in Part(T, j) : f[y] \in Nat
        BY <2>1, <3>1, FS_Subset
      <4> HIDE DEF Part, U
      <4>2. SumFunctionOnSet(f, Part(T, j)) = f[x] + SumFunctionOnSet(f, Part(T, j) \ {x})
        BY <4>1, SumSplit
      <4> QED
        BY <3>2, <4>1, <4>2
    <3>5. \A i \in I \ {j} : F(T)[i] = F(U)[i]
      <4> TAKE i \in I \ {j}
      <4>1. Part(T, i) = Part(U, i)
        OBVIOUS
      <4> HIDE DEF Part, U
      <4> QED
        BY <4>1
    <3>6. (\A i \in I : F(T)[i] \in Nat) /\ (\A i \in I : F(U)[i] \in Nat)
      BY <1>1, <3>2
    <3> HIDE DEF F, U, j
    <3>7. /\ SumFunctionOnSet(F(T), I) = F(T)[j] + SumFunctionOnSet(F(T), I \ {j})
          /\ SumFunctionOnSet(F(U), I) = F(U)[j] + SumFunctionOnSet(F(U), I \ {j})
      BY <3>2, <3>6, SumSplit
    <3>8. /\ SumFunctionOnSet(F(T), I \ {j}) = SumFunctionOnSet(F(U), I \ {j})
          /\ SumFunctionOnSet(F(U), I \ {j}) \in Nat
      <4>1. IsFiniteSet(I \ {j}) /\ \A i \in I \ {j} : F(U)[i] \in Nat /\ F(T)[i] = F(U)[i]
        BY <3>5, <3>6, FS_Subset
      <4> QED
        BY <4>1, SumSame, SumType
    <3>9. SumFunctionOnSet(f, U) = SumFunctionOnSet(F(U), I)
      BY <3>2
    <3>10. SumFunctionOnSet(f, T) = SumFunctionOnSet(F(T), I)
      BY <3>2, <3>3, <3>4, <3>6, <3>7, <3>8, <3>9
    <3> QED
      BY <3>10
  <2> QED
    BY <2>2, <2>3
<1>3. S \in Good
  <2> HIDE DEF Good
  <2> QED
    BY <1>2, SubsetInduction
<1>4. F(S) = PartSums(f, h, S, I)
  BY DEF PartSums
<1> QED
  BY <1>3, <1>4


\* Over two sets that share nothing the sum is that of both sums.
LEMMA SumUnion ==
  ASSUME NEW S, IsFiniteSet(S), NEW T, IsFiniteSet(T), S \intersect T = {},
         NEW f, \A x \in S \union T : f[x] \in Nat
  PROVE  SumFunctionOnSet(f, S \union T) = SumFunctionOnSet(f, S) + SumFunctionOnSet(f, T)
<1> DEFINE All == S \union T
           h == [x \in All |-> IF x \in S THEN 0 ELSE 1]
           g == PartSums(f, h, All, {0, 1})
<1>1. /\ IsFiniteSet(All) /\ IsFiniteSet({0, 1}) /\ IsFiniteSet({1})
      /\ {0, 1} \ {0} = {1} /\ {1} \ {1} = {}
  <2>1. IsFiniteSet({0}) /\ IsFiniteSet({1}) /\ {0, 1} = {0} \union {1}
    BY FS_Singleton
  <2>2. IsFiniteSet(S \union T) /\ IsFiniteSet({0} \union {1})
    BY <2>1, FS_Union
  <2>3. {0, 1} \ {0} = {1} /\ {1} \ {1} = {}
    OBVIOUS
  <2> QED
    BY <2>1, <2>2, <2>3
<1>2. {x \in All : h[x] = 0} = S /\ {x \in All : h[x] = 1} = T
  OBVIOUS
<1>3. g[0] = SumFunctionOnSet(f, S) /\ g[1] = SumFunctionOnSet(f, T)
  <2> HIDE DEF h, All
  <2> QED
    BY <1>2 DEF PartSums
<1>4. g[0] \in Nat /\ g[1] \in Nat
  BY <1>3, SumType
<1>5. SumFunctionOnSet(f, All) = SumFunctionOnSet(g, {0, 1})
  <2>1. (\A x \in All : f[x] \in Nat) /\ (\A x \in All : h[x] \in {0, 1})
    OBVIOUS
  <2> HIDE DEF h, All
  <2> QED
    BY <1>1, <2>1, SumFibres
<1> HIDE DEF g
<1>6. SumFunctionOnSet(g, {0, 1}) = g[0] + SumFunctionOnSet(g, {1})
  <2>1. SumFunctionOnSet(g, {0, 1}) = g[0] + SumFunctionOnSet(g, {0, 1} \ {0})
    BY <1>1, <1>4, SumSplit
  <2> QED
    BY <1>1, <2>1
<1>7. SumFunctionOnSet(g, {1}) = g[1] + 0
  <2>1. SumFunctionOnSet(g, {1}) = g[1] + SumFunctionOnSet(g, {1} \ {1})
    BY <1>1, <1>4, SumSplit
  <2> QED
    BY <1>1, <2>1, SumEmpty
<1> QED
  BY <1>3, <1>4, <1>5, <1>6, <1>7

=============================================================================
