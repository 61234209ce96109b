------------------------- MODULE InductionTheorems -------------------------
(***************************************************************************)
(* Induction and recursion with sets and functions in the place of         *)
(* predicates and operators, so that first-order provers can use them.     *)
(***************************************************************************)
EXTENDS Integers, SequencesExt, FiniteSetTheorems, WellFoundedInduction, TLAPS

\* A nonempty set of naturals has a least element.
LEMMA LeastNatural ==
    ASSUME NEW S \in SUBSET Nat, S # {}
    PROVE  \E m \in S : \A n \in S : m <= n
<1> DEFINE R == OpToRel(<, Nat)
<1>1. IsWellFoundedOn(R, Nat)
  BY NatLessThanWellFounded
<1>2. R = {ss \in Nat \X Nat : ss[1] < ss[2]}
  BY Zenon DEF OpToRel
<1> HIDE DEF R
<1>3. PICK m \in S : \A n \in S : ~ (<<n, m>> \in R)
  BY <1>1, WFMin
<1>4. ASSUME NEW n \in S
      PROVE  m <= n
  <2>1. <<n, m>> \in Nat \X Nat /\ <<n, m>>[1] = n /\ <<n, m>>[2] = m
    OBVIOUS
  <2>2. ~ (n < m)
    BY <1>2, <1>3, <2>1
  <2> QED
    BY <2>2
<1> QED
  BY <1>4

\* A nonempty set of the first naturals has a greatest element.
LEMMA GreatestBelow ==
    ASSUME NEW n \in Nat, NEW T \in SUBSET (1 .. n), T # {}
    PROVE  Max(T) \in T /\ \A t \in T : t <= Max(T)
<1> DEFINE Below == {n - t : t \in T}
<1>1. Below \in SUBSET Nat /\ Below # {}
  OBVIOUS
<1>2. PICK m \in Below : \A k \in Below : m <= k
  BY <1>1, LeastNatural
<1>3. PICK t \in T : m = n - t
  BY <1>2
<1>4. \A s \in T : n - s \in Below
  OBVIOUS
<1> HIDE DEF Below
<1>5. \A s \in T : t >= s
  BY <1>2, <1>3, <1>4
<1>6. \E x \in T : \A y \in T : x >= y
  BY <1>5
<1>7. Max(T) \in T /\ \A y \in T : Max(T) >= y
  BY <1>6, Zenon DEF Max
<1> QED
  BY <1>7

\* Induction on the naturals, for the set of those that have a property.
LEMMA SetInduction ==
    ASSUME NEW S, 0 \in S, \A n \in Nat : n \in S => n + 1 \in S
    PROVE  \A n \in Nat : n \in S
<1> SUFFICES ASSUME Nat \ S # {} PROVE FALSE
  OBVIOUS
<1>1. PICK m \in Nat \ S : \A n \in Nat \ S : m <= n
  BY LeastNatural
<1>2. m # 0 /\ m - 1 \in Nat /\ ~ (m <= m - 1) /\ (m - 1) + 1 = m
  BY <1>1
<1>3. m - 1 \in S
  BY <1>1, <1>2
<1> QED
  BY <1>1, <1>2, <1>3

\* A way of picking an element of every nonempty part of a finite set.
Picks(pick, S) ==
    /\ IsFiniteSet(S)
    /\ \A T \in SUBSET S : T # {} => pick[T] \in T

\* A fold over the parts of S, that takes the picked element last.
FoldsOver(g, S, base, op, pick) ==
    /\ g[{}] = base
    /\ \A T \in SUBSET S : T # {} => g[T] = op[<<pick[T], g[T \ {pick[T]}]>>]

\* Every fold is well defined.
LEMMA FoldExists ==
    ASSUME NEW S, NEW V, NEW base, NEW op, NEW pick,
           Picks(pick, S), base \in V, op \in [S \X V -> V]
    PROVE  \E g \in [SUBSET S -> V] : FoldsOver(g, S, base, op, pick)
<1>0. IsFiniteSet(S) /\ \A T \in SUBSET S : T # {} => pick[T] \in T
  BY DEF Picks
<1> DEFINE Small(n) == {T \in SUBSET S : Cardinality(T) <= n}
           FoldsTo(g, n) == \A T \in Small(n) :
              g[T] = IF T = {} THEN base ELSE op[<<pick[T], g[T \ {pick[T]}]>>]
           Good == {n \in Nat : \E g \in [Small(n) -> V] : FoldsTo(g, n)}
<1>1. ASSUME NEW T \in SUBSET S
      PROVE  /\ IsFiniteSet(T) /\ Cardinality(T) \in Nat /\ (Cardinality(T) = 0 <=> T = {})
             /\ T # {} => /\ T \ {pick[T]} \in SUBSET S
                          /\ Cardinality(T \ {pick[T]}) = Cardinality(T) - 1
  <2>1. IsFiniteSet(T)
    BY <1>0, FS_Subset
  <2>2. Cardinality(T) \in Nat /\ (Cardinality(T) = 0 <=> T = {})
    BY <2>1, FS_CardinalityType, FS_EmptySet
  <2>3. ASSUME T # {} PROVE Cardinality(T \ {pick[T]}) = Cardinality(T) - 1
    BY <1>0, <2>1, <2>3, FS_RemoveElement
  <2> QED
    BY <1>0, <2>1, <2>2, <2>3
<1>2. ASSUME NEW T \in SUBSET S
      PROVE  T \in Small(0) <=> T = {}
  <2>1. Cardinality(T) \in Nat /\ (Cardinality(T) = 0 <=> T = {})
    BY <1>1
  <2>2. Cardinality(T) <= 0 <=> Cardinality(T) = 0
    BY <2>1
  <2> QED
    BY <2>1, <2>2
<1>3. ASSUME NEW n \in Nat, NEW T \in SUBSET S
      PROVE  /\ T \in Small(n) => T \in Small(n + 1)
             /\ (T \in Small(n + 1) /\ T # {}) => T \ {pick[T]} \in Small(n) /\ pick[T] \in S
  <2>1. Cardinality(T) \in Nat
    BY <1>1
  <2>2. T \in Small(n) => T \in Small(n + 1)
    BY <2>1
  <2>3. ASSUME T \in Small(n + 1), T # {} PROVE T \ {pick[T]} \in Small(n)
    <3>1. /\ T \ {pick[T]} \in SUBSET S /\ Cardinality(T) <= n + 1
          /\ Cardinality(T \ {pick[T]}) = Cardinality(T) - 1
      BY <1>1, <2>3
    <3>2. Cardinality(T \ {pick[T]}) <= n
      BY <2>1, <3>1
    <3> QED
      BY <3>1, <3>2
  <2> QED
    BY <1>0, <2>2, <2>3
<1>4. \A n \in Nat : Small(n) \subseteq SUBSET S
  OBVIOUS
<1>5. Small(Cardinality(S)) = SUBSET S
  BY <1>0, FS_Subset
<1> HIDE DEF Small
<1>6. 0 \in Good
  <2> DEFINE g == [T \in Small(0) |-> base]
  <2>1. \A T \in Small(0) : T = {}
    BY <1>2, <1>4
  <2>2. g \in [Small(0) -> V] /\ FoldsTo(g, 0)
    BY <2>1
  <2> QED
    BY <2>2
<1>7. ASSUME NEW n \in Nat, n \in Good PROVE n + 1 \in Good
  <2>1. PICK g \in [Small(n) -> V] : FoldsTo(g, n)
    BY <1>7
  <2> DEFINE Step(T) == IF T = {} THEN base ELSE op[<<pick[T], g[T \ {pick[T]}]>>]
             h == [T \in Small(n + 1) |-> Step(T)]
  <2>2. ASSUME NEW T \in Small(n + 1), T # {}
        PROVE  T \ {pick[T]} \in Small(n) /\ pick[T] \in S
    <3>1. T \in SUBSET S
      BY <1>4
    <3> QED
      BY <1>3, <2>2, <3>1
  <2>3. \A T \in Small(n) : T \in Small(n + 1) /\ h[T] = g[T]
    BY <1>3, <1>4, <2>1
  <2>4. ASSUME NEW T \in Small(n + 1) PROVE Step(T) \in V
    BY <2>2
  <2>5. h \in [Small(n + 1) -> V]
    BY <2>4
  <2>6. FoldsTo(h, n + 1)
    <3> SUFFICES ASSUME NEW T \in Small(n + 1)
                 PROVE  h[T] = IF T = {} THEN base ELSE op[<<pick[T], h[T \ {pick[T]}]>>]
      OBVIOUS
    <3>1. T # {} => h[T \ {pick[T]}] = g[T \ {pick[T]}]
      BY <2>2, <2>3
    <3>2. h[T] = Step(T)
      OBVIOUS
    <3> HIDE DEF h
    <3> QED
      BY <3>1, <3>2
  <2> HIDE DEF h, FoldsTo
  <2> QED
    BY <2>5, <2>6
<1> HIDE DEF Good
<1>8. Cardinality(S) \in Good
  BY <1>0, <1>6, <1>7, SetInduction, FS_CardinalityType
<1>9. PICK g \in [SUBSET S -> V] : FoldsTo(g, Cardinality(S))
  BY <1>5, <1>8 DEF Good
<1>10. {} \in Small(Cardinality(S))
  BY <1>5
<1> QED
  BY <1>5, <1>9, <1>10 DEF FoldsOver

\* Induction on the subsets of a finite set, one picked element at a time.
LEMMA SubsetInduction ==
    ASSUME NEW S, NEW pick, Picks(pick, S), NEW Good, {} \in Good,
           \A T \in SUBSET S : T # {} /\ T \ {pick[T]} \in Good => T \in Good
    PROVE  \A T \in SUBSET S : T \in Good
<1> DEFINE Sizes == {n \in Nat : \A T \in SUBSET S : Cardinality(T) = n => T \in Good}
<1>0. IsFiniteSet(S) /\ \A T \in SUBSET S : T # {} => pick[T] \in T
  BY DEF Picks
<1>1. ASSUME NEW T \in SUBSET S
      PROVE  /\ Cardinality(T) \in Nat /\ (Cardinality(T) = 0 <=> T = {})
             /\ T # {} => Cardinality(T \ {pick[T]}) = Cardinality(T) - 1
  <2>1. IsFiniteSet(T)
    BY <1>0, FS_Subset
  <2> QED
    BY <1>0, <2>1, FS_CardinalityType, FS_EmptySet, FS_RemoveElement
<1>2. 0 \in Sizes
  BY <1>1
<1>3. ASSUME NEW n \in Nat, n \in Sizes PROVE n + 1 \in Sizes
  <2> SUFFICES ASSUME NEW T \in SUBSET S, Cardinality(T) = n + 1 PROVE T \in Good
    OBVIOUS
  <2>1. T # {} /\ Cardinality(T \ {pick[T]}) = n /\ T \ {pick[T]} \in SUBSET S
    BY <1>1
  <2> QED
    BY <1>0, <1>3, <2>1
<1> HIDE DEF Sizes
<1>4. \A n \in Nat : n \in Sizes
  BY <1>2, <1>3, SetInduction
<1> QED
  BY <1>1, <1>4 DEF Sizes

----------------------------------------------------------------------------
(* Sums.                                                                   *)

\* The sums of a function over the parts of its domain, as SumFunction has them.
Sums(sum, fun, S) ==
    \A T \in SUBSET S :
        sum[T] = IF T = {} THEN 0
                 ELSE fun[CHOOSE x \in T : TRUE] + sum[T \ {CHOOSE x \in T : TRUE}]

\* SumFunction adds the values of a function, one chosen element at a time.
LEMMA SumUnfolds ==
    ASSUME NEW S, IsFiniteSet(S), NEW fun \in [S -> Int]
    PROVE  \E sum \in [SUBSET S -> Int] : SumFunction(fun) = sum[S] /\ Sums(sum, fun, S)
<1> DEFINE pick == [T \in SUBSET S |-> CHOOSE x \in T : TRUE]
           op == [xv \in S \X Int |-> fun[xv[1]] + xv[2]]
           Solves(g) == g = [s \in SUBSET DOMAIN fun |->
                               IF s = {} THEN 0
                               ELSE fun[CHOOSE x \in s : TRUE] + g[s \ {CHOOSE x \in s : TRUE}]]
<1>1. Picks(pick, S) /\ \A T \in SUBSET S : T # {} => pick[T] \in T
  BY DEF Picks
<1>2. op \in [S \X Int -> Int]
  OBVIOUS
<1>3. \A x \in S, v \in Int : op[<<x, v>>] = fun[x] + v
  OBVIOUS
<1>4. SumFunction(fun) = (CHOOSE g : Solves(g))[DOMAIN fun]
  BY Zenon DEF SumFunction, SumFunctionOnSet, FoldFunctionOnSet, MapThenFoldSet
<1>5. DOMAIN fun = S /\ \A T \in SUBSET S : pick[T] = CHOOSE x \in T : TRUE
  OBVIOUS
<1> HIDE DEF pick, op
<1>6. PICK g \in [SUBSET S -> Int] : FoldsOver(g, S, 0, op, pick)
  <2> HIDE DEF Solves
  <2>1. 0 \in Int
    OBVIOUS
  <2> QED
    BY <1>1, <1>2, <2>1, FoldExists
<1>7. \A T \in SUBSET S :
         g[T] = IF T = {} THEN 0 ELSE fun[pick[T]] + g[T \ {pick[T]}]
  <2>1. ASSUME NEW T \in SUBSET S, T # {}
        PROVE  g[T] = fun[pick[T]] + g[T \ {pick[T]}]
    <3>1. pick[T] \in S /\ g[T \ {pick[T]}] \in Int
      BY <1>1, <2>1
    <3>2. g[T] = op[<<pick[T], g[T \ {pick[T]}]>>]
      BY <1>6, <2>1 DEF FoldsOver
    <3> QED
      BY <1>3, <3>1, <3>2
  <2> QED
    BY <1>6, <2>1 DEF FoldsOver
<1>8. Solves(g)
  BY <1>5, <1>6, <1>7
<1> HIDE DEF Solves
<1>9. Solves(CHOOSE h : Solves(h))
  BY <1>8, Zenon
<1> DEFINE h == CHOOSE h : Solves(h)
           Same == {T \in SUBSET S : h[T] = g[T]}
<1>10. \A T \in SUBSET S :
          h[T] = IF T = {} THEN 0 ELSE fun[pick[T]] + h[T \ {pick[T]}]
  <2>1. Solves(h)
    BY <1>9
  <2> HIDE DEF h
  <2> QED
    BY <1>5, <2>1, ZenonT(30) DEF Solves
<1> HIDE DEF h
<1>11. {} \in Same
  BY <1>7, <1>10
<1>12. \A T \in SUBSET S : T # {} /\ T \ {pick[T]} \in Same => T \in Same
  BY <1>7, <1>10
<1>13. \A T \in SUBSET S : T \in Same
  <2> HIDE DEF Same
  <2> QED
    BY <1>1, <1>11, <1>12, SubsetInduction
<1>14. SumFunction(fun) = g[S]
  BY <1>4, <1>5, <1>13 DEF h
<1>15. \A T \in SUBSET S :
          g[T] = IF T = {} THEN 0
                 ELSE fun[CHOOSE x \in T : TRUE] + g[T \ {CHOOSE x \in T : TRUE}]
  BY <1>5, <1>7
<1> QED
  BY <1>14, <1>15 DEF Sums

\* The sum of a constant function.
LEMMA SumConstant ==
    ASSUME NEW S, IsFiniteSet(S), NEW c \in Int
    PROVE  SumFunction([x \in S |-> c]) = c * Cardinality(S)
<1> DEFINE fun == [x \in S |-> c]
           pick == [T \in SUBSET S |-> CHOOSE x \in T : TRUE]
<1>1. fun \in [S -> Int] /\ \A x \in S : fun[x] = c
  OBVIOUS
<1>2. Picks(pick, S) /\ \A T \in SUBSET S : pick[T] = CHOOSE x \in T : TRUE
  BY DEF Picks
<1> HIDE DEF fun, pick
<1>3. PICK sum \in [SUBSET S -> Int] : SumFunction(fun) = sum[S] /\ Sums(sum, fun, S)
  BY <1>1, SumUnfolds
<1> DEFINE Good == {T \in SUBSET S : sum[T] = c * Cardinality(T)}
<1>4. {} \in Good
  BY <1>3, FS_EmptySet DEF Sums
<1>5. ASSUME NEW T \in SUBSET S, T # {}, T \ {pick[T]} \in Good PROVE T \in Good
  <2>1. pick[T] \in T /\ IsFiniteSet(T)
    BY <1>2, <1>5, FS_Subset DEF Picks
  <2>2. /\ Cardinality(T \ {pick[T]}) = Cardinality(T) - 1 /\ Cardinality(T) \in Nat
    BY <2>1, FS_RemoveElement, FS_CardinalityType
  <2>3. sum[T] = fun[pick[T]] + sum[T \ {pick[T]}]
    BY <1>2, <1>3, <1>5 DEF Sums
  <2>4. fun[pick[T]] = c
    BY <1>1, <2>1
  <2>5. sum[T \ {pick[T]}] = c * (Cardinality(T) - 1)
    BY <1>5, <2>2
  <2>6. sum[T] = c * Cardinality(T)
    BY <2>2, <2>3, <2>4, <2>5
  <2> QED
    BY <2>6
<1>6. \A T \in SUBSET S : T \in Good
  <2> HIDE DEF Good
  <2> QED
    BY <1>2, <1>4, <1>5, SubsetInduction
<1> QED
  BY <1>3, <1>6 DEF fun

\* Changing one value changes the sum by as much.
LEMMA SumChange ==
    ASSUME NEW S, IsFiniteSet(S), NEW fun \in [S -> Int], NEW w \in S, NEW v \in Int
    PROVE  SumFunction([fun EXCEPT ![w] = v]) = (SumFunction(fun) - fun[w]) + v
<1> DEFINE new == [fun EXCEPT ![w] = v]
           pick == [T \in SUBSET S |-> CHOOSE x \in T : TRUE]
<1>1. new \in [S -> Int] /\ new[w] = v /\ \A x \in S \ {w} : new[x] = fun[x]
  OBVIOUS
<1>2. Picks(pick, S) /\ \A T \in SUBSET S : pick[T] = CHOOSE x \in T : TRUE
  BY DEF Picks
<1> HIDE DEF new, pick
<1>3. PICK sum \in [SUBSET S -> Int] : SumFunction(fun) = sum[S] /\ Sums(sum, fun, S)
  BY SumUnfolds
<1>4. PICK add \in [SUBSET S -> Int] : SumFunction(new) = add[S] /\ Sums(add, new, S)
  BY <1>1, SumUnfolds
<1> DEFINE Good == {T \in SUBSET S : add[T] = IF w \in T THEN (sum[T] - fun[w]) + v ELSE sum[T]}
<1>5. {} \in Good
  BY <1>3, <1>4 DEF Sums
<1>6. ASSUME NEW T \in SUBSET S, T # {}, T \ {pick[T]} \in Good PROVE T \in Good
  <2> DEFINE rest == T \ {pick[T]}
  <2>1. pick[T] \in T /\ pick[T] \in S /\ rest \in SUBSET S
    BY <1>2, <1>6 DEF Picks
  <2>2. sum[T] = fun[pick[T]] + sum[rest] /\ add[T] = new[pick[T]] + add[rest]
    BY <1>2, <1>3, <1>4, <1>6, ZenonT(30) DEF Sums
  <2>3. add[rest] = IF w \in rest THEN (sum[rest] - fun[w]) + v ELSE sum[rest]
    BY <1>6
  <2>4. w \in rest <=> w \in T /\ w # pick[T]
    OBVIOUS
  <2>5. /\ sum[rest] \in Int /\ add[rest] \in Int /\ sum[T] \in Int /\ fun[w] \in Int
        /\ fun[pick[T]] \in Int
    BY <2>1
  <2> HIDE DEF rest
  <2>6. CASE pick[T] = w
    <3>1. add[T] = v + sum[rest] /\ w \in T
      BY <1>1, <2>1, <2>2, <2>3, <2>4, <2>6
    <3> QED
      BY <2>2, <2>5, <2>6, <3>1
  <2>7. CASE pick[T] # w
    <3>1. new[pick[T]] = fun[pick[T]] /\ (w \in rest <=> w \in T)
      BY <1>1, <2>1, <2>4, <2>7
    <3>2. add[T] = IF w \in T THEN (sum[T] - fun[w]) + v ELSE sum[T]
      BY <2>2, <2>3, <2>5, <3>1
    <3> QED
      BY <3>2
  <2> QED
    BY <2>6, <2>7
<1>7. \A T \in SUBSET S : T \in Good
  <2> HIDE DEF Good
  <2> QED
    BY <1>2, <1>5, <1>6, SubsetInduction
<1> QED
  BY <1>3, <1>4, <1>7 DEF new

LEMMA SumType ==
    ASSUME NEW S, IsFiniteSet(S), NEW fun \in [S -> Int]
    PROVE  SumFunction(fun) \in Int
<1>1. PICK sum \in [SUBSET S -> Int] : SumFunction(fun) = sum[S]
  BY SumUnfolds
<1> QED
  BY <1>1

LEMMA SumEmpty ==
    ASSUME NEW fun \in [{} -> Int]
    PROVE  SumFunction(fun) = 0
<1>1. IsFiniteSet({})
  BY FS_EmptySet
<1>2. PICK sum \in [SUBSET {} -> Int] : SumFunction(fun) = sum[{}] /\ Sums(sum, fun, {})
  BY <1>1, SumUnfolds
<1> QED
  BY <1>2 DEF Sums

\* Any element of a part may be added last.
Commutes(sum, fun, S) ==
    \A T \in SUBSET S : \A y \in T : sum[T] = fun[y] + sum[T \ {y}]

\* The order in which the values are added does not matter.
LEMMA SumRemove ==
    ASSUME NEW S, IsFiniteSet(S), NEW fun \in [S -> Int], NEW sum \in [SUBSET S -> Int],
           Sums(sum, fun, S)
    PROVE  Commutes(sum, fun, S)
<1> DEFINE Removes(T) == \A y \in T : sum[T] = fun[y] + sum[T \ {y}]
           Good == {n \in Nat : \A T \in SUBSET S : Cardinality(T) = n => Removes(T)}
<1>1. ASSUME NEW T \in SUBSET S
      PROVE  /\ IsFiniteSet(T) /\ Cardinality(T) \in Nat
             /\ Cardinality(T) = 0 => T = {}
             /\ \A y \in T : Cardinality(T \ {y}) = Cardinality(T) - 1
  <2>1. IsFiniteSet(T)
    BY FS_Subset
  <2> QED
    BY <2>1, FS_CardinalityType, FS_EmptySet, FS_RemoveElement
<1>2. 0 \in Good
  BY <1>1
<1>3. ASSUME NEW n \in Nat, n \in Good PROVE n + 1 \in Good
  <2> SUFFICES ASSUME NEW T \in SUBSET S, Cardinality(T) = n + 1, NEW y \in T
               PROVE  sum[T] = fun[y] + sum[T \ {y}]
    OBVIOUS
  <2> DEFINE p == CHOOSE x \in T : TRUE
  <2>1. p \in T /\ sum[T] = fun[p] + sum[T \ {p}]
    BY DEF Sums
  <2> HIDE DEF p
  <2>2. CASE p = y
    BY <2>1, <2>2
  <2>3. CASE p # y
    <3>1. /\ T \ {p} \in SUBSET S /\ y \in T \ {p} /\ Cardinality(T \ {p}) = n
          /\ T \ {y} \in SUBSET S /\ p \in T \ {y} /\ Cardinality(T \ {y}) = n
      BY <1>1, <2>1, <2>3
    <3> DEFINE rest == (T \ {p}) \ {y}
    <3>2. rest = (T \ {y}) \ {p} /\ rest \in SUBSET S
      OBVIOUS
    <3>3. sum[T \ {p}] = fun[y] + sum[rest]
      BY <1>3, <3>1
    <3>4. sum[T \ {y}] = fun[p] + sum[rest]
      BY <1>3, <3>1, <3>2
    <3>5. fun[p] \in Int /\ fun[y] \in Int /\ sum[rest] \in Int
      BY <2>1, <3>2
    <3> HIDE DEF rest
    <3> QED
      BY <2>1, <3>3, <3>4, <3>5
  <2> QED
    BY <2>2, <2>3
<1> HIDE DEF Good
<1>4. \A n \in Nat : n \in Good
  BY <1>2, <1>3, SetInduction
<1> QED
  BY <1>1, <1>4 DEF Good, Commutes

\* A new element adds its value.
LEMMA SumExtend ==
    ASSUME NEW S, IsFiniteSet(S), NEW x, x \notin S, NEW fun \in [S \cup {x} -> Int],
           NEW part \in [S -> Int], \A y \in S : part[y] = fun[y]
    PROVE  SumFunction(fun) = SumFunction(part) + fun[x]
<1> DEFINE All == S \cup {x}
           pick == [T \in SUBSET S |-> CHOOSE y \in T : TRUE]
<1>1. IsFiniteSet(All) /\ S = All \ {x} /\ All \in SUBSET All /\ x \in All
  BY FS_AddElement
<1>2. part \in [S -> Int] /\ \A y \in S : part[y] = fun[y]
  OBVIOUS
<1>3. Picks(pick, S) /\ \A T \in SUBSET S : pick[T] = CHOOSE y \in T : TRUE
  BY DEF Picks
<1> HIDE DEF pick, All
<1>4. PICK sum \in [SUBSET All -> Int] : SumFunction(fun) = sum[All] /\ Sums(sum, fun, All)
  BY <1>1, SumUnfolds DEF All
<1>5. PICK add \in [SUBSET S -> Int] : SumFunction(part) = add[S] /\ Sums(add, part, S)
  BY <1>2, SumUnfolds
<1>6. sum[All] = fun[x] + sum[S]
  <2>1. fun \in [All -> Int]
    BY DEF All
  <2>2. Commutes(sum, fun, All)
    BY <1>1, <1>4, <2>1, SumRemove
  <2> QED
    BY <1>1, <2>2 DEF Commutes
<1> DEFINE Good == {T \in SUBSET S : sum[T] = add[T]}
<1>7. \A T \in SUBSET S : T \in SUBSET All
  BY DEF All
<1>8. {} \in Good
  BY <1>4, <1>5, <1>7 DEF Sums
<1>9. ASSUME NEW T \in SUBSET S, T # {}, T \ {pick[T]} \in Good PROVE T \in Good
  <2>1. /\ sum[T] = fun[pick[T]] + sum[T \ {pick[T]}]
        /\ add[T] = part[pick[T]] + add[T \ {pick[T]}]
    BY <1>3, <1>4, <1>5, <1>7, <1>9, ZenonT(30) DEF Sums
  <2>2. pick[T] \in S
    BY <1>3, <1>9 DEF Picks
  <2> QED
    BY <1>2, <1>9, <2>1, <2>2
<1>10. \A T \in SUBSET S : T \in Good
  <2> HIDE DEF Good
  <2> QED
    BY <1>3, <1>8, <1>9, SubsetInduction
<1>11. sum[S] = add[S] /\ sum[S] \in Int /\ fun[x] \in Int
  BY <1>7, <1>10 DEF All
<1> QED
  BY <1>4, <1>5, <1>6, <1>11

\* A value is another plus a multiple of a third, at every element.
Combines(h, f, c, g, S) == \A x \in S : h[x] = f[x] + c * g[x]

\* The sum of a linear combination is that combination of the sums.
LEMMA SumLinear ==
    ASSUME NEW S, IsFiniteSet(S), NEW c \in Int,
           NEW f \in [S -> Int], NEW g \in [S -> Int], NEW h \in [S -> Int],
           Combines(h, f, c, g, S)
    PROVE  SumFunction(h) = SumFunction(f) + c * SumFunction(g)
<1> DEFINE pick == [T \in SUBSET S |-> CHOOSE x \in T : TRUE]
<1>1. Picks(pick, S) /\ \A T \in SUBSET S : pick[T] = CHOOSE x \in T : TRUE
  BY DEF Picks
<1> HIDE DEF pick
<1>2. PICK sf \in [SUBSET S -> Int] : SumFunction(f) = sf[S] /\ Sums(sf, f, S)
  BY SumUnfolds
<1>3. PICK sg \in [SUBSET S -> Int] : SumFunction(g) = sg[S] /\ Sums(sg, g, S)
  BY SumUnfolds
<1>4. PICK sh \in [SUBSET S -> Int] : SumFunction(h) = sh[S] /\ Sums(sh, h, S)
  BY SumUnfolds
<1> DEFINE Good == {T \in SUBSET S : sh[T] = sf[T] + c * sg[T]}
<1>5. {} \in Good
  <2>1. sf[{}] = 0 /\ sg[{}] = 0 /\ sh[{}] = 0
    BY <1>2, <1>3, <1>4 DEF Sums
  <2>2. c * 0 = 0
    OBVIOUS
  <2> QED
    BY <2>1, <2>2
<1>6. ASSUME NEW T \in SUBSET S, T # {}, T \ {pick[T]} \in Good PROVE T \in Good
  <2> DEFINE p == pick[T]
             rest == T \ {p}
  <2>1. p \in S /\ rest \in SUBSET S
    BY <1>1, <1>6 DEF Picks
  <2>2. sf[T] = f[p] + sf[rest] /\ sg[T] = g[p] + sg[rest] /\ sh[T] = h[p] + sh[rest]
    BY <1>1, <1>2, <1>3, <1>4, <1>6, ZenonT(30) DEF Sums
  <2>3. sh[rest] = sf[rest] + c * sg[rest]
    BY <1>6
  <2>4. f[p] \in Int /\ g[p] \in Int /\ sf[rest] \in Int /\ sg[rest] \in Int
    BY <2>1
  <2>5. h[p] = f[p] + c * g[p]
    BY <2>1 DEF Combines
  <2> HIDE DEF p, rest
  <2>6. c * (g[p] + sg[rest]) = c * g[p] + c * sg[rest]
    BY <2>4
  <2>7. c * g[p] \in Int /\ c * sg[rest] \in Int
    BY <2>4
  <2>8. sh[T] = sf[T] + c * sg[T]
    BY <2>2, <2>3, <2>4, <2>5, <2>6, <2>7
  <2> QED
    BY <2>8
<1>7. \A T \in SUBSET S : T \in Good
  <2> HIDE DEF Good
  <2> QED
    BY <1>1, <1>5, <1>6, SubsetInduction
<1> QED
  BY <1>2, <1>3, <1>4, <1>7

\* Zeros add nothing.
LEMMA SumPad ==
    ASSUME NEW U, IsFiniteSet(U), NEW S \in SUBSET U, NEW fun \in [U -> Int],
           NEW part \in [S -> Int], \A x \in S : part[x] = fun[x],
           \A x \in U \ S : fun[x] = 0
    PROVE  SumFunction(fun) = SumFunction(part)
<1> DEFINE pick == [T \in SUBSET U |-> CHOOSE x \in T : TRUE]
<1>1. Picks(pick, U) /\ \A T \in SUBSET U : pick[T] = CHOOSE x \in T : TRUE
  BY DEF Picks
<1> HIDE DEF pick
<1>2. IsFiniteSet(S)
  BY FS_Subset
<1>3. PICK sum \in [SUBSET U -> Int] : SumFunction(fun) = sum[U] /\ Sums(sum, fun, U)
  BY SumUnfolds
<1>4. PICK add \in [SUBSET S -> Int] : SumFunction(part) = add[S] /\ Sums(add, part, S)
  BY <1>2, SumUnfolds
<1>5. Commutes(add, part, S)
  BY <1>2, <1>4, SumRemove
<1> DEFINE Good == {T \in SUBSET U : sum[T] = add[T \cap S]}
<1>6. {} \in Good
  <2>1. sum[{}] = 0 /\ add[{}] = 0 /\ {} \cap S = {}
    BY <1>3, <1>4 DEF Sums
  <2> QED
    BY <2>1
<1>7. ASSUME NEW T \in SUBSET U, T # {}, T \ {pick[T]} \in Good PROVE T \in Good
  <2> DEFINE p == pick[T]
             rest == (T \ {p}) \cap S
  <2>1. p \in T /\ rest \in SUBSET S /\ T \cap S \in SUBSET S
    BY <1>1, <1>7 DEF Picks
  <2>2. sum[T] = fun[p] + add[rest]
    <3>1. sum[T] = fun[p] + sum[T \ {p}]
      BY <1>1, <1>3, <1>7 DEF Sums
    <3>2. sum[T \ {p}] = add[rest]
      BY <1>7
    <3> HIDE DEF rest, p
    <3> QED
      BY <3>1, <3>2
  <2>3. fun[p] \in Int /\ add[rest] \in Int /\ add[T \cap S] \in Int
    BY <2>1
  <2>6. rest = (T \ {p}) \cap S
    OBVIOUS
  <2>7. T \in Good <=> sum[T] = add[T \cap S]
    OBVIOUS
  <2> HIDE DEF p, rest, Good
  <2>4. CASE p \notin S
    <3>1. rest = T \cap S
      BY <2>1, <2>4, <2>6
    <3>2. fun[p] = 0
      BY <2>1, <2>4
    <3> QED
      BY <2>2, <2>3, <2>7, <3>1, <3>2
  <2>5. CASE p \in S
    <3>1. rest = (T \cap S) \ {p} /\ p \in T \cap S /\ fun[p] = part[p]
      BY <2>1, <2>5, <2>6
    <3>2. add[T \cap S] = part[p] + add[rest]
      BY <1>5, <2>1, <3>1 DEF Commutes
    <3> QED
      BY <2>2, <2>7, <3>1, <3>2
  <2> QED
    BY <2>4, <2>5
<1>8. \A T \in SUBSET U : T \in Good
  <2> HIDE DEF Good
  <2> QED
    BY <1>1, <1>6, <1>7, SubsetInduction
<1>9. sum[U] = add[U \cap S] /\ U \cap S = S
  BY <1>8
<1> QED
  BY <1>3, <1>4, <1>9
============================================================================
