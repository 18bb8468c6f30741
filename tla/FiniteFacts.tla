------------------------------ MODULE FiniteFacts ------------------------------
(***************************************************************************)
(* Lemmas about finite sets that the proofs share: the largest element of  *)
(* a set of numbers, which the models use for the next cursor, number or   *)
(* revision; the least member of a family of sets, which stands for an     *)
(* induction over their sizes; the sum of a function over a set; an        *)
(* injection into a set that is no smaller; and induction over the         *)
(* naturals, with the functions it defines.                                *)
(***************************************************************************)
EXTENDS Integers, FiniteSetsExt, Functions, FiniteSetTheorems, TLAPS

(* The largest element.  A set of naturals below n has one: its distance   *)
(* from n is least, and < is well-founded on the naturals.                 *)
LEMMA LargestBelow ==
  ASSUME NEW n \in Nat, NEW S, S \subseteq 0..n, S # {}
  PROVE  \E x \in S : \A y \in S : x >= y
  <1> DEFINE Distances == {k \in Nat : n - k \in S}
  <1>1. Distances \subseteq Nat /\ Distances # {}
    <2>1. PICK x \in S : TRUE
      OBVIOUS
    <2>2. n - x \in Nat /\ n - (n - x) = x
      BY <2>1
    <2>3. QED
      BY <2>1, <2>2
  <1>2. PICK k \in Distances : \A j \in Distances : ~(<<j, k>> \in OpToRel(<, Nat))
    <2> HIDE DEF Distances
    <2>1. QED
      BY <1>1, NatLessThanWellFounded, WFMin
  <1>3. \A j \in Distances : ~(j < k)
    BY <1>2 DEF OpToRel
  <1>4. ASSUME NEW y \in S PROVE n - k >= y
    <2>1. n - y \in Distances
      BY <1>4
    <2>2. ~(n - y < k)
      BY <1>3, <2>1
    <2>3. QED
      BY <1>1, <2>2
  <1>5. QED
    BY <1>4

LEMMA MaxIsLargest ==
  ASSUME NEW n \in Nat, NEW S, S \subseteq 0..n, S # {}
  PROVE  Max(S) \in S /\ \A y \in S : Max(S) >= y
  BY LargestBelow DEF Max

(* One more than the largest of 0 and of numbers that are at most n.        *)
LEMMA NextAfterMax ==
  ASSUME NEW n \in Nat, NEW S, S \subseteq 0..n
  PROVE  1 + Max({0} \cup S) \in 1..(n + 1)
  <1>1. {0} \cup S \subseteq 0..n /\ {0} \cup S # {}
    OBVIOUS
  <1> DEFINE T == {0} \cup S
  <1>2. Max(T) \in 0..n
    BY <1>1, MaxIsLargest
  <1>3. QED
    BY <1>2

-----------------------------------------------------------------------------
(* A family of subsets of a finite set has a least member: none that lacks  *)
(* one of its elements is in the family.                                    *)
LEMMA LeastSubset ==
  ASSUME NEW S, IsFiniteSet(S), NEW Family, Family \subseteq SUBSET S, Family # {}
  PROVE  \E s \in Family : \A x \in s : s \ {x} \notin Family
  <1> DEFINE Sizes == {n \in Nat : \E s \in Family : Cardinality(s) = n}
  <1>1. \A s \in SUBSET S : IsFiniteSet(s) /\ Cardinality(s) \in Nat
    BY FS_Subset, FS_CardinalityType
  <1>2. Sizes \subseteq Nat /\ Sizes # {}
    BY <1>1
  <1>3. PICK k \in Sizes : \A j \in Sizes : ~(<<j, k>> \in OpToRel(<, Nat))
    <2> HIDE DEF Sizes
    <2>1. QED
      BY <1>2, NatLessThanWellFounded, WFMin
  <1>4. \A j \in Sizes : ~(j < k)
    BY <1>3 DEF OpToRel
  <1>5. PICK s \in Family : Cardinality(s) = k
    OBVIOUS
  <1>6. ASSUME NEW x \in s, s \ {x} \in Family PROVE FALSE
    <2>1. Cardinality(s \ {x}) = k - 1
      BY <1>1, <1>5, FS_RemoveElement
    <2>2. k - 1 \in Sizes
      BY <1>1, <1>6, <2>1
    <2>3. QED
      BY <1>4, <2>2
  <1>7. QED
    BY <1>5, <1>6

(* The recursion of the fold that sums a function over the subsets of S.    *)
SumOf(u, f, s) == IF s = {} THEN 0 ELSE LET x == CHOOSE y \in s : TRUE IN u[x] + f[s \ {x}]

Sums(u, S, f) == f = [s \in SUBSET S |-> SumOf(u, f, s)]

LEMMA SumIsFold ==
  ASSUME NEW u, NEW S
  PROVE  SumFunctionOnSet(u, S) = (CHOOSE f : Sums(u, S, f))[S]
  BY DEF SumFunctionOnSet, FoldFunctionOnSet, MapThenFoldSet, Sums, SumOf

(* There is such a recursion: on the empty set, and on the subsets with one *)
(* element more if there is on those with fewer.                            *)
LEMMA SumsExist ==
  ASSUME NEW u, NEW S, IsFiniteSet(S)
  PROVE  \E f : Sums(u, S, f)
  <1> DEFINE Small(n) == {s \in SUBSET S : Cardinality(s) <= n}
             Bad == {n \in Nat : ~ \E f : f = [s \in Small(n) |-> SumOf(u, f, s)]}
  <1>1. \A s \in SUBSET S : IsFiniteSet(s) /\ Cardinality(s) \in Nat
    BY FS_Subset, FS_CardinalityType
  <1>2. 0 \notin Bad
    <2>1. Small(0) = {{}}
      BY <1>1, FS_EmptySet
    <2> DEFINE f == [s \in Small(0) |-> 0]
    <2>2. f = [s \in Small(0) |-> SumOf(u, f, s)]
      BY <2>1 DEF SumOf
    <2>3. QED
      BY <2>2
  <1>3. ASSUME NEW n \in Nat, n \notin Bad PROVE n + 1 \notin Bad
    <2>1. PICK f : f = [s \in Small(n) |-> SumOf(u, f, s)]
      BY <1>3
    <2> DEFINE g == [s \in Small(n + 1) |-> SumOf(u, f, s)]
    <2>2. \A s \in Small(n) : s \in Small(n + 1) /\ g[s] = f[s]
      <3>1. \A s \in Small(n) : s \in Small(n + 1)
        BY <1>1
      <3>2. \A s \in Small(n) : f[s] = SumOf(u, f, s)
        BY <2>1
      <3> HIDE DEF Small
      <3>3. QED
        BY <3>1, <3>2
    <2>3. ASSUME NEW s \in Small(n + 1) PROVE SumOf(u, f, s) = SumOf(u, g, s)
      <3>1. CASE s = {}
        BY <3>1 DEF SumOf
      <3>2. CASE s # {}
        <4> DEFINE x == CHOOSE y \in s : TRUE
        <4>1. x \in s
          BY <3>2
        <4> HIDE DEF x
        <4>2. s \ {x} \in Small(n)
          BY <1>1, <2>3, <4>1, FS_RemoveElement
        <4>3. g[s \ {x}] = f[s \ {x}]
          BY <2>2, <4>2
        <4>4. QED
          BY <3>2, <4>3 DEF SumOf, x
      <3>3. QED
        BY <3>1, <3>2
    <2>4. g = [s \in Small(n + 1) |-> SumOf(u, g, s)]
      <3> HIDE DEF Small
      <3>1. QED
        BY <2>3
    <2>5. QED
      BY <2>4
  <1>4. Bad = {}
    <2>1. SUFFICES ASSUME Bad # {} PROVE FALSE
      OBVIOUS
    <2>2. PICK k \in Bad : \A j \in Bad : ~(<<j, k>> \in OpToRel(<, Nat))
      <3>1. Bad \subseteq Nat
        OBVIOUS
      <3> HIDE DEF Bad
      <3>2. QED
        BY <2>1, <3>1, NatLessThanWellFounded, WFMin
    <2>3. k \in Nat /\ \A j \in Bad : j \in Nat
      OBVIOUS
    <2> HIDE DEF Bad
    <2>4. \A j \in Bad : ~(j < k)
      BY <2>2, <2>3 DEF OpToRel
    <2>5. k - 1 \in Nat /\ k - 1 \notin Bad /\ (k - 1) + 1 = k
      BY <1>2, <2>3, <2>4
    <2>6. QED
      BY <1>3, <2>5
  <1>5. Cardinality(S) \in Nat /\ Small(Cardinality(S)) = SUBSET S
    BY <1>1, FS_Subset, FS_CardinalityType
  <1>6. PICK f : f = [s \in Small(Cardinality(S)) |-> SumOf(u, f, s)]
    BY <1>4, <1>5
  <1> HIDE DEF Small
  <1>7. QED
    BY <1>5, <1>6 DEF Sums

LEMMA SumsAgree ==
  ASSUME NEW u, NEW S, IsFiniteSet(S)
  PROVE  \E f : Sums(u, S, f) /\ SumFunctionOnSet(u, S) = f[S]
  BY SumsExist, SumIsFold

(* Sums of naturals; sums of zeros; and sums with one term one larger.      *)
LEMMA SumOfNaturals ==
  ASSUME NEW S, IsFiniteSet(S), NEW u, \A x \in S : u[x] \in Nat
  PROVE  SumFunctionOnSet(u, S) \in Nat
  <1>1. PICK f : Sums(u, S, f) /\ SumFunctionOnSet(u, S) = f[S]
    BY SumsAgree
  <1> DEFINE Bad == {s \in SUBSET S : f[s] \notin Nat}
  <1>2. ASSUME Bad # {} PROVE FALSE
    <2>1. PICK s \in Bad : \A x \in s : s \ {x} \notin Bad
      BY <1>2, LeastSubset
    <2>2. f[s] = SumOf(u, f, s)
      BY <1>1 DEF Sums
    <2>3. CASE s = {}
      BY <2>2, <2>3 DEF SumOf
    <2>4. CASE s # {}
      <3> DEFINE x == CHOOSE y \in s : TRUE
      <3>1. x \in s
        BY <2>4
      <3>2. f[s] = u[x] + f[s \ {x}]
        BY <2>2, <2>4 DEF SumOf
      <3> HIDE DEF x
      <3>3. f[s \ {x}] \in Nat
        BY <2>1, <3>1
      <3>4. QED
        BY <2>1, <3>1, <3>2, <3>3
    <2>5. QED
      BY <2>3, <2>4
  <1>3. QED
    BY <1>1, <1>2

LEMMA SumOfZeros ==
  ASSUME NEW S, IsFiniteSet(S), NEW u, \A x \in S : u[x] = 0
  PROVE  SumFunctionOnSet(u, S) = 0
  <1>1. PICK f : Sums(u, S, f) /\ SumFunctionOnSet(u, S) = f[S]
    BY SumsAgree
  <1> DEFINE Bad == {s \in SUBSET S : f[s] # 0}
  <1>2. ASSUME Bad # {} PROVE FALSE
    <2>1. PICK s \in Bad : \A x \in s : s \ {x} \notin Bad
      BY <1>2, LeastSubset
    <2>2. f[s] = SumOf(u, f, s)
      BY <1>1 DEF Sums
    <2>3. CASE s = {}
      BY <2>2, <2>3 DEF SumOf
    <2>4. CASE s # {}
      <3> DEFINE x == CHOOSE y \in s : TRUE
      <3>1. x \in s
        BY <2>4
      <3>2. f[s] = u[x] + f[s \ {x}]
        BY <2>2, <2>4 DEF SumOf
      <3> HIDE DEF x
      <3>3. f[s \ {x}] = 0
        BY <2>1, <3>1
      <3>4. QED
        BY <2>1, <3>1, <3>2, <3>3
    <2>5. QED
      BY <2>3, <2>4
  <1>3. QED
    BY <1>1, <1>2

LEMMA SumWithOneMore ==
  ASSUME NEW S, IsFiniteSet(S), NEW u, NEW v, NEW d,
         \A x \in S : u[x] \in Nat /\ v[x] = IF x = d THEN u[x] + 1 ELSE u[x]
  PROVE  SumFunctionOnSet(v, S) = SumFunctionOnSet(u, S) + IF d \in S THEN 1 ELSE 0
  <1>1. PICK f : Sums(u, S, f) /\ SumFunctionOnSet(u, S) = f[S]
    BY SumsAgree
  <1>2. PICK g : Sums(v, S, g) /\ SumFunctionOnSet(v, S) = g[S]
    BY SumsAgree
  <1> DEFINE Right(s) == f[s] \in Nat /\ g[s] = f[s] + IF d \in s THEN 1 ELSE 0
             Bad == {s \in SUBSET S : ~Right(s)}
  <1>3. ASSUME Bad # {} PROVE FALSE
    <2>1. PICK s \in Bad : \A x \in s : s \ {x} \notin Bad
      BY <1>3, LeastSubset
    <2>2. f[s] = SumOf(u, f, s) /\ g[s] = SumOf(v, g, s)
      BY <1>1, <1>2 DEF Sums
    <2>3. CASE s = {}
      BY <2>2, <2>3 DEF SumOf
    <2>4. CASE s # {}
      <3> DEFINE x == CHOOSE y \in s : TRUE
      <3>1. x \in s
        BY <2>4
      <3>2. f[s] = u[x] + f[s \ {x}] /\ g[s] = v[x] + g[s \ {x}]
        BY <2>2, <2>4 DEF SumOf
      <3> HIDE DEF x
      <3>3. Right(s \ {x})
        BY <2>1, <3>1
      <3>4. u[x] \in Nat /\ v[x] = (IF x = d THEN u[x] + 1 ELSE u[x])
        BY <2>1, <3>1
      <3>5. d \in s <=> d = x \/ d \in s \ {x}
        BY <3>1
      <3>6. Right(s)
        BY <3>2, <3>3, <3>4, <3>5
      <3>7. QED
        BY <2>1, <3>6
    <2>5. QED
      BY <2>3, <2>4
  <1>4. QED
    BY <1>1, <1>2, <1>3

(* A sum does not depend on the order of its terms.                         *)
LEMMA SumsOverPart ==
  ASSUME NEW S, IsFiniteSet(S), NEW u, NEW T \in SUBSET S, NEW f, Sums(u, S, f)
  PROVE  SumFunctionOnSet(u, T) = f[T]
  <1>1. IsFiniteSet(T)
    BY FS_Subset
  <1>2. PICK g : Sums(u, T, g) /\ SumFunctionOnSet(u, T) = g[T]
    BY <1>1, SumsAgree
  <1> DEFINE Bad == {s \in SUBSET T : f[s] # g[s]}
  <1>3. ASSUME Bad # {} PROVE FALSE
    <2>1. PICK s \in Bad : \A x \in s : s \ {x} \notin Bad
      BY <1>1, <1>3, LeastSubset
    <2>2. f[s] = SumOf(u, f, s) /\ g[s] = SumOf(u, g, s)
      BY <1>2 DEF Sums
    <2>3. CASE s = {}
      BY <2>2, <2>3 DEF SumOf
    <2>4. CASE s # {}
      <3> DEFINE x == CHOOSE y \in s : TRUE
      <3>1. x \in s
        BY <2>4
      <3>2. f[s] = u[x] + f[s \ {x}] /\ g[s] = u[x] + g[s \ {x}]
        BY <2>2, <2>4 DEF SumOf
      <3> HIDE DEF x
      <3>3. f[s \ {x}] = g[s \ {x}]
        BY <2>1, <3>1
      <3>4. QED
        BY <2>1, <3>2, <3>3
    <2>5. QED
      BY <2>3, <2>4
  <1>4. QED
    BY <1>2, <1>3

LEMMA SumIsInteger ==
  ASSUME NEW S, IsFiniteSet(S), NEW u, \A x \in S : u[x] \in Int
  PROVE  SumFunctionOnSet(u, S) \in Int
  <1>1. PICK f : Sums(u, S, f) /\ SumFunctionOnSet(u, S) = f[S]
    BY SumsAgree
  <1> DEFINE Bad == {s \in SUBSET S : f[s] \notin Int}
  <1>2. ASSUME Bad # {} PROVE FALSE
    <2>1. PICK s \in Bad : \A x \in s : s \ {x} \notin Bad
      BY <1>2, LeastSubset
    <2>2. f[s] = SumOf(u, f, s)
      BY <1>1 DEF Sums
    <2>3. CASE s = {}
      BY <2>2, <2>3 DEF SumOf
    <2>4. CASE s # {}
      <3> DEFINE x == CHOOSE y \in s : TRUE
      <3>1. x \in s
        BY <2>4
      <3>2. f[s] = u[x] + f[s \ {x}]
        BY <2>2, <2>4 DEF SumOf
      <3> HIDE DEF x
      <3>3. f[s \ {x}] \in Int
        BY <2>1, <3>1
      <3>4. QED
        BY <2>1, <3>1, <3>2, <3>3
    <2>5. QED
      BY <2>3, <2>4
  <1>3. QED
    BY <1>1, <1>2

LEMMA SumWithout ==
  ASSUME NEW S, IsFiniteSet(S), NEW u, \A x \in S : u[x] \in Int, NEW d \in S
  PROVE  SumFunctionOnSet(u, S) = u[d] + SumFunctionOnSet(u, S \ {d})
  <1>1. PICK f : Sums(u, S, f) /\ SumFunctionOnSet(u, S) = f[S]
    BY SumsAgree
  <1>2. \A s \in SUBSET S : f[s] \in Int
    <2>1. ASSUME NEW s \in SUBSET S PROVE f[s] \in Int
      <3>1. SumFunctionOnSet(u, s) = f[s]
        BY <1>1, SumsOverPart
      <3>2. IsFiniteSet(s)
        BY FS_Subset
      <3>3. QED
        BY <3>1, <3>2, SumIsInteger
    <2>2. QED
      BY <2>1
  <1> DEFINE Bad == {s \in SUBSET S : \E e \in s : f[s] # u[e] + f[s \ {e}]}
  <1>3. ASSUME Bad # {} PROVE FALSE
    <2>1. PICK s \in Bad : \A x \in s : s \ {x} \notin Bad
      BY <1>3, LeastSubset
    <2>2. PICK e \in s : f[s] # u[e] + f[s \ {e}]
      BY <2>1
    <2> DEFINE x == CHOOSE y \in s : TRUE
    <2>3. x \in s
      BY <2>2
    <2>4. f[s] = u[x] + f[s \ {x}]
      BY <1>1, <2>2 DEF Sums, SumOf
    <2> HIDE DEF x
    <2>5. e # x
      BY <2>2, <2>4
    <2>6. f[s \ {x}] = u[e] + f[(s \ {x}) \ {e}]
      BY <2>1, <2>3, <2>5
    <2>7. f[s \ {e}] = u[x] + f[(s \ {e}) \ {x}]
      BY <2>1, <2>3, <2>5
    <2>8. (s \ {x}) \ {e} = (s \ {e}) \ {x}
      OBVIOUS
    <2> DEFINE rest == f[(s \ {e}) \ {x}]
               p == u[e]
               q == u[x]
    <2>9. p \in Int /\ q \in Int /\ rest \in Int
      BY <1>2, <2>3
    <2>10. f[s] = q + (p + rest) /\ f[s \ {e}] = q + rest /\ f[s] # p + f[s \ {e}]
      BY <2>2, <2>4, <2>6, <2>7, <2>8
    <2> HIDE DEF p, q, rest
    <2>11. QED
      BY <2>9, <2>10
  <1>4. f[S] = u[d] + f[S \ {d}]
    BY <1>3
  <1>5. SumFunctionOnSet(u, S \ {d}) = f[S \ {d}]
    BY <1>1, SumsOverPart
  <1>6. QED
    BY <1>1, <1>4, <1>5

(* A sum over a part is that of the terms outside it put to zero.           *)
LEMMA SumOfPart ==
  ASSUME NEW S, IsFiniteSet(S), NEW u, \A x \in S : u[x] \in Int, NEW K \in SUBSET S,
         NEW v, \A x \in S : v[x] = IF x \in K THEN u[x] ELSE 0
  PROVE  SumFunctionOnSet(u, K) = SumFunctionOnSet(v, S)
  <1>1. PICK f : Sums(v, S, f) /\ SumFunctionOnSet(v, S) = f[S]
    BY SumsAgree
  <1> DEFINE Bad == {s \in SUBSET S : SumFunctionOnSet(u, K \cap s) # f[s]}
  <1>2. ASSUME Bad # {} PROVE FALSE
    <2>1. PICK s \in Bad : \A x \in s : s \ {x} \notin Bad
      BY <1>2, LeastSubset
    <2>2. f[s] = SumOf(v, f, s)
      BY <1>1 DEF Sums
    <2>3. CASE s = {}
      <3>1. SumFunctionOnSet(u, {}) = 0
        BY FS_EmptySet, SumOfZeros
      <3>2. QED
        BY <2>1, <2>2, <2>3, <3>1 DEF SumOf
    <2>4. CASE s # {}
      <3> DEFINE x == CHOOSE y \in s : TRUE
      <3>1. x \in s
        BY <2>4
      <3>2. f[s] = v[x] + f[s \ {x}]
        BY <2>2, <2>4 DEF SumOf
      <3> HIDE DEF x
      <3>3. SumFunctionOnSet(u, K \cap (s \ {x})) = f[s \ {x}]
        BY <2>1, <3>1
      <3>4. IsFiniteSet(K \cap s) /\ IsFiniteSet(K \cap (s \ {x}))
        BY FS_Subset
      <3>5. SumFunctionOnSet(u, K \cap (s \ {x})) \in Int
        BY <3>4, SumIsInteger
      <3>6. CASE x \in K
        <4>1. (K \cap s) \ {x} = K \cap (s \ {x}) /\ x \in K \cap s
          BY <3>1, <3>6
        <4>2. SumFunctionOnSet(u, K \cap s) = u[x] + SumFunctionOnSet(u, (K \cap s) \ {x})
          BY <3>4, <4>1, SumWithout
        <4>3. v[x] = u[x]
          BY <3>1, <3>6
        <4>4. QED
          BY <2>1, <3>2, <3>3, <4>1, <4>2, <4>3
      <3>7. CASE x \notin K
        <4>1. K \cap s = K \cap (s \ {x})
          BY <3>7
        <4>2. v[x] = 0
          BY <3>1, <3>7
        <4> DEFINE sum == SumFunctionOnSet(u, K \cap (s \ {x}))
        <4>3. f[s] = v[x] + sum /\ sum \in Int
          BY <3>2, <3>3, <3>5
        <4>4. SumFunctionOnSet(u, K \cap s) = sum
          BY <4>1
        <4> HIDE DEF sum
        <4>5. f[s] = sum
          BY <4>2, <4>3
        <4>6. QED
          BY <2>1, <4>4, <4>5
      <3>8. QED
        BY <3>6, <3>7
    <2>5. QED
      BY <2>3, <2>4
  <1>3. K \cap S = K
    OBVIOUS
  <1>4. QED
    BY <1>1, <1>2, <1>3

(* What holds between the terms of sums holds between the sums.             *)
LEMMA SumsCompare ==
  ASSUME NEW S, IsFiniteSet(S), NEW a, NEW b, NEW c, NEW d,
         \A x \in S : a[x] \in Int /\ b[x] \in Int /\ c[x] \in Int /\ d[x] \in Int
                        /\ a[x] + b[x] <= c[x] + d[x]
  PROVE  SumFunctionOnSet(a, S) + SumFunctionOnSet(b, S)
           <= SumFunctionOnSet(c, S) + SumFunctionOnSet(d, S)
  <1> DEFINE Sum(u, s) == SumFunctionOnSet(u, s)
             Bad == {s \in SUBSET S : ~(Sum(a, s) + Sum(b, s) <= Sum(c, s) + Sum(d, s))}
  <1>1. \A s \in SUBSET S : IsFiniteSet(s)
    BY FS_Subset
  <1>2. \A s \in SUBSET S :
          Sum(a, s) \in Int /\ Sum(b, s) \in Int /\ Sum(c, s) \in Int /\ Sum(d, s) \in Int
    BY <1>1, SumIsInteger
  <1>3. ASSUME Bad # {} PROVE FALSE
    <2>1. PICK s \in Bad : \A x \in s : s \ {x} \notin Bad
      BY <1>3, LeastSubset
    <2>2. CASE s = {}
      <3>1. Sum(a, {}) = 0 /\ Sum(b, {}) = 0 /\ Sum(c, {}) = 0 /\ Sum(d, {}) = 0
        BY FS_EmptySet, SumOfZeros
      <3>2. QED
        BY <2>1, <2>2, <3>1
    <2>3. CASE s # {}
      <3>1. PICK x \in s : TRUE
        BY <2>3
      <3>2. /\ Sum(a, s) = a[x] + Sum(a, s \ {x}) /\ Sum(b, s) = b[x] + Sum(b, s \ {x})
            /\ Sum(c, s) = c[x] + Sum(c, s \ {x}) /\ Sum(d, s) = d[x] + Sum(d, s \ {x})
        BY <1>1, SumWithout, ZenonT(40)
      <3> HIDE DEF Sum
      <3>3. Sum(a, s \ {x}) + Sum(b, s \ {x}) <= Sum(c, s \ {x}) + Sum(d, s \ {x})
        BY <2>1
      <3>4. /\ Sum(a, s \ {x}) \in Int /\ Sum(b, s \ {x}) \in Int
            /\ Sum(c, s \ {x}) \in Int /\ Sum(d, s \ {x}) \in Int
        BY <1>2
      <3>5. Sum(a, s) + Sum(b, s) <= Sum(c, s) + Sum(d, s)
        BY <3>2, <3>3, <3>4
      <3>6. QED
        BY <2>1, <3>5
    <2>4. QED
      BY <2>2, <2>3
  <1>4. QED
    BY <1>3


-----------------------------------------------------------------------------
(* A set of naturals with 0, and with n + 1 if with n, has them all: the    *)
(* least that is missing would follow one that is not.                      *)
LEMMA AllNaturals ==
  ASSUME NEW S, 0 \in S, \A n \in Nat : n \in S => n + 1 \in S
  PROVE  \A n \in Nat : n \in S
  <1> DEFINE Missing == {n \in Nat : n \notin S}
  <1>1. ASSUME Missing # {} PROVE FALSE
    <2>1. PICK k \in Missing : \A j \in Missing : ~(<<j, k>> \in OpToRel(<, Nat))
      <3>1. Missing \subseteq Nat
        OBVIOUS
      <3> HIDE DEF Missing
      <3>2. QED
        BY <1>1, <3>1, NatLessThanWellFounded, WFMin
    <2>2. \A j \in Missing : ~(j < k)
      BY <2>1 DEF OpToRel
    <2>3. k \in Nat /\ k # 0 /\ k \notin S
      BY <2>1
    <2>4. k - 1 \in Nat /\ k - 1 \in S /\ (k - 1) + 1 = k
      BY <2>2, <2>3
    <2>5. QED
      BY <2>3, <2>4
  <1>2. QED
    BY <1>1

(* A function may be defined by its first value and by a step from each     *)
(* value to the next.                                                       *)
Iterates(f, B, base, step, last) ==
  f \in [0..last -> B] /\ f[0] = base /\ \A n \in 1..last : f[n] = step[f[n - 1]]

LEMMA IterationExists ==
  ASSUME NEW B, NEW base \in B, NEW step \in [B -> B], NEW last \in Nat
  PROVE  \E f : Iterates(f, B, base, step, last)
  <1> DEFINE Goes(f, n) == Iterates(f, B, base, step, n)
             Reached == {n \in Nat : \E f : Goes(f, n)}
  <1>1. 0 \in Reached
    <2>1. Goes([m \in 0..0 |-> base], 0)
      BY DEF Iterates
    <2>2. QED
      BY <2>1
  <1>2. ASSUME NEW n \in Nat, n \in Reached PROVE n + 1 \in Reached
    <2>1. PICK f : Goes(f, n)
      BY <1>2
    <2> DEFINE g == [m \in 0..(n + 1) |-> IF m = n + 1 THEN step[f[n]] ELSE f[m]]
    <2>2. g \in [0..(n + 1) -> B] /\ g[0] = base
      BY <2>1 DEF Iterates
    <2>3. ASSUME NEW m \in 1..(n + 1) PROVE g[m] = step[g[m - 1]]
      <3>1. CASE m = n + 1
        <4>1. g[m] = step[f[n]] /\ m - 1 = n
          BY <3>1
        <4>2. g[n] = f[n]
          OBVIOUS
        <4>3. QED
          BY <4>1, <4>2
      <3>2. CASE m \in 1..n
        <4>1. g[m] = f[m] /\ f[m] = step[f[m - 1]]
          BY <2>1, <3>2 DEF Iterates
        <4>2. m - 1 \in 0..n /\ g[m - 1] = f[m - 1]
          BY <3>2
        <4>3. QED
          BY <4>1, <4>2
      <3>3. QED
        BY <3>1, <3>2
    <2>4. Goes(g, n + 1)
      <3> HIDE DEF g
      <3>1. QED
        BY <2>2, <2>3 DEF Iterates
    <2> HIDE DEF g, Goes
    <2>5. QED
      BY <2>4
  <1>3. \A n \in Nat : n \in Reached
    <2> HIDE DEF Reached
    <2>1. QED
      BY <1>1, <1>2, AllNaturals
  <1>4. QED
    BY <1>3

-----------------------------------------------------------------------------
(* A set that is at least as large as another has an element for each of    *)
(* the other.                                                               *)
LEMMA InjectionExists ==
  ASSUME NEW S, NEW T, IsFiniteSet(S), IsFiniteSet(T), Cardinality(S) <= Cardinality(T)
  PROVE  \E f \in [S -> T] : \A x, y \in S : f[x] = f[y] => x = y
  <1> DEFINE m == Cardinality(S)
             n == Cardinality(T)
  <1>1. m \in Nat /\ n \in Nat /\ m <= n
    BY FS_CardinalityType
  <1>2. PICK b \in Bijection(1..m, S) : TRUE
    BY FS_CardinalityType DEF ExistsBijection
  <1>3. PICK c \in Bijection(1..n, T) : TRUE
    BY FS_CardinalityType DEF ExistsBijection
  <1> HIDE DEF m, n
  <1>4. 1..m \subseteq 1..n
    BY <1>1
  <1>5. /\ b \in [1..m -> S] /\ \A x \in S : \E k \in 1..m : b[k] = x
        /\ c \in [1..n -> T] /\ \A k, l \in 1..n : c[k] = c[l] => k = l
    BY DEF Bijection, Injection, Surjection, IsInjective
  <1> DEFINE at(x) == CHOOSE k \in 1..m : b[k] = x
             f == [x \in S |-> c[at(x)]]
  <1>6. \A x \in S : at(x) \in 1..m /\ b[at(x)] = x
    BY <1>5
  <1> HIDE DEF at
  <1>7. f \in [S -> T] /\ \A x \in S : f[x] = c[at(x)]
    BY <1>4, <1>5, <1>6
  <1>8. \A x, y \in S : f[x] = f[y] => x = y
    <2>1. ASSUME NEW x \in S, NEW y \in S, c[at(x)] = c[at(y)] PROVE x = y
      <3>1. at(x) = at(y)
        BY <1>4, <1>5, <1>6, <2>1
      <3>2. QED
        BY <1>6, <3>1
    <2>2. QED
      BY <1>7, <2>1
  <1>9. QED
    BY <1>7, <1>8
=============================================================================
