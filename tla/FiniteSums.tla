----------------------------- MODULE FiniteSums -----------------------------
(***************************************************************************)
(* Facts about finite sets and about sums over them that the proofs about   *)
(* ledgers need: SumFunction of the community modules folds a function in   *)
(* an order CHOOSE picks, and these lemmas say that the order is of no      *)
(* account.  Induction is by a least counterexample, or over the subsets of *)
(* a finite set, in a form that takes a set and not a predicate.            *)
(***************************************************************************)
EXTENDS Integers, Sequences, FiniteSets, Functions, Sublists, TLAPS, FiniteSetTheorems, WellFoundedInduction

\* A nonempty set of naturals has a least element.
LEMMA LeastNumber ==
    ASSUME NEW T \in SUBSET Nat, T # {}
    PROVE  \E n \in T : \A m \in T : n <= m
<1>1. IsWellFoundedOn(OpToRel(<, Nat), Nat)
    BY NatLessThanWellFounded
<1>2. PICK n \in T : \A m \in T : ~(<<m, n>> \in OpToRel(<, Nat))
  <2> HIDE DEF OpToRel
  <2> QED
    BY <1>1, WFMin
<1>3. \A m \in T : <<m, n>> \in Nat \X Nat
    OBVIOUS
<1>4. \A m \in T : ~(m < n)
    BY <1>2, <1>3 DEF OpToRel
<1> QED
    BY <1>4

\* A finite set without one of its elements.
LEMMA RemoveOne ==
    ASSUME NEW T, IsFiniteSet(T), NEW x \in T
    PROVE  /\ IsFiniteSet(T \ {x}) /\ Cardinality(T) \in Nat /\ Cardinality(T \ {x}) \in Nat
           /\ Cardinality(T \ {x}) = Cardinality(T) - 1 /\ Cardinality(T \ {x}) < Cardinality(T)
<1>1. IsFiniteSet(T \ {x}) /\ Cardinality(T \ {x}) = Cardinality(T) - 1
    BY FS_RemoveElement
<1>2. Cardinality(T) \in Nat /\ Cardinality(T \ {x}) \in Nat
    BY <1>1, FS_CardinalityType
<1> QED
    BY <1>1, <1>2

\* Of the subsets of a finite set that are not in P, one has the fewest elements.
LEMMA SmallestSubset ==
    ASSUME NEW S, IsFiniteSet(S), NEW P, ~(SUBSET S \subseteq P)
    PROVE  \E T \in SUBSET S : /\ T \notin P /\ IsFiniteSet(T)
                               /\ \A U \in SUBSET S : Cardinality(U) < Cardinality(T) => U \in P
<1> DEFINE sizes == {Cardinality(T) : T \in {U \in SUBSET S : U \notin P}}
<1>1. \A T \in SUBSET S : IsFiniteSet(T) /\ Cardinality(T) \in Nat
    BY FS_Subset, FS_CardinalityType
<1>2. sizes \in SUBSET Nat /\ sizes # {}
    BY <1>1
<1>3. PICK n \in sizes : \A m \in sizes : n <= m
    BY <1>2, LeastNumber
<1>4. PICK T \in SUBSET S : T \notin P /\ Cardinality(T) = n
    BY <1>3
<1>5. ASSUME NEW U \in SUBSET S, Cardinality(U) < Cardinality(T), U \notin P PROVE FALSE
  <2>1. Cardinality(U) \in sizes
    BY <1>5
  <2> QED
    BY <1>1, <1>3, <1>4, <1>5, <2>1
<1> QED
    BY <1>1, <1>4, <1>5

\* Induction over the subsets of a finite set, one element at a time.
LEMMA SubsetInduction ==
    ASSUME NEW S, IsFiniteSet(S), NEW P, {} \in P,
           \A T \in SUBSET S : \A x \in T : T \ {x} \in P => T \in P
    PROVE  SUBSET S \subseteq P
<1> SUFFICES ASSUME ~(SUBSET S \subseteq P) PROVE FALSE
    OBVIOUS
<1>1. PICK T \in SUBSET S : /\ T \notin P /\ IsFiniteSet(T)
                            /\ \A U \in SUBSET S : Cardinality(U) < Cardinality(T) => U \in P
    BY SmallestSubset
<1>2. PICK x \in T : TRUE
    BY <1>1
<1>3. Cardinality(T \ {x}) < Cardinality(T)
    BY <1>1, <1>2, RemoveOne
<1> QED
    BY <1>1, <1>2, <1>3

-----------------------------------------------------------------------------
\* The recursive function inside SumFunction.
First(s) == CHOOSE x \in s : TRUE
Folds(f, it) == it = [s \in SUBSET DOMAIN f |-> IF s = {} THEN 0 ELSE f[First(s)] + it[s \ {First(s)}]]
\* What it is: the sum of every subset, whichever element is taken out first.
Sums(f, it) ==
    /\ it \in [SUBSET DOMAIN f -> Int] /\ it[{}] = 0
    /\ \A T \in SUBSET DOMAIN f : \A x \in T : it[T] = it[T \ {x}] + f[x]

\* CHOOSE picks a member.
LEMMA FirstIn == \A s : s # {} => First(s) \in s
    BY DEF First

\* Whatever is folded with the order of CHOOSE is a sum in every order.
LEMMA FoldsSum ==
    ASSUME NEW S, IsFiniteSet(S), NEW f \in [S -> Int], NEW it, Folds(f, it)
    PROVE  Sums(f, it)
<1>1. DOMAIN f = S /\ DOMAIN it = SUBSET S
    BY DEF Folds
<1>2. it[{}] = 0
    BY <1>1 DEF Folds
<1>3. \A T \in SUBSET S : T # {} => First(T) \in T /\ it[T] = f[First(T)] + it[T \ {First(T)}]
    BY <1>1, FirstIn DEF Folds
<1>s. ASSUME NEW Q, ~(SUBSET S \subseteq Q)
      PROVE  \E T \in SUBSET S : /\ T \notin Q /\ IsFiniteSet(T)
                                 /\ \A U \in SUBSET S : Cardinality(U) < Cardinality(T) => U \in Q
    BY ONLY IsFiniteSet(S), <1>s, SmallestSubset
<1> DEFINE P == {T \in SUBSET S : it[T] \in Int /\ \A x \in T : it[T] = it[T \ {x}] + f[x]}
<1>4. SUBSET S \subseteq P
  <2> SUFFICES ASSUME ~(SUBSET S \subseteq P) PROVE FALSE
    OBVIOUS
  <2> HIDE DEF P
  <2>1. PICK T \in SUBSET S : /\ T \notin P /\ IsFiniteSet(T)
                              /\ \A U \in SUBSET S : Cardinality(U) < Cardinality(T) => U \in P
    BY <1>s
  <2>2. T # {}
    <3>1. {} \in P
      BY <1>2 DEF P
    <3> QED
      BY <2>1, <3>1
  <2> DEFINE y == First(T)
  <2>3. y \in T /\ it[T] = f[y] + it[T \ {y}]
    BY <1>3, <2>2
  <2>4. \A x \in T : Cardinality(T \ {x}) < Cardinality(T) /\ T \ {x} \in SUBSET S
    BY <2>1, RemoveOne
  <2> HIDE DEF y
  <2>5. \A x \in T : T \ {x} \in P
    BY <2>1, <2>4
  <2>6. \A x \in T : it[T \ {x}] \in Int /\ f[x] \in Int /\ \A z \in T \ {x} : it[T \ {x}] = it[(T \ {x}) \ {z}] + f[z]
    BY <2>5 DEF P
  <2>y. it[T \ {y}] \in Int /\ f[y] \in Int
    BY <2>3, <2>6
  <2>7. it[T] \in Int
    BY <2>3, <2>y
  <2>8. ASSUME NEW x \in T PROVE it[T] = it[T \ {x}] + f[x]
    <3>1. CASE x = y
      BY <2>3, <2>y, <3>1
    <3>2. CASE x # y
      <4>1. it[T \ {y}] = it[(T \ {y}) \ {x}] + f[x] /\ it[T \ {x}] = it[(T \ {x}) \ {y}] + f[y]
        BY <2>3, <2>6, <3>2
      <4>2. (T \ {y}) \ {x} = (T \ {x}) \ {y}
        OBVIOUS
      <4>3. (T \ {x}) \ {y} \in SUBSET S /\ Cardinality((T \ {x}) \ {y}) < Cardinality(T)
        <5>1. IsFiniteSet(T \ {x}) /\ Cardinality(T \ {x}) < Cardinality(T) /\ y \in T \ {x}
          BY <2>1, <2>3, <2>4, <3>2, FS_RemoveElement
        <5>2. Cardinality((T \ {x}) \ {y}) < Cardinality(T \ {x})
          BY <5>1, RemoveOne
        <5>3. Cardinality(T) \in Nat /\ Cardinality(T \ {x}) \in Nat /\ Cardinality((T \ {x}) \ {y}) \in Nat
          BY <2>1, <5>1, RemoveOne
        <5> QED
          BY <5>1, <5>2, <5>3
      <4>4. it[(T \ {x}) \ {y}] \in Int
        BY <2>1, <4>3 DEF P
      <4>5. f[x] \in Int /\ f[y] \in Int
        BY <2>3, <2>6
      <4>6. it[T] = f[y] + (it[(T \ {x}) \ {y}] + f[x])
        BY <2>3, <4>1, <4>2
      <4> QED
        BY <4>1, <4>4, <4>5, <4>6
    <3> QED
      BY <3>1, <3>2
  <2> QED
    BY <2>1, <2>7, <2>8 DEF P
<1>5. it \in [SUBSET S -> Int]
  <2>1. it = [s \in SUBSET S |-> it[s]]
    BY <1>1 DEF Folds
  <2> QED
    BY <1>4, <2>1
<1> QED
    BY <1>1, <1>2, <1>4, <1>5 DEF Sums

\* The recursion is well founded: the function exists on the subsets of at most n elements.
FoldsUpto(f, it, S, n) ==
    \A s \in SUBSET S : Cardinality(s) <= n => it[s] = IF s = {} THEN 0 ELSE f[First(s)] + it[s \ {First(s)}]

\* The fold exists on the subsets of up to n members.
LEMMA FoldsUptoExists ==
    ASSUME NEW S, IsFiniteSet(S), NEW f, NEW n \in Nat
    PROVE  \E it : FoldsUpto(f, it, S, n)
<1> DEFINE T == {k \in Nat : ~\E it : FoldsUpto(f, it, S, k)}
<1> SUFFICES ASSUME T # {} PROVE FALSE
    OBVIOUS
<1>1. PICK k \in T : \A m \in T : k <= m
    BY LeastNumber
<1>2. \A s \in SUBSET S : IsFiniteSet(s) /\ Cardinality(s) \in Nat /\ (Cardinality(s) = 0 <=> s = {})
    BY FS_Subset, FS_CardinalityType, FS_EmptySet
<1>3. \A s \in SUBSET S : s # {} => First(s) \in s /\ s \ {First(s)} \in SUBSET S /\ Cardinality(s \ {First(s)}) = Cardinality(s) - 1
    BY <1>2, FirstIn, FS_RemoveElement
<1>4. PICK h : k = 0 \/ FoldsUpto(f, h, S, k - 1)
    BY <1>1
<1> DEFINE it == [s \in SUBSET S |-> IF s = {} THEN 0 ELSE f[First(s)] + h[s \ {First(s)}]]
<1>5. ASSUME NEW s \in SUBSET S, Cardinality(s) <= k, s # {} PROVE it[s] = f[First(s)] + it[s \ {First(s)}]
  <2> DEFINE u == s \ {First(s)}
  <2>1. u \in SUBSET S /\ k # 0 /\ Cardinality(u) <= k - 1
    BY <1>2, <1>3, <1>5
  <2>2. h[u] = IF u = {} THEN 0 ELSE f[First(u)] + h[u \ {First(u)}]
    BY <1>4, <2>1 DEF FoldsUpto
  <2>3. it[s] = f[First(s)] + h[u]
    BY <1>5
  <2>4. it[u] = IF u = {} THEN 0 ELSE f[First(u)] + h[u \ {First(u)}]
    BY <2>1
  <2> QED
    BY <2>2, <2>3, <2>4
<1>6. it[{}] = 0
    OBVIOUS
<1> HIDE DEF it
<1>7. FoldsUpto(f, it, S, k)
    BY <1>5, <1>6 DEF FoldsUpto
<1> QED
    BY <1>1, <1>7

\* The fold exists on all subsets.
LEMMA FoldsExists ==
    ASSUME NEW S, IsFiniteSet(S), NEW f \in [S -> Int]
    PROVE  \E it : Folds(f, it)
<1>1. Cardinality(S) \in Nat /\ \A s \in SUBSET S : Cardinality(s) <= Cardinality(S)
    BY FS_Subset, FS_CardinalityType
<1>2. PICK h : FoldsUpto(f, h, S, Cardinality(S))
    BY <1>1, FoldsUptoExists
<1> DEFINE it == [s \in SUBSET S |-> h[s]]
<1>3. ASSUME NEW s \in SUBSET S PROVE it[s] = IF s = {} THEN 0 ELSE f[First(s)] + it[s \ {First(s)}]
  <2>1. h[s] = IF s = {} THEN 0 ELSE f[First(s)] + h[s \ {First(s)}]
    BY <1>1, <1>2 DEF FoldsUpto
  <2>2. s \ {First(s)} \in SUBSET S
    OBVIOUS
  <2> QED
    BY <2>1, <2>2
<1>4. it = [s \in SUBSET S |-> it[s]]
    OBVIOUS
<1> HIDE DEF it
<1>5. it = [s \in SUBSET S |-> IF s = {} THEN 0 ELSE f[First(s)] + it[s \ {First(s)}]]
    BY <1>3, <1>4
<1>6. DOMAIN f = S
    OBVIOUS
<1> QED
    BY <1>5, <1>6 DEF Folds

\* What SumFunction computes.
LEMMA SumFunctionIs ==
    ASSUME NEW S, IsFiniteSet(S), NEW f \in [S -> Int]
    PROVE  \E it : Sums(f, it) /\ SumFunction(f) = it[S]
<1> DEFINE it == CHOOSE g : Folds(f, g)
<1>1. Folds(f, it)
    BY FoldsExists
<1>2. SumFunction(f) = it[DOMAIN f]
    BY DEF SumFunction, SumFunctionOnSet, FoldFunctionOnSet, MapThenFoldSet, Folds, First
<1> HIDE DEF it
<1> QED
    BY <1>1, <1>2, FoldsSum

-----------------------------------------------------------------------------
\* A sum of integers is an integer.
LEMMA SumIsInteger ==
    ASSUME NEW S, IsFiniteSet(S), NEW f \in [S -> Int]
    PROVE  SumFunction(f) \in Int
<1>1. PICK it : Sums(f, it) /\ SumFunction(f) = it[S]
    BY SumFunctionIs
<1> QED
    BY <1>1 DEF Sums

\* A sum of zeros is zero.
LEMMA SumOfZeros ==
    ASSUME NEW S, IsFiniteSet(S), NEW f \in [S -> Int], \A x \in S : f[x] = 0
    PROVE  SumFunction(f) = 0
<1>1. PICK it : Sums(f, it) /\ SumFunction(f) = it[S]
    BY SumFunctionIs
<1> DEFINE P == {T \in SUBSET S : it[T] = 0}
<1>2. {} \in P
    BY <1>1 DEF Sums
<1>3. ASSUME NEW T \in SUBSET S, NEW x \in T, T \ {x} \in P PROVE T \in P
    BY <1>1, <1>3 DEF Sums
<1> HIDE DEF P
<1>4. SUBSET S \subseteq P
    BY <1>2, <1>3, SubsetInduction
<1> QED
    BY <1>1, <1>4 DEF P

\* One value changes: the sum changes by as much.
LEMMA SumOfChange ==
    ASSUME NEW S, IsFiniteSet(S), NEW f \in [S -> Int], NEW g \in [S -> Int], NEW x \in S,
           \A z \in S : z # x => g[z] = f[z]
    PROVE  SumFunction(g) = SumFunction(f) + g[x] - f[x]
<1>1. PICK it : Sums(f, it) /\ SumFunction(f) = it[S]
    BY SumFunctionIs
<1>2. PICK jt : Sums(g, jt) /\ SumFunction(g) = jt[S]
    BY SumFunctionIs
<1> DEFINE d(T) == IF x \in T THEN g[x] - f[x] ELSE 0
           P == {T \in SUBSET S : jt[T] = it[T] + d(T)}
<1>3. {} \in P
    BY <1>1, <1>2 DEF Sums
<1>4. ASSUME NEW T \in SUBSET S, NEW z \in T, T \ {z} \in P PROVE T \in P
  <2>1. it[T] = it[T \ {z}] + f[z] /\ jt[T] = jt[T \ {z}] + g[z] /\ it[T \ {z}] \in Int /\ jt[T \ {z}] \in Int
    BY <1>1, <1>2 DEF Sums
  <2>2. jt[T \ {z}] = it[T \ {z}] + d(T \ {z}) /\ f[z] \in Int /\ g[z] \in Int /\ f[x] \in Int /\ g[x] \in Int
    BY <1>4
  <2>3. CASE z = x
    BY <2>1, <2>2, <2>3
  <2>4. CASE z # x
    BY <2>1, <2>2, <2>4
  <2> QED
    BY <2>3, <2>4
<1> HIDE DEF P
<1>5. SUBSET S \subseteq P
    BY <1>3, <1>4, SubsetInduction
<1>6. jt[S] = it[S] + (g[x] - f[x])
    BY <1>5 DEF P
<1>7. it[S] \in Int /\ f[x] \in Int /\ g[x] \in Int
    BY <1>1 DEF Sums
<1> QED
    BY <1>1, <1>2, <1>6, <1>7

\* The sum of sums.
LEMMA SumOfSums ==
    ASSUME NEW S, IsFiniteSet(S), NEW f \in [S -> Int], NEW g \in [S -> Int], NEW h \in [S -> Int],
           \A x \in S : h[x] = f[x] + g[x]
    PROVE  SumFunction(h) = SumFunction(f) + SumFunction(g)
<1>1. PICK it : Sums(f, it) /\ SumFunction(f) = it[S]
    BY SumFunctionIs
<1>2. PICK jt : Sums(g, jt) /\ SumFunction(g) = jt[S]
    BY SumFunctionIs
<1>3. PICK kt : Sums(h, kt) /\ SumFunction(h) = kt[S]
    BY SumFunctionIs
<1> DEFINE P == {T \in SUBSET S : kt[T] = it[T] + jt[T]}
<1>4. {} \in P
    BY <1>1, <1>2, <1>3 DEF Sums
<1>5. ASSUME NEW T \in SUBSET S, NEW x \in T, T \ {x} \in P PROVE T \in P
  <2>1. it[T] = it[T \ {x}] + f[x] /\ jt[T] = jt[T \ {x}] + g[x] /\ kt[T] = kt[T \ {x}] + h[x]
    BY <1>1, <1>2, <1>3 DEF Sums
  <2>2. it[T \ {x}] \in Int /\ jt[T \ {x}] \in Int /\ f[x] \in Int /\ g[x] \in Int
    BY <1>1, <1>2 DEF Sums
  <2> QED
    BY <1>5, <2>1, <2>2
<1> HIDE DEF P
<1>6. SUBSET S \subseteq P
    BY <1>4, <1>5, SubsetInduction
<1> QED
    BY <1>1, <1>2, <1>3, <1>6 DEF P

\* Every element of A is counted once, under its value.
LEMMA SumOfCounts ==
    ASSUME NEW A, IsFiniteSet(A), NEW S, IsFiniteSet(S), NEW h, \A a \in A : h[a] \in S
    PROVE  SumFunction([x \in S |-> Cardinality({a \in A : h[a] = x})]) = Cardinality(A)
<1> DEFINE by(B) == [x \in S |-> Cardinality({a \in B : h[a] = x})]
           P == {B \in SUBSET A : SumFunction(by(B)) = Cardinality(B)}
<1>1. \A B \in SUBSET A : IsFiniteSet(B) /\ \A x : IsFiniteSet({a \in B : h[a] = x})
  <2> TAKE B \in SUBSET A
  <2>1. IsFiniteSet(B)
    BY FS_Subset
  <2>2. \A x : {a \in B : h[a] = x} \in SUBSET B
    OBVIOUS
  <2> QED
    BY <2>1, <2>2, FS_Subset
<1>2. \A B \in SUBSET A : by(B) \in [S -> Int]
    BY <1>1, FS_CardinalityType
<1>3. {} \in P
  <2>1. \A x \in S : {a \in {} : h[a] = x} = {}
    OBVIOUS
  <2>2. \A x \in S : by({})[x] = 0
    BY <2>1, FS_EmptySet
  <2>3. {} \in SUBSET A /\ by({}) \in [S -> Int]
    BY <1>2
  <2> HIDE DEF by
  <2> QED
    BY <2>2, <2>3, SumOfZeros, FS_EmptySet
<1>4. ASSUME NEW B \in SUBSET A, NEW b \in B, B \ {b} \in P PROVE B \in P
  <2>1. B \ {b} \in SUBSET A /\ by(B) \in [S -> Int] /\ by(B \ {b}) \in [S -> Int] /\ h[b] \in S
    BY <1>2
  <2>2. \A x \in S : x # h[b] => {a \in B : h[a] = x} = {a \in B \ {b} : h[a] = x}
    OBVIOUS
  <2>3. \A x \in S : x # h[b] => by(B)[x] = by(B \ {b})[x]
    BY <2>2
  <2>4. by(B)[h[b]] = by(B \ {b})[h[b]] + 1
    <3>1. {a \in B : h[a] = h[b]} = {a \in B \ {b} : h[a] = h[b]} \cup {b}
      OBVIOUS
    <3>2. b \notin {a \in B \ {b} : h[a] = h[b]} /\ IsFiniteSet({a \in B \ {b} : h[a] = h[b]})
      BY <1>1, <2>1
    <3> QED
      BY <2>1, <3>1, <3>2, FS_AddElement
  <2>5. Cardinality(B) = Cardinality(B \ {b}) + 1 /\ Cardinality(B \ {b}) \in Nat
    BY <1>1, RemoveOne
  <2> HIDE DEF by
  <2>6. SumFunction(by(B)) = SumFunction(by(B \ {b})) + by(B)[h[b]] - by(B \ {b})[h[b]]
    BY <2>1, <2>3, SumOfChange
  <2>7. by(B \ {b})[h[b]] \in Int
    BY <2>1
  <2> QED
    BY <1>4, <2>4, <2>5, <2>6, <2>7
<1> HIDE DEF P
<1>5. SUBSET A \subseteq P
    BY <1>3, <1>4, SubsetInduction
<1> QED
    BY <1>5 DEF P

-----------------------------------------------------------------------------
\* Naturals sum up to a natural, which is no less than any of them.
LEMMA SumOfNaturals ==
    ASSUME NEW S, IsFiniteSet(S), NEW f \in [S -> Nat]
    PROVE  SumFunction(f) \in Nat /\ \A x \in S : f[x] <= SumFunction(f)
<1>0. f \in [S -> Int]
    OBVIOUS
<1>1. PICK it : Sums(f, it) /\ SumFunction(f) = it[S]
    BY <1>0, SumFunctionIs
<1>d. DOMAIN f = S
    OBVIOUS
<1> DEFINE P == {T \in SUBSET S : it[T] \in Nat}
<1>2. {} \in P
    BY <1>1 DEF Sums
<1>3. ASSUME NEW T \in SUBSET S, NEW x \in T, T \ {x} \in P PROVE T \in P
    BY <1>1, <1>3, <1>d DEF Sums
<1> HIDE DEF P
<1>4. SUBSET S \subseteq P
    BY <1>2, <1>3, SubsetInduction
<1>5. \A T \in SUBSET S : it[T] \in Nat
    BY <1>4 DEF P
<1>6. ASSUME NEW x \in S PROVE f[x] <= it[S]
  <2>1. it[S] = it[S \ {x}] + f[x] /\ S \ {x} \in SUBSET S
    BY <1>1, <1>d DEF Sums
  <2> QED
    BY <1>5, <2>1
<1> QED
    BY <1>1, <1>5, <1>6

\* A sum is that of any part and that of the rest.
LEMMA SumOfParts ==
    ASSUME NEW S, IsFiniteSet(S), NEW f \in [S -> Int], NEW A \in SUBSET S
    PROVE  SumFunction(f) = SumFunction(Restrict(f, A)) + SumFunction(Restrict(f, S \ A))
<1> DEFINE g == Restrict(f, A)
           h == Restrict(f, S \ A)
<1>1. PICK it : Sums(f, it) /\ SumFunction(f) = it[S]
    BY SumFunctionIs
<1>2. /\ g \in [A -> Int] /\ h \in [S \ A -> Int] /\ DOMAIN g = A /\ DOMAIN h = S \ A /\ DOMAIN f = S
      /\ (\A x \in A : g[x] = f[x]) /\ (\A x \in S \ A : h[x] = f[x])
    BY DEF Restrict
<1>3. IsFiniteSet(A) /\ IsFiniteSet(S \ A)
    BY FS_Subset
<1> HIDE DEF g, h
<1>4. PICK jt : Sums(g, jt) /\ SumFunction(g) = jt[A]
    BY <1>2, <1>3, SumFunctionIs
<1>5. PICK kt : Sums(h, kt) /\ SumFunction(h) = kt[S \ A]
    BY <1>2, <1>3, SumFunctionIs
<1> DEFINE P == {T \in SUBSET S : it[T] = jt[T \cap A] + kt[T \ A]}
<1>6. {} \in P
  <2>1. {} \cap A = {} /\ {} \ A = {}
    OBVIOUS
  <2> QED
    BY <1>1, <1>4, <1>5, <2>1 DEF Sums
<1>7. ASSUME NEW T \in SUBSET S, NEW x \in T, T \ {x} \in P PROVE T \in P
  <2>1. it[T] = it[T \ {x}] + f[x] /\ f[x] \in Int /\ it[T \ {x}] = jt[(T \ {x}) \cap A] + kt[(T \ {x}) \ A]
    BY <1>1, <1>2, <1>7 DEF Sums
  <2>2. \A U \in SUBSET S : U \cap A \in SUBSET A /\ U \ A \in SUBSET (S \ A) /\ jt[U \cap A] \in Int /\ kt[U \ A] \in Int
    BY <1>2, <1>4, <1>5 DEF Sums
  <2>3. T \ {x} \in SUBSET S
    OBVIOUS
  <2>4. CASE x \in A
    <3>1. (T \ {x}) \cap A = (T \cap A) \ {x} /\ (T \ {x}) \ A = T \ A /\ x \in T \cap A /\ T \cap A \in SUBSET A
      BY <2>4
    <3>2. jt[T \cap A] = jt[(T \cap A) \ {x}] + f[x]
      <4>1. DOMAIN g = A /\ g[x] = f[x]
        BY <1>2, <2>4
      <4> QED
        BY <1>4, <3>1, <4>1 DEF Sums
    <3>3. /\ it[T \ {x}] = jt[(T \cap A) \ {x}] + kt[T \ A] /\ kt[T \ A] \in Int /\ jt[(T \cap A) \ {x}] \in Int
      BY <2>1, <2>2, <2>3, <3>1
    <3> QED
      BY <2>1, <3>2, <3>3
  <2>5. CASE x \notin A
    <3>1. (T \ {x}) \cap A = T \cap A /\ (T \ {x}) \ A = (T \ A) \ {x} /\ x \in T \ A /\ T \ A \in SUBSET (S \ A)
      BY <2>5
    <3>2. kt[T \ A] = kt[(T \ A) \ {x}] + f[x]
      <4>1. DOMAIN h = S \ A /\ h[x] = f[x]
        BY <1>2, <3>1
      <4> QED
        BY <1>5, <3>1, <4>1 DEF Sums
    <3>3. /\ it[T \ {x}] = jt[T \cap A] + kt[(T \ A) \ {x}] /\ jt[T \cap A] \in Int /\ kt[(T \ A) \ {x}] \in Int
      BY <2>1, <2>2, <2>3, <3>1
    <3> QED
      BY <2>1, <3>2, <3>3
  <2> QED
    BY <2>4, <2>5
<1> HIDE DEF P
<1>8. SUBSET S \subseteq P
    BY <1>6, <1>7, SubsetInduction
<1>9. it[S] = jt[S \cap A] + kt[S \ A] /\ S \cap A = A
    BY <1>8 DEF P
<1> QED
    BY <1>1, <1>4, <1>5, <1>9 DEF g, h

\* A sum without one of its terms.
LEMMA SumWithout ==
    ASSUME NEW S, IsFiniteSet(S), NEW f \in [S -> Int], NEW x \in S
    PROVE  SumFunction(f) = SumFunction(Restrict(f, S \ {x})) + f[x]
<1>1. S \ {x} \in SUBSET S /\ S \ (S \ {x}) = {x}
    OBVIOUS
<1>2. SumFunction(f) = SumFunction(Restrict(f, S \ {x})) + SumFunction(Restrict(f, {x}))
    BY <1>1, SumOfParts
<1> DEFINE g == Restrict(f, {x})
<1>3. g \in [{x} -> Int] /\ DOMAIN g = {x} /\ g[x] = f[x] /\ IsFiniteSet({x})
    BY FS_Singleton DEF Restrict
<1> HIDE DEF g
<1>4. PICK it : Sums(g, it) /\ SumFunction(g) = it[{x}]
    BY <1>3, SumFunctionIs
<1>5. it[{x}] = it[{x} \ {x}] + g[x] /\ {x} \ {x} = {} /\ it[{}] = 0
    BY <1>3, <1>4 DEF Sums
<1>6. SumFunction(g) = f[x]
  <2>1. f[x] \in Int /\ it[{x}] = 0 + f[x]
    BY <1>3, <1>5
  <2> QED
    BY <1>4, <2>1
<1> QED
    BY <1>2, <1>6 DEF g

\* A sum taken by kinds: every term counts once, under the kind it has.
LEMMA SumByKind ==
    ASSUME NEW S, IsFiniteSet(S), NEW f \in [S -> Int], NEW K, IsFiniteSet(K), NEW h \in [S -> K]
    PROVE  SumFunction([k \in K |-> SumFunction(Restrict(f, {x \in S : h[x] = k}))]) = SumFunction(f)
<1> DEFINE of(B, k) == {x \in B : h[x] = k}
           by(B) == [k \in K |-> SumFunction(Restrict(f, of(B, k)))]
           P == {B \in SUBSET S : SumFunction(by(B)) = SumFunction(Restrict(f, B))}
<1>1. ASSUME NEW B \in SUBSET S PROVE IsFiniteSet(B) /\ Restrict(f, B) \in [B -> Int] /\ SumFunction(Restrict(f, B)) \in Int
  <2>1. IsFiniteSet(B) /\ Restrict(f, B) \in [B -> Int]
    BY FS_Subset DEF Restrict
  <2> QED
    BY <2>1, SumIsInteger
<1>2. \A B \in SUBSET S : by(B) \in [K -> Int] /\ \A k \in K : by(B)[k] = SumFunction(Restrict(f, of(B, k))) /\ of(B, k) \in SUBSET S
    BY <1>1
<1>3. {} \in P
  <2>1. {} \in SUBSET S /\ \A k \in K : of({}, k) = {}
    OBVIOUS
  <2>2. SumFunction(Restrict(f, {})) = 0
    <3>1. Restrict(f, {}) \in [{} -> Int] /\ IsFiniteSet({})
      BY <1>1, <2>1
    <3> QED
      BY <3>1, SumOfZeros
  <2>3. by({}) \in [K -> Int] /\ \A k \in K : by({})[k] = 0
    BY <1>2, <2>1, <2>2
  <2> HIDE DEF by, of
  <2> QED
    BY <2>1, <2>2, <2>3, SumOfZeros
<1>4. ASSUME NEW B \in SUBSET S, NEW b \in B, B \ {b} \in P PROVE B \in P
  <2> DEFINE C == B \ {b}
  <2>1. /\ C \in SUBSET S /\ h[b] \in K /\ by(B) \in [K -> Int] /\ by(C) \in [K -> Int]
    BY <1>2
  <2>2. \A k \in K : k # h[b] => of(B, k) = of(C, k)
    OBVIOUS
  <2>3. \A k \in K : k # h[b] => by(B)[k] = by(C)[k]
    BY <1>2, <2>1, <2>2
  <2>4. ASSUME NEW D \in SUBSET S, b \in D
        PROVE  SumFunction(Restrict(f, D)) = SumFunction(Restrict(f, D \ {b})) + f[b]
    <3>1. IsFiniteSet(D) /\ Restrict(f, D) \in [D -> Int]
      BY <1>1
    <3>2. Restrict(Restrict(f, D), D \ {b}) = Restrict(f, D \ {b}) /\ Restrict(f, D)[b] = f[b]
      BY <2>4 DEF Restrict
    <3> QED
      BY ONLY <2>4, <3>1, <3>2, SumWithout
  <2>5. of(B, h[b]) \in SUBSET S /\ b \in of(B, h[b]) /\ of(B, h[b]) \ {b} = of(C, h[b])
    OBVIOUS
  <2>6. by(B)[h[b]] = by(C)[h[b]] + f[b]
    BY <1>2, <2>1, <2>4, <2>5
  <2>7. SumFunction(Restrict(f, B)) = SumFunction(Restrict(f, C)) + f[b]
    BY <2>4
  <2>8. SumFunction(by(C)) = SumFunction(Restrict(f, C)) /\ SumFunction(Restrict(f, C)) \in Int /\ f[b] \in Int
    BY <1>1, <1>4, <2>1
  <2> HIDE DEF by, of, C
  <2>9. SumFunction(by(B)) = SumFunction(by(C)) + by(B)[h[b]] - by(C)[h[b]] /\ by(C)[h[b]] \in Int
    BY <2>1, <2>3, SumOfChange
  <2> QED
    BY <2>6, <2>7, <2>8, <2>9
<1> HIDE DEF P
<1>5. SUBSET S \subseteq P
    BY <1>3, <1>4, SubsetInduction
<1>6. Restrict(f, S) = f
    BY DEF Restrict
<1> QED
    BY <1>5, <1>6 DEF P

-----------------------------------------------------------------------------
(* Sublists: the entries of a list at some of its positions. *)

\* How many of the positions K are up to i.
CountUpTo(K, i) == Cardinality({j \in K : j <= i})

\* Positions are counted in their order.
LEMMA RankGrows ==
    ASSUME NEW n \in Nat, NEW K \in SUBSET (1..n)
    PROVE  /\ IsFiniteSet(K) /\ Cardinality(K) \in 0..n
           /\ \A i \in K : CountUpTo(K, i) \in 1..Cardinality(K)
           /\ \A i, j \in K : i < j => CountUpTo(K, i) < CountUpTo(K, j)
<1>1. IsFiniteSet(1..n) /\ Cardinality(1..n) = n
    BY FS_Interval
<1>2. IsFiniteSet(K) /\ Cardinality(K) <= n /\ Cardinality(K) \in Nat
    BY <1>1, FS_Subset, FS_CardinalityType
<1>3. ASSUME NEW i \in K PROVE CountUpTo(K, i) \in 1..Cardinality(K) /\ IsFiniteSet({j \in K : j <= i})
  <2> DEFINE U == {j \in K : j <= i}
  <2>1. U \in SUBSET K /\ i \in U /\ U # {}
    BY <1>3
  <2> HIDE DEF U
  <2>2. IsFiniteSet(U) /\ Cardinality(U) <= Cardinality(K) /\ Cardinality(U) \in Nat
    BY <1>2, <2>1, FS_Subset, FS_CardinalityType
  <2>3. Cardinality(U) # 0
    BY <2>1, <2>2, FS_EmptySet
  <2> QED
    BY <1>2, <2>2, <2>3 DEF CountUpTo, U
<1>4. ASSUME NEW i \in K, NEW j \in K, i < j PROVE CountUpTo(K, i) < CountUpTo(K, j)
  <2> DEFINE U == {k \in K : k <= i}
  <2> DEFINE V == {k \in K : k <= j}
  <2>t. i \in Nat /\ j \in Nat /\ \A k \in K : k \in Nat
    OBVIOUS
  <2>1. U \in SUBSET V /\ j \in V /\ j \notin U
    <3>1. \A k \in K : k <= i => k <= j
      BY <1>4, <2>t
    <3>2. j <= j /\ ~(j <= i)
      BY <1>4, <2>t
    <3> QED
      BY <3>1, <3>2
  <2>2. IsFiniteSet(V) /\ IsFiniteSet(U)
    BY <1>3
  <2> HIDE DEF U, V
  <2>3. Cardinality(U) <= Cardinality(V) /\ Cardinality(U) # Cardinality(V) /\ Cardinality(U) \in Nat /\ Cardinality(V) \in Nat
    BY <2>1, <2>2, FS_Subset, FS_CardinalityType
  <2> QED
    BY <2>3 DEF CountUpTo, U, V
<1>5. \A i \in K : CountUpTo(K, i) \in 1..Cardinality(K)
    BY <1>3
<1>6. \A i, j \in K : i < j => CountUpTo(K, i) < CountUpTo(K, j)
    BY <1>4
<1>7. Cardinality(K) \in 0..n
    BY <1>2
<1> QED
    BY <1>2, <1>5, <1>6, <1>7

\* A sublist is made of the entries at the positions, each once and in their order.
LEMMA SublistIs ==
    ASSUME NEW S, NEW list \in Seq(S), NEW K \in SUBSET DOMAIN list
    PROVE  /\ Cardinality(K) \in 0..Len(list)
           /\ \E pos \in [1..Cardinality(K) -> K] :
                /\ Sublist(list, K) = [n \in 1..Cardinality(K) |-> list[pos[n]]]
                /\ \A m, n \in 1..Cardinality(K) : m < n => pos[m] < pos[n]
                /\ \A i \in K : \E n \in 1..Cardinality(K) : pos[n] = i
<1>1. Len(list) \in Nat /\ K \in SUBSET (1..Len(list))
    OBVIOUS
<1> DEFINE N == Cardinality(K)
<1>2. /\ IsFiniteSet(K) /\ N \in 0..Len(list) /\ N \in Nat
      /\ \A i \in K : CountUpTo(K, i) \in 1..N
      /\ \A i, j \in K : i < j => CountUpTo(K, i) < CountUpTo(K, j)
  <2>1. /\ IsFiniteSet(K) /\ N \in 0..Len(list)
        /\ \A i \in K : CountUpTo(K, i) \in 1..N
        /\ \A i, j \in K : i < j => CountUpTo(K, i) < CountUpTo(K, j)
    BY <1>1, RankGrows
  <2>2. N \in Nat
    BY <1>1, <2>1
  <2> QED
    BY <2>1, <2>2
<1>3. \A i, j \in K : i \in Nat /\ j \in Nat /\ (i < j \/ j < i \/ i = j)
    BY <1>1
<1>4. \A i, j \in K : CountUpTo(K, i) = CountUpTo(K, j) => i = j
    BY <1>2, <1>3
<1> HIDE DEF N
<1> DEFINE r == [i \in K |-> CountUpTo(K, i)]
<1>5. r \in Injection(K, 1..N)
    BY <1>2, <1>4 DEF Injection, IsInjective
<1>6. IsFiniteSet(1..N) /\ Cardinality(1..N) = N
    BY <1>2, FS_Interval
<1>7. r \in Surjection(K, 1..N)
    BY <1>5, <1>6, FS_Injection DEF N
<1>8. \A n \in 1..N : \E i \in K : CountUpTo(K, i) = n
    BY <1>7 DEF Surjection
<1> DEFINE pos == [n \in 1..N |-> Nth(K, n)]
<1>9. \A n \in 1..N : Nth(K, n) \in K /\ CountUpTo(K, Nth(K, n)) = n
    BY <1>8 DEF Nth, CountUpTo
<1>10. pos \in [1..N -> K]
    BY <1>9
<1>11. Sublist(list, K) = [n \in 1..N |-> list[pos[n]]]
    BY DEF Sublist, N
<1>12. ASSUME NEW m \in 1..N, NEW n \in 1..N, m < n PROVE pos[m] < pos[n]
  <2>1. pos[m] \in K /\ pos[n] \in K /\ CountUpTo(K, pos[m]) = m /\ CountUpTo(K, pos[n]) = n
    BY <1>9
  <2>2. ~(pos[n] < pos[m]) /\ pos[n] # pos[m]
    BY <1>2, <1>12, <2>1
  <2> QED
    BY <1>3, <2>1, <2>2
<1>13. ASSUME NEW i \in K PROVE \E n \in 1..N : pos[n] = i
  <2>1. CountUpTo(K, i) \in 1..N
    BY <1>2
  <2>2. Nth(K, CountUpTo(K, i)) \in K /\ CountUpTo(K, Nth(K, CountUpTo(K, i))) = CountUpTo(K, i)
    BY <1>9, <2>1
  <2>3. Nth(K, CountUpTo(K, i)) = i
    BY <1>4, <2>2
  <2> QED
    BY <2>1, <2>3
<1> HIDE DEF pos
<1> QED
    BY <1>2, <1>10, <1>11, <1>12, <1>13 DEF N

\* So it is a list over the same set, no longer than the list.
LEMMA SublistType ==
    ASSUME NEW S, NEW list \in Seq(S), NEW K \in SUBSET DOMAIN list
    PROVE  Sublist(list, K) \in Seq(S) /\ Len(Sublist(list, K)) = Cardinality(K) /\ Cardinality(K) \in 0..Len(list)
<1>1. PICK pos \in [1..Cardinality(K) -> K] : Sublist(list, K) = [n \in 1..Cardinality(K) |-> list[pos[n]]]
    BY SublistIs
<1>2. Cardinality(K) \in 0..Len(list) /\ Cardinality(K) \in Nat
    BY SublistIs
<1>3. \A n \in 1..Cardinality(K) : list[pos[n]] \in S
    OBVIOUS
<1> QED
    BY <1>1, <1>2, <1>3

\* And has every entry that was not left out.
LEMMA SublistHas ==
    ASSUME NEW S, NEW list \in Seq(S), NEW K \in SUBSET DOMAIN list
    PROVE  /\ \A k \in K : \E n \in DOMAIN Sublist(list, K) : Sublist(list, K)[n] = list[k]
           /\ \A n \in DOMAIN Sublist(list, K) : \E k \in K : Sublist(list, K)[n] = list[k]
<1>1. PICK pos \in [1..Cardinality(K) -> K] :
        /\ Sublist(list, K) = [n \in 1..Cardinality(K) |-> list[pos[n]]]
        /\ \A i \in K : \E n \in 1..Cardinality(K) : pos[n] = i
    BY SublistIs
<1> QED
    BY <1>1

-----------------------------------------------------------------------------
(* Finite sets in order: below[k] are the members before k. *)
TotalOrder(S, below) ==
    /\ \A k \in S : below[k] \in SUBSET S /\ k \notin below[k]
    /\ \A j, k \in S : j \in below[k] => below[j] \subseteq below[k]
    /\ \A j, k \in S : j # k => j \in below[k] \/ k \in below[j]

\* As many members are before a member as its place says, and every place is taken.
LEMMA PlacesCover ==
    ASSUME NEW S, IsFiniteSet(S), NEW below, TotalOrder(S, below)
    PROVE  /\ Cardinality(S) \in Nat
           /\ \A k \in S : IsFiniteSet(below[k]) /\ Cardinality(below[k]) \in 0..Cardinality(S) - 1
           /\ \A j, k \in S : j \in below[k] => Cardinality(below[j]) < Cardinality(below[k])
           /\ \A j, k \in S : Cardinality(below[j]) = Cardinality(below[k]) => j = k
           /\ \A n \in 1..Cardinality(S) : \E k \in S : Cardinality(below[k]) = n - 1
<1> DEFINE N == Cardinality(S)
<1>1. N \in Nat
    BY FS_CardinalityType
<1>2. ASSUME NEW k \in S PROVE IsFiniteSet(below[k]) /\ Cardinality(below[k]) \in 0..N - 1
  <2> DEFINE U == below[k]
  <2>1. U \in SUBSET (S \ {k})
    BY DEF TotalOrder
  <2>2. IsFiniteSet(S \ {k}) /\ Cardinality(S \ {k}) = N - 1
    BY RemoveOne
  <2> HIDE DEF U
  <2>3. IsFiniteSet(U) /\ Cardinality(U) <= N - 1 /\ Cardinality(U) \in Nat
    BY <2>1, <2>2, FS_Subset, FS_CardinalityType
  <2> QED
    BY <1>1, <2>3 DEF U
<1>3. ASSUME NEW j \in S, NEW k \in S, j \in below[k] PROVE Cardinality(below[j]) < Cardinality(below[k])
  <2> DEFINE U == below[j]
  <2> DEFINE V == below[k]
  <2>1. U \in SUBSET (V \ {j}) /\ j \in V
    BY <1>3 DEF TotalOrder
  <2>2. IsFiniteSet(V)
    BY <1>2
  <2> HIDE DEF U, V
  <2>3. IsFiniteSet(V \ {j}) /\ Cardinality(V \ {j}) \in Nat /\ Cardinality(V) \in Nat /\ Cardinality(V \ {j}) < Cardinality(V)
    BY <2>1, <2>2, RemoveOne
  <2>4. Cardinality(U) <= Cardinality(V \ {j}) /\ Cardinality(U) \in Nat
    BY <2>1, <2>3, FS_Subset, FS_CardinalityType
  <2> QED
    BY <2>3, <2>4 DEF U, V
<1>4. ASSUME NEW j \in S, NEW k \in S, Cardinality(below[j]) = Cardinality(below[k]) PROVE j = k
  <2> SUFFICES ASSUME j # k PROVE FALSE
    OBVIOUS
  <2>1. j \in below[k] \/ k \in below[j]
    BY DEF TotalOrder
  <2>2. Cardinality(below[j]) \in Int /\ Cardinality(below[k]) \in Int
    BY <1>1, <1>2
  <2>3. Cardinality(below[j]) < Cardinality(below[k]) \/ Cardinality(below[k]) < Cardinality(below[j])
    BY <1>3, <2>1
  <2> QED
    BY <1>4, <2>2, <2>3
<1> DEFINE place == [k \in S |-> Cardinality(below[k]) + 1]
<1>5. \A k \in S : place[k] \in 1..N /\ Cardinality(below[k]) = place[k] - 1
    BY <1>1, <1>2
<1>6. place \in Injection(S, 1..N)
  <2>1. place \in [S -> 1..N]
    BY <1>5
  <2>2. \A j, k \in S : place[j] = place[k] => j = k
    BY <1>4, <1>5
  <2> HIDE DEF place
  <2> QED
    BY <2>1, <2>2 DEF Injection, IsInjective
<1>7. IsFiniteSet(1..N) /\ Cardinality(1..N) = N
    BY <1>1, FS_Interval
<1> HIDE DEF place
<1>8. place \in Surjection(S, 1..N)
  <2>1. Cardinality(S) = Cardinality(1..N)
    BY <1>7
  <2> HIDE DEF N
  <2> QED
    BY <1>6, <1>7, <2>1, FS_Injection
<1>9. \A n \in 1..N : \E k \in S : place[k] = n
    BY <1>8 DEF Surjection
<1>10. \A n \in 1..N : \E k \in S : Cardinality(below[k]) = n - 1
    BY <1>5, <1>9
<1> HIDE DEF N
<1>11. \A k \in S : IsFiniteSet(below[k]) /\ Cardinality(below[k]) \in 0..N - 1
    BY <1>2
<1>12. \A j, k \in S : j \in below[k] => Cardinality(below[j]) < Cardinality(below[k])
    BY <1>3
<1>13. \A j, k \in S : Cardinality(below[j]) = Cardinality(below[k]) => j = k
    BY <1>4
<1> QED
    BY <1>1, <1>10, <1>11, <1>12, <1>13 DEF N

\* A sequence that has every member at its place.
Arranged(f, S, below) ==
    f \in [1..Cardinality(S) -> S] /\ \A n \in 1..Cardinality(S) : Cardinality(below[f[n]]) = n - 1

\* It has every member, and the members before one are those at lower places.
LEMMA ArrangedAll ==
    ASSUME NEW S, IsFiniteSet(S), NEW below, TotalOrder(S, below), NEW f, Arranged(f, S, below)
    PROVE  /\ Cardinality(S) \in Nat /\ f \in Seq(S) /\ Len(f) = Cardinality(S)
           /\ \A k \in S : \E n \in 1..Cardinality(S) : f[n] = k
           /\ \A m, n \in 1..Cardinality(S) : f[m] \in below[f[n]] <=> m < n
<1> DEFINE N == Cardinality(S)
<1>1. /\ N \in Nat
      /\ \A k \in S : Cardinality(below[k]) \in 0..N - 1
      /\ \A j, k \in S : j \in below[k] => Cardinality(below[j]) < Cardinality(below[k])
      /\ \A j, k \in S : Cardinality(below[j]) = Cardinality(below[k]) => j = k
    BY PlacesCover
<1>2. f \in [1..N -> S] /\ \A n \in 1..N : Cardinality(below[f[n]]) = n - 1
    BY DEF Arranged
<1> HIDE DEF N
<1>3. ASSUME NEW k \in S PROVE \E n \in 1..N : f[n] = k
  <2> DEFINE n == Cardinality(below[k]) + 1
  <2>1. n \in 1..N /\ n - 1 = Cardinality(below[k])
    BY <1>1
  <2>2. f[n] \in S /\ Cardinality(below[f[n]]) = Cardinality(below[k])
    BY <1>2, <2>1
  <2> QED
    BY <1>1, <2>1, <2>2
<1>4. ASSUME NEW m \in 1..N, NEW n \in 1..N PROVE f[m] \in below[f[n]] <=> m < n
  <2>1. f[m] \in S /\ f[n] \in S /\ Cardinality(below[f[m]]) = m - 1 /\ Cardinality(below[f[n]]) = n - 1 /\ m \in Int /\ n \in Int
    BY <1>1, <1>2
  <2>2. f[m] \in below[f[n]] => m < n
    <3> HAVE f[m] \in below[f[n]]
    <3>1. Cardinality(below[f[m]]) < Cardinality(below[f[n]])
      BY <1>1, <2>1
    <3> QED
      BY <2>1, <3>1
  <2>3. m < n => f[m] \in below[f[n]]
    <3> HAVE m < n
    <3>1. f[m] # f[n]
      BY <2>1
    <3>2. f[m] \in below[f[n]] \/ f[n] \in below[f[m]]
      BY <2>1, <3>1 DEF TotalOrder
    <3>3. f[n] \in below[f[m]] => FALSE
      <4> HAVE f[n] \in below[f[m]]
      <4>1. Cardinality(below[f[n]]) < Cardinality(below[f[m]])
        BY <1>1, <2>1
      <4> QED
        BY <2>1, <4>1
    <3> QED
      BY <3>2, <3>3
  <2> QED
    BY <2>2, <2>3
<1>5. f \in Seq(S) /\ Len(f) = N
    BY <1>1, <1>2
<1> QED
    BY <1>1, <1>3, <1>4, <1>5 DEF N

\* A part of the set that has all above each of its members, and its own order.
UpperPart(U, above, S, below) ==
    /\ U \in SUBSET S /\ \A k \in S : \A u \in U : u \in below[k] => k \in U
    /\ \A k \in U : above[k] = below[k] \cap U
\* g is the end of f, what is left of it after as many entries as the rest has members.
EndOf(g, U, f, S) ==
    /\ Cardinality(S) \in Nat /\ Cardinality(U) \in Nat /\ Cardinality(S \ U) \in Nat
    /\ Cardinality(S) = Cardinality(S \ U) + Cardinality(U)
    /\ \A n \in 1..Cardinality(U) : g[n] = f[Cardinality(S \ U) + n]

\* The upper part of a set in order is the end of the whole in order.
LEMMA UpperArranged ==
    ASSUME NEW S, IsFiniteSet(S), NEW below, TotalOrder(S, below), NEW f, Arranged(f, S, below),
           NEW U, NEW above, UpperPart(U, above, S, below),
           NEW g, Arranged(g, U, above)
    PROVE  EndOf(g, U, f, S)
<1>0. /\ U \in SUBSET S /\ \A k \in S : \A u \in U : u \in below[k] => k \in U
      /\ \A k \in U : above[k] = below[k] \cap U
    BY DEF UpperPart
<1> DEFINE N == Cardinality(S)
           M == Cardinality(U)
           d == Cardinality(S \ U)
           rest == S \ U
<1>1. IsFiniteSet(U) /\ IsFiniteSet(rest) /\ rest \cap U = {} /\ rest \cup U = S
    BY <1>0, FS_Subset
<1>2. N \in Nat /\ M \in Nat /\ d \in Nat
    BY <1>1, FS_CardinalityType
<1>3. N = d + M
  <2>1. Cardinality(rest \cup U) = Cardinality(rest) + Cardinality(U) - Cardinality(rest \cap U)
    <3> HIDE DEF rest
    <3> QED
      BY <1>1, FS_Union
  <2>2. Cardinality(rest \cap U) = 0
    BY <1>1, FS_EmptySet
  <2>3. Cardinality(rest \cup U) = N
    BY <1>1
  <2> HIDE DEF N, rest
  <2>4. Cardinality(rest) = d
    BY DEF rest
  <2> HIDE DEF M, d
  <2>5. Cardinality(U) = M
    BY DEF M
  <2> QED
    BY <1>2, <2>1, <2>2, <2>3, <2>4, <2>5
<1>4. ASSUME NEW k \in U PROVE Cardinality(below[k]) = d + Cardinality(above[k]) /\ Cardinality(above[k]) \in Nat
  <2> DEFINE A == above[k]
             B == below[k]
  <2>1. rest \subseteq B
    <3> SUFFICES ASSUME NEW x \in rest PROVE x \in B
      OBVIOUS
    <3>1. x \in S /\ k \in S /\ x # k /\ x \notin U
      BY <1>0
    <3>2. x \in below[k] \/ k \in below[x]
      BY <3>1 DEF TotalOrder
    <3> QED
      BY <1>0, <3>1, <3>2
  <2>2. B \in SUBSET S /\ A = B \cap U
    BY <1>0 DEF TotalOrder
  <2>3. B = rest \cup A /\ rest \cap A = {} /\ A \in SUBSET U
    BY <2>1, <2>2
  <2> HIDE DEF A, B, rest
  <2>4. IsFiniteSet(A)
    BY <1>1, <2>3, FS_Subset
  <2>5. Cardinality(rest \cup A) = Cardinality(rest) + Cardinality(A) - Cardinality(rest \cap A)
    BY <1>1, <2>4, FS_Union
  <2>6. Cardinality(rest \cap A) = 0
    BY <2>3, FS_EmptySet
  <2>7. Cardinality(A) \in Nat
    BY <2>4, FS_CardinalityType
  <2>8. Cardinality(rest) = d
    BY DEF rest
  <2>9. Cardinality(B) = d + Cardinality(A)
    BY <1>2, <2>3, <2>5, <2>6, <2>7, <2>8
  <2> QED
    BY <2>7, <2>9 DEF A, B
<1>5. /\ f \in [1..N -> S] /\ \A n \in 1..N : Cardinality(below[f[n]]) = n - 1
      /\ g \in [1..M -> U] /\ \A n \in 1..M : Cardinality(above[g[n]]) = n - 1
    BY DEF Arranged
<1>6. \A j, k \in S : Cardinality(below[j]) = Cardinality(below[k]) => j = k
    BY PlacesCover
<1> HIDE DEF N, M, d, rest
<1>7. ASSUME NEW n \in 1..M PROVE g[n] = f[d + n]
  <2>1. d + n \in 1..N /\ n \in Nat
    BY <1>2, <1>3
  <2>2. g[n] \in U /\ f[d + n] \in S /\ Cardinality(above[g[n]]) = n - 1 /\ Cardinality(below[f[d + n]]) = (d + n) - 1
    BY <1>5, <2>1
  <2>3. Cardinality(below[g[n]]) = d + (n - 1)
    BY <1>4, <2>2
  <2>4. d + (n - 1) = (d + n) - 1
    BY <1>2, <2>1
  <2> QED
    BY <1>0, <1>6, <2>2, <2>3, <2>4
<1> QED
    BY <1>2, <1>3, <1>7 DEF EndOf, N, M, d
=============================================================================
