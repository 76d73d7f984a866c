-------------------------- MODULE ForkSwitchProofs --------------------------
(***************************************************************************)
(* For every block tree, payload, set of refused blocks and pool size: the *)
(* committed chain is a path of the tree at every instant, no transaction  *)
(* takes effect twice, the node stays on a longest chain, and a fork       *)
(* switch is all or nothing and loses no transaction.                      *)
(*                                                                         *)
(* PathTo and Without are recursive functions.  Their equations, and what  *)
(* they compute, are proved by induction in the form of a least            *)
(* counterexample (LeastNatural), which takes a set and not a predicate.   *)
(***************************************************************************)
EXTENDS ForkSwitch, TLAPS, WellFoundedInduction, FiniteSetTheorems, SequenceTheorems

-----------------------------------------------------------------------------
(* Induction, by the least element of a set of naturals. *)

\* A nonempty set of naturals has a least element.
LEMMA LeastNatural ==
    ASSUME NEW T \in SUBSET Nat, T # {}
    PROVE  \E n \in T : \A m \in T : n <= m
<1>1. IsWellFoundedOn(OpToRel(<, Nat), Nat)
  BY NatLessThanWellFounded
<1>2. PICK n \in T : \A m \in T : ~(<<m, n>> \in OpToRel(<, Nat))
  <2> HIDE DEF OpToRel
  <2> QED
    BY <1>1, WFMin
<1>3. \A m \in T : <<m, n>> \in Nat \X Nat
  OBVIOUS
<1>4. \A m \in T : ~(m < n)
  BY <1>2, <1>3 DEF OpToRel
<1> QED
  BY <1>4

\* A set that holds 0 and, with a number below n, the next one, holds 0 .. n.
LEMMA IntervalInduction ==
    ASSUME NEW n \in Nat, NEW P, 0 \in P, \A i \in 1 .. n : i - 1 \in P => i \in P
    PROVE  0 .. n \subseteq P
<1> DEFINE T == {i \in Nat : i <= n /\ i \notin P}
<1> SUFFICES ASSUME T # {} PROVE FALSE
  OBVIOUS
<1>1. PICK i \in T : \A m \in T : i <= m
  BY LeastNatural
<1>2. i \in 1 .. n /\ i - 1 \notin T
  BY <1>1
<1> QED
  BY <1>1, <1>2

-----------------------------------------------------------------------------
(* The block tree. *)

\* f gives the paths of the blocks up to height n.
Upto(n) == {b \in Blocks : Height[b] <= n}
PathsUpto(f, n) ==
    f = [b \in Upto(n) |-> IF b = Genesis THEN <<Genesis>> ELSE Append(f[Parent[b]], b)]

\* A parent is one lower than its block.
LEMMA ParentLower ==
    \A b \in Blocks : /\ Height[b] \in Nat
                      /\ b # Genesis => /\ Parent[b] \in Blocks /\ Height[b] > 0
                                        /\ Height[Parent[b]] = Height[b] - 1
  BY TreeAssumption DEF Linkable

\* Paths exist up to every height.
LEMMA PathsExist == \A n \in Nat : \E f : PathsUpto(f, n)
<1> DEFINE T == {n \in Nat : ~\E f : PathsUpto(f, n)}
<1> SUFFICES ASSUME T # {} PROVE FALSE
  OBVIOUS
<1>1. PICK n \in T : \A m \in T : n <= m
  BY LeastNatural
<1>2. \E h : n = 0 \/ PathsUpto(h, n - 1)
  BY <1>1
<1>3. PICK h : n = 0 \/ PathsUpto(h, n - 1)
  BY <1>2
<1> DEFINE f == [b \in Upto(n) |-> IF b = Genesis THEN <<Genesis>> ELSE Append(h[Parent[b]], b)]
<1>4. ASSUME NEW b \in Upto(n), b # Genesis
      PROVE  f[Parent[b]] = h[Parent[b]]
  <2>1. n # 0 /\ Parent[b] \in Upto(n) /\ Parent[b] \in Upto(n - 1)
    BY <1>1, <1>4, ParentLower DEF Upto
  <2>2. h[Parent[b]] = IF Parent[b] = Genesis THEN <<Genesis>> ELSE Append(h[Parent[Parent[b]]], Parent[b])
    BY <1>3, <2>1 DEF PathsUpto
  <2> QED
    BY <2>1, <2>2
<1>5. PathsUpto(f, n)
  BY <1>4 DEF PathsUpto
<1> QED
  BY <1>1, <1>5

\* and they agree on the blocks they share.
LEMMA PathsAgree ==
    ASSUME NEW f, NEW g, NEW m \in Nat, NEW n \in Nat, PathsUpto(f, m), PathsUpto(g, n)
    PROVE  \A b \in Upto(m) \cap Upto(n) : f[b] = g[b]
<1> DEFINE T == {k \in Nat : \E b \in Upto(m) \cap Upto(n) : Height[b] = k /\ f[b] # g[b]}
<1> SUFFICES ASSUME T # {} PROVE FALSE
  BY ParentLower DEF Upto
<1>1. PICK k \in T : \A j \in T : k <= j
  BY LeastNatural
<1>2. PICK b \in Upto(m) \cap Upto(n) : Height[b] = k /\ f[b] # g[b]
  BY <1>1
<1>3. b # Genesis
  BY <1>2 DEF PathsUpto
<1>4. Parent[b] \in Upto(m) \cap Upto(n) /\ Height[Parent[b]] = k - 1 /\ k - 1 \in Nat
  BY <1>1, <1>2, <1>3, ParentLower DEF Upto
<1>5. f[Parent[b]] = g[Parent[b]]
  BY <1>1, <1>4
<1>6. f[b] = Append(f[Parent[b]], b)
  BY <1>2, <1>3 DEF PathsUpto
<1>7. g[b] = Append(g[Parent[b]], b)
  BY <1>2, <1>3 DEF PathsUpto
<1> QED
  BY <1>2, <1>5, <1>6, <1>7

\* The recursive definition of PathTo defines it.
LEMMA PathUnfolds ==
    \A b \in Blocks : PathTo[b] = IF b = Genesis THEN <<Genesis>> ELSE Append(PathTo[Parent[b]], b)
<1> DEFINE part(b) == CHOOSE f : PathsUpto(f, Height[b])
           whole == [b \in Blocks |-> part(b)[b]]
<1>1. \A b \in Blocks : PathsUpto(part(b), Height[b])
  BY PathsExist, ParentLower
<1>2. ASSUME NEW b \in Blocks
      PROVE  whole[b] = IF b = Genesis THEN <<Genesis>> ELSE Append(whole[Parent[b]], b)
  <2>1. part(b)[b] = IF b = Genesis THEN <<Genesis>> ELSE Append(part(b)[Parent[b]], b)
    <3>1. b \in Upto(Height[b]) /\ PathsUpto(part(b), Height[b])
      BY <1>1, ParentLower DEF Upto
    <3> HIDE DEF part
    <3> QED
      BY <3>1 DEF PathsUpto
  <2>2. CASE b = Genesis
    BY <2>1, <2>2
  <2>3. CASE b # Genesis
    <3>1. Parent[b] \in Blocks /\ Parent[b] \in Upto(Height[b]) \cap Upto(Height[Parent[b]])
      BY <2>3, ParentLower DEF Upto
    <3>2. part(b)[Parent[b]] = part(Parent[b])[Parent[b]]
      <4> HIDE DEF part
      <4>1. Height[b] \in Nat /\ Height[Parent[b]] \in Nat
        BY <3>1, ParentLower
      <4>2. PathsUpto(part(b), Height[b]) /\ PathsUpto(part(Parent[b]), Height[Parent[b]])
        BY <1>1, <3>1
      <4> QED
        BY <3>1, <4>1, <4>2, PathsAgree
    <3> HIDE DEF part
    <3> QED
      BY <2>1, <2>3, <3>1, <3>2
  <2> QED
    BY <2>2, <2>3
<1>3. whole = [b \in Blocks |-> IF b = Genesis THEN <<Genesis>> ELSE Append(whole[Parent[b]], b)]
  <2> HIDE DEF part
  <2> QED BY <1>2
<1>4. \E f : f = [b \in Blocks |-> IF b = Genesis THEN <<Genesis>> ELSE Append(f[Parent[b]], b)]
  <2> HIDE DEF whole
  <2> QED BY <1>3
<1>5. PathTo = [b \in Blocks |-> IF b = Genesis THEN <<Genesis>> ELSE Append(PathTo[Parent[b]], b)]
  BY <1>4 DEF PathTo
<1> QED
  BY <1>5

\* A path starts at Genesis, ends at its block and holds one block per height.
LEMMA PathShape ==
    \A b \in Blocks : /\ PathTo[b] \in Seq(Blocks)
                      /\ Len(PathTo[b]) = Height[b] + 1
                      /\ PathTo[b][1] = Genesis
                      /\ PathTo[b][Height[b] + 1] = b
<1> DEFINE Shaped(b) == /\ PathTo[b] \in Seq(Blocks)
                        /\ Len(PathTo[b]) = Height[b] + 1
                        /\ PathTo[b][1] = Genesis
                        /\ PathTo[b][Height[b] + 1] = b
           T == {k \in Nat : \E b \in Blocks : Height[b] = k /\ ~Shaped(b)}
<1> SUFFICES ASSUME T # {} PROVE FALSE
  BY ParentLower
<1>1. PICK k \in T : \A j \in T : k <= j
  BY LeastNatural
<1>2. PICK b \in Blocks : Height[b] = k /\ ~Shaped(b)
  BY <1>1
<1>3. CASE b = Genesis
  <2>1. PathTo[b] = <<b>> /\ b \in Blocks /\ Height[b] = 0
    BY <1>3, PathUnfolds, TreeAssumption
  <2> QED
    BY <1>2, <1>3, <2>1
<1>4. CASE b # Genesis
  <2>1. Parent[b] \in Blocks /\ Height[Parent[b]] = k - 1 /\ k - 1 \in Nat
    BY <1>1, <1>2, <1>4, ParentLower
  <2>2. Shaped(Parent[b])
    <3>1. k - 1 \notin T
      BY <1>1, <2>1
    <3> HIDE DEF Shaped
    <3> QED
      BY <2>1, <3>1
  <2>3. PathTo[b] = Append(PathTo[Parent[b]], b)
    BY <1>4, PathUnfolds
  <2> QED
    BY <1>2, <2>1, <2>2, <2>3
<1> QED
  BY <1>3, <1>4

\* A prefix of a path is the path of its last block.
LEMMA PathPrefix ==
    \A b \in Blocks : \A i \in 1 .. Height[b] + 1 :
        /\ PathTo[b][i] \in Blocks
        /\ Height[PathTo[b][i]] = i - 1
        /\ SubSeq(PathTo[b], 1, i) = PathTo[PathTo[b][i]]
<1> DEFINE Closed(b) == \A i \in 1 .. Height[b] + 1 :
                            /\ PathTo[b][i] \in Blocks
                            /\ Height[PathTo[b][i]] = i - 1
                            /\ SubSeq(PathTo[b], 1, i) = PathTo[PathTo[b][i]]
           T == {k \in Nat : \E b \in Blocks : Height[b] = k /\ ~Closed(b)}
<1> SUFFICES ASSUME T # {} PROVE FALSE
  BY ParentLower
<1>1. PICK k \in T : \A j \in T : k <= j
  BY LeastNatural
<1>2. PICK b \in Blocks : Height[b] = k /\ ~Closed(b)
  BY <1>1
<1>3. PathTo[b] \in Seq(Blocks) /\ Len(PathTo[b]) = k + 1 /\ PathTo[b][k + 1] = b
  BY <1>2, PathShape
<1>4. SubSeq(PathTo[b], 1, k + 1) = PathTo[b]
  BY <1>3
<1>5. b # Genesis
  BY <1>2, <1>3, <1>4, TreeAssumption
<1>6. Parent[b] \in Blocks /\ Height[Parent[b]] = k - 1 /\ k - 1 \in Nat
  BY <1>1, <1>2, <1>5, ParentLower
<1>7. Closed(Parent[b])
  BY <1>1, <1>6
<1>8. PathTo[b] = Append(PathTo[Parent[b]], b)
  BY <1>5, PathUnfolds
<1>9. PathTo[Parent[b]] \in Seq(Blocks) /\ Len(PathTo[Parent[b]]) = k
  BY <1>6, PathShape
<1>10. ASSUME NEW i \in 1 .. Height[b] + 1
       PROVE  /\ PathTo[b][i] \in Blocks
              /\ Height[PathTo[b][i]] = i - 1
              /\ SubSeq(PathTo[b], 1, i) = PathTo[PathTo[b][i]]
  <2>1. CASE i = k + 1
    BY <1>2, <1>3, <1>4, <2>1
  <2>2. CASE i # k + 1
    <3>1. i \in 1 .. k
      BY <1>1, <1>2, <1>6, <2>2
    <3>2. PathTo[b][i] = PathTo[Parent[b]][i]
      BY <1>8, <1>9, <3>1
    <3>3. SubSeq(PathTo[b], 1, i) = SubSeq(PathTo[Parent[b]], 1, i)
      BY <1>8, <1>9, <3>1
    <3> QED
      BY <1>6, <1>7, <3>1, <3>2, <3>3
  <2> QED
    BY <2>1, <2>2
<1> QED
  BY <1>2, <1>10

\* Two chains from one block share exactly their first Fork(p, q) blocks.
LEMMA ForkIsCommon ==
    ASSUME NEW p \in Seq(Blocks), NEW q \in Seq(Blocks), p # <<>>, q # <<>>, p[1] = q[1]
    PROVE  /\ Fork(p, q) \in 1 .. Len(p) /\ Fork(p, q) <= Len(q)
           /\ SubSeq(p, 1, Fork(p, q)) = SubSeq(q, 1, Fork(p, q))
           /\ \A i \in Fork(p, q) + 1 .. Len(p) : i > Len(q) \/ SubSeq(p, 1, i) # SubSeq(q, 1, i)
<1> DEFINE I == {i \in DOMAIN p : i <= Len(q) /\ SubSeq(p, 1, i) = SubSeq(q, 1, i)}
           T == {i \in Nat : i > 0 /\ i \notin I}
<1>1. I \subseteq 1 .. Len(p) /\ Len(p) \in Nat /\ Len(q) \in Nat /\ Len(p) > 0 /\ Len(q) > 0
  OBVIOUS
<1>2. Len(p) + 1 \in T
  BY <1>1
<1>3. PICK m \in T : \A j \in T : m <= j
  <2> HIDE DEF T
  <2>1. T # {} /\ T \in SUBSET Nat
    BY <1>2 DEF T
  <2> QED
    BY <2>1, LeastNatural
<1>4. ASSUME NEW i \in I, NEW j \in 1 .. i
      PROVE  j \in I
  <2>1. SubSeq(p, 1, i) = SubSeq(q, 1, i) /\ i <= Len(p) /\ i <= Len(q) /\ i \in Nat
    OBVIOUS
  <2>2. \A k \in 1 .. i : p[k] = q[k]
    <3> SUFFICES ASSUME NEW k \in 1 .. i PROVE p[k] = q[k]
      OBVIOUS
    <3>1. SubSeq(p, 1, i)[k] = p[k] /\ SubSeq(q, 1, i)[k] = q[k]
      BY <2>1
    <3> QED
      BY <2>1, <3>1
  <2>3. SubSeq(p, 1, j) = SubSeq(q, 1, j)
    BY <2>1, <2>2
  <2> QED
    BY <2>1, <2>3
<1>5. 1 \in I
  BY <1>1
<1>6. I = 1 .. m - 1
  <2>1. ASSUME NEW i \in I PROVE i \in 1 .. m - 1
    <3>1. i \in Nat /\ i > 0 /\ m \in Nat /\ m > 0 /\ m \notin I
      BY <1>1, <1>3
    <3>2. m \notin 1 .. i
      BY <3>1, <1>4
    <3> QED
      BY <3>1, <3>2
  <2>2. ASSUME NEW i \in 1 .. m - 1 PROVE i \in I
    BY <1>3
  <2> QED
    BY <2>1, <2>2
<1>7. Cardinality(I) = m - 1
  <2>1. m \in Nat /\ m > 0
    BY <1>3
  <2> HIDE DEF I, T
  <2>2. Cardinality(1 .. m - 1) = m - 1
    <3>1. 1 \in Int /\ m - 1 \in Int
      BY <2>1
    <3>2. Cardinality(1 .. m - 1) = IF 1 > m - 1 THEN 0 ELSE m - 1 - 1 + 1
      BY <3>1, FS_Interval
    <3> QED
      BY <2>1, <3>2
  <2> QED
    BY <1>6, <2>2
<1>8. Fork(p, q) = m - 1
  BY <1>7 DEF Fork
<1>9. m \in Nat /\ m - 1 \in I
  BY <1>3, <1>5, <1>6
<1> QED
  BY <1>1, <1>6, <1>8, <1>9

-----------------------------------------------------------------------------
(* The linked blocks of the graph. *)

\* f keeps of the first n blocks of ls those outside S.
Keeps(f, n, ls, S) ==
    f = [i \in 0 .. n |-> IF i = 0 THEN <<>>
                         ELSE IF ls[i] \in S THEN f[i - 1] ELSE Append(f[i - 1], ls[i])]

\* The recursive function inside Without is defined.
LEMMA WithoutUnfolds ==
    ASSUME NEW ls \in Seq(Blocks), NEW S
    PROVE  \E f : /\ f[0] = <<>> /\ Without(ls, S) = f[Len(ls)]
                  /\ \A i \in 1 .. Len(ls) :
                        f[i] = IF ls[i] \in S THEN f[i - 1] ELSE Append(f[i - 1], ls[i])
<1> DEFINE T == {n \in Nat : ~\E f : Keeps(f, n, ls, S)}
<1>1. T = {}
  <2> SUFFICES ASSUME T # {} PROVE FALSE
    OBVIOUS
  <2>1. PICK n \in T : \A m \in T : n <= m
    BY LeastNatural
  <2>2. \E h : n = 0 \/ Keeps(h, n - 1, ls, S)
    BY <2>1
  <2>3. PICK h : n = 0 \/ Keeps(h, n - 1, ls, S)
    BY <2>2
  <2> DEFINE f == [i \in 0 .. n |-> IF i = 0 THEN <<>>
                                   ELSE IF ls[i] \in S THEN h[i - 1] ELSE Append(h[i - 1], ls[i])]
  <2>4. ASSUME NEW i \in 0 .. n, i # 0
        PROVE  f[i - 1] = h[i - 1]
    <3>1. n # 0 /\ n \in Nat /\ i - 1 \in 0 .. n /\ i - 1 \in 0 .. n - 1
      BY <2>1, <2>4
    <3>2. h[i - 1] = IF i - 1 = 0 THEN <<>>
                     ELSE IF ls[i - 1] \in S THEN h[i - 1 - 1] ELSE Append(h[i - 1 - 1], ls[i - 1])
      BY <2>3, <3>1 DEF Keeps
    <3> QED
      BY <3>1, <3>2
  <2>5. Keeps(f, n, ls, S)
    BY <2>4 DEF Keeps
  <2> QED
    BY <2>1, <2>5
<1>2. Len(ls) \in Nat
  OBVIOUS
<1>3. \E f : Keeps(f, Len(ls), ls, S)
  BY <1>1, <1>2
<1> DEFINE g == CHOOSE f : Keeps(f, Len(ls), ls, S)
<1>4. Without(ls, S) = g[Len(ls)]
  BY DEF Without, Keeps
<1>5. Keeps(g, Len(ls), ls, S)
  BY <1>3
<1> HIDE DEF g
<1>6. g[0] = <<>>
  <2>1. 0 \in 0 .. Len(ls)
    BY <1>2
  <2> QED
    BY <1>5, <2>1 DEF Keeps
<1>7. ASSUME NEW i \in 1 .. Len(ls)
      PROVE  g[i] = IF ls[i] \in S THEN g[i - 1] ELSE Append(g[i - 1], ls[i])
  <2>1. i \in 0 .. Len(ls) /\ i # 0
    BY <1>2
  <2> QED
    BY <1>5, <2>1 DEF Keeps
<1> QED
  BY <1>4, <1>6, <1>7

\* Append adds one member.
LEMMA AppendMembers ==
    ASSUME NEW s \in Seq(Blocks), NEW b \in Blocks, NEW r, r = Append(s, b)
    PROVE  \A x : (\E j \in DOMAIN r : r[j] = x) <=> (\E j \in DOMAIN s : s[j] = x) \/ x = b
<1>1. DOMAIN Append(s, b) = 1 .. Len(s) + 1 /\ DOMAIN s = 1 .. Len(s) /\ Len(s) \in Nat
  OBVIOUS
<1>2. Append(s, b)[Len(s) + 1] = b /\ \A j \in 1 .. Len(s) : Append(s, b)[j] = s[j]
  OBVIOUS
<1>3. ASSUME NEW x, NEW j \in DOMAIN Append(s, b), Append(s, b)[j] = x
      PROVE  (\E k \in DOMAIN s : s[k] = x) \/ x = b
  <2>1. j = Len(s) + 1 \/ j \in 1 .. Len(s)
    BY <1>1
  <2> QED
    BY <1>1, <1>2, <1>3, <2>1
<1>4. ASSUME NEW x, (\E k \in DOMAIN s : s[k] = x) \/ x = b
      PROVE  \E j \in DOMAIN Append(s, b) : Append(s, b)[j] = x
  <2>1. Len(s) + 1 \in DOMAIN Append(s, b) /\ \A k \in DOMAIN s : k \in DOMAIN Append(s, b)
    BY <1>1
  <2> QED
    BY <1>1, <1>2, <1>4, <2>1
<1> QED
  BY <1>3, <1>4

\* Without removes the blocks of S and no others.
LEMMA WithoutMembers ==
    ASSUME NEW ls \in Seq(Blocks), NEW S
    PROVE  /\ Without(ls, S) \in Seq(Blocks)
           /\ ToSet(Without(ls, S)) = ToSet(ls) \ S
<1>1. PICK f : /\ f[0] = <<>> /\ Without(ls, S) = f[Len(ls)]
               /\ \A i \in 1 .. Len(ls) :
                     f[i] = IF ls[i] \in S THEN f[i - 1] ELSE Append(f[i - 1], ls[i])
  BY WithoutUnfolds
<1>2. Len(ls) \in Nat /\ \A i \in 1 .. Len(ls) : ls[i] \in Blocks
  OBVIOUS
<1>3. /\ f[0] = <<>>
      /\ \A i \in 1 .. Len(ls) : f[i] = IF ls[i] \in S THEN f[i - 1] ELSE Append(f[i - 1], ls[i])
  BY <1>1
<1> DEFINE Holds(i) == /\ f[i] \in Seq(Blocks)
                       /\ \A x : (\E j \in DOMAIN f[i] : f[i][j] = x)
                                 <=> (\E j \in 1 .. i : ls[j] = x /\ x \notin S)
           P == {i \in 0 .. Len(ls) : Holds(i)}
<1>4. 0 .. Len(ls) \subseteq P
  <2>1. Holds(0)
    BY <1>3
  <2>2. ASSUME NEW i \in 1 .. Len(ls), Holds(i - 1)
        PROVE  Holds(i)
    <3>1. CASE ls[i] \in S
      <4>1. f[i] = f[i - 1]
        BY <1>3, <3>1
      <4>2. \A x : (\E j \in 1 .. i : ls[j] = x /\ x \notin S) <=> (\E j \in 1 .. i - 1 : ls[j] = x /\ x \notin S)
        BY <3>1
      <4> QED
        BY <2>2, <4>1, <4>2
    <3>2. CASE ls[i] \notin S
      <4>1. f[i] = Append(f[i - 1], ls[i]) /\ f[i - 1] \in Seq(Blocks) /\ ls[i] \in Blocks
        BY <1>2, <1>3, <2>2, <3>2
      <4>2. f[i] \in Seq(Blocks)
        BY <4>1
      <4>3. \A x : (\E j \in DOMAIN f[i] : f[i][j] = x)
                      <=> (\E j \in DOMAIN f[i - 1] : f[i - 1][j] = x) \/ x = ls[i]
        <5> DEFINE s == f[i - 1] r == f[i] b == ls[i]
        <5>1. s \in Seq(Blocks) /\ b \in Blocks /\ r = Append(s, b)
          BY <4>1
        <5> HIDE DEF s, r, b
        <5>2. \A x : (\E j \in DOMAIN r : r[j] = x) <=> (\E j \in DOMAIN s : s[j] = x) \/ x = b
          BY <5>1, AppendMembers
        <5> QED
          BY <5>2 DEF s, r, b
      <4>4. \A x : (\E j \in 1 .. i : ls[j] = x /\ x \notin S)
                     <=> (\E j \in 1 .. i - 1 : ls[j] = x /\ x \notin S) \/ x = ls[i]
        BY <3>2
      <4> QED
        BY <2>2, <4>2, <4>3, <4>4
    <3> QED
      BY <3>1, <3>2
  <2>3. 0 \in P /\ \A i \in 1 .. Len(ls) : i - 1 \in P => i \in P
    <3> HIDE DEF Holds
    <3> QED
      BY <1>2, <2>1, <2>2
  <2> HIDE DEF P
  <2> QED
    BY <1>2, <2>3, IntervalInduction
<1>5. Holds(Len(ls))
  <2>1. Len(ls) \in 0 .. Len(ls)
    BY <1>2
  <2> HIDE DEF Holds
  <2> QED
    BY <1>4, <2>1
<1>6. ToSet(Without(ls, S)) = ToSet(ls) \ S
  <2>1. DOMAIN ls = 1 .. Len(ls)
    OBVIOUS
  <2>2. \A x : x \in ToSet(Without(ls, S)) <=> x \in ToSet(ls) \ S
    BY <1>1, <1>5, <2>1 DEF ToSet
  <2> QED
    BY <2>2
<1> QED
  BY <1>1, <1>5, <1>6

\* t is in ls, nothing before it is as high, and nothing outside S is higher.
Leads(ls, t, S) ==
    \E k \in DOMAIN ls :
        /\ ls[k] = t /\ \A j \in 1 .. k - 1 : Height[ls[j]] < Height[t]
        /\ \A j \in DOMAIN ls : ls[j] \in S \/ Height[ls[j]] <= Height[t]

\* A low block keeps a sequence low.
LEMMA LowAppend ==
    ASSUME NEW r \in Seq(Blocks), NEW b \in Blocks, NEW t \in Blocks, Height[b] < Height[t],
           \A j \in DOMAIN r : Height[r[j]] < Height[t]
    PROVE  \A j \in DOMAIN Append(r, b) : Height[Append(r, b)[j]] < Height[t]
<1>1. \A j \in DOMAIN Append(r, b) : (j \in DOMAIN r /\ Append(r, b)[j] = r[j]) \/ Append(r, b)[j] = b
  OBVIOUS
<1> QED
  BY <1>1

\* A block higher than all before it leads.
LEMMA LeadsAppendTop ==
    ASSUME NEW r \in Seq(Blocks), NEW t \in Blocks, \A j \in DOMAIN r : Height[r[j]] < Height[t]
    PROVE  Leads(Append(r, t), t, {})
<1>1. /\ Len(r) + 1 \in DOMAIN Append(r, t) /\ Append(r, t)[Len(r) + 1] = t
      /\ DOMAIN Append(r, t) = 1 .. Len(r) + 1 /\ DOMAIN r = 1 .. Len(r) /\ Len(r) \in Nat
      /\ \A j \in DOMAIN r : Append(r, t)[j] = r[j] /\ r[j] \in Blocks
  OBVIOUS
<1>2. Height[t] \in Nat /\ \A j \in DOMAIN r : Height[r[j]] \in Nat
  BY <1>1, ParentLower
<1>3. \A j \in 1 .. (Len(r) + 1) - 1 : Height[Append(r, t)[j]] < Height[t]
  BY <1>1
<1>4. \A j \in DOMAIN Append(r, t) : Height[Append(r, t)[j]] <= Height[t]
  <2> SUFFICES ASSUME NEW j \in DOMAIN Append(r, t) PROVE Height[Append(r, t)[j]] <= Height[t]
    OBVIOUS
  <2>1. j \in DOMAIN r \/ j = Len(r) + 1
    BY <1>1
  <2> QED
    BY <1>1, <1>2, <2>1
<1> QED
  BY <1>1, <1>3, <1>4 DEF Leads

\* A block no higher than the leader does not change the lead.
LEMMA LeadsAppendLow ==
    ASSUME NEW r \in Seq(Blocks), NEW b \in Blocks, NEW t \in Blocks, NEW S,
           Leads(r, t, S), b \in S \/ Height[b] <= Height[t]
    PROVE  Leads(Append(r, b), t, S)
<1>1. PICK k \in DOMAIN r :
        /\ r[k] = t /\ \A j \in 1 .. k - 1 : Height[r[j]] < Height[t]
        /\ \A j \in DOMAIN r : r[j] \in S \/ Height[r[j]] <= Height[t]
  BY DEF Leads
<1>2. /\ DOMAIN Append(r, b) = 1 .. Len(r) + 1 /\ DOMAIN r = 1 .. Len(r) /\ Len(r) \in Nat
      /\ Append(r, b)[Len(r) + 1] = b
      /\ \A j \in DOMAIN r : Append(r, b)[j] = r[j]
  OBVIOUS
<1>3. k \in DOMAIN Append(r, b) /\ Append(r, b)[k] = t
  BY <1>1, <1>2
<1>4. \A j \in 1 .. k - 1 : Height[Append(r, b)[j]] < Height[t]
  BY <1>1, <1>2
<1>5. \A j \in DOMAIN Append(r, b) : Append(r, b)[j] \in S \/ Height[Append(r, b)[j]] <= Height[t]
  <2> SUFFICES ASSUME NEW j \in DOMAIN Append(r, b)
               PROVE  Append(r, b)[j] \in S \/ Height[Append(r, b)[j]] <= Height[t]
    OBVIOUS
  <2>1. j \in DOMAIN r \/ j = Len(r) + 1
    BY <1>2
  <2> QED
    BY <1>1, <1>2, <2>1
<1> QED
  BY <1>3, <1>4, <1>5 DEF Leads

\* Removing S keeps the block that leads outside S in the lead.
LEMMA LeadsWithout ==
    ASSUME NEW ls \in Seq(Blocks), NEW t \in Blocks, NEW S, NEW R, R \subseteq S, t \notin S, Leads(ls, t, R)
    PROVE  Leads(Without(ls, S), t, {})
<1>1. PICK f : /\ f[0] = <<>> /\ Without(ls, S) = f[Len(ls)]
               /\ \A i \in 1 .. Len(ls) :
                     f[i] = IF ls[i] \in S THEN f[i - 1] ELSE Append(f[i - 1], ls[i])
  BY WithoutUnfolds
<1>2. PICK k \in DOMAIN ls :
        /\ ls[k] = t /\ \A j \in 1 .. k - 1 : Height[ls[j]] < Height[t]
        /\ \A j \in DOMAIN ls : ls[j] \in R \/ Height[ls[j]] <= Height[t]
  BY DEF Leads
<1>3. /\ Len(ls) \in Nat /\ k \in 1 .. Len(ls) /\ \A i \in 1 .. Len(ls) : ls[i] \in Blocks
      /\ \A i \in 1 .. Len(ls) : ls[i] \in S \/ Height[ls[i]] <= Height[t]
  BY <1>2
<1>4. \A b \in Blocks : Height[b] \in Nat
  BY ParentLower
<1> DEFINE Low(r) == \A j \in DOMAIN r : Height[r[j]] < Height[t]
           Holds(i) == /\ f[i] \in Seq(Blocks)
                       /\ i < k => Low(f[i])
                       /\ i >= k => Leads(f[i], t, {})
           P == {i \in 0 .. Len(ls) : Holds(i)}
<1>5. Holds(0)
  BY <1>1, <1>3
<1>6. ASSUME NEW i \in 1 .. Len(ls), Holds(i - 1)
      PROVE  Holds(i)
  <2>1. CASE ls[i] \in S
    <3>1. f[i] = f[i - 1] /\ i # k
      BY <1>1, <1>2, <2>1
    <3> QED
      BY <1>3, <1>6, <3>1
  <2>2. CASE ls[i] \notin S
    <3> DEFINE r == f[i - 1] b == ls[i]
    <3>1. f[i] = Append(r, b) /\ r \in Seq(Blocks) /\ b \in Blocks
      BY <1>1, <1>3, <1>6, <2>2
    <3>2. f[i] \in Seq(Blocks)
      BY <3>1
    <3>3. Height[b] <= Height[t] /\ (i < k => Height[b] < Height[t]) /\ (i = k => b = t)
      BY <1>2, <1>3, <2>2
    <3>4. (i - 1 < k => Low(r)) /\ (i - 1 >= k => Leads(r, t, {}))
      BY <1>6
    <3> HIDE DEF r, b
    <3>5. CASE i < k
      <4>1. Low(r) /\ Height[b] < Height[t]
        BY <1>3, <3>3, <3>4, <3>5
      <4>2. Low(Append(r, b))
        BY <3>1, <4>1, LowAppend
      <4> QED
        BY <1>3, <3>1, <3>2, <3>5, <4>2
    <3>6. CASE i = k
      <4>1. Low(r) /\ b = t
        BY <1>3, <3>3, <3>4, <3>6
      <4>2. Leads(Append(r, b), t, {})
        BY <3>1, <4>1, LeadsAppendTop
      <4> QED
        BY <1>3, <3>1, <3>2, <3>6, <4>2
    <3>7. CASE i > k
      <4>1. Leads(r, t, {}) /\ Height[b] <= Height[t]
        BY <1>3, <3>3, <3>4, <3>7
      <4>2. Leads(Append(r, b), t, {})
        BY <3>1, <4>1, LeadsAppendLow
      <4> QED
        BY <1>3, <3>1, <3>2, <3>7, <4>2
    <3> QED
      BY <1>3, <3>5, <3>6, <3>7
  <2> QED
    BY <2>1, <2>2
<1> HIDE DEF Holds
<1>7. 0 .. Len(ls) \subseteq P
  <2>1. 0 \in P /\ \A i \in 1 .. Len(ls) : i - 1 \in P => i \in P
    BY <1>3, <1>5, <1>6
  <2> HIDE DEF P
  <2> QED
    BY <1>3, <2>1, IntervalInduction
<1>8. Holds(Len(ls))
  BY <1>3, <1>7
<1> QED
  BY <1>1, <1>3, <1>8 DEF Holds

\* highest_first finds the block that leads.
LEMMA LeadsHighest ==
    ASSUME NEW ls \in Seq(Blocks), NEW t \in Blocks, Leads(ls, t, {})
    PROVE  HighestFirst(ls) = t
<1>1. PICK k \in DOMAIN ls :
        /\ ls[k] = t /\ \A j \in 1 .. k - 1 : Height[ls[j]] < Height[t]
        /\ \A j \in DOMAIN ls : Height[ls[j]] <= Height[t]
  BY DEF Leads
<1>2. DOMAIN ls = 1 .. Len(ls) /\ Len(ls) \in Nat /\ \A j \in DOMAIN ls : ls[j] \in Blocks /\ Height[ls[j]] \in Nat
  BY ParentLower
<1> DEFINE top == {i \in DOMAIN ls : \A j \in DOMAIN ls : Height[ls[j]] <= Height[ls[i]]}
<1>3. k \in top
  BY <1>1
<1>4. \A j \in top : k <= j
  <2> SUFFICES ASSUME NEW j \in top, j < k PROVE FALSE
    BY <1>2
  <2>1. j \in 1 .. k - 1
    BY <1>2
  <2>2. Height[ls[j]] < Height[t] /\ Height[t] <= Height[ls[j]]
    BY <1>1, <2>1
  <2> QED
    BY <1>1, <1>2, <2>2
<1>5. \A i \in top : (\A j \in top : i <= j) => i = k
  BY <1>2, <1>3, <1>4
<1>6. (CHOOSE i \in top : \A j \in top : i <= j) = k
  <2> HIDE DEF top
  <2> QED
    BY <1>3, <1>4, <1>5
<1> QED
  BY <1>1, <1>6 DEF HighestFirst

-----------------------------------------------------------------------------
(* Chains. *)

\* No two blocks of h share a transaction.
Disjoint(h) == \A i, j \in DOMAIN h : i # j => TxOf[h[i]] \cap TxOf[h[j]] = {}

\* Front and Last, spelt out.
LEMMA FrontLast ==
    ASSUME NEW h \in Seq(Blocks), h # <<>>
    PROVE  /\ Front(h) \in Seq(Blocks) /\ Len(Front(h)) = Len(h) - 1
           /\ \A i \in 1 .. Len(h) - 1 : Front(h)[i] = h[i]
           /\ Last(h) = h[Len(h)] /\ Last(h) \in Blocks
           /\ Len(h) > 1 => Front(h) # <<>>
<1> DEFINE n == Len(h) - 1
           r == SubSeq(h, 1, n)
<1>1. Len(h) \in Nat /\ Len(h) > 0 /\ Len(h) \in DOMAIN h /\ h[Len(h)] \in Blocks
  OBVIOUS
<1>2. n \in Int /\ n >= 0 /\ 1 \in Int /\ \A i \in 1 .. n : h[i] \in Blocks
  BY <1>1
<1>3. Front(h) = r
  BY DEF Front
<1> HIDE DEF n
<1>4. /\ r \in Seq(Blocks) /\ Len(r) = IF 1 <= n THEN n - 1 + 1 ELSE 0
      /\ \A i \in 1 .. n - 1 + 1 : r[i] = h[1 + i - 1]
  BY <1>2, SubSeqProperties
<1> HIDE DEF r
<1>5. r \in Seq(Blocks) /\ Len(r) = n /\ \A i \in 1 .. n : r[i] = h[i]
  BY <1>2, <1>4
<1>6. n > 0 => r # <<>>
  BY <1>2, <1>5
<1> QED
  BY <1>1, <1>3, <1>5, <1>6 DEF Last, n

\* A chain grows by a child of its last block,
LEMMA ChainAppend ==
    ASSUME NEW h \in Seq(Blocks), h # <<>>, h = PathTo[Last(h)],
           NEW b \in Linkable, Parent[b] = Last(h)
    PROVE  /\ Append(h, b) \in Seq(Blocks) /\ Append(h, b) # <<>>
           /\ Last(Append(h, b)) = b /\ Append(h, b) = PathTo[b]
           /\ Len(Append(h, b)) = Len(h) + 1
<1>1. b \in Blocks /\ b # Genesis
  BY DEF Linkable
<1>2. PathTo[b] = Append(PathTo[Parent[b]], b)
  BY <1>1, PathUnfolds
<1>3. PathTo[b] = Append(h, b)
  BY <1>2
<1>4. Append(h, b) \in Seq(Blocks) /\ Append(h, b) # <<>> /\ Last(Append(h, b)) = b /\ Len(Append(h, b)) = Len(h) + 1
  BY <1>1 DEF Last
<1> QED
  BY <1>3, <1>4

\* and shrinks to the parent of its last block.
LEMMA ChainFront ==
    ASSUME NEW h \in Seq(Blocks), h # <<>>, h = PathTo[Last(h)], Len(h) > 1
    PROVE  /\ Last(h) \in Linkable /\ Front(h) \in Seq(Blocks) /\ Front(h) # <<>>
           /\ Last(Front(h)) = Parent[Last(h)] /\ Front(h) = PathTo[Parent[Last(h)]]
           /\ Len(Front(h)) = Len(h) - 1
<1>1. Last(h) \in Blocks /\ Front(h) \in Seq(Blocks) /\ Front(h) # <<>> /\ Len(Front(h)) = Len(h) - 1
  BY FrontLast
<1>2. Len(h) = Height[Last(h)] + 1
  BY <1>1, PathShape
<1>3. Last(h) # Genesis
  BY <1>2, TreeAssumption
<1> DEFINE c == Parent[Last(h)]
<1>4. c \in Blocks /\ h = Append(PathTo[c], Last(h)) /\ PathTo[c] \in Seq(Blocks)
      /\ PathTo[c][Height[c] + 1] = c /\ Len(PathTo[c]) = Height[c] + 1
  BY <1>1, <1>3, PathUnfolds, PathShape, ParentLower
<1> HIDE DEF c
<1>5. Front(h) = PathTo[c]
  BY <1>1, <1>4 DEF Front
<1>6. Last(Front(h)) = c
  BY <1>4, <1>5 DEF Last
<1> QED
  BY <1>1, <1>3, <1>5, <1>6 DEF c, Linkable

\* The end of a sequence from its n-th element on.
LEMMA TailOfSeq ==
    ASSUME NEW p \in Seq(Blocks), NEW n \in 1 .. Len(p)
    PROVE  LET r == SubSeq(p, n + 1, Len(p))
           IN  /\ r \in Seq(Blocks) /\ Len(r) = Len(p) - n
               /\ \A i \in 1 .. Len(p) - n : r[i] = p[n + i]
               /\ \A i \in DOMAIN r : r[i] \in ToSet(p)
<1> DEFINE m == n + 1
           k == Len(p)
           r == SubSeq(p, m, k)
<1>1. m \in Int /\ k \in Int /\ m >= 2 /\ m <= k + 1 /\ \A i \in m .. k : p[i] \in Blocks
  OBVIOUS
<1> HIDE DEF m, k
<1>2. /\ r \in Seq(Blocks) /\ Len(r) = IF m <= k THEN k - m + 1 ELSE 0
      /\ \A i \in 1 .. k - m + 1 : r[i] = p[m + i - 1]
  BY <1>1, SubSeqProperties
<1>3. n \in Int /\ m = n + 1
  BY DEF m
<1> HIDE DEF r
<1>4. r \in Seq(Blocks) /\ Len(r) = k - n /\ \A i \in 1 .. k - n : r[i] = p[n + i]
  <2>1. Len(r) = k - n
    BY <1>1, <1>2, <1>3
  <2>2. ASSUME NEW i \in 1 .. k - n PROVE r[i] = p[n + i]
    <3>1. i \in 1 .. k - m + 1 /\ m + i - 1 = n + i
      BY <1>1, <1>3
    <3> QED
      BY <1>2, <3>1
  <2> QED
    BY <1>2, <2>1, <2>2
<1>5. ASSUME NEW i \in DOMAIN r PROVE r[i] \in ToSet(p)
  <2>1. i \in 1 .. k - n
    BY <1>4
  <2>2. n + i \in DOMAIN p
    BY <2>1 DEF k
  <2> QED
    BY <1>4, <2>1, <2>2 DEF ToSet
<1> QED
  BY <1>4, <1>5 DEF r, m, k

\* A prefix of a path is a chain.
LEMMA PathCut ==
    ASSUME NEW b \in Blocks, NEW i \in 1 .. Len(PathTo[b])
    PROVE  LET c == SubSeq(PathTo[b], 1, i)
           IN  /\ c \in Seq(Blocks) /\ c # <<>> /\ Len(c) = i
               /\ Last(c) = PathTo[b][i] /\ Last(c) \in Blocks /\ c = PathTo[Last(c)]
               /\ \A j \in 1 .. i : c[j] = PathTo[b][j]
<1> DEFINE p == PathTo[b]
           c == SubSeq(p, 1, i)
<1>1. p \in Seq(Blocks) /\ Len(p) = Height[b] + 1 /\ i \in 1 .. Len(p) /\ Len(p) \in Nat
  BY PathShape, ParentLower
<1>2. p[i] \in Blocks /\ c = PathTo[p[i]]
  BY <1>1, PathPrefix
<1> HIDE DEF p
<1>3. c \in Seq(Blocks) /\ c # <<>> /\ Len(c) = i /\ \A j \in 1 .. i : c[j] = p[j]
  BY <1>1
<1>4. Last(c) = p[i]
  BY <1>3 DEF Last
<1> QED
  BY <1>2, <1>3, <1>4 DEF p

\* The next block of a path is a child of the one before.
LEMMA PathNext ==
    ASSUME NEW b \in Blocks, NEW i \in 1 .. Len(PathTo[b]), i < Len(PathTo[b])
    PROVE  /\ PathTo[b][i + 1] \in Linkable /\ Parent[PathTo[b][i + 1]] = PathTo[b][i]
           /\ Append(SubSeq(PathTo[b], 1, i), PathTo[b][i + 1]) = SubSeq(PathTo[b], 1, i + 1)
           /\ Front(SubSeq(PathTo[b], 1, i + 1)) = SubSeq(PathTo[b], 1, i)
<1> DEFINE p == PathTo[b]
           c == SubSeq(p, 1, i)
           d == SubSeq(p, 1, i + 1)
<1>1. p \in Seq(Blocks) /\ i \in 1 .. Len(p) /\ Len(p) \in Nat /\ i + 1 \in 1 .. Len(p)
  BY PathShape, ParentLower
<1>2. /\ d \in Seq(Blocks) /\ d # <<>> /\ Len(d) = i + 1 /\ Last(d) = p[i + 1] /\ d = PathTo[Last(d)]
      /\ Last(c) = p[i]
  BY <1>1, PathCut
<1>3. Last(d) \in Linkable /\ Last(Front(d)) = Parent[Last(d)]
  <2> HIDE DEF d
  <2>1. Len(d) > 1
    BY <1>1, <1>2
  <2> QED
    BY <1>2, <2>1, ChainFront
<1> HIDE DEF p
<1>4. Front(d) = c /\ Append(c, p[i + 1]) = d
  <2>1. Front(d) = c
    BY <1>1, <1>2 DEF Front
  <2>2. Append(c, p[i + 1]) = d
    BY <1>1
  <2> QED
    BY <2>1, <2>2
<1> QED
  BY <1>2, <1>3, <1>4 DEF p

\* The transactions of a longer chain,
LEMMA TxsAppend ==
    ASSUME NEW h \in Seq(Blocks), NEW b \in Blocks
    PROVE  /\ ChainTxs(Append(h, b)) = ChainTxs(h) \cup TxOf[b]
           /\ Disjoint(h) /\ TxOf[b] \cap ChainTxs(h) = {} => Disjoint(Append(h, b))
<1> DEFINE r == Append(h, b)
<1>1. /\ DOMAIN r = 1 .. Len(h) + 1 /\ DOMAIN h = 1 .. Len(h) /\ Len(h) \in Nat
      /\ r[Len(h) + 1] = b /\ \A j \in DOMAIN h : r[j] = h[j]
  OBVIOUS
<1> HIDE DEF r
<1>2. \A j \in DOMAIN r : j \in DOMAIN h \/ j = Len(h) + 1
  BY <1>1
<1>3. \A j \in DOMAIN h : j \in DOMAIN r
  BY <1>1
<1>4. Len(h) + 1 \in DOMAIN r
  BY <1>1
<1>5. ChainTxs(r) = ChainTxs(h) \cup TxOf[b]
  <2>1. \A x : x \in ChainTxs(r) <=> \E j \in DOMAIN r : x \in TxOf[r[j]]
    BY DEF ChainTxs
  <2>2. \A x : x \in ChainTxs(h) <=> \E j \in DOMAIN h : x \in TxOf[h[j]]
    BY DEF ChainTxs
  <2>3. \A x : x \in ChainTxs(r) <=> x \in ChainTxs(h) \cup TxOf[b]
    BY <1>1, <1>2, <1>3, <1>4, <2>1, <2>2
  <2> QED
    BY <2>3
<1>6. ASSUME Disjoint(h), TxOf[b] \cap ChainTxs(h) = {}
      PROVE  Disjoint(r)
  <2>1. \A j \in DOMAIN h : TxOf[b] \cap TxOf[h[j]] = {}
    BY <1>6 DEF ChainTxs
  <2> SUFFICES ASSUME NEW i \in DOMAIN r, NEW j \in DOMAIN r, i # j
               PROVE  TxOf[r[i]] \cap TxOf[r[j]] = {}
    BY DEF Disjoint
  <2>2. CASE i \in DOMAIN h /\ j \in DOMAIN h
    BY <1>1, <1>6, <2>2 DEF Disjoint
  <2>3. CASE i \in DOMAIN h /\ j = Len(h) + 1
    BY <1>1, <2>1, <2>3
  <2>4. CASE i = Len(h) + 1 /\ j \in DOMAIN h
    BY <1>1, <2>1, <2>4
  <2> QED
    BY <1>2, <2>2, <2>3, <2>4
<1> QED
  BY <1>5, <1>6 DEF r

\* and of a shorter one.
LEMMA TxsFront ==
    ASSUME NEW h \in Seq(Blocks), h # <<>>
    PROVE  ChainTxs(Front(h)) \subseteq ChainTxs(h) /\ (Disjoint(h) => Disjoint(Front(h)))
<1>1. /\ Front(h) \in Seq(Blocks) /\ Len(Front(h)) = Len(h) - 1
      /\ \A i \in 1 .. Len(h) - 1 : Front(h)[i] = h[i]
  BY FrontLast
<1>2. /\ DOMAIN Front(h) = 1 .. Len(h) - 1 /\ DOMAIN h = 1 .. Len(h) /\ Len(h) \in Nat
  BY <1>1
<1>3. \A j \in DOMAIN Front(h) : j \in DOMAIN h /\ Front(h)[j] = h[j]
  BY <1>1, <1>2
<1> QED
  BY <1>3 DEF ChainTxs, Disjoint

-----------------------------------------------------------------------------
(* The inductive invariant. *)

JobType ==
    [pc: {"idle", "rewind", "apply", "retract", "reapply"}, block: Blocks, new: Seq(Blocks),
     done: Nat, base: Nat, before: Seq(Blocks), pool: SUBSET Txs, cache: SUBSET Txs]

\* The committed chain is a path, its blocks share no transaction, and the head of
\* the graph is its last block at every instant, also inside a switch.
ChainSound ==
    /\ CanonicalPath /\ khead = Tip
    /\ Disjoint(history)

\* Between requests the tip is the first of the highest linked blocks.
IdleSound ==
    Idle => Leads(linked, Tip, {}) /\ executed \cap ChainTxs(history) = {}

\* What a switch has recorded: the chain it left, and the branch above the block the
\* two have in common.
Recorded ==
    LET path == PathTo[job.block]
    IN  /\ job.before # <<>> /\ job.before = PathTo[Last(job.before)]
        /\ job.base \in 1 .. Len(job.before) /\ Len(job.before) < Len(path)
        /\ SubSeq(job.before, 1, job.base) = SubSeq(path, 1, job.base)
        /\ job.new = SubSeq(path, job.base + 1, Len(path))
        /\ Last(job.before) \notin ToSet(job.new)
        /\ pool = job.pool /\ executed = {}

\* Where the committed chain stands in each phase.
OnBefore == /\ history = SubSeq(job.before, 1, Len(history))
            /\ job.base <= Len(history) /\ Len(history) <= Len(job.before)
OnBranch == /\ job.done \in 0 .. Len(job.new)
            /\ history = SubSeq(PathTo[job.block], 1, job.base + job.done)
GraphBoth == Leads(linked, Last(job.before), {job.block}) /\ Leads(linked, job.block, {})

SwitchSound ==
    /\ ~Idle => Recorded
    /\ job.pc = "rewind" =>
         OnBefore /\ job.base < Len(history) /\ job.done = 0 /\ cache = {} /\ GraphBoth
    /\ job.pc = "apply" => OnBranch /\ cache \subseteq ChainTxs(history) /\ GraphBoth
    /\ job.pc = "retract" => OnBranch /\ GraphBoth
    /\ job.pc = "reapply" => OnBefore /\ Leads(linked, Last(job.before), {})

ForkInv == TypeOK /\ job \in JobType /\ ChainSound /\ IdleSound /\ SwitchSound

-----------------------------------------------------------------------------
(* Facts about a state of the invariant. *)

\* The committed chain is the path of its tip.
LEMMA ChainFacts ==
    ASSUME ForkInv
    PROVE  /\ history \in Seq(Blocks) /\ history # <<>> /\ history = PathTo[Last(history)]
           /\ Tip = Last(history) /\ Tip \in Blocks /\ khead = Tip
           /\ Len(history) = Height[Tip] + 1 /\ history[1] = Genesis /\ Height[Tip] \in Nat
           /\ history[Len(history)] = Tip /\ Len(history) \in Nat /\ Len(history) > 0
<1>1. history \in Seq(Blocks) /\ history # <<>> /\ history = PathTo[Tip] /\ khead = Tip
  BY DEF ForkInv, TypeOK, ChainSound, CanonicalPath
<1>2. Tip = Last(history) /\ Last(history) \in Blocks /\ Tip = history[Len(history)]
  BY <1>1, FrontLast DEF Tip
<1>3. Len(PathTo[Tip]) = Height[Tip] + 1 /\ PathTo[Tip][1] = Genesis /\ Height[Tip] \in Nat
  BY <1>2, PathShape, ParentLower
<1> QED
  BY <1>1, <1>2, <1>3

\* Between requests no linked block is above the tip.
LEMMA IdleHighest ==
    ASSUME ForkInv, Idle
    PROVE  \A i \in DOMAIN linked : linked[i] \in Blocks /\ Height[linked[i]] <= Height[Tip]
<1>1. linked \in Seq(Blocks) /\ Leads(linked, Tip, {})
  BY DEF ForkInv, TypeOK, IdleSound
<1> QED
  BY <1>1 DEF Leads

\* What is replayed is not in the chain.
LEMMA ReplayDisjoint ==
    ASSUME NEW ts \in SUBSET Txs, NEW ids, NEW chain
    PROVE  /\ \A e \in Replays(ts, ids, chain) : e \subseteq ts /\ e \cap ChainTxs(chain) = {}
           /\ \A e \in StrictReplays(ts, ids, chain) : e \subseteq ts /\ e \cap ChainTxs(chain) = {}
<1>1. ASSUME NEW e \in Replays(ts, ids, chain)
      PROVE  e \subseteq ts /\ e \cap ChainTxs(chain) = {}
  <2>1. PICK at \in Orders(ts) : \A t \in ts : t \in e <=> Goes(t, {u \in e : at[u] < at[t]}, ids, chain)
    BY <1>1 DEF Replays
  <2>2. e \subseteq ts
    BY <1>1 DEF Replays
  <2> QED
    BY <2>1, <2>2 DEF Goes, Duplicate
<1>2. ASSUME NEW e \in StrictReplays(ts, ids, chain)
      PROVE  e \subseteq ts /\ e \cap ChainTxs(chain) = {}
  <2>1. PICK at \in Orders(ts) : \A t \in ts : t \in e <=>
            \A u \in ts : at[u] <= at[t] => Goes(u, {v \in ts : at[v] < at[u]}, ids, chain)
    BY <1>2 DEF StrictReplays
  <2>2. e \subseteq ts
    BY <1>2 DEF StrictReplays
  <2>3. \A t \in ts : at[t] \in Int
    BY <2>1 DEF Orders
  <2>4. \A t \in e : Goes(t, {v \in ts : at[v] < at[t]}, ids, chain)
    BY <2>1, <2>2, <2>3
  <2> QED
    BY <2>2, <2>4 DEF Goes, Duplicate
<1> QED
  BY <1>1, <1>2

\* What a replay drops is in the chain, or refused on top of some of what it keeps.
DropsRefused(ts, kept, chain) ==
    \A t \in ts \ (kept \cup ChainTxs(chain)) :
        \E S \in SUBSET kept : <<t, Last(chain), S>> \notin Runs
LEMMA ReplayDropsRefused ==
    ASSUME NEW ts, NEW ids, NEW chain, ids \subseteq ChainTxs(chain)
    PROVE  \A kept \in Replays(ts, ids, chain) : DropsRefused(ts, kept, chain)
<1> SUFFICES ASSUME NEW kept \in Replays(ts, ids, chain)
             PROVE  DropsRefused(ts, kept, chain)
  OBVIOUS
<1>1. PICK at \in Orders(ts) : \A t \in ts : t \in kept <=> Goes(t, {u \in kept : at[u] < at[t]}, ids, chain)
  BY DEF Replays
<1> SUFFICES ASSUME NEW t \in ts \ (kept \cup ChainTxs(chain))
             PROVE  \E S \in SUBSET kept : <<t, Last(chain), S>> \notin Runs
  BY DEF DropsRefused
<1>2. ~Goes(t, {u \in kept : at[u] < at[t]}, ids, chain)
  BY <1>1
<1>3. ~Duplicate(t, ids, ChainTxs(chain))
  BY DEF Duplicate
<1>4. <<t, Last(chain), {u \in kept : at[u] < at[t]}>> \notin Runs
  BY <1>2, <1>3 DEF Goes
<1>5. {u \in kept : at[u] < at[t]} \in SUBSET kept
  OBVIOUS
<1> QED
  BY <1>4, <1>5

\* The tip is not below a higher competing block.
LEMMA TipNotBelow ==
    ASSUME ForkInv, NEW b, Competes(b), Height[b] > Height[khead]
    PROVE  \A i \in DOMAIN PathTo[b] : PathTo[b][i] # Tip
<1>1. Idle /\ b \in Blocks /\ b # Genesis /\ Parent[b] # Tip /\ Parent[b] \in Members
  BY ChainFacts DEF Competes, Linkable
<1>2. Parent[b] \in Blocks /\ Height[Parent[b]] <= Height[Tip]
  BY <1>1, IdleHighest DEF Members, ToSet
<1>3. Height[b] = Height[Tip] + 1 /\ Height[Parent[b]] = Height[Tip]
  BY <1>1, <1>2, ChainFacts, ParentLower
<1> SUFFICES ASSUME NEW i \in DOMAIN PathTo[b], PathTo[b][i] = Tip PROVE FALSE
  OBVIOUS
<1>4. PathTo[b] \in Seq(Blocks) /\ Len(PathTo[b]) = Height[b] + 1 /\ Height[b] \in Nat
  BY <1>1, PathShape, ParentLower
<1>5. i \in 1 .. Height[b] + 1
  BY <1>4
<1>6. Height[Tip] = i - 1
  BY <1>1, <1>5, PathPrefix
<1>7. PathTo[b] = Append(PathTo[Parent[b]], b) /\ PathTo[Parent[b]] \in Seq(Blocks)
      /\ Len(PathTo[Parent[b]]) = Height[Tip] + 1 /\ PathTo[Parent[b]][Height[Tip] + 1] = Parent[b]
  BY <1>1, <1>2, <1>3, PathUnfolds, PathShape
<1>8. i = Height[Tip] + 1 /\ i \in DOMAIN PathTo[Parent[b]]
  BY <1>5, <1>6, <1>7, ChainFacts
<1>9. PathTo[b][i] = PathTo[Parent[b]][i]
  BY <1>2, <1>7, <1>8
<1> QED
  BY <1>1, <1>7, <1>8, <1>9

-----------------------------------------------------------------------------
(* Every action keeps the invariant. *)

\* The state after genesis.
LEMMA InitKeeps == Init => ForkInv
<1> SUFFICES ASSUME Init PROVE ForkInv
  OBVIOUS
<1>1. Genesis \in Blocks
  BY TreeAssumption
<1>2. TypeOK
  BY <1>1 DEF Init, TypeOK, NoSwitch
<1>3. job \in JobType
  BY <1>1 DEF Init, NoSwitch, JobType
<1>4. Tip = Genesis
  BY DEF Init, Tip, Last
<1>5. ChainSound
  <2>1. history = PathTo[Tip]
    BY <1>1, <1>4, PathUnfolds DEF Init
  <2> QED
    BY <1>4, <2>1 DEF ChainSound, CanonicalPath, Disjoint, Init
<1>6. IdleSound
  <2>1. Leads(linked, Genesis, {})
    <3>1. linked = <<Genesis>> /\ Height[Genesis] = 0
      BY TreeAssumption DEF Init
    <3> QED
      BY <3>1 DEF Leads
  <2> QED
    BY <1>4, <2>1 DEF IdleSound, Init
<1>7. SwitchSound
  BY DEF Init, SwitchSound, Idle, NoSwitch
<1> QED
  BY <1>2, <1>3, <1>5, <1>6, <1>7 DEF ForkInv

\* Pool and cache requests leave the chain and the graph alone.
LEMMA BroadcastKeeps == \A t \in Txs : ForkInv /\ Broadcast(t) => ForkInv'
<1> SUFFICES ASSUME NEW t \in Txs, ForkInv, Broadcast(t) PROVE ForkInv'
  OBVIOUS
<1>1. /\ Idle /\ UNCHANGED <<history, linked, alive, orphans, khead, job>>
      /\ pool' \subseteq Txs /\ executed' = executed \cup {t} /\ cache' \subseteq Txs /\ executed' \subseteq Txs
  BY DEF Broadcast, ForkInv, TypeOK
<1>2. TypeOK' /\ job' \in JobType /\ ChainSound'
  BY <1>1 DEF ForkInv, TypeOK, ChainSound, CanonicalPath, Tip
<1>3. IdleSound'
  <2>1. t \notin ChainTxs(history)
    BY DEF Broadcast, Duplicate
  <2> QED
    BY <1>1, <2>1 DEF ForkInv, IdleSound, Tip, Idle
<1>4. SwitchSound'
  BY <1>1 DEF SwitchSound, Idle
<1> QED
  BY <1>2, <1>3, <1>4 DEF ForkInv

\* A cache entry expires.
LEMMA CacheExpireKeeps == \A t \in Txs : ForkInv /\ CacheExpire(t) => ForkInv'
<1> SUFFICES ASSUME NEW t \in Txs, ForkInv, CacheExpire(t) PROVE ForkInv'
  OBVIOUS
<1>1. Idle /\ UNCHANGED <<history, linked, alive, orphans, khead, pool, executed, job>> /\ cache' \subseteq Txs
  BY DEF CacheExpire, ForkInv, TypeOK
<1>2. TypeOK' /\ job' \in JobType /\ ChainSound'
  BY <1>1 DEF ForkInv, TypeOK, ChainSound, CanonicalPath, Tip
<1>3. IdleSound'
  BY <1>1 DEF ForkInv, IdleSound, Tip, Idle
<1>4. SwitchSound'
  BY <1>1 DEF SwitchSound, Idle
<1> QED
  BY <1>2, <1>3, <1>4 DEF ForkInv

\* An orphan is outside the linked graph.
LEMMA RetainOrphanKeeps == \A b \in Blocks : ForkInv /\ RetainOrphan(b) => ForkInv'
<1> SUFFICES ASSUME NEW b \in Blocks, ForkInv, RetainOrphan(b) PROVE ForkInv'
  OBVIOUS
<1>1. Idle /\ UNCHANGED <<history, linked, alive, khead, pool, executed, cache, job>> /\ orphans' \subseteq Blocks
  BY DEF RetainOrphan, ForkInv, TypeOK
<1>2. TypeOK' /\ job' \in JobType /\ ChainSound'
  BY <1>1 DEF ForkInv, TypeOK, ChainSound, CanonicalPath, Tip
<1>3. IdleSound'
  BY <1>1 DEF ForkInv, IdleSound, Tip, Idle
<1>4. SwitchSound'
  BY <1>1 DEF SwitchSound, Idle
<1> QED
  BY <1>2, <1>3, <1>4 DEF ForkInv

\* A block no higher than the tip goes behind it.
LEMMA RetainSiblingKeeps == \A b \in Blocks : ForkInv /\ RetainSibling(b) => ForkInv'
<1> SUFFICES ASSUME NEW b \in Blocks, ForkInv, RetainSibling(b) PROVE ForkInv'
  OBVIOUS
<1>1. /\ Idle /\ UNCHANGED <<history, orphans, khead, pool, executed, cache, job>>
      /\ linked' = Append(linked, b) /\ linked' \in Seq(Blocks) /\ alive' \subseteq Blocks
      /\ Height[b] <= Height[Tip]
  BY ChainFacts DEF RetainSibling, Competes, ForkInv, TypeOK
<1>2. TypeOK' /\ job' \in JobType /\ ChainSound'
  BY <1>1 DEF ForkInv, TypeOK, ChainSound, CanonicalPath, Tip
<1>3. IdleSound'
  <2>1. Leads(Append(linked, b), Tip, {})
    BY <1>1, LeadsAppendLow, ChainFacts DEF ForkInv, TypeOK, IdleSound
  <2> QED
    BY <1>1, <2>1 DEF ForkInv, IdleSound, Tip, Idle
<1>4. SwitchSound'
  BY <1>1 DEF SwitchSound, Idle
<1> QED
  BY <1>2, <1>3, <1>4 DEF ForkInv

\* The applied block is higher than all others, and shares no transaction with the chain.
LEMMA ApplyDirectKeeps == \A b \in Blocks : ForkInv /\ ApplyDirect(b) => ForkInv'
<1> SUFFICES ASSUME NEW b \in Blocks, ForkInv, ApplyDirect(b) PROVE ForkInv'
  OBVIOUS
<1>1. Idle /\ b \in Linkable /\ Parent[b] = Tip /\ UNCHANGED <<orphans, job>>
  BY ChainFacts DEF ApplyDirect
<1>2. SwitchSound' /\ Idle' /\ job' \in JobType
  BY <1>1 DEF ForkInv, SwitchSound, Idle
<1>3. CASE Applies(b) /\ history' = Append(history, b)
  <2>1. /\ linked' = Append(linked, b) /\ alive' = alive \cup {b} /\ khead' = b
        /\ cache' = cache \cup TxOf[b] /\ pool' \in Replays(pool, cache', history') /\ executed' = pool'
    BY <1>3, ChainFacts DEF ApplyDirect, Applies
  <2>2. /\ history' \in Seq(Blocks) /\ history' # <<>> /\ Last(history') = b /\ history' = PathTo[b]
    BY <1>1, <1>3, ChainFacts, ChainAppend
  <2>3. pool' \subseteq Txs /\ executed' \subseteq Txs /\ executed' \cap ChainTxs(history') = {}
    <3>1. pool \in SUBSET Txs
      BY DEF ForkInv, TypeOK
    <3>2. pool' \subseteq pool /\ pool' \cap ChainTxs(history') = {}
      BY <2>1, <3>1, ReplayDisjoint
    <3> QED
      BY <2>1, <3>1, <3>2
  <2>4. TypeOK'
    <3>1. cache' \subseteq Txs /\ TxOf[b] \subseteq Txs
      BY <2>1, PayloadAssumption DEF ForkInv, TypeOK
    <3>2. linked' \in Seq(Blocks) /\ alive' \subseteq Blocks /\ khead' \in Blocks
      BY <2>1 DEF ForkInv, TypeOK
    <3> QED
      BY <1>1, <2>2, <2>3, <3>1, <3>2 DEF ForkInv, TypeOK
  <2>5. ChainSound'
    <3>1. TxOf[b] \cap ChainTxs(history) = {}
      BY <1>3 DEF Applies, Executes, Duplicate
    <3>2. Disjoint(history')
      BY <1>3, <3>1, TxsAppend, ChainFacts DEF ForkInv, ChainSound
    <3> QED
      BY <2>1, <2>2, <3>2 DEF ChainSound, CanonicalPath, Tip
  <2>6. Leads(linked', b, {})
    <3>1. Height[b] = Height[Tip] + 1
      BY <1>1, TreeAssumption
    <3>2. \A j \in DOMAIN linked : Height[linked[j]] < Height[b]
      BY <1>1, <3>1, IdleHighest, ParentLower, ChainFacts
    <3> QED
      BY <2>1, <3>2, LeadsAppendTop DEF ForkInv, TypeOK
  <2>7. IdleSound'
    BY <2>2, <2>3, <2>6 DEF IdleSound, Tip
  <2> QED
    BY <1>2, <2>4, <2>5, <2>7 DEF ForkInv
<1>4. CASE /\ executed' \in StrictReplays(pool, cache, history)
           /\ UNCHANGED <<history, linked, alive, khead, pool, cache>>
  <2>1. executed' \subseteq pool /\ executed' \cap ChainTxs(history) = {}
    BY <1>4, ReplayDisjoint DEF ForkInv, TypeOK
  <2>2. TypeOK' /\ ChainSound'
    BY <1>1, <1>4, <2>1 DEF ForkInv, TypeOK, ChainSound, CanonicalPath, Tip
  <2>3. IdleSound'
    BY <1>1, <1>4, <2>1 DEF ForkInv, IdleSound, Tip, Idle
  <2> QED
    BY <1>2, <2>2, <2>3 DEF ForkInv
<1> QED
  BY <1>3, <1>4 DEF ApplyDirect

\* The tip is outside the removed branch, so the head falls back to the tip.
LEMMA RefuseBranchKeeps == \A b \in Blocks : ForkInv /\ RefuseBranch(b) => ForkInv'
<1> SUFFICES ASSUME NEW b \in Blocks, ForkInv, RefuseBranch(b) PROVE ForkInv'
  OBVIOUS
<1> DEFINE S == BadBranch(b, Append(linked, b))
<1>1. /\ Idle /\ UNCHANGED <<history, pool, executed, cache, job>> /\ Competes(b) /\ Height[b] > Height[khead]
      /\ linked' = Without(linked, S) /\ alive' = AliveWithout(S) /\ orphans' = orphans \ S
      /\ khead' = HighestFirst(Without(linked, S))
  BY DEF RefuseBranch, Competes
<1>2. Tip \notin S
  BY <1>1, TipNotBelow DEF BadBranch
<1>3. linked \in Seq(Blocks) /\ Leads(linked, Tip, {}) /\ Tip \in Blocks
  BY <1>1, ChainFacts DEF ForkInv, TypeOK, IdleSound
<1> HIDE DEF S
<1>4. linked' \in Seq(Blocks) /\ Leads(linked', Tip, {})
  BY <1>1, <1>2, <1>3, WithoutMembers, LeadsWithout
<1>5. khead' = Tip
  BY <1>1, <1>3, <1>4, LeadsHighest
<1>6. TypeOK' /\ job' \in JobType /\ ChainSound'
  BY <1>1, <1>3, <1>4, <1>5 DEF ForkInv, TypeOK, AliveWithout, ChainSound, CanonicalPath, Tip
<1>7. IdleSound'
  BY <1>1, <1>4 DEF ForkInv, IdleSound, Tip, Idle
<1>8. SwitchSound'
  BY <1>1 DEF SwitchSound, Idle
<1> QED
  BY <1>6, <1>7, <1>8 DEF ForkInv

\* Allowing more blocks above it does not cost the lead.
LEMMA LeadsMore == ASSUME NEW ls, NEW t, NEW S, Leads(ls, t, {}) PROVE Leads(ls, t, S)
  BY DEF Leads

\* The record of the switch: both chains, cut at their last common block.
LEMMA BeginSwitchKeeps == \A b \in Blocks : ForkInv /\ BeginSwitch(b) => ForkInv'
<1> SUFFICES ASSUME NEW b \in Blocks, ForkInv, BeginSwitch(b) PROVE ForkInv'
  OBVIOUS
<1> DEFINE path == PathTo[b]
           n == Fork(path, history)
<1>1. /\ Idle /\ UNCHANGED <<history, orphans, pool>> /\ Competes(b) /\ Height[b] > Height[khead]
      /\ linked' = Append(linked, b) /\ alive' = alive \cup {b} /\ khead' = Tip
      /\ executed' = {} /\ cache' = {}
      /\ job' = [pc |-> IF n = Len(history) THEN "apply" ELSE "rewind", block |-> b,
                 new |-> SubSeq(path, n + 1, Len(path)), done |-> 0, base |-> n,
                 before |-> history, pool |-> pool, cache |-> cache]
  BY DEF BeginSwitch, Competes
<1>2. /\ path \in Seq(Blocks) /\ path # <<>> /\ path[1] = Genesis /\ Len(path) = Height[b] + 1
      /\ Height[b] \in Nat /\ path[Len(path)] = b
  BY PathShape, ParentLower
<1>3. /\ n \in 1 .. Len(path) /\ n <= Len(history)
      /\ SubSeq(path, 1, n) = SubSeq(history, 1, n)
  BY <1>2, ChainFacts, ForkIsCommon
<1>4. Len(history) < Len(path) /\ Len(history) \in Nat /\ n \in 1 .. Len(history)
  <2>1. Len(history) = Height[Tip] + 1 /\ Height[Tip] \in Nat /\ Height[Tip] < Height[b]
    BY <1>1, ChainFacts
  <2> HIDE DEF path, n
  <2> QED
    BY <1>2, <1>3, <2>1
<1>5. \A i \in DOMAIN path : path[i] # Tip
  BY <1>1, TipNotBelow
<1> HIDE DEF n
<1>6. SubSeq(path, n + 1, Len(path)) \in Seq(Blocks)
  <2> HIDE DEF path
  <2> QED
    BY <1>2, <1>3
<1>7. Tip \notin ToSet(SubSeq(path, n + 1, Len(path)))
  <2> HIDE DEF path
  <2>1. \A i \in DOMAIN SubSeq(path, n + 1, Len(path)) : SubSeq(path, n + 1, Len(path))[i] \in ToSet(path)
    BY <1>2, <1>3, TailOfSeq
  <2> QED
    BY <1>5, <2>1 DEF ToSet
<1>8. job' \in JobType /\ job'.pc \in {"apply", "rewind"} /\ ~Idle'
  <2> HIDE DEF path
  <2> QED
    BY <1>1, <1>3, <1>4, <1>6, ChainFacts DEF JobType, Idle, ForkInv, TypeOK
<1>9. TypeOK'
  BY <1>1, <1>8, ChainFacts DEF ForkInv, TypeOK
<1>10. ChainSound'
  BY <1>1 DEF ForkInv, ChainSound, CanonicalPath, Tip
<1>11. IdleSound'
  BY <1>8 DEF IdleSound
<1>12. GraphBoth'
  <2>1. linked \in Seq(Blocks) /\ Leads(linked, Tip, {})
    BY <1>1 DEF ForkInv, TypeOK, IdleSound
  <2>2. Leads(linked', Tip, {b})
    <3>1. Leads(linked, Tip, {b})
      BY <2>1, LeadsMore
    <3> QED
      BY <1>1, <2>1, <3>1, LeadsAppendLow, ChainFacts
  <2>3. Leads(linked', b, {})
    <3>1. \A j \in DOMAIN linked : Height[linked[j]] < Height[b]
      BY <1>1, IdleHighest, ParentLower, ChainFacts
    <3> QED
      BY <1>1, <2>1, <3>1, LeadsAppendTop
  <2> QED
    BY <1>1, <2>2, <2>3 DEF GraphBoth, Tip
<1>13. Recorded'
  <2>1. history = PathTo[Last(history)] /\ history # <<>> /\ Tip = Last(history)
    BY ChainFacts
  <2>2. /\ job'.before = history /\ job'.base = n /\ job'.block = b /\ job'.pool = pool
        /\ job'.new = SubSeq(path, n + 1, Len(path))
    BY <1>1
  <2> QED
    BY <1>1, <1>3, <1>4, <1>7, <2>1, <2>2 DEF Recorded
<1>14. ASSUME n = Len(history) PROVE history = SubSeq(path, 1, n)
  <2>1. SubSeq(history, 1, Len(history)) = history
    BY ChainFacts
  <2> QED
    BY <1>3, <1>14, <2>1
<1>15. SwitchSound'
  <2>1. CASE n = Len(history)
    <3>1. job'.pc = "apply" /\ job'.done = 0 /\ job'.base = n /\ job'.block = b
      BY <1>1, <2>1
    <3>2. OnBranch'
      <4>1. 0 \in 0 .. Len(job'.new) /\ n + 0 = n
        BY <1>3, <1>8 DEF JobType
      <4> QED
        BY <1>1, <1>14, <2>1, <3>1, <4>1 DEF OnBranch
    <3> QED
      BY <1>1, <1>12, <1>13, <3>1, <3>2 DEF SwitchSound
  <2>2. CASE n # Len(history)
    <3>1. job'.pc = "rewind" /\ job'.done = 0 /\ job'.base = n /\ job'.before = history
      BY <1>1, <2>2
    <3>2. OnBefore' /\ job'.base < Len(history')
      <4>1. SubSeq(history, 1, Len(history)) = history
        BY ChainFacts
      <4>2. n < Len(history) /\ n <= Len(history) /\ Len(history) <= Len(history)
        BY <1>4, <2>2
      <4>3. history' = history
        BY <1>1
      <4> QED
        BY <3>1, <4>1, <4>2, <4>3 DEF OnBefore
    <3> QED
      BY <1>1, <1>12, <1>13, <3>1, <3>2 DEF SwitchSound
  <2> QED
    BY <2>1, <2>2
<1> QED
  BY <1>8, <1>9, <1>10, <1>11, <1>15 DEF ForkInv

\* The recorded chains inside a switch.
LEMMA RecordFacts ==
    ASSUME ForkInv, ~Idle
    PROVE  LET path == PathTo[job.block]
               old == job.before
           IN  /\ job.block \in Blocks /\ path \in Seq(Blocks) /\ Len(path) \in Nat
               /\ path[Len(path)] = job.block
               /\ old \in Seq(Blocks) /\ old # <<>> /\ old = PathTo[Last(old)] /\ Last(old) \in Blocks
               /\ Len(old) \in Nat /\ job.base \in 1 .. Len(old) /\ Len(old) < Len(path)
               /\ SubSeq(old, 1, job.base) = SubSeq(path, 1, job.base)
               /\ job.new \in Seq(Blocks) /\ Len(job.new) = Len(path) - job.base
               /\ \A i \in 1 .. Len(path) - job.base : job.new[i] = path[job.base + i]
               /\ Last(old) \notin ToSet(job.new) /\ pool = job.pool /\ executed = {}
<1> DEFINE path == PathTo[job.block]
           old == job.before
<1>1. /\ old # <<>> /\ old = PathTo[Last(old)] /\ job.base \in 1 .. Len(old) /\ Len(old) < Len(path)
      /\ SubSeq(old, 1, job.base) = SubSeq(path, 1, job.base)
      /\ job.new = SubSeq(path, job.base + 1, Len(path))
      /\ Last(old) \notin ToSet(job.new) /\ pool = job.pool /\ executed = {}
  BY DEF ForkInv, SwitchSound, Recorded
<1>2. job.block \in Blocks /\ old \in Seq(Blocks) /\ job.base \in Nat
  BY DEF ForkInv, JobType
<1>3. path \in Seq(Blocks) /\ Len(path) = Height[job.block] + 1 /\ Height[job.block] \in Nat
      /\ path[Height[job.block] + 1] = job.block
  BY <1>2, PathShape, ParentLower
<1>4. Last(old) \in Blocks
  BY <1>1, <1>2, FrontLast
<1> HIDE DEF path
<1>5. job.base \in 1 .. Len(path)
  BY <1>1, <1>2, <1>3
<1>6. /\ job.new \in Seq(Blocks) /\ Len(job.new) = Len(path) - job.base
      /\ \A i \in 1 .. Len(path) - job.base : job.new[i] = path[job.base + i]
  <2>1. PICK n \in 1 .. Len(path) : n = job.base
    BY <1>5
  <2>2. job.new = SubSeq(path, n + 1, Len(path)) /\ path \in Seq(Blocks)
    BY <1>1, <1>3, <2>1
  <2>3. /\ job.new \in Seq(Blocks) /\ Len(job.new) = Len(path) - n
        /\ \A i \in 1 .. Len(path) - n : job.new[i] = path[n + i]
    BY ONLY <2>2, TailOfSeq, n \in 1 .. Len(path)
  <2> QED
    BY ONLY <2>1, <2>3
<1>7. Len(path) \in Nat /\ path[Len(path)] = job.block /\ Len(old) \in Nat
  BY <1>2, <1>3
<1> QED
  BY <1>1, <1>2, <1>3, <1>4, <1>6, <1>7 DEF path

\* A rewind shortens the old chain, never past the common block.
LEMMA RewindKeeps == ForkInv /\ Rewind => ForkInv'
<1> SUFFICES ASSUME ForkInv, Rewind PROVE ForkInv'
  OBVIOUS
<1> DEFINE old == job.before
           path == PathTo[job.block]
<1>1. /\ job.pc = "rewind" /\ ~Idle /\ history' = Front(history) /\ khead' = Parent[khead]
      /\ job' = [job EXCEPT !.pc = IF Len(history') = job.base THEN "apply" ELSE "rewind"]
      /\ UNCHANGED <<linked, alive, orphans, pool, executed, cache>>
  BY DEF Rewind, Idle
<1>2. /\ Recorded /\ OnBefore /\ job.base < Len(history) /\ job.done = 0 /\ cache = {} /\ GraphBoth
  BY <1>1 DEF ForkInv, SwitchSound
<1>3. /\ old \in Seq(Blocks) /\ old = PathTo[Last(old)] /\ Last(old) \in Blocks /\ Len(old) \in Nat
      /\ job.base \in 1 .. Len(old) /\ SubSeq(old, 1, job.base) = SubSeq(path, 1, job.base)
      /\ job.new \in Seq(Blocks)
  BY <1>1, RecordFacts
<1>4. Len(history) > 1 /\ Len(history) <= Len(old) /\ Len(history) \in Nat
  BY <1>2, <1>3, ChainFacts DEF OnBefore
<1>5. /\ history' \in Seq(Blocks) /\ history' # <<>> /\ Last(history') = khead'
      /\ history' = PathTo[khead'] /\ Len(history') = Len(history) - 1 /\ khead' \in Blocks
  BY <1>1, <1>4, ChainFacts, ChainFront, FrontLast
<1>6. /\ job' \in JobType /\ job'.pc = (IF Len(history') = job.base THEN "apply" ELSE "rewind")
      /\ job'.block = job.block /\ job'.new = job.new /\ job'.done = 0 /\ job'.base = job.base
      /\ job'.before = job.before /\ job'.pool = job.pool /\ ~Idle'
  BY <1>1, <1>2 DEF ForkInv, JobType, Idle
<1>7. history' = SubSeq(old, 1, Len(history) - 1)
  <2> DEFINE i == Len(history) - 1
  <2>1. i \in 1 .. Len(old) /\ i < Len(old) /\ i + 1 = Len(history)
    BY <1>4
  <2> HIDE DEF i
  <2>2. i \in 1 .. Len(PathTo[Last(old)]) /\ i < Len(PathTo[Last(old)])
    BY <1>3, <2>1
  <2>3. Front(SubSeq(PathTo[Last(old)], 1, i + 1)) = SubSeq(PathTo[Last(old)], 1, i)
    BY <1>3, <2>2, PathNext
  <2>4. history = SubSeq(PathTo[Last(old)], 1, i + 1)
    BY <1>2, <1>3, <2>1 DEF OnBefore
  <2> QED
    BY <1>1, <1>3, <2>3, <2>4 DEF i
<1>8. TypeOK'
  BY <1>1, <1>5, <1>6 DEF ForkInv, TypeOK
<1>9. ChainSound'
  BY <1>1, <1>5, ChainFacts, TxsFront DEF ForkInv, ChainSound, CanonicalPath, Tip
<1>10. IdleSound'
  BY <1>6 DEF IdleSound
<1>11. Recorded' /\ GraphBoth'
  BY <1>1, <1>2, <1>6 DEF Recorded, GraphBoth
<1>12. CASE Len(history') = job.base
  <2>1. job'.pc = "apply"
    BY <1>6, <1>12
  <2>2. history' = SubSeq(path, 1, job.base + 0)
    BY <1>3, <1>4, <1>5, <1>7, <1>12
  <2>3. 0 \in 0 .. Len(job.new)
    BY <1>3
  <2>4. OnBranch'
    BY <1>6, <2>2, <2>3 DEF OnBranch
  <2>5. SwitchSound'
    BY <1>1, <1>2, <1>6, <1>11, <2>1, <2>4 DEF SwitchSound
  <2> QED
    BY <1>6, <1>8, <1>9, <1>10, <2>5 DEF ForkInv
<1>13. CASE Len(history') # job.base
  <2>1. job'.pc = "rewind"
    BY <1>6, <1>13
  <2>2. OnBefore' /\ job.base < Len(history')
    BY <1>2, <1>3, <1>4, <1>5, <1>6, <1>7, <1>13 DEF OnBefore
  <2>3. SwitchSound'
    BY <1>1, <1>2, <1>6, <1>11, <2>1, <2>2 DEF SwitchSound
  <2> QED
    BY <1>6, <1>8, <1>9, <1>10, <2>3 DEF ForkInv
<1> QED
  BY <1>12, <1>13

\* The next block of the branch is a child of the tip.
LEMMA ApplyNextKeeps == ForkInv /\ ApplyNext => ForkInv'
<1> SUFFICES ASSUME ForkInv, ApplyNext PROVE ForkInv'
  OBVIOUS
<1> DEFINE path == PathTo[job.block]
           b == job.new[job.done + 1]
           i == job.base + job.done
<1>1. /\ job.pc = "apply" /\ ~Idle /\ job.done < Len(job.new)
      /\ UNCHANGED <<linked, alive, orphans, pool, executed>>
  BY DEF ApplyNext, Idle
<1>2. Recorded /\ OnBranch /\ GraphBoth /\ cache \subseteq ChainTxs(history)
  BY <1>1 DEF ForkInv, SwitchSound
<1>3. CASE /\ Executes(b, cache, history) /\ history' = Append(history, b) /\ khead' = b
           /\ cache' = cache \cup TxOf[b] /\ job' = [job EXCEPT !.done = @ + 1]
  <2>1. /\ job.block \in Blocks /\ path \in Seq(Blocks) /\ Len(path) \in Nat
        /\ job.base \in Nat /\ job.base >= 1 /\ Len(job.new) = Len(path) - job.base
        /\ \A k \in 1 .. Len(path) - job.base : job.new[k] = path[job.base + k]
    BY <1>1, RecordFacts DEF ForkInv, JobType
  <2>2. job.done \in Nat /\ i \in 1 .. Len(path) /\ i < Len(path) /\ b = path[i + 1] /\ i \in Nat
    <3>1. job.done \in Nat
      BY DEF ForkInv, JobType
    <3> HIDE DEF path
    <3>2. job.done + 1 \in 1 .. Len(path) - job.base
      BY <1>1, <2>1, <3>1
    <3>3. b = path[job.base + (job.done + 1)]
      BY <2>1, <3>2
    <3> QED
      BY <2>1, <3>1, <3>2, <3>3
  <2>3. history = SubSeq(path, 1, i)
    BY <1>2 DEF OnBranch
  <2> HIDE DEF i
  <2>4. b \in Linkable /\ Parent[b] = path[i] /\ Append(history, b) = SubSeq(path, 1, i + 1)
    BY <2>1, <2>2, <2>3, PathNext
  <2>5. Tip = path[i]
    BY <2>1, <2>2, <2>3, PathCut DEF Tip
  <2> HIDE DEF path, b
  <2>6. /\ history' \in Seq(Blocks) /\ history' # <<>> /\ Last(history') = b /\ history' = PathTo[b]
    BY <1>3, <2>4, <2>5, ChainFacts, ChainAppend
  <2>7. b \in Blocks /\ b \notin Bad /\ TxOf[b] \cap ChainTxs(history) = {} /\ TxOf[b] \subseteq Txs
    BY <1>3, <2>4, PayloadAssumption DEF Executes, Duplicate, Linkable
  <2>8. Disjoint(history') /\ ChainTxs(history') = ChainTxs(history) \cup TxOf[b]
    BY <1>3, <2>7, TxsAppend, ChainFacts DEF ForkInv, ChainSound
  <2>9. /\ job' \in JobType /\ job'.pc = "apply" /\ job'.done = job.done + 1
        /\ job'.block = job.block /\ job'.new = job.new /\ job'.base = job.base
        /\ job'.before = job.before /\ job'.pool = job.pool /\ ~Idle'
    <3>1. job \in JobType /\ job' = [job EXCEPT !.done = job.done + 1] /\ job.done + 1 \in Nat /\ job.pc = "apply"
      BY <1>1, <1>3, <2>2 DEF ForkInv
    <3> QED
      BY <3>1 DEF JobType, Idle
  <2>10. TypeOK'
    BY <1>1, <1>3, <2>6, <2>7, <2>9 DEF ForkInv, TypeOK
  <2>11. ChainSound'
    BY <1>3, <2>6, <2>8 DEF ChainSound, CanonicalPath, Tip
  <2>12. IdleSound'
    BY <2>9 DEF IdleSound
  <2>13. Recorded' /\ GraphBoth'
    BY <1>1, <1>2, <2>9 DEF Recorded, GraphBoth
  <2>14. OnBranch'
    <3>1. job'.done \in 0 .. Len(job'.new)
      BY <1>1, <2>1, <2>2, <2>9
    <3>2. job'.base + job'.done = i + 1
      BY <2>1, <2>2, <2>9 DEF i
    <3> QED
      BY <1>3, <2>4, <2>9, <3>1, <3>2 DEF OnBranch, path
  <2>15. SwitchSound'
    BY <1>2, <1>3, <2>8, <2>9, <2>13, <2>14 DEF SwitchSound
  <2> QED
    BY <2>9, <2>10, <2>11, <2>12, <2>15 DEF ForkInv
<1>4. CASE job' = [job EXCEPT !.pc = "retract"] /\ UNCHANGED <<history, khead, cache>>
  <2>1. /\ job' \in JobType /\ job'.pc = "retract" /\ job'.done = job.done
        /\ job'.block = job.block /\ job'.new = job.new /\ job'.base = job.base
        /\ job'.before = job.before /\ job'.pool = job.pool /\ ~Idle'
    BY <1>1, <1>4 DEF ForkInv, JobType, Idle
  <2>2. TypeOK' /\ ChainSound' /\ IdleSound'
    BY <1>1, <1>4, <2>1 DEF ForkInv, TypeOK, ChainSound, CanonicalPath, Tip, IdleSound
  <2>3. Recorded' /\ GraphBoth' /\ OnBranch'
    BY <1>1, <1>2, <1>4, <2>1 DEF Recorded, GraphBoth, OnBranch
  <2>4. SwitchSound'
    BY <2>1, <2>3 DEF SwitchSound
  <2> QED
    BY <2>1, <2>2, <2>4 DEF ForkInv
<1> QED
  BY <1>3, <1>4 DEF ApplyNext

\* At the end of apply the committed chain is the path of the new block.
LEMMA SwitchedPath ==
    ASSUME ForkInv, job.pc = "apply", job.done = Len(job.new)
    PROVE  history = PathTo[job.block] /\ Tip = job.block
<1> DEFINE path == PathTo[job.block]
<1>1. ~Idle /\ OnBranch
  BY DEF ForkInv, SwitchSound, Idle
<1>2. /\ job.block \in Blocks /\ path \in Seq(Blocks) /\ Len(path) \in Nat /\ path[Len(path)] = job.block
      /\ Len(job.new) = Len(path) - job.base /\ job.base \in Nat
  BY <1>1, RecordFacts DEF ForkInv, JobType
<1>3. history = SubSeq(path, 1, Len(path))
  BY <1>1, <1>2 DEF OnBranch
<1> HIDE DEF path
<1>4. history = path
  BY <1>2, <1>3
<1> QED
  BY <1>2, <1>4 DEF path, Tip, Last

\* The new head is the only block of its height.
LEMMA FinishSwitchKeeps == ForkInv /\ FinishSwitch => ForkInv'
<1> SUFFICES ASSUME ForkInv, FinishSwitch PROVE ForkInv'
  OBVIOUS
<1>1. /\ job.pc = "apply" /\ ~Idle /\ job.done = Len(job.new)
      /\ pool' \in Replays(pool \cup Abandoned, cache, history) /\ executed' = pool' /\ job' = NoSwitch
      /\ UNCHANGED <<history, linked, alive, orphans, khead, cache>>
  BY DEF FinishSwitch, Idle
<1>2. Abandoned \subseteq Txs
  <2> DEFINE old == job.before
             n == job.base
  <2>1. old \in Seq(Blocks) /\ n \in 1 .. Len(old)
    BY <1>1, RecordFacts
  <2> HIDE DEF old, n
  <2>2. SubSeq(old, n + 1, Len(old)) \in Seq(Blocks)
    BY <2>1, TailOfSeq
  <2>3. \A r \in Seq(Blocks) : ChainTxs(r) \subseteq Txs
    BY PayloadAssumption DEF ChainTxs
  <2> QED
    BY <2>2, <2>3 DEF Abandoned, old, n
<1>3. executed' \subseteq Txs /\ pool' \subseteq Txs /\ executed' \cap ChainTxs(history) = {}
  <2>1. pool \cup Abandoned \in SUBSET Txs
    BY <1>2 DEF ForkInv, TypeOK
  <2>2. pool' \subseteq pool \cup Abandoned /\ pool' \cap ChainTxs(history) = {}
    BY <1>1, <2>1, ReplayDisjoint
  <2> QED
    BY <1>1, <2>1, <2>2
<1>4. job' \in JobType /\ job'.pc = "idle"
  BY <1>1, TreeAssumption DEF NoSwitch, JobType
<1>5. TypeOK' /\ ChainSound'
  BY <1>1, <1>3, <1>4 DEF ForkInv, TypeOK, ChainSound, CanonicalPath, Tip
<1>6. IdleSound'
  <2>1. Leads(linked, job.block, {}) /\ Tip = job.block
    BY <1>1, SwitchedPath DEF ForkInv, SwitchSound, GraphBoth
  <2> QED
    BY <1>1, <1>3, <2>1 DEF IdleSound, Tip
<1>7. SwitchSound'
  BY <1>4 DEF SwitchSound, Idle
<1> QED
  BY <1>4, <1>5, <1>6, <1>7 DEF ForkInv

\* A retraction shortens the new branch, never past the common block.
LEMMA RetractKeeps == ForkInv /\ Retract => ForkInv'
<1> SUFFICES ASSUME ForkInv, Retract PROVE ForkInv'
  OBVIOUS
<1> DEFINE path == PathTo[job.block]
           i == job.base + job.done - 1
<1>1. /\ job.pc = "retract" /\ ~Idle /\ job.done > 0 /\ history' = Front(history) /\ khead' = Parent[khead]
      /\ job' = [job EXCEPT !.done = @ - 1]
      /\ UNCHANGED <<linked, alive, orphans, pool, executed, cache>>
  BY DEF Retract, Idle
<1>2. Recorded /\ OnBranch /\ GraphBoth
  BY <1>1 DEF ForkInv, SwitchSound
<1>3. /\ job.block \in Blocks /\ path \in Seq(Blocks) /\ Len(path) \in Nat
      /\ job.base \in Nat /\ job.base >= 1 /\ Len(job.new) = Len(path) - job.base
      /\ job.done \in Nat
  BY <1>1, RecordFacts DEF ForkInv, JobType
<1>4. /\ i \in 1 .. Len(path) /\ i < Len(path) /\ i + 1 = job.base + job.done /\ i \in Nat
      /\ job.done <= Len(job.new)
  <2>1. job.done <= Len(path) - job.base /\ job.done <= Len(job.new)
    BY <1>2, <1>3 DEF OnBranch
  <2> HIDE DEF path
  <2> QED
    BY <1>1, <1>3, <2>1
<1>5. history = SubSeq(path, 1, i + 1)
  BY <1>2, <1>4 DEF OnBranch
<1> HIDE DEF i
<1>6. history' = SubSeq(path, 1, i) /\ Len(history) > 1
  <2>1. Front(SubSeq(path, 1, i + 1)) = SubSeq(path, 1, i)
    BY <1>3, <1>4, PathNext
  <2>2. i + 1 \in 1 .. Len(path)
    BY <1>3, <1>4
  <2>3. Len(SubSeq(path, 1, i + 1)) = i + 1
    BY <1>3, <2>2, PathCut
  <2> QED
    BY <1>1, <1>4, <1>5, <2>1, <2>3
<1>7. /\ history' \in Seq(Blocks) /\ history' # <<>> /\ Last(history') = khead'
      /\ history' = PathTo[khead'] /\ khead' \in Blocks
  <2>1. /\ history \in Seq(Blocks) /\ history # <<>> /\ history = PathTo[Last(history)] /\ khead = Last(history)
        /\ Len(history) > 1
    BY <1>6, ChainFacts
  <2>2. /\ Front(history) \in Seq(Blocks) /\ Front(history) # <<>>
        /\ Last(Front(history)) = Parent[Last(history)] /\ Front(history) = PathTo[Parent[Last(history)]]
    BY <2>1, ChainFront
  <2>3. Last(Front(history)) \in Blocks
    BY <2>2, FrontLast
  <2> QED
    BY <1>1, <2>1, <2>2, <2>3
<1>8. /\ job' \in JobType /\ job'.pc = "retract" /\ job'.done = job.done - 1
      /\ job'.block = job.block /\ job'.new = job.new /\ job'.base = job.base
      /\ job'.before = job.before /\ job'.pool = job.pool /\ ~Idle'
  <2>1. job \in JobType /\ job' = [job EXCEPT !.done = job.done - 1] /\ job.done - 1 \in Nat /\ job.pc = "retract"
    BY <1>1, <1>3 DEF ForkInv
  <2> QED
    BY <2>1 DEF JobType, Idle
<1>9. TypeOK' /\ IdleSound'
  BY <1>1, <1>7, <1>8 DEF ForkInv, TypeOK, IdleSound
<1>10. ChainSound'
  BY <1>1, <1>7, ChainFacts, TxsFront DEF ForkInv, ChainSound, CanonicalPath, Tip
<1>11. Recorded' /\ GraphBoth'
  BY <1>1, <1>2, <1>8 DEF Recorded, GraphBoth
<1>12. OnBranch'
  <2>1. job'.base + job'.done = i /\ job'.done \in 0 .. Len(job'.new)
    BY <1>1, <1>3, <1>4, <1>8 DEF i
  <2> QED
    BY <1>6, <1>8, <2>1 DEF OnBranch
<1>13. SwitchSound'
  BY <1>8, <1>11, <1>12 DEF SwitchSound
<1> QED
  BY <1>8, <1>9, <1>10, <1>13 DEF ForkInv

\* With the branch gone the old head leads the graph again.
LEMMA DropBranchKeeps == ForkInv /\ DropBranch => ForkInv'
<1> SUFFICES ASSUME ForkInv, DropBranch PROVE ForkInv'
  OBVIOUS
<1> DEFINE path == PathTo[job.block]
           old == job.before
           S == ToSet(job.new)
<1>1. /\ job.pc = "retract" /\ ~Idle /\ job.done = 0
      /\ linked' = Without(linked, S) /\ alive' = AliveWithout(S)
      /\ khead' = old[job.base] /\ cache' = {} /\ job' = [job EXCEPT !.pc = "reapply"]
      /\ UNCHANGED <<history, orphans, pool, executed>>
  BY DEF DropBranch, Idle
<1>2. Recorded /\ OnBranch /\ GraphBoth
  BY <1>1 DEF ForkInv, SwitchSound
<1>3. /\ job.block \in Blocks /\ path \in Seq(Blocks) /\ Len(path) \in Nat /\ path[Len(path)] = job.block
      /\ old \in Seq(Blocks) /\ old # <<>> /\ old = PathTo[Last(old)] /\ Last(old) \in Blocks
      /\ Len(old) \in Nat /\ job.base \in 1 .. Len(old) /\ Len(old) < Len(path)
      /\ SubSeq(old, 1, job.base) = SubSeq(path, 1, job.base)
      /\ job.new \in Seq(Blocks) /\ Len(job.new) = Len(path) - job.base
      /\ \A i \in 1 .. Len(path) - job.base : job.new[i] = path[job.base + i]
      /\ Last(old) \notin S
  BY <1>1, RecordFacts
<1>4. job.block \in S
  <2> HIDE DEF path, old
  <2>1. Len(path) - job.base \in DOMAIN job.new /\ Len(path) - job.base \in 1 .. Len(path) - job.base
    <3>1. DOMAIN job.new = 1 .. Len(path) - job.base
      BY <1>3
    <3>2. Len(path) - job.base > 0 /\ Len(path) - job.base \in Int
      BY <1>3
    <3> QED
      BY <3>1, <3>2
  <2>2. job.new[Len(path) - job.base] = path[job.base + (Len(path) - job.base)]
    BY <1>3, <2>1
  <2>3. job.base + (Len(path) - job.base) = Len(path)
    BY <1>3
  <2> QED
    BY <1>3, <2>1, <2>2, <2>3 DEF ToSet
<1>5. linked \in Seq(Blocks) /\ Leads(linked, Last(old), {job.block})
  BY <1>2 DEF ForkInv, TypeOK, GraphBoth
<1>6. linked' \in Seq(Blocks) /\ Leads(linked', Last(old), {})
  <2> DEFINE R == {job.block}
  <2>1. R \subseteq S
    BY <1>4
  <2> HIDE DEF R, S
  <2>2. Leads(linked, Last(old), R)
    BY <1>5 DEF R
  <2> QED
    BY <1>1, <1>3, <1>5, <2>1, <2>2, WithoutMembers, LeadsWithout
<1>7. history = SubSeq(old, 1, job.base)
  BY <1>1, <1>2, <1>3 DEF OnBranch
<1>8. khead' = Tip /\ khead' \in Blocks /\ Len(history) = job.base
  <2>1. job.base \in 1 .. Len(PathTo[Last(old)])
    BY <1>3
  <2>2. LET c == SubSeq(PathTo[Last(old)], 1, job.base)
        IN  Last(c) = PathTo[Last(old)][job.base] /\ Last(c) \in Blocks /\ Len(c) = job.base
    BY <1>3, <2>1, PathCut
  <2> QED
    BY <1>1, <1>3, <1>7, <2>2 DEF Tip
<1>9. /\ job' \in JobType /\ job'.pc = "reapply"
      /\ job'.block = job.block /\ job'.new = job.new /\ job'.base = job.base
      /\ job'.before = job.before /\ job'.pool = job.pool /\ ~Idle'
  BY <1>1 DEF ForkInv, JobType, Idle
<1>10. TypeOK' /\ ChainSound' /\ IdleSound'
  BY <1>1, <1>6, <1>8, <1>9 DEF ForkInv, TypeOK, AliveWithout, ChainSound, CanonicalPath, Tip, IdleSound
<1>11. Recorded'
  BY <1>1, <1>2, <1>9 DEF Recorded
<1>12. OnBefore'
  <2>1. job.base <= job.base /\ job.base <= Len(old)
    BY <1>3
  <2> QED
    BY <1>1, <1>7, <1>8, <1>9, <2>1 DEF OnBefore
<1>13. SwitchSound'
  BY <1>6, <1>9, <1>11, <1>12 DEF SwitchSound
<1> QED
  BY <1>9, <1>10, <1>13 DEF ForkInv

\* The next block of the old chain is a child of the tip.
LEMMA ReapplyKeeps == ForkInv /\ Reapply => ForkInv'
<1> SUFFICES ASSUME ForkInv, Reapply PROVE ForkInv'
  OBVIOUS
<1> DEFINE old == job.before
           i == Len(history)
           b == old[i + 1]
<1>1. /\ job.pc = "reapply" /\ ~Idle /\ i < Len(old)
      /\ Executes(b, cache, history) /\ history' = Append(history, b) /\ khead' = b
      /\ cache' = cache \cup TxOf[b]
      /\ UNCHANGED <<linked, alive, orphans, pool, executed, job>>
  BY DEF Reapply, Idle
<1>2. Recorded /\ OnBefore /\ Leads(linked, Last(old), {})
  BY <1>1 DEF ForkInv, SwitchSound
<1>3. /\ old \in Seq(Blocks) /\ old = PathTo[Last(old)] /\ Last(old) \in Blocks /\ Len(old) \in Nat
      /\ job.base \in 1 .. Len(old)
  BY <1>1, RecordFacts
<1>4. i \in 1 .. Len(old) /\ i \in Nat /\ history = SubSeq(old, 1, i)
  BY <1>1, <1>2, <1>3, ChainFacts DEF OnBefore
<1> HIDE DEF i
<1>5. b \in Linkable /\ Parent[b] = old[i] /\ Append(history, b) = SubSeq(old, 1, i + 1)
  <2>1. i \in 1 .. Len(PathTo[Last(old)]) /\ i < Len(PathTo[Last(old)])
    BY <1>1, <1>3, <1>4
  <2>2. LET p == PathTo[Last(old)]
        IN  p[i + 1] \in Linkable /\ Parent[p[i + 1]] = p[i] /\ Append(SubSeq(p, 1, i), p[i + 1]) = SubSeq(p, 1, i + 1)
    BY <1>3, <2>1, PathNext
  <2> QED
    BY <1>3, <1>4, <2>2
<1>6. Tip = old[i] /\ Len(history') = i + 1
  <2>1. i \in 1 .. Len(PathTo[Last(old)])
    BY <1>3, <1>4
  <2>2. LET c == SubSeq(PathTo[Last(old)], 1, i) IN Last(c) = PathTo[Last(old)][i] /\ Len(c) = i
    BY <1>3, <2>1, PathCut
  <2>3. history' = Append(history, b) /\ history \in Seq(Blocks)
    BY <1>1, ChainFacts
  <2>4. Len(history') = Len(history) + 1
    BY <2>3
  <2> QED
    BY <1>3, <1>4, <2>2, <2>4 DEF Tip
<1> HIDE DEF b, old
<1>7. /\ history' \in Seq(Blocks) /\ history' # <<>> /\ Last(history') = b /\ history' = PathTo[b]
  BY <1>1, <1>5, <1>6, ChainFacts, ChainAppend
<1>8. b \in Blocks /\ TxOf[b] \cap ChainTxs(history) = {} /\ TxOf[b] \subseteq Txs
  BY <1>1, <1>5, PayloadAssumption DEF Executes, Duplicate, Linkable
<1>9. Disjoint(history')
  BY <1>1, <1>8, TxsAppend, ChainFacts DEF ForkInv, ChainSound
<1>10. TypeOK' /\ job' \in JobType
  BY <1>1, <1>7, <1>8 DEF ForkInv, TypeOK
<1>11. ChainSound'
  BY <1>1, <1>7, <1>9 DEF ChainSound, CanonicalPath, Tip
<1>12. IdleSound' /\ Recorded'
  BY <1>1, <1>2 DEF IdleSound, Idle, Recorded
<1>13. OnBefore'
  <2>1. job.base <= i + 1 /\ i + 1 <= Len(old)
    BY <1>1, <1>2, <1>3, <1>4 DEF OnBefore, i, old
  <2> QED
    BY <1>1, <1>5, <1>6, <2>1 DEF OnBefore, old
<1>14. SwitchSound'
  BY <1>1, <1>2, <1>12, <1>13 DEF SwitchSound, old
<1> QED
  BY <1>10, <1>11, <1>12, <1>14 DEF ForkInv

\* At the end of reapply the committed chain is the one the switch left.
LEMMA RestoredChain ==
    ASSUME ForkInv, job.pc = "reapply", Len(history) = Len(job.before)
    PROVE  history = job.before
<1>1. ~Idle /\ OnBefore
  BY DEF ForkInv, SwitchSound, Idle
<1>2. job.before \in Seq(Blocks)
  BY <1>1, RecordFacts
<1>3. history = SubSeq(job.before, 1, Len(job.before))
  BY <1>1 DEF OnBefore
<1> QED
  BY <1>2, <1>3

\* The old chain, complete, under the old head.
LEMMA FinishRestoreKeeps == ForkInv /\ FinishRestore => ForkInv'
<1> SUFFICES ASSUME ForkInv, FinishRestore PROVE ForkInv'
  OBVIOUS
<1>1. /\ job.pc = "reapply" /\ ~Idle /\ Len(history) = Len(job.before)
      /\ khead' = Last(job.before) /\ cache' = job.cache /\ pool' = job.pool
      /\ executed' \in StrictReplays(job.pool, job.cache, history)
      /\ job' = NoSwitch /\ UNCHANGED <<history, linked, alive, orphans>>
  BY DEF FinishRestore, Idle
<1>2. history = job.before /\ Leads(linked, Last(job.before), {})
  BY <1>1, RestoredChain DEF ForkInv, SwitchSound
<1>3. job.pool \in SUBSET Txs /\ job.cache \in SUBSET Txs
  BY DEF ForkInv, JobType
<1>4. executed' \subseteq Txs /\ executed' \cap ChainTxs(history) = {}
  BY <1>1, <1>3, ReplayDisjoint
<1>5. job' \in JobType /\ job'.pc = "idle"
  BY <1>1, TreeAssumption DEF NoSwitch, JobType
<1>6. TypeOK' /\ ChainSound'
  BY <1>1, <1>2, <1>3, <1>4, <1>5, ChainFacts DEF ForkInv, TypeOK, ChainSound, CanonicalPath, Tip
<1>7. IdleSound'
  BY <1>1, <1>2, <1>4 DEF IdleSound, Tip
<1>8. SwitchSound'
  BY <1>5 DEF SwitchSound, Idle
<1> QED
  BY <1>5, <1>6, <1>7, <1>8 DEF ForkInv

-----------------------------------------------------------------------------
\* Every step keeps the invariant.
LEMMA StepKeeps == ForkInv /\ [Next]_vars => ForkInv'
<1> SUFFICES ASSUME ForkInv, [Next]_vars PROVE ForkInv'
  OBVIOUS
<1>1. ASSUME NEW b \in Blocks, Accept(b) PROVE ForkInv'
  BY <1>1, ApplyDirectKeeps, RetainOrphanKeeps, RetainSiblingKeeps, RefuseBranchKeeps, BeginSwitchKeeps DEF Accept
<1>2. ASSUME NEW t \in Txs, Broadcast(t) \/ CacheExpire(t) PROVE ForkInv'
  BY <1>2, BroadcastKeeps, CacheExpireKeeps
<1>3. CASE SwitchStep
  BY <1>3, RewindKeeps, ApplyNextKeeps, FinishSwitchKeeps, RetractKeeps, DropBranchKeeps, ReapplyKeeps,
     FinishRestoreKeeps DEF SwitchStep
<1>4. CASE UNCHANGED vars
  BY <1>4 DEF vars, ForkInv, TypeOK, ChainSound, CanonicalPath, Tip, IdleSound, SwitchSound, Idle, Recorded,
     OnBefore, OnBranch, GraphBoth
<1> QED
  BY <1>1, <1>2, <1>3, <1>4 DEF Next

\* The invariant holds in every reachable state.
THEOREM ForkInvariant == Spec => []ForkInv
  BY InitKeeps, StepKeeps, PTL DEF Spec

\* Type correctness of the block manager, the graph, the pool and the switch.
THEOREM ForkTypes == Spec => []TypeOK
<1>1. ForkInv => TypeOK
  BY DEF ForkInv
<1> QED
  BY <1>1, ForkInvariant, PTL

\* For every block tree, and whatever blocks are delivered in whatever order: between
\* requests the head of the block graph is the head of the committed state.
THEOREM HeadsAgree == Spec => []HeadAgreement
<1>1. ForkInv => HeadAgreement
  BY DEF ForkInv, ChainSound, HeadAgreement
<1> QED
  BY <1>1, ForkInvariant, PTL

\* At every instant, also between two steps of a fork switch, the committed chain is a
\* path of the block tree from Genesis.
THEOREM ChainIsPath == Spec => []CanonicalPath
<1>1. ForkInv => CanonicalPath
  BY DEF ForkInv, ChainSound
<1> QED
  BY <1>1, ForkInvariant, PTL

\* No transaction takes effect twice, on the chain or in the pending session above it.
THEOREM EffectsOnce == Spec => []EffectOnce
<1>1. ForkInv => EffectOnce
  BY DEF ForkInv, ChainSound, IdleSound, EffectOnce, Disjoint
<1> QED
  BY <1>1, ForkInvariant, PTL

\* Between requests no block of the graph is above the canonical head.
THEOREM ChainIsLongest == Spec => []LongestChain
<1>1. ForkInv => LongestChain
  BY IdleHighest DEF LongestChain, Members, ToSet
<1> QED
  BY <1>1, ForkInvariant, PTL

\* Only the two finishing steps end a switch.
LEMMA SwitchEndsBy ==
    ASSUME ForkInv, [Next]_vars, job.pc # "idle", job'.pc = "idle"
    PROVE  FinishSwitch \/ FinishRestore
<1>1. ~Idle /\ job \in JobType
  BY DEF Idle, ForkInv
<1>2. ~\E b \in Blocks : Accept(b)
  BY <1>1 DEF Accept, ApplyDirect, RetainOrphan, RetainSibling, RefuseBranch, BeginSwitch, Competes
<1>3. ~\E t \in Txs : Broadcast(t) \/ CacheExpire(t)
  BY <1>1 DEF Broadcast, CacheExpire
<1>4. ~UNCHANGED vars
  BY DEF vars
<1>5. SwitchStep
  BY <1>2, <1>3, <1>4 DEF Next
<1>6. ~Rewind
  BY <1>1 DEF Rewind, JobType
<1>7. ~ApplyNext
  BY <1>1 DEF ApplyNext, JobType
<1>8. ~Retract /\ ~DropBranch /\ ~Reapply
  BY <1>1 DEF Retract, DropBranch, Reapply, JobType
<1> QED
  BY <1>5, <1>6, <1>7, <1>8 DEF SwitchStep

\* A fork switch ends on the new branch or on exactly the chain it started from.
THEOREM SwitchIsAtomic == Spec => SwitchAtomic
<1>1. ForkInv /\ [Next]_vars =>
        [job.pc # "idle" /\ job'.pc = "idle" => history' \in {job.before, PathTo[job.block]}]_vars
  <2> SUFFICES ASSUME ForkInv, [Next]_vars, job.pc # "idle", job'.pc = "idle"
               PROVE  history' \in {job.before, PathTo[job.block]}
    OBVIOUS
  <2>1. CASE FinishSwitch
    BY <2>1, SwitchedPath DEF FinishSwitch
  <2>2. CASE FinishRestore
    BY <2>2, RestoredChain DEF FinishRestore
  <2> QED
    BY <2>1, <2>2, SwitchEndsBy
<1> QED
  BY <1>1, ForkInvariant, PTL DEF Spec, SwitchAtomic

\* A switch that ends drops only what the new branch refuses, and one that is
\* undone drops nothing.
THEOREM SwitchDropsOnlyRefused == Spec => SwitchKeepsTransactions
<1> DEFINE Lost == (job.pool \cup ChainTxs(job.before)) \ (pool' \cup ChainTxs(history'))
           Refused(t) == history' # job.before /\ \E S \in SUBSET pool' : <<t, Last(history'), S>> \notin Runs
<1>1. ForkInv /\ [Next]_vars =>
        [job.pc # "idle" /\ job'.pc = "idle" => \A t \in Lost : Refused(t)]_vars
  <2> SUFFICES ASSUME ForkInv, [Next]_vars, job.pc # "idle", job'.pc = "idle"
               PROVE  \A t \in Lost : Refused(t)
    OBVIOUS
  <2>1. CASE FinishSwitch
    <3> DEFINE old == job.before
               path == PathTo[job.block]
               n == job.base
               rest == SubSeq(old, n + 1, Len(old))
    <3>1. /\ job.pc = "apply" /\ ~Idle /\ history' = history /\ pool' \in Replays(pool \cup Abandoned, cache, history)
          /\ history = path /\ cache \subseteq ChainTxs(history)
      BY <2>1, SwitchedPath DEF FinishSwitch, Idle, ForkInv, SwitchSound
    <3>2. /\ old \in Seq(Blocks) /\ path \in Seq(Blocks) /\ n \in 1 .. Len(old) /\ Len(old) < Len(path)
          /\ Len(old) \in Nat /\ Len(path) \in Nat
          /\ SubSeq(old, 1, n) = SubSeq(path, 1, n) /\ pool = job.pool
      BY <3>1, RecordFacts
    <3> HIDE DEF old, path, n
    <3>3. \A i \in 1 .. n : old[i] = path[i]
      <4>1. n \in 1 .. Len(path) /\ n \in Nat
        BY <3>2
      <4>2. \A i \in 1 .. n : SubSeq(old, 1, n)[i] = old[i] /\ SubSeq(path, 1, n)[i] = path[i]
        BY <3>2, <4>1
      <4> QED
        BY <3>2, <4>2
    <3>4. /\ rest \in Seq(Blocks) /\ Len(rest) = Len(old) - n
          /\ \A i \in 1 .. Len(old) - n : rest[i] = old[n + i]
      BY <3>2, TailOfSeq
    <3>5. ChainTxs(old) \subseteq ChainTxs(path) \cup ChainTxs(rest)
      <4> SUFFICES ASSUME NEW i \in DOMAIN old, NEW x \in TxOf[old[i]]
                   PROVE  x \in ChainTxs(path) \cup ChainTxs(rest)
        BY DEF ChainTxs
      <4>1. i \in 1 .. Len(old)
        BY <3>2
      <4>2. CASE i <= n
        <5>1. i \in DOMAIN path /\ path[i] = old[i]
          BY <3>2, <3>3, <4>1, <4>2
        <5> QED
          BY <5>1 DEF ChainTxs
      <4>3. CASE i > n
        <5> HIDE DEF rest
        <5>1. i - n \in 1 .. Len(old) - n /\ n + (i - n) = i
          BY <3>2, <4>1, <4>3
        <5>2. i - n \in DOMAIN rest
          BY <3>4, <5>1
        <5>3. rest[i - n] = old[i]
          BY <3>4, <5>1
        <5> QED
          BY <5>2, <5>3 DEF ChainTxs
      <4> QED
        BY <3>2, <4>1, <4>2, <4>3
    <3>6. Abandoned = ChainTxs(rest)
      BY DEF Abandoned, old, n
    <3> HIDE DEF rest
    <3>7. \A t \in (pool \cup Abandoned) \ (pool' \cup ChainTxs(history)) :
              \E S \in SUBSET pool' : <<t, Last(history), S>> \notin Runs
      <4>1. PICK ts : ts = pool \cup Abandoned
        OBVIOUS
      <4>2. \A kept \in Replays(ts, cache, history) : DropsRefused(ts, kept, history)
        BY <3>1, ReplayDropsRefused
      <4> QED
        BY <3>1, <4>1, <4>2 DEF DropsRefused
    <3>8. history' # old
      BY <3>1, <3>2
    <3>9. Lost \subseteq (pool \cup Abandoned) \ (pool' \cup ChainTxs(history))
      BY <3>1, <3>2, <3>5, <3>6 DEF old
    <3> QED
      BY <3>1, <3>7, <3>8, <3>9 DEF old
  <2>2. CASE FinishRestore
    BY <2>2, RestoredChain DEF FinishRestore
  <2> QED
    BY <2>1, <2>2, SwitchEndsBy
<1> QED
  BY <1>1, ForkInvariant, PTL DEF Spec, SwitchKeepsTransactions
=============================================================================
