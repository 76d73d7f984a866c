------------------------- MODULE SessionStackProofs -------------------------
(***************************************************************************)
(* Proofs about the session stack for any number of handles, keys, values, *)
(* sessions and blocks.  The inductive invariant is StackInv; the lemmas   *)
(* on counting say how CountLive follows the four ways a stack changes     *)
(* (push, cut, settle one layer, rewrite entries).  The last part shows    *)
(* that the stack implements NestedSnapshots.                              *)
(***************************************************************************)
EXTENDS SessionStack, TLAPS, FiniteSetTheorems, SequenceTheorems, WellFoundedInduction

-----------------------------------------------------------------------------
(* Extremal elements of bounded sets of naturals. *)

\* A non-empty set of naturals has a least element: the position() of finish and
\* of reads is defined.
LEMMA LeastExists ==
    ASSUME NEW S \in SUBSET Nat, S # {}
    PROVE  \E m \in S : \A x \in S : m <= x
<1>1. PICK m \in S : \A y \in S : ~(<<y, m>> \in OpToRel(<, Nat))
  BY WFMin, NatLessThanWellFounded
<1>2. ASSUME NEW y \in S, y < m
      PROVE  FALSE
  <2>1. <<y, m>> \in Nat \X Nat /\ <<y, m>>[1] < <<y, m>>[2]
    BY <1>2
  <2>2. <<y, m>> \in {ss \in Nat \X Nat : ss[1] < ss[2]}
    BY <2>1
  <2>3. <<y, m>> \in OpToRel(<, Nat)
    BY <2>2 DEF OpToRel
  <2>4. QED
    BY <1>1, <2>3
<1>3. m \in Nat
  OBVIOUS
<1>4. \A x \in S : m <= x
  BY <1>2, <1>3
<1>5. QED
  BY <1>4

\* A non-empty set of naturals with a bound has a greatest element: a read finds the
\* uppermost layer that holds the key.
LEMMA GreatestExists ==
    ASSUME NEW S \in SUBSET Nat, NEW b \in Nat, \A x \in S : x <= b, S # {}
    PROVE  \E m \in S : \A x \in S : x <= m
<1> DEFINE T == {b - x : x \in S}
<1>1. T \in SUBSET Nat /\ T # {}
  <2>1. ASSUME NEW x \in S
        PROVE  b - x \in Nat
    BY x <= b
  <2>2. \A t \in T : t \in Nat
    BY <2>1
  <2>3. PICK x \in S : TRUE
    OBVIOUS
  <2>4. b - x \in T
    OBVIOUS
  <2>5. QED
    BY <2>2, <2>4
<1> HIDE DEF T
<1>2. PICK t \in T : \A y \in T : t <= y
  BY <1>1, LeastExists
<1>3. PICK m \in S : t = b - m
  BY DEF T
<1>4. ASSUME NEW x \in S
      PROVE  x <= m
  <2>1. b - x \in T
    BY DEF T
  <2>2. b - m <= b - x
    BY <1>2, <1>3, <2>1
  <2>3. QED
    BY <2>2
<1>5. QED
  BY <1>4

-----------------------------------------------------------------------------
(* Shapes of stacks. *)

\* Truncating the stack keeps the layers below the cut (Vec::truncate in finish).
LEMMA CutProperties ==
    ASSUME NEW ls \in Seq(Layer), NEW n \in 1 .. Len(ls) + 1
    PROVE  /\ SubSeq(ls, 1, n - 1) \in Seq(Layer)
           /\ Len(SubSeq(ls, 1, n - 1)) = n - 1
           /\ \A i \in 1 .. n - 1 : SubSeq(ls, 1, n - 1)[i] = ls[i]
<1>1. Len(ls) \in Nat /\ \A i \in 1 .. n - 1 : ls[i] \in Layer
  OBVIOUS
<1>2. QED
  BY <1>1, SubSeqProperties

\* Assigning one element of the stack leaves the others alone.
LEMMA ReplaceProperties ==
    ASSUME NEW ls \in Seq(Layer), NEW i \in 1 .. Len(ls), NEW e \in Layer
    PROVE  /\ [ls EXCEPT ![i] = e] \in Seq(Layer)
           /\ Len([ls EXCEPT ![i] = e]) = Len(ls)
           /\ DOMAIN [ls EXCEPT ![i] = e] = 1 .. Len(ls)
           /\ [ls EXCEPT ![i] = e][i] = e
           /\ \A j \in 1 .. Len(ls) : j # i => [ls EXCEPT ![i] = e][j] = ls[j]
OBVIOUS

\* An id names at most one layer, the one position() finds.
LEMMA IndexProperties ==
    ASSUME NEW ls, NEW id, HasId(ls, id)
    PROVE  /\ IndexIn(ls, id) \in DOMAIN ls
           /\ ls[IndexIn(ls, id)].id = id
BY DEF HasId, IndexIn

\* What the layers hold for a key is a value, a tombstone or nothing.
LEMMA EntryType ==
    ASSUME NEW ls \in Seq(Layer), NEW m \in Nat \ {0}, NEW n \in 0 .. Len(ls), NEW k \in Keys
    PROVE  EntryOf(ls, m, n, k) \in Vals \cup {Absent, Unset}
<1> DEFINE S == {i \in m .. n : ls[i].values[k] # Unset}
<1>1. CASE S = {}
  BY <1>1 DEF EntryOf
<1>2. CASE S # {}
  <2>1. S \in SUBSET Nat /\ (\A x \in S : x <= n) /\ n \in Nat
    OBVIOUS
  <2> DEFINE top == CHOOSE i \in S : \A j \in S : j <= i
  <2>2. \E i \in S : \A j \in S : j <= i
    <3> HIDE DEF S
    <3>1. QED
      BY <1>2, <2>1, GreatestExists
  <2>3. top \in S
    BY <2>2
  <2>4. top \in 1 .. Len(ls)
    BY <2>3
  <2>5. ls[top] \in Layer
    BY <2>4
  <2>6. ls[top].values[k] \in Vals \cup {Absent, Unset}
    BY <2>5 DEF Layer, Entries
  <2>7. QED
    BY <1>2, <2>6 DEF EntryOf
<1>3. QED
  BY <1>1, <1>2

\* The least abandoned layer, or the position after the top.
LEMMA FirstAbandonedProperties ==
    ASSUME NEW ls \in Seq(Layer)
    PROVE  /\ FirstAbandoned(ls) \in 1 .. Len(ls) + 1
           /\ \A i \in 1 .. FirstAbandoned(ls) - 1 : ~ls[i].abandoned
           /\ FirstAbandoned(ls) <= Len(ls) => ls[FirstAbandoned(ls)].abandoned
<1> DEFINE S == {i \in DOMAIN ls : ls[i].abandoned}
<1>1. S \in SUBSET Nat /\ S \subseteq 1 .. Len(ls) /\ Len(ls) \in Nat
  OBVIOUS
<1>2. CASE S = {}
  BY <1>1, <1>2 DEF FirstAbandoned
<1>3. CASE S # {}
  <2> DEFINE low == CHOOSE i \in S : \A j \in S : i <= j
  <2>1. \E i \in S : \A j \in S : i <= j
    BY <1>1, <1>3, LeastExists
  <2>2. low \in S /\ \A j \in S : low <= j
    BY <2>1
  <2>3. FirstAbandoned(ls) = low
    BY <1>3 DEF FirstAbandoned
  <2> HIDE DEF low
  <2>4. QED
    BY <1>1, <2>2, <2>3
<1>4. QED
  BY <1>2, <1>3

-----------------------------------------------------------------------------
(* Counting live layers. *)

\* The number of live layers is a natural number, zero exactly when none is live.
LEMMA CountType ==
    ASSUME NEW ls \in Seq(Layer), NEW n \in Nat
    PROVE  /\ IsFiniteSet(LiveFrom(ls, n))
           /\ CountLive(ls, n) \in Nat
           /\ CountLive(ls, n) = 0 <=> LiveFrom(ls, n) = {}
<1>1. IsFiniteSet(n .. Len(ls))
  BY FS_Interval
<1>2. IsFiniteSet(LiveFrom(ls, n))
  BY <1>1, FS_Subset DEF LiveFrom
<1>3. QED
  BY <1>2, FS_CardinalityType, FS_EmptySet DEF CountLive

\* Stacks of one height with the same live positions count the same.
LEMMA CountSame ==
    ASSUME NEW ls, NEW ms, Len(ls) = Len(ms),
           \A i \in 1 .. Len(ls) : Live(ls[i]) <=> Live(ms[i])
    PROVE  CountLive(ls, 1) = CountLive(ms, 1)
<1>1. LiveFrom(ls, 1) = LiveFrom(ms, 1)
  BY DEF LiveFrom
<1>2. QED
  BY <1>1 DEF CountLive

\* Pushing a live layer counts one more.
LEMMA CountPush ==
    ASSUME NEW ls \in Seq(Layer), NEW l \in Layer, Live(l)
    PROVE  CountLive(Append(ls, l), 1) = CountLive(ls, 1) + 1
<1>1. /\ Len(Append(ls, l)) = Len(ls) + 1
      /\ \A i \in 1 .. Len(ls) : Append(ls, l)[i] = ls[i]
      /\ Append(ls, l)[Len(ls) + 1] = l
      /\ Len(ls) \in Nat
  BY AppendProperties
<1>2. LiveFrom(Append(ls, l), 1) = LiveFrom(ls, 1) \cup {Len(ls) + 1}
  BY <1>1 DEF LiveFrom
<1>3. Len(ls) + 1 \notin LiveFrom(ls, 1)
  BY <1>1 DEF LiveFrom
<1>4. QED
  BY <1>2, <1>3, CountType, FS_AddElement DEF CountLive

\* Settling one live layer, or marking it abandoned, counts one less.
LEMMA CountOneLess ==
    ASSUME NEW ls \in Seq(Layer), NEW ms, NEW i \in 1 .. Len(ls), Len(ms) = Len(ls),
           Live(ls[i]), ~Live(ms[i]),
           \A j \in 1 .. Len(ls) : j # i => (Live(ls[j]) <=> Live(ms[j]))
    PROVE  CountLive(ms, 1) = CountLive(ls, 1) - 1
<1>1. LiveFrom(ms, 1) = LiveFrom(ls, 1) \ {i} /\ i \in LiveFrom(ls, 1)
  BY DEF LiveFrom
<1>2. QED
  BY <1>1, CountType, FS_RemoveElement DEF CountLive

\* Cutting the stack at n loses the live layers from n up.
LEMMA CountCut ==
    ASSUME NEW ls \in Seq(Layer), NEW n \in 1 .. Len(ls) + 1
    PROVE  CountLive(SubSeq(ls, 1, n - 1), 1) = CountLive(ls, 1) - CountLive(ls, n)
<1> DEFINE lower == LiveFrom(SubSeq(ls, 1, n - 1), 1)
           upper == LiveFrom(ls, n)
<1>1. n \in Nat /\ SubSeq(ls, 1, n - 1) \in Seq(Layer)
  BY CutProperties
<1>2. LiveFrom(ls, 1) = lower \cup upper
  BY CutProperties DEF LiveFrom
<1>3. lower \cap upper = {}
  BY CutProperties DEF LiveFrom
<1>4. IsFiniteSet(lower) /\ IsFiniteSet(upper)
  BY <1>1, CountType
<1>5. Cardinality(lower) \in Nat /\ Cardinality(upper) \in Nat
  BY <1>4, FS_CardinalityType
<1> HIDE DEF lower, upper
<1>6. Cardinality(lower \cup upper) = Cardinality(lower) + Cardinality(upper) - Cardinality(lower \cap upper)
  BY <1>4, FS_Union
<1>7. Cardinality(lower \cap upper) = 0
  BY <1>3, FS_EmptySet
<1>8. Cardinality(lower) = Cardinality(lower \cup upper) - Cardinality(upper)
  BY <1>5, <1>6, <1>7
<1>9. QED
  BY <1>2, <1>8 DEF CountLive, lower, upper

-----------------------------------------------------------------------------
(* Ending a session. *)

\* The common tail of finish: the result is a prefix without abandoned layers, the
\* count is right again, and sessions are only switched off for a layer that left.
LEMMA SettleEffect ==
    ASSUME NEW ls \in Seq(Layer), NEW disable \in BOOLEAN, enabled \in BOOLEAN,
           Settle(ls, CountLive(ls, 1), disable)
    PROVE  /\ layers' \in Seq(Layer) /\ Len(layers') \in 0 .. Len(ls)
           /\ \A j \in 1 .. Len(layers') : layers'[j] = ls[j] /\ ~ls[j].abandoned
           /\ \A p \in 1 .. Len(ls) : (\A q \in 1 .. p : ~ls[q].abandoned) => p <= Len(layers')
           /\ active' = CountLive(layers', 1)
           /\ enabled' \in BOOLEAN
           /\ enabled /\ ~disable /\ (\A j \in 1 .. Len(ls) : ls[j].disableOnExit => j <= Len(layers'))
                => enabled'
<1> DEFINE cut == FirstAbandoned(ls)
<1>1. /\ cut \in 1 .. Len(ls) + 1 /\ Len(ls) \in Nat
      /\ \A i \in 1 .. cut - 1 : ~ls[i].abandoned
      /\ cut <= Len(ls) => ls[cut].abandoned
  BY FirstAbandonedProperties
<1>2. /\ layers' = SubSeq(ls, 1, cut - 1)
      /\ active' = CountLive(ls, 1) - CountLive(ls, cut)
      /\ enabled' = (enabled /\ ~disable /\ ~Flagged(ls, cut))
  BY DEF Settle
<1> HIDE DEF cut
<1>3. /\ layers' \in Seq(Layer) /\ Len(layers') = cut - 1
      /\ \A i \in 1 .. cut - 1 : layers'[i] = ls[i]
  BY <1>1, <1>2, CutProperties
<1>4. active' = CountLive(layers', 1)
  BY <1>1, <1>2, CountCut
<1>5. \A p \in 1 .. Len(ls) : (\A q \in 1 .. p : ~ls[q].abandoned) => p <= Len(layers')
  BY <1>1, <1>3
<1>6. enabled' \in BOOLEAN
  BY <1>2
<1>7. (\A j \in 1 .. Len(ls) : ls[j].disableOnExit => j <= Len(layers')) => ~Flagged(ls, cut)
  BY <1>1, <1>3 DEF Flagged
<1>8. QED
  BY <1>1, <1>2, <1>3, <1>4, <1>5, <1>6, <1>7

\* What every way of ending the live session at position i leaves of the stack.
Trimmed(i) ==
    /\ layers' \in Seq(Layer) /\ Len(layers') \in 0 .. Len(layers)
    /\ \A j \in 1 .. Len(layers') :
          /\ layers'[j].id = layers[j].id
          /\ ~layers'[j].abandoned /\ ~layers[j].abandoned
          /\ layers'[j].disableOnExit = layers[j].disableOnExit
          /\ j # i => layers'[j].committed = layers[j].committed
          /\ j = i => layers'[j].committed
    /\ \A p \in 1 .. i - 1 : (\A q \in 1 .. p : ~layers[q].abandoned) => p <= Len(layers')
    /\ active' = CountLive(layers', 1)
    /\ enabled' \in BOOLEAN
    /\ (\E j \in 1 .. Len(layers') : Live(layers'[j])) => enabled'

\* While a layer is live the count is not zero and sessions are enabled.
LEMMA LiveMeansActive ==
    ASSUME TypeOK, ActiveCount, EnabledWhileActive, NEW i \in 1 .. Len(layers), Live(layers[i])
    PROVE  active # 0 /\ enabled = TRUE
<1>1. i \in LiveFrom(layers, 1)
  BY DEF LiveFrom
<1>2. CountLive(layers, 1) # 0
  BY <1>1, CountType DEF TypeOK
<1>3. QED
  BY <1>2 DEF ActiveCount, EnabledWhileActive, TypeOK

\* A stack ls that agrees with layers up to the ended session, once settled, is a
\* trimmed one.  Sessions stay on as long as a live layer is left, because a layer
\* that owes the switch back has only settled layers below it.
LEMMA SettleTrims ==
    ASSUME TypeOK, ActiveCount, EnabledWhileActive, FlagBottom(layers),
           NEW i \in 1 .. Len(layers), Live(layers[i]),
           NEW ls \in Seq(Layer), NEW flag \in BOOLEAN, Len(ls) \in i - 1 .. Len(layers),
           \A j \in 1 .. Len(ls) :
              /\ ls[j].id = layers[j].id
              /\ ls[j].abandoned = layers[j].abandoned
              /\ ls[j].disableOnExit = layers[j].disableOnExit
              /\ j # i => ls[j].committed = layers[j].committed
              /\ j = i => ls[j].committed,
           \A j \in i + 1 .. Len(ls) : Settled(layers[j]),
           flag => \E j \in i .. Len(layers) : layers[j].disableOnExit,
           Settle(ls, CountLive(ls, 1), flag)
    PROVE  Trimmed(i)
<1>1. layers \in Seq(Layer) /\ Len(layers) \in Nat /\ i \in Nat /\ enabled \in BOOLEAN
  BY DEF TypeOK
<1>2. enabled = TRUE
  BY LiveMeansActive
<1>3. /\ layers' \in Seq(Layer) /\ Len(layers') \in 0 .. Len(ls)
      /\ \A j \in 1 .. Len(layers') : layers'[j] = ls[j] /\ ~ls[j].abandoned
      /\ \A p \in 1 .. Len(ls) : (\A q \in 1 .. p : ~ls[q].abandoned) => p <= Len(layers')
      /\ active' = CountLive(layers', 1)
      /\ enabled' \in BOOLEAN
      /\ enabled /\ ~flag /\ (\A j \in 1 .. Len(ls) : ls[j].disableOnExit => j <= Len(layers'))
           => enabled'
  BY <1>1, SettleEffect
<1>4. ASSUME NEW j \in 1 .. Len(layers'), Live(layers'[j])
      PROVE  enabled'
  <2>1. j \in 1 .. Len(ls) /\ j \in 1 .. Len(layers) /\ layers'[j] = ls[j]
    BY <1>1, <1>3
  <2>2. j < i /\ Live(layers[j])
    BY <1>1, <1>4, <2>1 DEF Settled, Live
  <2>3. ASSUME NEW m \in 1 .. Len(layers), layers[m].disableOnExit, j < m
        PROVE  FALSE
    <3>1. j \in 1 .. m - 1
      BY <2>1, <2>3
    <3>2. Settled(layers[j])
      BY <2>3, <3>1 DEF FlagBottom
    <3>3. QED
      BY <2>2, <3>2 DEF Settled, Live
  <2>4. ~flag
    BY <1>1, <2>1, <2>2, <2>3
  <2>5. ASSUME NEW m \in 1 .. Len(ls), ls[m].disableOnExit
        PROVE  m <= Len(layers')
    <3>1. m \in 1 .. Len(layers) /\ layers[m].disableOnExit
      BY <1>1, <2>5
    <3>2. ~(j < m)
      BY <2>3, <3>1
    <3>3. QED
      BY <1>3, <2>1, <3>2
  <2>6. QED
    BY <1>2, <1>3, <2>4, <2>5
<1>5. Len(layers') \in 0 .. Len(layers)
  BY <1>1, <1>3
<1>6. ASSUME NEW j \in 1 .. Len(layers')
      PROVE  /\ layers'[j].id = layers[j].id
             /\ ~layers'[j].abandoned /\ ~layers[j].abandoned
             /\ layers'[j].disableOnExit = layers[j].disableOnExit
             /\ j # i => layers'[j].committed = layers[j].committed
             /\ j = i => layers'[j].committed
  <2>1. j \in 1 .. Len(ls)
    BY <1>3
  <2>2. QED
    BY <1>3, <2>1
<1>7. ASSUME NEW p \in 1 .. i - 1, \A q \in 1 .. p : ~layers[q].abandoned
      PROVE  p <= Len(layers')
  <2>1. p \in 1 .. Len(ls) /\ \A q \in 1 .. p : q \in 1 .. Len(ls)
    BY <1>1
  <2>2. \A q \in 1 .. p : ~ls[q].abandoned
    BY <1>7, <2>1
  <2>3. QED
    BY <1>3, <2>1, <2>2
<1>8. QED
  BY <1>3, <1>4, <1>5, <1>6, <1>7 DEF Trimmed

\* finish(Finish::Revoke).
LEMMA RevokeTrims ==
    ASSUME TypeOK, ActiveCount, EnabledWhileActive, FlagBottom(layers),
           NEW i \in 1 .. Len(layers), Live(layers[i]), FinishRevoke(i)
    PROVE  Trimmed(i)
<1> DEFINE ls == SubSeq(layers, 1, i - 1)
           flag == Flagged(layers, i)
<1>1. layers \in Seq(Layer) /\ Len(layers) \in Nat /\ i \in Nat /\ i \in 1 .. Len(layers) + 1
  BY DEF TypeOK
<1>2. /\ ls \in Seq(Layer) /\ Len(ls) = i - 1
      /\ \A j \in 1 .. i - 1 : ls[j] = layers[j]
  BY <1>1, CutProperties
<1>3. active - CountLive(layers, i) = CountLive(ls, 1)
  BY <1>1, CountCut DEF ActiveCount
<1>4. Settle(ls, CountLive(ls, 1), flag)
  BY <1>3 DEF FinishRevoke
<1>5. flag \in BOOLEAN /\ (flag => \E j \in i .. Len(layers) : layers[j].disableOnExit)
  BY DEF Flagged
<1> HIDE DEF ls, flag
<1>6. QED
  BY <1>1, <1>2, <1>4, <1>5, SettleTrims

\* finish(Finish::Commit).
LEMMA CommitTrims ==
    ASSUME TypeOK, ActiveCount, EnabledWhileActive, FlagBottom(layers),
           NEW i \in 1 .. Len(layers), Live(layers[i]), FinishCommit(i)
    PROVE  Trimmed(i)
<1> DEFINE e == [layers[i] EXCEPT !.committed = TRUE]
           ls == [layers EXCEPT ![i] = e]
           flag == layers[i].disableOnExit
<1>1. layers \in Seq(Layer) /\ Len(layers) \in Nat /\ i \in Nat /\ layers[i] \in Layer
  BY DEF TypeOK
<1>2. /\ e \in Layer /\ e.id = layers[i].id /\ e.abandoned = layers[i].abandoned
      /\ e.disableOnExit = layers[i].disableOnExit /\ e.committed = TRUE
      /\ flag \in BOOLEAN
  BY <1>1 DEF Layer
<1> HIDE DEF e
<1>3. /\ ls \in Seq(Layer) /\ Len(ls) = Len(layers)
      /\ \A j \in 1 .. Len(layers) : j # i => ls[j] = layers[j]
      /\ ls[i] = e
  BY <1>1, <1>2
<1>4. Settle(ls, active - 1, flag) /\ DescendantsCommitted(i)
  BY DEF FinishCommit, e
<1> HIDE DEF ls, flag
<1>5. active - 1 = CountLive(ls, 1)
  BY <1>1, <1>2, <1>3, CountOneLess DEF ActiveCount, Live
<1>6. \A j \in i + 1 .. Len(ls) : Settled(layers[j])
  BY <1>3, <1>4 DEF DescendantsCommitted
<1>7. flag => \E j \in i .. Len(layers) : layers[j].disableOnExit
  BY <1>1 DEF flag
<1>8. Len(ls) \in i - 1 .. Len(layers)
  BY <1>1, <1>3
<1>9. \A j \in 1 .. Len(ls) :
         /\ ls[j].id = layers[j].id
         /\ ls[j].abandoned = layers[j].abandoned
         /\ ls[j].disableOnExit = layers[j].disableOnExit
         /\ j # i => ls[j].committed = layers[j].committed
         /\ j = i => ls[j].committed
  BY <1>2, <1>3
<1>10. flag \in BOOLEAN /\ ls \in Seq(Layer) /\ Settle(ls, CountLive(ls, 1), flag)
  BY <1>2, <1>3, <1>4, <1>5
<1>11. QED
  BY <1>6, <1>7, <1>8, <1>9, <1>10, SettleTrims

\* finish(Finish::Merge).
LEMMA MergeTrims ==
    ASSUME TypeOK, ActiveCount, EnabledWhileActive, FlagBottom(layers),
           NEW i \in 1 .. Len(layers), Live(layers[i]), FinishMerge(i)
    PROVE  Trimmed(i)
<1> DEFINE low == SubSeq(layers, 1, i - 1)
           e == [low[i - 1] EXCEPT !.values = Absorb(i)]
           ls == [low EXCEPT ![i - 1] = e]
           flag == Flagged(layers, i)
<1>1. /\ layers \in Seq(Layer) /\ Len(layers) \in Nat /\ i \in Nat /\ i \in 1 .. Len(layers) + 1
      /\ i > 1 /\ i - 1 \in Nat \ {0}
  BY DEF TypeOK, FinishMerge
<1>2. /\ low \in Seq(Layer) /\ Len(low) = i - 1
      /\ \A j \in 1 .. i - 1 : low[j] = layers[j]
  BY <1>1, CutProperties
<1>3. Absorb(i) \in Entries
  <2>1. \A k \in Keys : EntryOf(layers, i - 1, Len(layers), k) \in Vals \cup {Absent, Unset}
    BY <1>1, EntryType
  <2>2. QED
    BY <2>1 DEF Absorb, Entries
<1>4. Settle(ls, active - 1, flag) /\ DescendantsCommitted(i)
  BY DEF FinishMerge
<1>5. flag \in BOOLEAN /\ (flag => \E j \in i .. Len(layers) : layers[j].disableOnExit)
  BY DEF Flagged
<1>6. CountLive(low, 1) = active - CountLive(layers, i)
  BY <1>1, CountCut DEF ActiveCount
<1>7. LiveFrom(layers, i) = {i}
  BY <1>1, <1>4 DEF LiveFrom, DescendantsCommitted, Settled, Live
<1>8. CountLive(layers, i) = 1
  BY <1>7, FS_Singleton DEF CountLive
<1> HIDE DEF low, flag
<1>9. low[i - 1] \in Layer
  BY <1>1, <1>2
<1>10. /\ e \in Layer /\ e.id = low[i - 1].id /\ e.abandoned = low[i - 1].abandoned
       /\ e.disableOnExit = low[i - 1].disableOnExit /\ e.committed = low[i - 1].committed
  BY <1>3, <1>9 DEF Layer
<1> HIDE DEF e
<1>11. /\ ls \in Seq(Layer) /\ Len(ls) = i - 1
       /\ \A j \in 1 .. i - 1 : j # i - 1 => ls[j] = low[j]
       /\ ls[i - 1] = e
  BY <1>1, <1>2, <1>10
<1> HIDE DEF ls
<1>12. \A j \in 1 .. i - 1 :
        /\ ls[j].id = layers[j].id /\ ls[j].abandoned = layers[j].abandoned
        /\ ls[j].disableOnExit = layers[j].disableOnExit
        /\ ls[j].committed = layers[j].committed
  BY <1>1, <1>2, <1>10, <1>11
<1>13. CountLive(ls, 1) = CountLive(low, 1)
  <2>1. \A j \in 1 .. Len(ls) : Live(ls[j]) <=> Live(low[j])
    BY <1>2, <1>11, <1>12 DEF Live
  <2>2. QED
    BY <1>2, <1>11, <2>1, CountSame
<1>14. Settle(ls, CountLive(ls, 1), flag)
  BY <1>4, <1>6, <1>8, <1>13
<1>15. /\ Len(ls) \in i - 1 .. Len(layers) /\ \A j \in i + 1 .. Len(ls) : Settled(layers[j])
       /\ \A j \in 1 .. Len(ls) : j \in 1 .. i - 1 /\ j # i
  BY <1>1, <1>11
<1>16. QED
  BY <1>5, <1>11, <1>12, <1>14, <1>15, SettleTrims

-----------------------------------------------------------------------------
(* Preservation of StackInv.  Stacks change in four ways: a session ends,  *)
(* only settled layers remain, a live layer is pushed, or one layer is     *)
(* rewritten in place.  Each way is a lemma about the part of StackInv     *)
(* that reads only the stack.                                              *)

StackPart ==
    /\ layers \in Seq(Layer) /\ active \in Nat /\ enabled \in BOOLEAN
    /\ ActiveCount /\ AbandonedCovered /\ EnabledWhileActive
    /\ Distinct(layers) /\ FlagBottom(layers)
    /\ \A i \in DOMAIN layers : layers[i].id < nextId

OwnerPart ==
    /\ PendingSlot /\ OwnersDistinct /\ OwnedLive
    /\ \A h \in Handles : handle[h] < nextId
    /\ outer < nextId

RestType ==
    /\ root \in Image /\ checkpoints \in Seq(Checkpoint) /\ nextId \in Nat \ {0}
    /\ pendingOuter \in Nat /\ closed \in BOOLEAN /\ handle \in [Handles -> Nat] /\ outer \in Nat

\* StackInv split into the part on the stack, the part on the owners and the types of
\* the other variables.
LEMMA InvParts == StackInv <=> StackPart /\ OwnerPart /\ RestType
BY DEF StackInv, StackPart, OwnerPart, RestType, TypeOK, Fresh

\* The same split in the next state.
LEMMA InvPartsPrimed == StackInv' <=> StackPart' /\ OwnerPart' /\ RestType'
BY DEF StackInv, StackPart, OwnerPart, RestType, TypeOK, Fresh

\* Ending the session at i keeps the stack well formed; every other layer that is
\* left is as live as it was, and the pending layer stays if it is not the ended one.
LEMMA TrimKeeps ==
    ASSUME StackInv, NEW i \in 1 .. Len(layers), Live(layers[i]), Trimmed(i), nextId' = nextId
    PROVE  /\ StackPart'
           /\ \A j \in DOMAIN layers' : /\ j \in DOMAIN layers /\ layers'[j].id = layers[j].id
                                        /\ j # i => (Live(layers[j]) <=> Live(layers'[j]))
           /\ outer # 0 /\ outer # layers[i].id =>
                 \E p \in DOMAIN layers' : /\ layers'[p].id = outer /\ Live(layers'[p])
                                           /\ \A j \in 1 .. p - 1 : Settled(layers'[j])
<1>1. /\ layers \in Seq(Layer) /\ Len(layers) \in Nat /\ DOMAIN layers = 1 .. Len(layers)
      /\ FlagBottom(layers) /\ Distinct(layers) /\ PendingSlot
      /\ \A j \in DOMAIN layers : layers[j].id < nextId
  BY DEF StackInv, TypeOK, Fresh
<1>2. /\ layers' \in Seq(Layer) /\ Len(layers') \in 0 .. Len(layers)
      /\ DOMAIN layers' = 1 .. Len(layers')
      /\ active' = CountLive(layers', 1) /\ enabled' \in BOOLEAN
  BY DEF Trimmed
<1>3. \A j \in 1 .. Len(layers') :
          /\ j \in 1 .. Len(layers)
          /\ layers'[j].id = layers[j].id
          /\ ~layers'[j].abandoned /\ ~layers[j].abandoned
          /\ layers'[j].disableOnExit = layers[j].disableOnExit
          /\ j # i => layers'[j].committed = layers[j].committed
          /\ j = i => layers'[j].committed
  BY <1>1, <1>2 DEF Trimmed
<1>4. \A j \in 1 .. Len(layers') : /\ Settled(layers[j]) => Settled(layers'[j])
                                   /\ j # i => (Live(layers[j]) <=> Live(layers'[j]))
  BY <1>3 DEF Settled, Live
<1>5. active' \in Nat /\ (active' # 0 => \E j \in 1 .. Len(layers') : Live(layers'[j]))
  BY <1>2, CountType DEF LiveFrom
<1>6. EnabledWhileActive'
  BY <1>5 DEF EnabledWhileActive, Trimmed
<1>7. ActiveCount' /\ AbandonedCovered'
  BY <1>2, <1>3 DEF ActiveCount, AbandonedCovered
<1>8. Distinct(layers)'
  BY <1>1, <1>2, <1>3 DEF Distinct
<1>9. FlagBottom(layers)'
  <2>1. SUFFICES ASSUME NEW m \in DOMAIN layers', layers'[m].disableOnExit, NEW j \in 1 .. m - 1
                 PROVE  Settled(layers'[j])
    BY DEF FlagBottom
  <2>2. m \in DOMAIN layers /\ layers[m].disableOnExit /\ j \in 1 .. Len(layers')
    BY <1>1, <1>2, <1>3, <2>1
  <2>3. Settled(layers[j])
    BY <1>1, <2>2 DEF FlagBottom
  <2>4. QED
    BY <1>4, <2>2, <2>3
<1>10. \A j \in DOMAIN layers' : layers'[j].id < nextId'
  BY <1>1, <1>2, <1>3
<1>11. StackPart'
  BY <1>2, <1>5, <1>6, <1>7, <1>8, <1>9, <1>10 DEF StackPart
<1>12. ASSUME outer # 0, outer # layers[i].id
       PROVE  \E p \in DOMAIN layers' : /\ layers'[p].id = outer /\ Live(layers'[p])
                                        /\ \A j \in 1 .. p - 1 : Settled(layers'[j])
  <2>1. PICK p \in DOMAIN layers : /\ layers[p].id = outer /\ Live(layers[p])
                                   /\ \A j \in 1 .. p - 1 : Settled(layers[j])
    BY <1>1, <1>12 DEF PendingSlot
  <2>2. p \in 1 .. i - 1
    BY <1>1, <1>12, <2>1 DEF Settled, Live
  <2>3. \A q \in 1 .. p : ~layers[q].abandoned
    BY <1>1, <2>1 DEF Settled, Live
  <2>4. p <= Len(layers')
    BY <2>2, <2>3 DEF Trimmed
  <2>5. p \in 1 .. Len(layers') /\ p # i /\ \A j \in 1 .. p - 1 : j \in 1 .. Len(layers')
    BY <1>2, <2>2, <2>4
  <2>6. QED
    BY <1>2, <1>3, <1>4, <2>1, <2>5
<1>13. QED
  BY <1>1, <1>2, <1>3, <1>4, <1>11, <1>12

\* A stack cut down to settled layers is well formed and quiet, and nobody owns a layer.
LEMMA SettledPrefixKeeps ==
    ASSUME StackInv, NEW n \in 1 .. Len(layers) + 1, \A j \in 1 .. n - 1 : Settled(layers[j]),
           layers' = SubSeq(layers, 1, n - 1), active' = 0, enabled' \in BOOLEAN,
           UNCHANGED <<nextId, handle>>, pendingOuter' = 0, outer' = 0
    PROVE  StackPart' /\ OwnerPart'
<1>1. /\ layers \in Seq(Layer) /\ Len(layers) \in Nat /\ DOMAIN layers = 1 .. Len(layers)
      /\ FlagBottom(layers) /\ Distinct(layers) /\ Fresh /\ OwnersDistinct /\ OwnedLive
      /\ nextId \in Nat \ {0} /\ handle \in [Handles -> Nat]
  BY DEF StackInv, TypeOK
<1>2. /\ layers' \in Seq(Layer) /\ Len(layers') = n - 1 /\ DOMAIN layers' = 1 .. n - 1
      /\ \A j \in 1 .. n - 1 : layers'[j] = layers[j] /\ j \in DOMAIN layers
  BY <1>1, CutProperties
<1>3. \A j \in 1 .. n - 1 : Settled(layers'[j]) /\ ~Live(layers'[j]) /\ ~layers'[j].abandoned
  BY <1>2 DEF Settled, Live
<1>4. LiveFrom(layers', 1) = {}
  BY <1>2, <1>3 DEF LiveFrom
<1>5. ActiveCount' /\ AbandonedCovered' /\ EnabledWhileActive' /\ active' \in Nat
  BY <1>2, <1>3, <1>4, CountType DEF ActiveCount, AbandonedCovered, EnabledWhileActive
<1>6. Distinct(layers)' /\ \A j \in DOMAIN layers' : layers'[j].id < nextId'
  BY <1>1, <1>2 DEF Distinct, Fresh
<1>7. FlagBottom(layers)'
  BY <1>2, <1>3 DEF FlagBottom
<1>8. OwnedLive'
  BY <1>1, <1>2, <1>3 DEF OwnedLive, Live, Settled
<1>9. PendingSlot' /\ OwnersDistinct'
  BY <1>1 DEF PendingSlot, OwnersDistinct
<1>10. (\A h \in Handles : handle'[h] < nextId') /\ outer' < nextId'
  BY <1>1 DEF Fresh
<1>11. QED
  BY <1>2, <1>5, <1>6, <1>7, <1>8, <1>9, <1>10 DEF StackPart, OwnerPart

\* With no active session every layer is settled and nothing is reserved.
LEMMA QuietSettled ==
    ASSUME StackInv, active = 0
    PROVE  /\ \A j \in 1 .. Len(layers) : Settled(layers[j])
           /\ outer = 0 /\ pendingOuter = 0
<1>1. /\ layers \in Seq(Layer) /\ Len(layers) \in Nat /\ DOMAIN layers = 1 .. Len(layers)
      /\ ActiveCount /\ AbandonedCovered /\ PendingSlot
  BY DEF StackInv, TypeOK
<1>2. LiveFrom(layers, 1) = {}
  BY <1>1, CountType DEF ActiveCount
<1>3. \A j \in 1 .. Len(layers) : ~Live(layers[j])
  BY <1>2 DEF LiveFrom
<1>4. \A j \in 1 .. Len(layers) : ~layers[j].abandoned
  BY <1>1, <1>3 DEF AbandonedCovered
<1>5. QED
  BY <1>1, <1>3, <1>4 DEF Settled, Live, PendingSlot

\* Pushing a live layer with a fresh id.  A layer that owes the switch back goes on
\* top of settled layers only: sessions were off, so none was active.
LEMMA PushKeeps ==
    ASSUME NEW ls \in Seq(Layer), NEW l \in Layer, Live(l), l.id = nextId, nextId \in Nat \ {0},
           Distinct(ls), FlagBottom(ls), \A j \in DOMAIN ls : ls[j].id < nextId,
           \A j \in DOMAIN ls : ls[j].abandoned => \E m \in DOMAIN ls : j < m /\ Live(ls[m]),
           l.disableOnExit => \A j \in 1 .. Len(ls) : Settled(ls[j]),
           layers' = Append(ls, l), active' = CountLive(ls, 1) + 1, enabled' = TRUE,
           nextId' = nextId + 1
    PROVE  /\ StackPart'
           /\ Len(layers') = Len(ls) + 1 /\ layers'[Len(ls) + 1] = l
           /\ \A j \in 1 .. Len(ls) : layers'[j] = ls[j]
<1>1. /\ layers' \in Seq(Layer) /\ Len(layers') = Len(ls) + 1 /\ Len(ls) \in Nat
      /\ DOMAIN layers' = 1 .. Len(ls) + 1 /\ DOMAIN ls = 1 .. Len(ls)
      /\ \A j \in 1 .. Len(ls) : layers'[j] = ls[j]
      /\ layers'[Len(ls) + 1] = l
  BY AppendProperties
<1>2. active' = CountLive(layers', 1) /\ active' \in Nat
  <2>1. CountLive(Append(ls, l), 1) = CountLive(ls, 1) + 1
    BY ONLY CountPush, ls \in Seq(Layer), l \in Layer, Live(l)
  <2>2. CountLive(ls, 1) \in Nat
    BY ONLY CountType, ls \in Seq(Layer)
  <2> QED
    BY ONLY <2>1, <2>2, layers' = Append(ls, l), active' = CountLive(ls, 1) + 1
<1>3. AbandonedCovered'
  BY <1>1 DEF AbandonedCovered, Live
<1>4. Distinct(layers)'
  <2>1. SUFFICES ASSUME NEW a \in DOMAIN layers', NEW b \in DOMAIN layers',
                        layers'[a].id = layers'[b].id
                 PROVE  a = b
    BY DEF Distinct
  <2>2. \A j \in 1 .. Len(ls) : layers'[j].id < nextId
    BY <1>1
  <2>3. CASE a \in 1 .. Len(ls) /\ b \in 1 .. Len(ls)
    BY <1>1, <2>1, <2>3 DEF Distinct
  <2>4. CASE a = Len(ls) + 1 \/ b = Len(ls) + 1
    BY <1>1, <2>1, <2>2, <2>4
  <2>5. QED
    BY <1>1, <2>3, <2>4
<1>5. FlagBottom(layers)'
  <2>1. SUFFICES ASSUME NEW m \in DOMAIN layers', layers'[m].disableOnExit, NEW j \in 1 .. m - 1
                 PROVE  Settled(layers'[j])
    BY DEF FlagBottom
  <2>2. j \in 1 .. Len(ls) /\ layers'[j] = ls[j]
    BY <1>1
  <2>3. CASE m = Len(ls) + 1
    BY <1>1, <2>1, <2>2, <2>3
  <2>4. CASE m \in 1 .. Len(ls)
    BY <1>1, <2>1, <2>2, <2>4 DEF FlagBottom
  <2>5. QED
    BY <1>1, <2>3, <2>4
<1>6. \A j \in DOMAIN layers' : layers'[j].id < nextId'
  <2>1. \A j \in 1 .. Len(ls) : ls[j].id \in Nat /\ ls[j].id < nextId
    <3>1. \A j \in 1 .. Len(ls) : ls[j] \in Layer
      OBVIOUS
    <3>2. QED
      BY <1>1, <3>1 DEF Layer
  <2>2. QED
    BY <1>1, <2>1
<1>7. QED
  BY <1>1, <1>2, <1>3, <1>4, <1>5, <1>6 DEF StackPart, ActiveCount, EnabledWhileActive

\* The layer push_layer and reset_pending_outer create is empty and live.
LEMMA NewLayerProperties ==
    ASSUME NEW flag \in BOOLEAN, nextId \in Nat \ {0}
    PROVE  /\ NewLayer(flag) \in Layer /\ Live(NewLayer(flag))
           /\ NewLayer(flag).id = nextId /\ NewLayer(flag).disableOnExit = flag
<1>1. [k \in Keys |-> Unset] \in Entries
  BY DEF Entries
<1>2. QED
  BY <1>1 DEF NewLayer, Layer, Live

\* push_layer on the manager's own stack.
LEMMA PushLayerKeeps ==
    ASSUME StackInv, NEW t \in BOOLEAN, PushLayer(t), enabled \/ t
    PROVE  /\ StackPart'
           /\ nextId' = nextId + 1
           /\ Len(layers') = Len(layers) + 1
           /\ layers'[Len(layers) + 1].id = nextId /\ Live(layers'[Len(layers) + 1])
           /\ \A j \in 1 .. Len(layers) : layers'[j] = layers[j]
<1> DEFINE l == NewLayer(t /\ ~enabled)
<1>1. /\ layers \in Seq(Layer) /\ Len(layers) \in Nat /\ DOMAIN layers = 1 .. Len(layers)
      /\ FlagBottom(layers) /\ Distinct(layers) /\ AbandonedCovered /\ EnabledWhileActive
      /\ \A j \in DOMAIN layers : layers[j].id < nextId
      /\ nextId \in Nat \ {0} /\ enabled \in BOOLEAN /\ active = CountLive(layers, 1)
  BY DEF StackInv, TypeOK, Fresh, ActiveCount
<1>2. l \in Layer /\ Live(l) /\ l.id = nextId /\ l.disableOnExit = (t /\ ~enabled)
  BY <1>1, NewLayerProperties
<1>3. /\ layers' = Append(layers, l) /\ active' = CountLive(layers, 1) + 1
      /\ nextId' = nextId + 1
  BY <1>1 DEF PushLayer
<1>4. enabled' = TRUE
  BY <1>1 DEF PushLayer
<1> HIDE DEF l
<1>5. l.disableOnExit => \A j \in 1 .. Len(layers) : Settled(layers[j])
  BY <1>1, <1>2, QuietSettled DEF EnabledWhileActive
<1>6. \A j \in DOMAIN layers : layers[j].abandoned => \E m \in DOMAIN layers : j < m /\ Live(layers[m])
  BY <1>1 DEF AbandonedCovered
<1>7. /\ StackPart'
      /\ Len(layers') = Len(layers) + 1 /\ layers'[Len(layers) + 1] = l
      /\ \A j \in 1 .. Len(layers) : layers'[j] = layers[j]
  BY <1>1, <1>2, <1>3, <1>4, <1>5, <1>6, PushKeeps
<1>8. QED
  BY <1>2, <1>3, <1>7

\* Rewriting one layer in place: its id and its duty stay, the count is right, no
\* settled layer changes, and what was live stays live above every abandoned layer.
LEMMA RewriteKeeps ==
    ASSUME StackInv, layers' \in Seq(Layer), Len(layers') = Len(layers),
           \A j \in 1 .. Len(layers) :
              /\ layers'[j].id = layers[j].id
              /\ layers'[j].disableOnExit = layers[j].disableOnExit
              /\ Settled(layers[j]) => Settled(layers'[j]),
           active' = CountLive(layers', 1), UNCHANGED <<enabled, nextId>>,
           active' # 0 => active # 0,
           AbandonedCovered'
    PROVE  StackPart'
<1>1. /\ layers \in Seq(Layer) /\ Len(layers) \in Nat /\ DOMAIN layers = 1 .. Len(layers)
      /\ FlagBottom(layers) /\ Distinct(layers) /\ EnabledWhileActive /\ enabled \in BOOLEAN
      /\ \A j \in DOMAIN layers : layers[j].id < nextId
  BY DEF StackInv, TypeOK, Fresh
<1>2. DOMAIN layers' = 1 .. Len(layers) /\ active' \in Nat
  BY <1>1, CountType
<1>3. Distinct(layers)' /\ \A j \in DOMAIN layers' : layers'[j].id < nextId'
  BY <1>1, <1>2 DEF Distinct
<1>4. FlagBottom(layers)'
  <2>1. SUFFICES ASSUME NEW m \in DOMAIN layers', layers'[m].disableOnExit, NEW j \in 1 .. m - 1
                 PROVE  Settled(layers'[j])
    BY DEF FlagBottom
  <2>2. m \in DOMAIN layers /\ layers[m].disableOnExit /\ j \in 1 .. Len(layers)
    BY <1>1, <1>2, <2>1
  <2>3. QED
    BY <1>1, <2>2 DEF FlagBottom
<1>5. EnabledWhileActive'
  BY <1>1 DEF EnabledWhileActive
<1>6. QED
  BY <1>1, <1>2, <1>3, <1>4, <1>5 DEF StackPart, ActiveCount

-----------------------------------------------------------------------------
(* The values that reach the root and the checkpoints. *)

\* OverlayStore::get returns a value or none.
LEMMA ValueType ==
    ASSUME TypeOK, NEW n \in 0 .. Len(layers), NEW k \in Keys
    PROVE  ValueAt(n, k) \in Vals \cup {Absent}
<1>1. EntryOf(layers, 1, n, k) \in Vals \cup {Absent, Unset}
  BY EntryType DEF TypeOK
<1>2. root[k] \in Vals \cup {Absent}
  BY DEF TypeOK, Image
<1>3. QED
  BY <1>1, <1>2 DEF ValueAt

\* ReadView::capture_where yields a whole image of the stores.
LEMMA CaptureType ==
    ASSUME TypeOK, NEW S
    PROVE  Capture(S) \in Image
<1> DEFINE Hidden == [k \in Keys |-> Unset]
           shown == [i \in DOMAIN layers |->
                       IF i \in S THEN layers[i] ELSE [layers[i] EXCEPT !.values = Hidden]]
<1>1. Hidden \in Entries
  BY DEF Entries
<1>2. layers \in Seq(Layer) /\ Len(layers) \in Nat /\ DOMAIN layers = 1 .. Len(layers)
  BY DEF TypeOK
<1>3. ASSUME NEW i \in 1 .. Len(layers)
      PROVE  [layers[i] EXCEPT !.values = Hidden] \in Layer
  <2> DEFINE l == layers[i]
  <2>1. l \in Layer
    BY <1>2
  <2> HIDE DEF l, Hidden
  <2>2. [l EXCEPT !.values = Hidden] \in Layer
    BY <1>1, <2>1 DEF Layer
  <2>3. QED
    BY <2>2 DEF l
<1>4. shown \in [1 .. Len(layers) -> Layer]
  BY <1>2, <1>3
<1>5. shown \in Seq(Layer) /\ Len(shown) = Len(layers)
  BY <1>2, <1>4
<1> HIDE DEF shown
<1>6. \A k \in Keys : EntryOf(shown, 1, Len(layers), k) \in Vals \cup {Absent, Unset}
  BY <1>2, <1>5, EntryType
<1>7. \A k \in Keys : root[k] \in Vals \cup {Absent}
  BY DEF TypeOK, Image
<1>8. QED
  BY <1>6, <1>7 DEF Capture, Image, shown

\* The entry record_checkpoint and commit_with_checkpoint append is well formed.
LEMMA CheckpointType ==
    ASSUME TypeOK, NEW p \in Points
    PROVE  NewCheckpoint(p) \in Checkpoint
<1>1. StackView \in Image
  BY CaptureType DEF StackView
<1>2. p \in Point
  BY BoundAssumption DEF Points, Point
<1>3. checkpoints # <<>> => checkpoints[Len(checkpoints)].point.identity \in Identities
  <2>1. checkpoints # <<>> => checkpoints[Len(checkpoints)] \in Checkpoint
    BY DEF TypeOK
  <2>2. QED
    BY <2>1 DEF Checkpoint, Point
<1>4. QED
  BY <1>1, <1>2, <1>3 DEF NewCheckpoint, Checkpoint

-----------------------------------------------------------------------------
(* One lemma per action. *)

\* SessionManager::new starts with an empty stack that nobody owns.
LEMMA InitEstablishes == Init => StackInv
<1> SUFFICES ASSUME Init PROVE StackInv
  OBVIOUS
<1>1. TypeOK
  <2>1. layers \in Seq(Layer) /\ checkpoints \in Seq(Checkpoint)
    BY DEF Init
  <2>2. root \in Image /\ handle \in [Handles -> Nat]
    BY DEF Init, Image
  <2>3. enabled \in BOOLEAN /\ closed \in BOOLEAN
    BY DEF Init
  <2>4. active \in Nat /\ nextId \in Nat \ {0} /\ pendingOuter \in Nat /\ outer \in Nat
    BY DEF Init
  <2>5. QED
    BY <2>1, <2>2, <2>3, <2>4 DEF TypeOK
<1>2. LiveFrom(layers, 1) = {}
  BY DEF Init, LiveFrom
<1>3. ActiveCount
  BY <1>2, FS_EmptySet DEF Init, ActiveCount, CountLive
<1>4. QED
  BY <1>1, <1>3 DEF Init, StackInv, AbandonedCovered, EnabledWhileActive, PendingSlot,
                    Fresh, Distinct, OwnersDistinct, OwnedLive, FlagBottom

\* Steps that leave the stack and its owners alone.
LEMMA StackUnchanged ==
    ASSUME StackInv, UNCHANGED <<layers, active, nextId, pendingOuter, handle, outer>>,
           enabled' \in BOOLEAN, active # 0 => enabled',
           root' \in Image, checkpoints' \in Seq(Checkpoint), closed' \in BOOLEAN
    PROVE  StackInv'
BY DEF StackInv, TypeOK, ActiveCount, AbandonedCovered, EnabledWhileActive, PendingSlot,
       Fresh, Distinct, OwnersDistinct, OwnedLive, FlagBottom

\* The owners after a new session was put in handle h, or in outer.
LEMMA BuildSessionKeeps ==
    ASSUME StackInv, NEW h \in Handles, NEW t \in BOOLEAN, PushLayer(t), enabled \/ t,
           handle[h] = 0, handle' = [handle EXCEPT ![h] = nextId],
           UNCHANGED <<root, checkpoints, pendingOuter, closed, outer>>
    PROVE  StackInv'
<1>1. /\ layers \in Seq(Layer) /\ Len(layers) \in Nat /\ DOMAIN layers = 1 .. Len(layers)
      /\ nextId \in Nat \ {0} /\ handle \in [Handles -> Nat] /\ outer \in Nat
      /\ Fresh /\ OwnersDistinct /\ OwnedLive /\ PendingSlot
  BY DEF StackInv, TypeOK
<1>2. /\ StackPart'
      /\ nextId' = nextId + 1
      /\ Len(layers') = Len(layers) + 1
      /\ layers'[Len(layers) + 1].id = nextId /\ Live(layers'[Len(layers) + 1])
      /\ \A j \in 1 .. Len(layers) : layers'[j] = layers[j]
  BY PushLayerKeeps
<1>3. DOMAIN layers' = 1 .. Len(layers) + 1
  BY <1>1, <1>2 DEF StackPart
<1>4. /\ handle' \in [Handles -> Nat] /\ handle'[h] = nextId
      /\ \A g \in Handles : g # h => handle'[g] = handle[g]
  BY <1>1
<1>5. PendingSlot'
  <2>1. pendingOuter' = outer'
    BY <1>1 DEF PendingSlot
  <2>2. ASSUME outer # 0
        PROVE  \E p \in DOMAIN layers' : /\ layers'[p].id = outer /\ Live(layers'[p])
                                         /\ \A j \in 1 .. p - 1 : Settled(layers'[j])
    <3>1. PICK p \in 1 .. Len(layers) : /\ layers[p].id = outer /\ Live(layers[p])
                                        /\ \A j \in 1 .. p - 1 : Settled(layers[j])
      BY <1>1, <2>2 DEF PendingSlot
    <3>2. p \in DOMAIN layers' /\ \A j \in 1 .. p - 1 : j \in 1 .. Len(layers)
      BY <1>1, <1>3
    <3>3. QED
      BY <1>2, <3>1, <3>2
  <2>3. QED
    BY <2>1, <2>2 DEF PendingSlot
<1>6. OwnersDistinct'
  BY <1>1, <1>4 DEF OwnersDistinct, Fresh
<1>7. OwnedLive'
  <2>1. SUFFICES ASSUME NEW g \in Handles, NEW j \in DOMAIN layers', layers'[j].id = handle'[g]
                 PROVE  Live(layers'[j])
    BY DEF OwnedLive
  <2>2. CASE j = Len(layers) + 1
    BY <1>2, <2>2
  <2>3. CASE j \in 1 .. Len(layers)
    <3>1. layers'[j] = layers[j] /\ layers[j].id < nextId
      BY <1>1, <1>2, <2>3 DEF Fresh
    <3>2. g # h
      BY <1>1, <1>4, <2>1, <3>1
    <3>3. layers[j].id = handle[g]
      BY <1>4, <2>1, <3>1, <3>2
    <3>4. QED
      BY <1>1, <2>3, <3>1, <3>3 DEF OwnedLive
  <2>4. QED
    BY <1>1, <1>3, <2>2, <2>3
<1>8. (\A g \in Handles : handle'[g] < nextId') /\ outer' < nextId'
  BY <1>1, <1>2, <1>4 DEF Fresh
<1>9. RestType'
  BY <1>1, <1>2, <1>4 DEF StackInv, TypeOK, RestType
<1>10. OwnerPart'
  BY <1>5, <1>6, <1>7, <1>8 DEF OwnerPart
<1>11. QED
  BY <1>2, <1>9, <1>10, InvPartsPrimed

\* build_pending_outer: with no active session the reserved layer lies on settled ones.
LEMMA PendingOpenKeeps ==
    ASSUME StackInv, PendingOpen
    PROVE  StackInv'
<1>1. /\ layers \in Seq(Layer) /\ Len(layers) \in Nat /\ DOMAIN layers = 1 .. Len(layers)
      /\ nextId \in Nat \ {0} /\ handle \in [Handles -> Nat]
      /\ Fresh /\ OwnersDistinct /\ OwnedLive
      /\ \A j \in 1 .. Len(layers) : Settled(layers[j])
  BY QuietSettled DEF StackInv, TypeOK, PendingOpen
<1>2. /\ pendingOuter' = nextId /\ outer' = nextId
      /\ UNCHANGED <<root, checkpoints, closed, handle>>
  BY DEF PendingOpen
<1>3. /\ StackPart'
      /\ nextId' = nextId + 1
      /\ Len(layers') = Len(layers) + 1
      /\ layers'[Len(layers) + 1].id = nextId /\ Live(layers'[Len(layers) + 1])
      /\ \A j \in 1 .. Len(layers) : layers'[j] = layers[j]
  BY PushLayerKeeps DEF PendingOpen
<1>4. DOMAIN layers' = 1 .. Len(layers) + 1
  BY <1>1, <1>3 DEF StackPart
<1>5. PendingSlot'
  <2>1. Len(layers) + 1 \in DOMAIN layers' /\ \A j \in 1 .. Len(layers) : Settled(layers'[j])
    BY <1>1, <1>3, <1>4
  <2>2. QED
    BY <1>1, <1>2, <1>3, <2>1 DEF PendingSlot
<1>6. OwnersDistinct'
  BY <1>1, <1>2 DEF OwnersDistinct, Fresh
<1>7. OwnedLive'
  BY <1>1, <1>2, <1>3, <1>4 DEF OwnedLive
<1>8. (\A g \in Handles : handle'[g] < nextId') /\ outer' < nextId'
  BY <1>1, <1>2, <1>3 DEF Fresh
<1>9. RestType'
  BY <1>1, <1>2, <1>3 DEF StackInv, TypeOK, RestType
<1>10. OwnerPart'
  BY <1>5, <1>6, <1>7, <1>8 DEF OwnerPart
<1>11. QED
  BY <1>3, <1>9, <1>10, InvPartsPrimed

\* The layer of a caller's unfinalized session, when it is still in the stack.
LEMMA OwnedLayer ==
    ASSUME StackInv, NEW h \in Handles, Holds(handle[h])
    PROVE  /\ IndexOf(handle[h]) \in 1 .. Len(layers)
           /\ layers[IndexOf(handle[h])].id = handle[h]
           /\ Live(layers[IndexOf(handle[h])])
<1>1. /\ IndexOf(handle[h]) \in DOMAIN layers
      /\ layers[IndexOf(handle[h])].id = handle[h]
  BY IndexProperties DEF Holds, IndexOf
<1>2. Live(layers[IndexOf(handle[h])])
  BY <1>1 DEF StackInv, OwnedLive
<1>3. QED
  BY <1>1, <1>2 DEF StackInv, TypeOK

\* The layer of the pending pool: it is there, live, on settled layers only.
LEMMA PendingLayer ==
    ASSUME StackInv, outer # 0
    PROVE  /\ Holds(outer) /\ IndexOf(outer) \in 1 .. Len(layers)
           /\ layers[IndexOf(outer)].id = outer /\ Live(layers[IndexOf(outer)])
           /\ \A j \in 1 .. IndexOf(outer) - 1 : Settled(layers[j])
<1>1. PICK p \in DOMAIN layers : /\ layers[p].id = outer /\ Live(layers[p])
                                 /\ \A j \in 1 .. p - 1 : Settled(layers[j])
  BY DEF StackInv, PendingSlot
<1>2. Holds(outer)
  BY <1>1 DEF Holds, HasId
<1>3. IndexOf(outer) \in DOMAIN layers /\ layers[IndexOf(outer)].id = outer
  BY <1>2, IndexProperties DEF Holds, IndexOf
<1>4. IndexOf(outer) = p
  BY <1>1, <1>3 DEF StackInv, Distinct
<1>5. QED
  BY <1>1, <1>2, <1>3, <1>4 DEF StackInv, TypeOK

\* A caller's session ended: its handle is released, everyone else keeps a live layer.
LEMMA EndOwnedKeeps ==
    ASSUME StackInv, NEW h \in Handles, Holds(handle[h]), handle[h] # 0,
           Trimmed(IndexOf(handle[h])),
           handle' = [handle EXCEPT ![h] = 0], checkpoints' \in Seq(Checkpoint),
           UNCHANGED <<root, nextId, pendingOuter, closed, outer>>
    PROVE  StackInv'
<1> DEFINE i == IndexOf(handle[h])
<1>1. i \in 1 .. Len(layers) /\ layers[i].id = handle[h] /\ Live(layers[i])
  BY OwnedLayer
<1>2. /\ nextId \in Nat \ {0} /\ handle \in [Handles -> Nat] /\ outer \in Nat
      /\ Fresh /\ OwnersDistinct /\ OwnedLive /\ PendingSlot
  BY DEF StackInv, TypeOK
<1>3. /\ handle' \in [Handles -> Nat] /\ handle'[h] = 0
      /\ \A g \in Handles : g # h => handle'[g] = handle[g]
  BY <1>2
<1>4. Trimmed(i)
  OBVIOUS
<1> HIDE DEF i
<1>5. /\ StackPart'
      /\ \A j \in DOMAIN layers' : /\ j \in DOMAIN layers /\ layers'[j].id = layers[j].id
                                   /\ j # i => (Live(layers[j]) <=> Live(layers'[j]))
      /\ outer # 0 /\ outer # layers[i].id =>
            \E p \in DOMAIN layers' : /\ layers'[p].id = outer /\ Live(layers'[p])
                                      /\ \A j \in 1 .. p - 1 : Settled(layers'[j])
  BY <1>1, <1>4, TrimKeeps
<1>6. PendingSlot'
  BY <1>1, <1>2, <1>5 DEF PendingSlot, OwnersDistinct
<1>7. OwnersDistinct'
  BY <1>2, <1>3 DEF OwnersDistinct
<1>8. OwnedLive'
  <2>1. SUFFICES ASSUME NEW g \in Handles, NEW j \in DOMAIN layers', layers'[j].id = handle'[g]
                 PROVE  Live(layers'[j])
    BY DEF OwnedLive
  <2>2. j \in DOMAIN layers /\ layers[j].id = handle'[g]
    BY <1>5, <2>1
  <2>3. g # h
    <3>1. layers[j].id # 0
      <4>1. layers[j] \in Layer
        BY <2>2 DEF StackInv, TypeOK
      <4>2. QED
        BY <4>1 DEF Layer
    <3>2. QED
      BY <1>3, <2>2, <3>1
  <2>4. layers[j].id = handle[g] /\ j # i
    BY <1>1, <1>2, <1>3, <2>2, <2>3 DEF OwnersDistinct
  <2>5. QED
    BY <1>2, <1>5, <2>2, <2>4 DEF OwnedLive
<1>9. (\A g \in Handles : handle'[g] < nextId') /\ outer' < nextId'
  BY <1>2, <1>3 DEF Fresh
<1>10. RestType'
  BY <1>3 DEF StackInv, TypeOK, RestType
<1>11. OwnerPart'
  BY <1>6, <1>7, <1>8, <1>9 DEF OwnerPart
<1>12. QED
  BY <1>5, <1>10, <1>11, InvPartsPrimed

\* commit, merge and revoke of a caller's session preserve StackInv.
LEMMA FinishSessionKeeps ==
    ASSUME StackInv, NEW h \in Handles, FinishSession(h)
    PROVE  StackInv'
<1> DEFINE i == IndexOf(handle[h])
<1>1. i \in 1 .. Len(layers) /\ Live(layers[i]) /\ Finish(i) /\ Holds(handle[h])
  BY OwnedLayer DEF FinishSession
<1>2. TypeOK /\ ActiveCount /\ EnabledWhileActive /\ FlagBottom(layers)
  BY DEF StackInv
<1>3. Trimmed(i)
  <2> HIDE DEF i
  <2>1. QED
    BY <1>1, <1>2, CommitTrims, MergeTrims, RevokeTrims DEF Finish
<1>4. checkpoints' \in Seq(Checkpoint)
  BY DEF FinishSession, StackInv, TypeOK
<1>5. QED
  BY <1>1, <1>3, <1>4, EndOwnedKeeps DEF FinishSession

\* The pending session ended: the reservation goes, callers keep their live layers.
LEMMA EndPendingKeeps ==
    ASSUME StackInv, outer # 0, FinishCommit(IndexOf(outer)) \/ FinishRevoke(IndexOf(outer)),
           pendingOuter' = 0, outer' = 0,
           UNCHANGED <<root, checkpoints, nextId, closed, handle>>
    PROVE  StackInv'
<1> DEFINE i == IndexOf(outer)
<1>1. i \in 1 .. Len(layers) /\ layers[i].id = outer /\ Live(layers[i])
  BY PendingLayer
<1>2. /\ nextId \in Nat \ {0} /\ handle \in [Handles -> Nat] /\ outer \in Nat
      /\ Fresh /\ OwnersDistinct /\ OwnedLive /\ TypeOK
      /\ ActiveCount /\ EnabledWhileActive /\ FlagBottom(layers)
  BY DEF StackInv, TypeOK
<1>3. FinishCommit(i) \/ FinishRevoke(i)
  OBVIOUS
<1> HIDE DEF i
<1>4. Trimmed(i)
  BY <1>1, <1>2, <1>3, CommitTrims, RevokeTrims
<1>5. /\ StackPart'
      /\ \A j \in DOMAIN layers' : /\ j \in DOMAIN layers /\ layers'[j].id = layers[j].id
                                   /\ j # i => (Live(layers[j]) <=> Live(layers'[j]))
  BY <1>1, <1>4, TrimKeeps
<1>6. PendingSlot'
  BY DEF PendingSlot
<1>7. OwnersDistinct'
  BY <1>2 DEF OwnersDistinct
<1>8. OwnedLive'
  <2>1. SUFFICES ASSUME NEW g \in Handles, NEW j \in DOMAIN layers', layers'[j].id = handle[g]
                 PROVE  Live(layers'[j])
    BY DEF OwnedLive
  <2>2. j \in DOMAIN layers /\ layers[j].id = handle[g]
    BY <1>5, <2>1
  <2>3. layers[j].id # 0
    <3>1. layers[j] \in Layer
      BY <2>2 DEF StackInv, TypeOK
    <3>2. QED
      BY <3>1 DEF Layer
  <2>4. j # i
    BY <1>1, <1>2, <2>2, <2>3 DEF OwnersDistinct
  <2>5. QED
    BY <1>2, <1>5, <2>1, <2>2, <2>4 DEF OwnedLive
<1>9. (\A g \in Handles : handle'[g] < nextId') /\ outer' < nextId'
  BY <1>2 DEF Fresh
<1>10. RestType'
  BY DEF StackInv, TypeOK, RestType
<1>11. OwnerPart'
  BY <1>6, <1>7, <1>8, <1>9 DEF OwnerPart
<1>12. QED
  BY <1>5, <1>10, <1>11, InvPartsPrimed

\* PendingSession::commit preserves StackInv.
LEMMA PendingCommitKeeps ==
    ASSUME StackInv, PendingCommit
    PROVE  StackInv'
<1>1. pendingOuter = outer
  BY DEF StackInv, PendingSlot
<1>2. QED
  BY <1>1, EndPendingKeeps DEF PendingCommit

\* PendingSession::close preserves StackInv.
LEMMA PendingCloseKeeps ==
    ASSUME StackInv, PendingClose
    PROVE  StackInv'
<1>1. pendingOuter = outer
  BY DEF StackInv, PendingSlot
<1>2. QED
  BY <1>1, EndPendingKeeps DEF PendingClose

\* close of a session with live descendants: the layer is marked, the live layer
\* above it will reclaim it.
LEMMA AbandonKeeps ==
    ASSUME StackInv, NEW h \in Handles, handle[h] # 0, Holds(handle[h]),
           LiveFrom(layers, IndexOf(handle[h]) + 1) # {}, Abandon(IndexOf(handle[h])),
           handle' = [handle EXCEPT ![h] = 0],
           UNCHANGED <<root, checkpoints, nextId, pendingOuter, closed, outer>>
    PROVE  StackInv'
<1> DEFINE i == IndexOf(handle[h])
           e == [layers[i] EXCEPT !.abandoned = TRUE]
<1>1. i \in 1 .. Len(layers) /\ layers[i].id = handle[h] /\ Live(layers[i])
  BY OwnedLayer
<1>2. PICK m \in i + 1 .. Len(layers) : Live(layers[m])
  BY DEF LiveFrom
<1>3. layers' = [layers EXCEPT ![i] = e] /\ active' = active - 1 /\ enabled' = enabled
  BY DEF Abandon
<1> HIDE DEF i
<1>4. /\ layers \in Seq(Layer) /\ Len(layers) \in Nat /\ DOMAIN layers = 1 .. Len(layers)
      /\ i \in Nat /\ layers[i] \in Layer /\ nextId \in Nat \ {0}
      /\ handle \in [Handles -> Nat] /\ outer \in Nat
  BY <1>1 DEF StackInv, TypeOK
<1>5. /\ Fresh /\ OwnersDistinct /\ OwnedLive /\ PendingSlot /\ AbandonedCovered /\ ActiveCount
      /\ Distinct(layers)
  BY DEF StackInv
<1>6. /\ e \in Layer /\ e.id = layers[i].id /\ e.abandoned = TRUE
      /\ e.disableOnExit = layers[i].disableOnExit
  BY <1>4 DEF Layer
<1> HIDE DEF e
<1>7. /\ layers' \in Seq(Layer) /\ Len(layers') = Len(layers) /\ layers'[i] = e
      /\ DOMAIN layers' = 1 .. Len(layers)
      /\ \A j \in 1 .. Len(layers) : j # i => layers'[j] = layers[j]
  BY <1>1, <1>3, <1>4, <1>6, ReplaceProperties
<1>8. active' = CountLive(layers', 1)
  BY <1>1, <1>3, <1>4, <1>5, <1>6, <1>7, CountOneLess DEF ActiveCount, Live
<1>9. active' # 0 => active # 0
  BY <1>1, LiveMeansActive DEF StackInv
<1>10. AbandonedCovered'
  <2>1. SUFFICES ASSUME NEW a \in DOMAIN layers', layers'[a].abandoned
                 PROVE  \E j \in DOMAIN layers' : a < j /\ Live(layers'[j])
    BY DEF AbandonedCovered
  <2>2. m \in DOMAIN layers' /\ i < m /\ Live(layers'[m])
    BY <1>2, <1>4, <1>7
  <2>3. CASE a <= i
    BY <1>4, <1>7, <2>2, <2>3
  <2>4. CASE a > i
    <3>1. layers[a].abandoned /\ a \in DOMAIN layers
      BY <1>4, <1>7, <2>1, <2>4
    <3>2. PICK j \in DOMAIN layers : a < j /\ Live(layers[j])
      BY <1>5, <3>1 DEF AbandonedCovered
    <3>3. QED
      BY <1>4, <1>7, <2>4, <3>2
  <2>5. QED
    BY <1>4, <1>7, <2>3, <2>4
<1>11. \A j \in 1 .. Len(layers) :
              /\ layers'[j].id = layers[j].id
              /\ layers'[j].disableOnExit = layers[j].disableOnExit
              /\ Settled(layers[j]) => Settled(layers'[j])
  BY <1>1, <1>6, <1>7 DEF Settled, Live
<1>12. StackPart'
  BY <1>3, <1>7, <1>8, <1>9, <1>10, <1>11, RewriteKeeps
<1>13. /\ handle' \in [Handles -> Nat] /\ handle'[h] = 0
       /\ \A g \in Handles : g # h => handle'[g] = handle[g]
  BY <1>4
<1>14. PendingSlot'
  <2>1. pendingOuter' = outer'
    BY <1>5 DEF PendingSlot
  <2>2. ASSUME outer # 0
        PROVE  \E p \in DOMAIN layers' : /\ layers'[p].id = outer /\ Live(layers'[p])
                                         /\ \A j \in 1 .. p - 1 : Settled(layers'[j])
    <3>1. PICK p \in DOMAIN layers : /\ layers[p].id = outer /\ Live(layers[p])
                                     /\ \A j \in 1 .. p - 1 : Settled(layers[j])
      BY <1>5, <2>2 DEF PendingSlot
    <3>2. p # i /\ p \in DOMAIN layers' /\ \A j \in 1 .. p - 1 : j \in 1 .. Len(layers)
      BY <1>1, <1>4, <1>5, <1>7, <2>2, <3>1 DEF OwnersDistinct
    <3>3. QED
      BY <1>4, <1>7, <1>11, <3>1, <3>2
  <2>3. QED
    BY <2>1, <2>2 DEF PendingSlot
<1>15. OwnersDistinct'
  BY <1>5, <1>13 DEF OwnersDistinct
<1>16. OwnedLive'
  <2>1. SUFFICES ASSUME NEW g \in Handles, NEW j \in DOMAIN layers', layers'[j].id = handle'[g]
                 PROVE  Live(layers'[j])
    BY DEF OwnedLive
  <2>2. j \in DOMAIN layers /\ layers[j].id = handle'[g]
    BY <1>4, <1>7, <1>11, <2>1
  <2>3. layers[j].id # 0
    <3>1. layers[j] \in Layer
      BY <1>4, <2>2
    <3>2. QED
      BY <3>1 DEF Layer
  <2>4. g # h /\ layers[j].id = handle[g]
    BY <1>13, <2>2, <2>3
  <2>5. j # i
    BY <1>1, <1>5, <2>3, <2>4 DEF OwnersDistinct
  <2>6. QED
    BY <1>4, <1>5, <1>7, <2>2, <2>4, <2>5 DEF OwnedLive
<1>17. (\A g \in Handles : handle'[g] < nextId') /\ outer' < nextId'
  BY <1>4, <1>5, <1>13 DEF Fresh
<1>18. RestType'
  BY <1>13 DEF StackInv, TypeOK, RestType
<1>19. OwnerPart'
  BY <1>14, <1>15, <1>16, <1>17 DEF OwnerPart
<1>20. QED
  BY <1>12, <1>18, <1>19, InvPartsPrimed

\* Session::close and Drop preserve StackInv: gone, abandoned or revoked.
LEMMA CloseSessionKeeps ==
    ASSUME StackInv, NEW h \in Handles, CloseSession(h)
    PROVE  StackInv'
<1>1. CASE ~Holds(handle[h])
  <2>1. /\ UNCHANGED <<layers, active, enabled>> /\ handle' = [handle EXCEPT ![h] = 0]
        /\ UNCHANGED <<root, checkpoints, nextId, pendingOuter, closed, outer>>
    BY <1>1 DEF CloseSession
  <2>2. /\ handle \in [Handles -> Nat] /\ handle' \in [Handles -> Nat] /\ handle'[h] = 0
        /\ \A g \in Handles : g # h => handle'[g] = handle[g]
        /\ nextId \in Nat \ {0}
    BY <2>1 DEF StackInv, TypeOK
  <2>3. StackPart'
    BY <2>1 DEF StackInv, TypeOK, Fresh, StackPart, ActiveCount, AbandonedCovered,
                EnabledWhileActive
  <2>4. PendingSlot'
    BY <2>1 DEF StackInv, PendingSlot
  <2>5. OwnersDistinct'
    BY <2>1, <2>2 DEF StackInv, OwnersDistinct
  <2>6. \A j \in DOMAIN layers : layers[j].id # 0
    <3>1. \A j \in DOMAIN layers : layers[j] \in Layer
      BY DEF StackInv, TypeOK
    <3>2. QED
      BY <3>1 DEF Layer
  <2>7. OwnedLive'
    BY <2>1, <2>2, <2>6 DEF StackInv, OwnedLive
  <2>8. (\A g \in Handles : handle'[g] < nextId') /\ outer' < nextId'
    BY <2>1, <2>2 DEF StackInv, Fresh
  <2>9. RestType'
    BY <2>1, <2>2 DEF StackInv, TypeOK, RestType
  <2>10. OwnerPart'
    BY <2>4, <2>5, <2>7, <2>8 DEF OwnerPart
  <2>11. QED
    BY <2>3, <2>9, <2>10, InvPartsPrimed
<1>2. CASE Holds(handle[h]) /\ LiveFrom(layers, IndexOf(handle[h]) + 1) # {}
  <2>1. Abandon(IndexOf(handle[h]))
    BY <1>2 DEF CloseSession
  <2>2. QED
    BY <1>2, <2>1, AbandonKeeps DEF CloseSession
<1>3. CASE Holds(handle[h]) /\ LiveFrom(layers, IndexOf(handle[h]) + 1) = {}
  <2> DEFINE i == IndexOf(handle[h])
  <2>1. FinishRevoke(i) /\ i \in 1 .. Len(layers) /\ Live(layers[i])
    BY <1>3, OwnedLayer DEF CloseSession
  <2>2. TypeOK /\ ActiveCount /\ EnabledWhileActive /\ FlagBottom(layers)
    BY DEF StackInv
  <2>3. Trimmed(i)
    <3> HIDE DEF i
    <3>1. QED
      BY <2>1, <2>2, RevokeTrims
  <2>4. checkpoints' \in Seq(Checkpoint)
    BY DEF CloseSession, StackInv, TypeOK
  <2>5. QED
    BY <1>3, <2>3, <2>4, EndOwnedKeeps DEF CloseSession
<1>4. QED
  BY <1>1, <1>2, <1>3

\* A write into the live top layer.
LEMMA MutateKeeps ==
    ASSUME StackInv, NEW id, NEW k \in Keys, NEW v \in Vals \cup {Absent}, Mutate(id, k, v)
    PROVE  StackInv'
<1> DEFINE n == Len(layers)
           w == [layers[n].values EXCEPT ![k] = v]
           e == [layers[n] EXCEPT !.values = w]
<1>1. /\ layers \in Seq(Layer) /\ Len(layers) \in Nat /\ DOMAIN layers = 1 .. Len(layers)
      /\ layers # <<>> /\ n \in 1 .. Len(layers) /\ layers[n] \in Layer
  BY DEF StackInv, TypeOK, Mutate
<1>2. layers' = [layers EXCEPT ![n] = e]
  BY DEF Mutate
<1>3. UNCHANGED <<root, checkpoints, enabled, active, nextId, pendingOuter, closed, handle, outer>>
  BY DEF Mutate
<1>4. w \in Entries
  BY <1>1 DEF Layer, Entries
<1> HIDE DEF n, w
<1>5. /\ e \in Layer /\ e.id = layers[n].id /\ e.abandoned = layers[n].abandoned
      /\ e.disableOnExit = layers[n].disableOnExit /\ e.committed = layers[n].committed
  BY <1>1, <1>4 DEF Layer
<1> HIDE DEF e
<1>6. /\ layers' \in Seq(Layer) /\ Len(layers') = Len(layers)
      /\ DOMAIN layers' = 1 .. Len(layers)
      /\ \A j \in 1 .. Len(layers) :
            /\ layers'[j].id = layers[j].id /\ layers'[j].abandoned = layers[j].abandoned
            /\ layers'[j].disableOnExit = layers[j].disableOnExit
            /\ layers'[j].committed = layers[j].committed
  BY <1>1, <1>2, <1>5, ReplaceProperties
<1>7. \A j \in 1 .. Len(layers) : /\ Live(layers'[j]) <=> Live(layers[j])
                                  /\ Settled(layers'[j]) <=> Settled(layers[j])
  BY <1>6 DEF Live, Settled
<1>8. active' = CountLive(layers', 1)
  BY <1>3, <1>6, <1>7, CountSame DEF StackInv, ActiveCount
<1>9. AbandonedCovered'
  BY <1>1, <1>6, <1>7 DEF StackInv, AbandonedCovered
<1>10. StackPart'
  BY <1>3, <1>6, <1>7, <1>8, <1>9, RewriteKeeps
<1>11. PendingSlot'
  <2>1. pendingOuter' = outer'
    BY <1>3 DEF StackInv, PendingSlot
  <2>2. ASSUME outer # 0
        PROVE  \E p \in DOMAIN layers' : /\ layers'[p].id = outer /\ Live(layers'[p])
                                         /\ \A j \in 1 .. p - 1 : Settled(layers'[j])
    <3>1. PICK p \in DOMAIN layers : /\ layers[p].id = outer /\ Live(layers[p])
                                     /\ \A j \in 1 .. p - 1 : Settled(layers[j])
      BY <2>2 DEF StackInv, PendingSlot
    <3>2. p \in DOMAIN layers' /\ \A j \in 1 .. p - 1 : j \in 1 .. Len(layers)
      BY <1>1, <1>6
    <3>3. QED
      BY <1>1, <1>6, <1>7, <3>1, <3>2
  <2>3. QED
    BY <1>3, <2>1, <2>2 DEF PendingSlot
<1>12. OwnersDistinct' /\ (\A h \in Handles : handle'[h] < nextId') /\ outer' < nextId'
  BY <1>3 DEF StackInv, OwnersDistinct, Fresh
<1>13. OwnedLive'
  BY <1>1, <1>3, <1>6, <1>7 DEF StackInv, OwnedLive
<1>14. RestType'
  BY <1>3 DEF StackInv, TypeOK, RestType
<1>15. OwnerPart'
  BY <1>11, <1>12, <1>13 DEF OwnerPart
<1>16. QED
  BY <1>10, <1>14, <1>15, InvPartsPrimed

\* commit_with_checkpoint settles the only live layer, so no layer stays live.
LEMMA CommitWithCheckpointKeeps ==
    ASSUME StackInv, NEW h \in Handles, NEW p \in Points, CommitWithCheckpoint(h, p)
    PROVE  StackInv'
<1> DEFINE i == IndexOf(handle[h])
           e == [layers[i] EXCEPT !.committed = TRUE]
<1>1. /\ i \in 1 .. Len(layers) /\ Live(layers[i]) /\ Holds(handle[h])
      /\ \A j \in 1 .. i - 1 : Settled(layers[j])
      /\ \A j \in i + 1 .. Len(layers) : Settled(layers[j])
  BY OwnedLayer DEF CommitWithCheckpoint, DescendantsCommitted
<1>2. /\ layers' = [layers EXCEPT ![i] = e] /\ active' = active - 1
      /\ enabled' = (enabled /\ ~layers[i].disableOnExit)
  BY DEF CommitWithCheckpoint
<1>3. checkpoints' \in Seq(Checkpoint)
  <2>1. checkpoints' = Append(checkpoints, NewCheckpoint(p))
    BY DEF CommitWithCheckpoint
  <2>2. checkpoints \in Seq(Checkpoint) /\ NewCheckpoint(p) \in Checkpoint
    BY CheckpointType DEF StackInv, TypeOK
  <2>3. QED
    BY <2>1, <2>2
<1>4. /\ layers \in Seq(Layer) /\ Len(layers) \in Nat /\ i \in Nat /\ layers[i] \in Layer
      /\ active = CountLive(layers, 1) /\ enabled \in BOOLEAN
  BY <1>1 DEF StackInv, TypeOK, ActiveCount
<1>5. enabled' \in BOOLEAN
  BY <1>2
<1>6. Trimmed(i)
  <2> HIDE DEF i
  <2>1. /\ e \in Layer /\ e.id = layers[i].id /\ e.abandoned = layers[i].abandoned
        /\ e.disableOnExit = layers[i].disableOnExit /\ e.committed = TRUE
    BY <1>4 DEF Layer
  <2> HIDE DEF e
  <2>2. /\ layers' \in Seq(Layer) /\ Len(layers') = Len(layers) /\ layers'[i] = e
        /\ \A j \in 1 .. Len(layers) : j # i => layers'[j] = layers[j]
    BY <1>1, <1>2, <1>4, <2>1, ReplaceProperties
  <2>3. active' = CountLive(layers', 1)
    BY <1>1, <1>2, <1>4, <2>1, <2>2, CountOneLess DEF Live
  <2>4. \A j \in 1 .. Len(layers) : ~layers[j].abandoned /\ ~Live(layers'[j])
    BY <1>1, <1>4, <2>1, <2>2 DEF Settled, Live
  <2>5. \A j \in 1 .. Len(layers') :
          /\ layers'[j].id = layers[j].id
          /\ ~layers'[j].abandoned /\ ~layers[j].abandoned
          /\ layers'[j].disableOnExit = layers[j].disableOnExit
          /\ j # i => layers'[j].committed = layers[j].committed
          /\ j = i => layers'[j].committed
    BY <2>1, <2>2, <2>4
  <2>6. /\ Len(layers') \in 0 .. Len(layers)
        /\ \A q \in 1 .. i - 1 : q <= Len(layers')
        /\ \A j \in 1 .. Len(layers') : ~Live(layers'[j])
    BY <1>1, <1>4, <2>2, <2>4
  <2>7. QED
    BY <1>5, <2>2, <2>3, <2>5, <2>6 DEF Trimmed
<1>7. QED
  BY <1>1, <1>3, <1>6, EndOwnedKeeps DEF CommitWithCheckpoint

\* pop, rewind, flush, destroy and shutdown: only settled layers are there, and a
\* prefix of them stays.
LEMMA QuietCutKeeps ==
    ASSUME StackInv, active = 0, NEW n \in 1 .. Len(layers) + 1,
           layers' = SubSeq(layers, 1, n - 1),
           root' \in Image, checkpoints' \in Seq(Checkpoint), closed' \in BOOLEAN,
           UNCHANGED <<enabled, active, nextId, pendingOuter, handle, outer>>
    PROVE  StackInv'
<1>1. Len(layers) \in Nat /\ enabled \in BOOLEAN
  BY DEF StackInv, TypeOK
<1>2. /\ \A j \in 1 .. Len(layers) : Settled(layers[j])
      /\ outer = 0 /\ pendingOuter = 0
  BY QuietSettled
<1>3. StackPart' /\ OwnerPart'
  BY <1>1, <1>2, SettledPrefixKeeps
<1>4. RestType'
  BY DEF StackInv, TypeOK, RestType
<1>5. QED
  BY <1>3, <1>4, InvPartsPrimed

\* flush, destroy and shutdown leave an empty stack.
LEMMA QuietClearKeeps ==
    ASSUME StackInv, active = 0, layers' = <<>>,
           root' \in Image, checkpoints' \in Seq(Checkpoint), closed' \in BOOLEAN,
           UNCHANGED <<enabled, active, nextId, pendingOuter, handle, outer>>
    PROVE  StackInv'
<1>1. layers \in Seq(Layer) /\ Len(layers) \in Nat /\ 1 \in 1 .. Len(layers) + 1
  BY DEF StackInv, TypeOK
<1>2. Len(SubSeq(layers, 1, 1 - 1)) = 1 - 1 /\ SubSeq(layers, 1, 1 - 1) \in Seq(Layer)
  BY <1>1, CutProperties
<1>3. SubSeq(layers, 1, 1 - 1) = <<>>
  BY <1>2, EmptySeq
<1>4. QED
  BY <1>1, <1>3, QuietCutKeeps

\* What flush_committed_locked writes is a whole image of the stores.
LEMMA FlushedType ==
    ASSUME StackInv
    PROVE  Flushed \in Image
<1>1. TypeOK /\ Len(layers) \in 0 .. Len(layers)
  BY DEF StackInv, TypeOK
<1>2. \A k \in Keys : ValueAt(Len(layers), k) \in Vals \cup {Absent}
  BY <1>1, ValueType
<1>3. QED
  BY <1>2 DEF Flushed, Image

\* reset_pending_outer: cut at the pending layer, then push its successor.
LEMMA PendingResetKeeps ==
    ASSUME StackInv, PendingReset
    PROVE  StackInv'
<1> DEFINE i == IndexOf(outer)
           ls == SubSeq(layers, 1, i - 1)
           l == NewLayer(Flagged(layers, i))
<1>1. /\ i \in 1 .. Len(layers) /\ layers[i].id = outer /\ Live(layers[i])
      /\ \A j \in 1 .. i - 1 : Settled(layers[j])
  BY PendingLayer DEF PendingReset
<1>2. /\ layers' = Append(ls, l) /\ active' = active - CountLive(layers, i) + 1
      /\ nextId' = nextId + 1 /\ pendingOuter' = nextId /\ outer' = nextId
      /\ UNCHANGED <<root, checkpoints, enabled, closed, handle>>
  BY DEF PendingReset
<1>3. /\ layers \in Seq(Layer) /\ Len(layers) \in Nat /\ DOMAIN layers = 1 .. Len(layers)
      /\ nextId \in Nat \ {0} /\ handle \in [Handles -> Nat] /\ outer \in Nat
      /\ active = CountLive(layers, 1)
      /\ Fresh /\ OwnersDistinct /\ OwnedLive /\ Distinct(layers) /\ FlagBottom(layers)
  BY DEF StackInv, TypeOK, ActiveCount
<1>4. enabled = TRUE
  BY <1>1, LiveMeansActive DEF StackInv
<1>5. l \in Layer /\ Live(l) /\ l.id = nextId
  BY <1>3, NewLayerProperties DEF Flagged
<1>6. i \in 1 .. Len(layers) + 1 /\ i \in Nat
  BY <1>1, <1>3
<1>7. /\ ls \in Seq(Layer) /\ Len(ls) = i - 1 /\ DOMAIN ls = 1 .. i - 1
      /\ \A j \in 1 .. i - 1 : ls[j] = layers[j] /\ j \in DOMAIN layers
  BY <1>3, <1>6, CutProperties
<1>8. CountLive(ls, 1) = active - CountLive(layers, i)
  BY <1>3, <1>6, CountCut
<1> HIDE DEF i, ls, l
<1>9. /\ Distinct(ls) /\ FlagBottom(ls) /\ \A j \in DOMAIN ls : ls[j].id < nextId
      /\ \A j \in DOMAIN ls : Settled(ls[j]) /\ ~ls[j].abandoned
  BY <1>1, <1>3, <1>7 DEF Distinct, FlagBottom, Fresh, Settled
<1>10. /\ StackPart'
       /\ Len(layers') = Len(ls) + 1 /\ layers'[Len(ls) + 1] = l
       /\ \A j \in 1 .. Len(ls) : layers'[j] = ls[j]
  BY <1>2, <1>3, <1>4, <1>5, <1>7, <1>8, <1>9, PushKeeps
<1>11. DOMAIN layers' = 1 .. i /\ layers'[i] = l /\ \A j \in 1 .. i - 1 : layers'[j] = layers[j]
  BY <1>6, <1>7, <1>10 DEF StackPart
<1>12. PendingSlot'
  <2>1. i \in DOMAIN layers' /\ \A j \in 1 .. i - 1 : Settled(layers'[j])
    BY <1>1, <1>6, <1>11
  <2>2. QED
    BY <1>2, <1>5, <1>11, <2>1 DEF PendingSlot
<1>13. OwnersDistinct'
  BY <1>2, <1>3 DEF OwnersDistinct, Fresh
<1>14. OwnedLive'
  <2>1. SUFFICES ASSUME NEW g \in Handles, NEW j \in DOMAIN layers', layers'[j].id = handle[g]
                 PROVE  Live(layers'[j])
    BY <1>2 DEF OwnedLive
  <2>2. CASE j = i
    BY <1>5, <1>11, <2>2
  <2>3. CASE j \in 1 .. i - 1
    BY <1>3, <1>7, <1>11, <2>1, <2>3 DEF OwnedLive
  <2>4. QED
    BY <1>6, <1>11, <2>2, <2>3
<1>15. (\A g \in Handles : handle'[g] < nextId') /\ outer' < nextId'
  BY <1>2, <1>3 DEF Fresh
<1>16. RestType'
  BY <1>2, <1>3 DEF StackInv, TypeOK, RestType
<1>17. OwnerPart'
  BY <1>12, <1>13, <1>14, <1>15 DEF OwnerPart
<1>18. QED
  BY <1>10, <1>16, <1>17, InvPartsPrimed

\* force_reset_pending_outer: below the pending layer all is settled, so the count is zero.
LEMMA PendingForceResetKeeps ==
    ASSUME StackInv, PendingForceReset
    PROVE  StackInv'
<1> DEFINE i == IndexOf(outer)
<1>1. pendingOuter = outer /\ outer # 0
  BY DEF StackInv, PendingSlot, PendingForceReset
<1>2. /\ Holds(outer) /\ i \in 1 .. Len(layers)
      /\ \A j \in 1 .. i - 1 : Settled(layers[j])
  BY <1>1, PendingLayer
<1>3. /\ layers' = SubSeq(layers, 1, i - 1)
      /\ active' = IF CountLive(layers, i) <= active THEN active - CountLive(layers, i) ELSE 0
      /\ enabled' = (enabled /\ ~Flagged(layers, i))
      /\ pendingOuter' = 0 /\ outer' = 0
      /\ UNCHANGED <<root, checkpoints, nextId, closed, handle>>
  BY <1>1, <1>2 DEF PendingForceReset
<1> HIDE DEF i
<1>4. /\ layers \in Seq(Layer) /\ Len(layers) \in Nat /\ i \in Nat /\ i \in 1 .. Len(layers) + 1
      /\ active = CountLive(layers, 1)
  BY <1>2 DEF StackInv, TypeOK, ActiveCount
<1>5. CountLive(SubSeq(layers, 1, i - 1), 1) = 0
  <2>1. LiveFrom(SubSeq(layers, 1, i - 1), 1) = {}
    BY <1>2, <1>4, CutProperties DEF LiveFrom, Settled, Live
  <2>2. QED
    BY <2>1, FS_EmptySet DEF CountLive
<1>6. CountLive(layers, 1) = CountLive(layers, i)
  <2>1. CountLive(layers, 1) \in Nat /\ CountLive(layers, i) \in Nat
    BY <1>4, CountType
  <2>2. QED
    BY <1>4, <1>5, <2>1, CountCut
<1>7. active' = 0
  BY <1>3, <1>4, <1>6, CountType
<1>8. enabled' \in BOOLEAN
  BY <1>3
<1>9. StackPart' /\ OwnerPart'
  BY <1>2, <1>3, <1>4, <1>7, <1>8, SettledPrefixKeeps
<1>10. RestType'
  BY <1>3 DEF StackInv, TypeOK, RestType
<1>11. QED
  BY <1>9, <1>10, InvPartsPrimed

-----------------------------------------------------------------------------
(* The next-state relation, disjunct by disjunct. *)

\* Every operation on a caller's session preserves StackInv.
LEMMA SessionStep ==
    ASSUME StackInv, SessionNext
    PROVE  StackInv'
<1>1. PICK h \in Handles :
        \/ \E t \in BOOLEAN : BuildSession(h, t)
        \/ \E parent \in Owners : BuildChild(h, parent)
        \/ FinishSession(h)
        \/ CloseSession(h)
        \/ \E p \in Points : CommitWithCheckpoint(h, p)
  BY DEF SessionNext
<1>2. ASSUME NEW t \in BOOLEAN, BuildSession(h, t)
      PROVE  StackInv'
  BY <1>2, BuildSessionKeeps DEF BuildSession
<1>3. ASSUME NEW parent \in Owners, BuildChild(h, parent)
      PROVE  StackInv'
  BY <1>3, BuildSessionKeeps DEF BuildChild
<1>4. ASSUME NEW p \in Points, CommitWithCheckpoint(h, p)
      PROVE  StackInv'
  BY <1>4, CommitWithCheckpointKeeps
<1>5. QED
  BY <1>1, <1>2, <1>3, <1>4, FinishSessionKeeps, CloseSessionKeeps

\* Every write to an overlay or to the root preserves StackInv.
LEMMA StoreStep ==
    ASSUME StackInv, StoreNext
    PROVE  StackInv'
<1>1. PICK k \in Keys :
        \/ \E id \in Owners, v \in Vals \cup {Absent} : Mutate(id, k, v)
        \/ \E v \in Vals \cup {Absent} : DurablePut(k, v)
        \/ \E v \in Vals : PublishMetadata(k, v)
  BY DEF StoreNext
<1>2. ASSUME NEW id \in Owners, NEW v \in Vals \cup {Absent}, Mutate(id, k, v)
      PROVE  StackInv'
  BY <1>2, MutateKeeps
<1>3. ASSUME NEW v \in Vals \cup {Absent}, DurablePut(k, v) \/ PublishMetadata(k, v)
      PROVE  StackInv'
  <2>1. /\ root' = [root EXCEPT ![k] = v]
        /\ UNCHANGED <<layers, checkpoints, enabled, active, nextId, pendingOuter, closed, handle, outer>>
    BY <1>3 DEF DurablePut, PublishMetadata
  <2>2. root' \in Image
    BY <2>1 DEF StackInv, TypeOK, Image
  <2>3. enabled' \in BOOLEAN /\ checkpoints' \in Seq(Checkpoint) /\ closed' \in BOOLEAN
    BY <2>1 DEF StackInv, TypeOK
  <2>4. active # 0 => enabled'
    BY <2>1 DEF StackInv, EnabledWhileActive
  <2>5. QED
    BY <2>1, <2>2, <2>3, <2>4, StackUnchanged
<1>4. QED
  BY <1>1, <1>2, <1>3

\* Every operation on the whole manager preserves StackInv.
LEMMA ManagerStep ==
    ASSUME StackInv, ManagerNext
    PROVE  StackInv'
<1>1. /\ layers \in Seq(Layer) /\ Len(layers) \in Nat /\ checkpoints \in Seq(Checkpoint)
      /\ root \in Image /\ enabled \in BOOLEAN /\ closed \in BOOLEAN
      /\ EnabledWhileActive
  BY DEF StackInv, TypeOK
<1>2. ASSUME NEW p \in Points, RecordCheckpoint(p)
      PROVE  StackInv'
  <2>1. /\ checkpoints' = Append(checkpoints, NewCheckpoint(p))
        /\ UNCHANGED <<root, layers, enabled, active, nextId, pendingOuter, closed, handle, outer>>
    BY <1>2 DEF RecordCheckpoint
  <2>2. checkpoints' \in Seq(Checkpoint)
    BY <1>1, <2>1, CheckpointType DEF StackInv
  <2>3. QED
    BY <1>1, <2>1, <2>2, StackUnchanged DEF EnabledWhileActive
<1>3. ASSUME NEW d \in Identities, RewindCheckpoint(d)
      PROVE  StackInv'
  <2>1. /\ active = 0 /\ layers # <<>> /\ checkpoints # <<>>
        /\ layers' = SubSeq(layers, 1, Len(layers) - 1)
        /\ checkpoints' = SubSeq(checkpoints, 1, Len(checkpoints) - 1)
        /\ UNCHANGED <<root, enabled, active, nextId, pendingOuter, closed, handle, outer>>
    BY <1>3 DEF RewindCheckpoint
  <2>2. checkpoints' \in Seq(Checkpoint)
    <3>1. /\ Len(checkpoints) \in Nat \ {0}
          /\ \A i \in 1 .. Len(checkpoints) - 1 : checkpoints[i] \in Checkpoint
      BY <1>1, <2>1, EmptySeq
    <3>2. QED
      BY <1>1, <2>1, <3>1, SubSeqProperties
  <2>3. Len(layers) \in 1 .. Len(layers) + 1
    BY <1>1, <2>1, EmptySeq
  <2>4. QED
    BY <1>1, <2>1, <2>2, <2>3, QuietCutKeeps
<1>4. ASSUME Pop
      PROVE  StackInv'
  <2>1. /\ active = 0 /\ layers # <<>> /\ layers' = SubSeq(layers, 1, Len(layers) - 1)
        /\ UNCHANGED <<root, checkpoints, enabled, active, nextId, pendingOuter, closed, handle, outer>>
    BY <1>4 DEF Pop
  <2>2. Len(layers) \in 1 .. Len(layers) + 1
    BY <1>1, <2>1, EmptySeq
  <2>3. QED
    BY <1>1, <2>1, <2>2, QuietCutKeeps
<1>5. ASSUME FlushCommitted
      PROVE  StackInv'
  <2>1. /\ active = 0 /\ layers' = <<>> /\ root' = Flushed
        /\ UNCHANGED <<checkpoints, enabled, active, nextId, pendingOuter, closed, handle, outer>>
    BY <1>5 DEF FlushCommitted
  <2>2. QED
    BY <1>1, <2>1, FlushedType, QuietClearKeeps
<1>6. ASSUME Destroy
      PROVE  StackInv'
  <2>1. /\ active = 0 /\ layers' = <<>>
        /\ UNCHANGED <<root, checkpoints, enabled, active, nextId, pendingOuter, closed, handle, outer>>
    BY <1>6 DEF Destroy
  <2>2. QED
    BY <1>1, <2>1, QuietClearKeeps
<1>7. ASSUME NEW flush \in BOOLEAN, Shutdown(flush)
      PROVE  StackInv'
  <2>1. /\ active = 0 /\ layers' = <<>> /\ (root' = Flushed \/ root' = root)
        /\ UNCHANGED <<checkpoints, enabled, active, nextId, pendingOuter, handle, outer>>
    BY <1>7 DEF Shutdown
  <2>2. closed' \in BOOLEAN
    BY <1>7 DEF Shutdown
  <2>3. QED
    BY <1>1, <2>1, <2>2, FlushedType, QuietClearKeeps
<1>8. ASSUME Enable \/ Disable
      PROVE  StackInv'
  <2>1. UNCHANGED <<root, layers, checkpoints, active, nextId, pendingOuter, closed, handle, outer>>
    BY <1>8 DEF Enable, Disable
  <2>2. enabled' \in BOOLEAN /\ (active # 0 => enabled')
    BY <1>8 DEF Enable, Disable
  <2>3. QED
    BY <1>1, <2>1, <2>2, StackUnchanged
<1>9. QED
  BY <1>2, <1>3, <1>4, <1>5, <1>6, <1>7, <1>8 DEF ManagerNext

\* StackInv is inductive.
LEMMA NextKeeps == StackInv /\ [Next]_vars => StackInv'
<1> SUFFICES ASSUME StackInv, [Next]_vars PROVE StackInv'
  OBVIOUS
<1>1. CASE PendingNext
  BY <1>1, PendingOpenKeeps, PendingResetKeeps, PendingCommitKeeps, PendingCloseKeeps,
     PendingForceResetKeeps DEF PendingNext
<1>2. CASE UNCHANGED vars
  <2>1. UNCHANGED <<root, layers, checkpoints, enabled, active, nextId, pendingOuter, closed,
                    handle, outer>>
    BY <1>2 DEF vars
  <2>2. /\ enabled' \in BOOLEAN /\ (active # 0 => enabled')
        /\ root' \in Image /\ checkpoints' \in Seq(Checkpoint) /\ closed' \in BOOLEAN
    BY <2>1 DEF StackInv, TypeOK, EnabledWhileActive
  <2>3. QED
    BY <2>1, <2>2, StackUnchanged
<1>3. QED
  BY <1>1, <1>2, SessionStep, StoreStep, ManagerStep DEF Next

-----------------------------------------------------------------------------
\* The session manager's stack, its bookkeeping and its owners agree in every
\* reachable state, for any number of handles, keys, values, sessions and checkpoints.
THEOREM StackInvariant == Spec => []StackInv
<1>1. Init => StackInv
  BY InitEstablishes
<1>2. StackInv /\ [Next]_vars => StackInv'
  BY NextKeeps
<1>3. QED
  BY <1>1, <1>2, PTL DEF Spec

\* Type correctness of the manager's state.
THEOREM TypeCorrect == Spec => []TypeOK
<1>1. StackInv => TypeOK
  BY DEF StackInv
<1>2. QED
  BY <1>1, StackInvariant, PTL

\* active is always the number of live layers, so no checked_sub of finish, close,
\* reset or commit_with_checkpoint underflows after the layers were changed.
THEOREM ActiveExact == Spec => []ActiveCount
<1>1. StackInv => ActiveCount
  BY DEF StackInv
<1>2. QED
  BY <1>1, StackInvariant, PTL

\* An abandoned layer always lies under a live one whose end reclaims it.
THEOREM AbandonedReclaimable == Spec => []AbandonedCovered
<1>1. StackInv => AbandonedCovered
  BY DEF StackInv
<1>2. QED
  BY <1>1, StackInvariant, PTL

\* A temporary enable is never paid back while a session is still active.
THEOREM EnabledThroughout == Spec => []EnabledWhileActive
<1>1. StackInv => EnabledWhileActive
  BY DEF StackInv
<1>2. QED
  BY <1>1, StackInvariant, PTL

\* The pending reservation always has its owner and its live layer.
THEOREM PendingReleasable == Spec => []PendingSlot
<1>1. StackInv => PendingSlot
  BY DEF StackInv
<1>2. QED
  BY <1>1, StackInvariant, PTL

-----------------------------------------------------------------------------
(* The overlays implement nested snapshots.  Levels are the images that    *)
(* sessions read, the root's first.  The lemmas on EntryOf say how an      *)
(* image depends on the layers; then each way in which a stack or its root *)
(* changes is a step of NestedSnapshots on the levels.                     *)

Levels == [n \in 1 .. Len(layers) + 1 |-> [k \in Keys |-> ValueAt(n - 1, k)]]

\* The layers m..n that hold an entry for k.
Setters(ls, m, n, k) == {i \in m .. n : ls[i].values[k] # Unset}

\* A read finds the uppermost entry.
LEMMA EntryTop ==
    ASSUME NEW ls, NEW m \in Nat, NEW n \in Nat, NEW k,
           NEW t \in Setters(ls, m, n, k), \A j \in Setters(ls, m, n, k) : j <= t
    PROVE  EntryOf(ls, m, n, k) = ls[t].values[k]
<1> DEFINE S == Setters(ls, m, n, k)
           top == CHOOSE i \in S : \A j \in S : j <= i
<1>1. top \in S /\ \A j \in S : j <= top
  OBVIOUS
<1>2. S \in SUBSET Nat
  BY DEF Setters
<1>3. top = t
  <2> HIDE DEF S, top
  <2>1. t \in S /\ \A j \in S : j <= t
    BY DEF S
  <2>2. top <= t /\ t <= top /\ top \in Nat /\ t \in Nat
    BY <1>1, <1>2, <2>1
  <2>3. QED
    BY <2>2
<1>4. EntryOf(ls, m, n, k) = ls[top].values[k]
  BY <1>1 DEF EntryOf, Setters
<1>5. QED
  BY <1>3, <1>4

\* ... and nothing when no layer holds one.
LEMMA EntryNone ==
    ASSUME NEW ls, NEW m \in Nat, NEW n \in Nat, NEW k
    PROVE  EntryOf(ls, m, n, k) = Unset <=> Setters(ls, m, n, k) = {}
<1>1. CASE Setters(ls, m, n, k) = {}
  BY <1>1 DEF EntryOf, Setters
<1>2. CASE Setters(ls, m, n, k) # {}
  <2> DEFINE S == Setters(ls, m, n, k)
  <2>1. S \in SUBSET Nat /\ (\A x \in S : x <= n) /\ S # {}
    BY <1>2 DEF Setters
  <2>2. PICK t \in S : \A j \in S : j <= t
    <3> HIDE DEF S
    <3> QED
      BY <2>1, GreatestExists
  <2>3. EntryOf(ls, m, n, k) = ls[t].values[k]
    BY <2>2, EntryTop
  <2>4. ls[t].values[k] # Unset
    BY DEF Setters
  <2> QED
    BY <1>2, <2>3, <2>4
<1> QED
  BY <1>1, <1>2

\* Stacks with the same entries read the same.
LEMMA EntrySame ==
    ASSUME NEW ls, NEW l2, NEW m \in Nat, NEW n \in Nat, NEW k,
           \A i \in m .. n : ls[i].values[k] = l2[i].values[k]
    PROVE  EntryOf(ls, m, n, k) = EntryOf(l2, m, n, k)
<1>1. Setters(ls, m, n, k) = Setters(l2, m, n, k)
  BY DEF Setters
<1>2. CASE Setters(ls, m, n, k) = {}
  BY <1>1, <1>2, EntryNone
<1>3. CASE Setters(ls, m, n, k) # {}
  <2> DEFINE S == Setters(ls, m, n, k)
  <2>1. S \in SUBSET Nat /\ (\A x \in S : x <= n) /\ S # {}
    BY <1>3 DEF Setters
  <2>2. PICK t \in S : \A j \in S : j <= t
    <3> HIDE DEF S
    <3> QED
      BY <2>1, GreatestExists
  <2>3. EntryOf(ls, m, n, k) = ls[t].values[k] /\ EntryOf(l2, m, n, k) = l2[t].values[k]
    BY <1>1, <2>2, EntryTop
  <2>4. t \in m .. n
    BY DEF Setters
  <2> QED
    BY <2>3, <2>4
<1> QED
  BY <1>2, <1>3

\* Reading through a stack is reading through its upper part, then the lower one.
LEMMA EntrySplit ==
    ASSUME NEW ls, NEW n \in Nat, NEW m \in 1 .. n + 1, NEW k
    PROVE  EntryOf(ls, 1, n, k) =
             IF EntryOf(ls, m, n, k) = Unset THEN EntryOf(ls, 1, m - 1, k) ELSE EntryOf(ls, m, n, k)
<1> DEFINE S == Setters(ls, 1, n, k)
           U == Setters(ls, m, n, k)
           D == Setters(ls, 1, m - 1, k)
<1>1. /\ S \in SUBSET Nat /\ (\A x \in S : x <= n) /\ S = U \cup D
      /\ U \in SUBSET Nat /\ (\A x \in U : x <= n) /\ (\A x \in U, y \in D : y <= x)
      /\ D \in SUBSET Nat /\ (\A x \in D : x <= n) /\ m \in Nat /\ m - 1 \in Nat /\ 1 \in Nat
  BY DEF Setters
<1>2. CASE U # {}
  <2>1. PICK t \in U : \A j \in U : j <= t
    <3> HIDE DEF U
    <3> QED
      BY <1>1, <1>2, GreatestExists
  <2>2. t \in S /\ \A j \in S : j <= t
    <3> HIDE DEF U, S, D
    <3> QED
      BY <1>1, <2>1
  <2>3. EntryOf(ls, m, n, k) = ls[t].values[k]
    BY <1>1, <2>1, EntryTop
  <2>4. EntryOf(ls, 1, n, k) = ls[t].values[k]
    BY <1>1, <2>2, EntryTop
  <2>5. EntryOf(ls, m, n, k) # Unset
    BY <1>1, <1>2, EntryNone
  <2> QED
    BY <2>3, <2>4, <2>5
<1>3. CASE U = {} /\ D # {}
  <2>1. PICK t \in D : \A j \in D : j <= t
    <3> HIDE DEF D
    <3> QED
      BY <1>1, <1>3, GreatestExists
  <2>2. t \in S /\ \A j \in S : j <= t
    <3> HIDE DEF U, S, D
    <3> QED
      BY <1>1, <1>3, <2>1
  <2>3. EntryOf(ls, 1, m - 1, k) = ls[t].values[k]
    BY <1>1, <2>1, EntryTop
  <2>4. EntryOf(ls, 1, n, k) = ls[t].values[k]
    BY <1>1, <2>2, EntryTop
  <2>5. EntryOf(ls, m, n, k) = Unset
    BY <1>1, <1>3, EntryNone
  <2> QED
    BY <2>3, <2>4, <2>5
<1>4. CASE U = {} /\ D = {}
  <2>1. S = {}
    <3> HIDE DEF U, S, D
    <3> QED
      BY <1>1, <1>4
  <2>2. EntryOf(ls, m, n, k) = Unset /\ EntryOf(ls, 1, n, k) = Unset /\ EntryOf(ls, 1, m - 1, k) = Unset
    BY <1>1, <1>4, <2>1, EntryNone
  <2> QED
    BY <2>2
<1> QED
  BY <1>2, <1>3, <1>4
\* There is one whole image per layer and one for the root ...
LEMMA LevelsAre ==
    ASSUME TypeOK
    PROVE  /\ Len(layers) \in Nat /\ Levels \in Seq(Image) /\ Len(Levels) = Len(layers) + 1
           /\ \A n \in 1 .. Len(layers) + 1 : Levels[n] = [k \in Keys |-> ValueAt(n - 1, k)]
<1>1. Len(layers) \in Nat
  BY DEF TypeOK
<1>2. \A n \in 1 .. Len(layers) + 1 : [k \in Keys |-> ValueAt(n - 1, k)] \in Image
  <2>1. SUFFICES ASSUME NEW n \in 1 .. Len(layers) + 1, NEW k \in Keys PROVE ValueAt(n - 1, k) \in Vals \cup {Absent}
    BY DEF Image
  <2>2. n - 1 \in 0 .. Len(layers)
    BY <1>1
  <2> QED
    BY <2>2, ValueType
<1>3. Levels \in [1 .. Len(layers) + 1 -> Image]
  BY <1>2 DEF Levels
<1>4. Len(layers) + 1 \in Nat
  BY <1>1
<1>5. Levels \in Seq(Image) /\ Len(Levels) = Len(layers) + 1
  BY <1>3, <1>4
<1>6. \A n \in 1 .. Len(layers) + 1 : Levels[n] = [k \in Keys |-> ValueAt(n - 1, k)]
  BY DEF Levels
<1> QED
  BY <1>1, <1>5, <1>6

\* ... after every step too.
LEMMA LevelsArePrimed ==
    ASSUME TypeOK'
    PROVE  /\ Len(layers') \in Nat /\ Levels' \in Seq(Image) /\ Len(Levels') = Len(layers') + 1
           /\ \A n \in 1 .. Len(layers') + 1 : Levels'[n] = [k \in Keys |-> ValueAt(n - 1, k)']
<1>1. Len(layers') \in Nat
  BY DEF TypeOK
<1>2. \A n \in 1 .. Len(layers') + 1 : [k \in Keys |-> ValueAt(n - 1, k)'] \in Image
  <2>1. SUFFICES ASSUME NEW n \in 1 .. Len(layers') + 1, NEW k \in Keys PROVE ValueAt(n - 1, k)' \in Vals \cup {Absent}
    BY DEF Image
  <2>2. n - 1 \in 0 .. Len(layers')
    BY <1>1
  <2>3. EntryOf(layers', 1, n - 1, k) \in Vals \cup {Absent, Unset}
    BY <2>2, EntryType DEF TypeOK
  <2>4. root'[k] \in Vals \cup {Absent}
    BY DEF TypeOK, Image
  <2> QED
    BY <2>3, <2>4 DEF ValueAt
<1>3. Levels' \in [1 .. Len(layers') + 1 -> Image]
  BY <1>2 DEF Levels
<1>4. Len(layers') + 1 \in Nat
  BY <1>1
<1> QED
  BY <1>1, <1>3, <1>4 DEF Levels

\* Two stacks of images are one when they are as high and agree level by level.
LEMMA SameLevels ==
    ASSUME NEW s \in Seq(Image), NEW t \in Seq(Image), Len(s) = Len(t), \A i \in 1 .. Len(s) : s[i] = t[i]
    PROVE  s = t
OBVIOUS

\* What a layer stack reads at a level depends on the layers up to it.
LEMMA ValueSame ==
    ASSUME NEW n \in Nat, NEW k \in Keys, root' = root,
           \A i \in 1 .. n : layers'[i].values[k] = layers[i].values[k]
    PROVE  ValueAt(n, k)' = ValueAt(n, k)
<1>1. EntryOf(layers', 1, n, k) = EntryOf(layers, 1, n, k)
  BY EntrySame
<1> QED
  BY <1>1 DEF ValueAt

\* One level on: the layer's own entry, or what shows through it.
LEMMA EntryNext ==
    ASSUME NEW ls, NEW n \in Nat \ {0}, NEW k
    PROVE  EntryOf(ls, 1, n, k) = IF ls[n].values[k] = Unset THEN EntryOf(ls, 1, n - 1, k) ELSE ls[n].values[k]
<1>1. EntryOf(ls, n, n, k) = ls[n].values[k]
  <2>1. CASE ls[n].values[k] = Unset
    <3>1. Setters(ls, n, n, k) = {}
      BY <2>1 DEF Setters
    <3> QED
      BY <2>1, <3>1, EntryNone
  <2>2. CASE ls[n].values[k] # Unset
    <3>1. n \in Setters(ls, n, n, k) /\ \A j \in Setters(ls, n, n, k) : j <= n
      BY <2>2 DEF Setters
    <3> QED
      BY <3>1, EntryTop
  <2> QED
    BY <2>1, <2>2
<1>2. EntryOf(ls, 1, n, k) = IF EntryOf(ls, n, n, k) = Unset THEN EntryOf(ls, 1, n - 1, k) ELSE EntryOf(ls, n, n, k)
  <2>1. n \in 1 .. n + 1 /\ n \in Nat
    OBVIOUS
  <2> QED
    BY <2>1, EntrySplit
<1> QED
  BY <1>1, <1>2

-----------------------------------------------------------------------------
\* The same for what a session reads, before and after a step.
LEMMA ValueNext ==
    ASSUME NEW n \in Nat \ {0}, NEW k
    PROVE  /\ ValueAt(n, k) = IF layers[n].values[k] = Unset THEN ValueAt(n - 1, k) ELSE layers[n].values[k]
           /\ ValueAt(n, k)' = IF layers'[n].values[k] = Unset THEN ValueAt(n - 1, k)' ELSE layers'[n].values[k]
<1>1. EntryOf(layers, 1, n, k) = IF layers[n].values[k] = Unset THEN EntryOf(layers, 1, n - 1, k) ELSE layers[n].values[k]
  BY EntryNext
<1>2. EntryOf(layers', 1, n, k) = IF layers'[n].values[k] = Unset THEN EntryOf(layers', 1, n - 1, k) ELSE layers'[n].values[k]
  BY EntryNext
<1> QED
  BY <1>1, <1>2 DEF ValueAt

\* Layers are cut off the stack.
LEMMA CutDiscards ==
    ASSUME TypeOK, TypeOK', root' = root, Len(layers') <= Len(layers),
           \A j \in 1 .. Len(layers') : layers'[j].values = layers[j].values
    PROVE  Snapshots!Next
<1> DEFINE n == Len(layers') + 1
<1>1. /\ Len(layers) \in Nat /\ Levels \in Seq(Image) /\ Len(Levels) = Len(layers) + 1
      /\ \A i \in 1 .. Len(layers) + 1 : Levels[i] = [k \in Keys |-> ValueAt(i - 1, k)]
  BY LevelsAre
<1>2. /\ Len(layers') \in Nat /\ Levels' \in Seq(Image) /\ Len(Levels') = Len(layers') + 1
      /\ \A i \in 1 .. Len(layers') + 1 : Levels'[i] = [k \in Keys |-> ValueAt(i - 1, k)']
  BY LevelsArePrimed
<1>3. \A i \in 1 .. n : Levels'[i] = Levels[i]
  <2>1. SUFFICES ASSUME NEW i \in 1 .. n, NEW k \in Keys PROVE ValueAt(i - 1, k)' = ValueAt(i - 1, k)
    BY <1>1, <1>2
  <2>2. i - 1 \in Nat /\ \A j \in 1 .. i - 1 : layers'[j].values[k] = layers[j].values[k]
    BY <1>2
  <2> QED
    BY <2>2, ValueSame
<1>4. Levels' = SubSeq(Levels, 1, n)
  <2>1. n \in 1 .. Len(Levels) /\ n \in Nat
    BY <1>1, <1>2
  <2>2. SubSeq(Levels, 1, n) \in Seq(Image) /\ Len(SubSeq(Levels, 1, n)) = n /\ \A i \in 1 .. n : SubSeq(Levels, 1, n)[i] = Levels[i]
    BY <1>1, <2>1, SubSeqProperties
  <2> QED
    BY <1>2, <1>3, <2>2, SameLevels
<1>5. n \in DOMAIN Levels
  BY <1>1, <1>2
<1>6. Snapshots!Discard(n)
  BY <1>4 DEF Snapshots!Discard, Levels
<1> QED
  BY <1>5, <1>6 DEF Snapshots!Next, Levels

\* A fresh layer shows what is below it.
LEMMA PushOpens ==
    ASSUME TypeOK, TypeOK', root' = root, Len(layers') = Len(layers) + 1,
           \A j \in 1 .. Len(layers) : layers'[j] = layers[j],
           \A k \in Keys : layers'[Len(layers')].values[k] = Unset
    PROVE  Snapshots!Next
<1>0. PICK N \in Nat : N = Len(layers)
  BY LevelsAre
<1>1. /\ N \in Nat /\ Levels \in Seq(Image) /\ Len(Levels) = N + 1
      /\ \A i \in 1 .. N + 1 : Levels[i] = [k \in Keys |-> ValueAt(i - 1, k)]
  BY <1>0, LevelsAre
<1>2. /\ Levels' \in Seq(Image) /\ Len(Levels') = N + 2
      /\ \A i \in 1 .. N + 2 : Levels'[i] = [k \in Keys |-> ValueAt(i - 1, k)']
  BY <1>0, LevelsArePrimed
<1>3. \A i \in 1 .. N + 1 : Levels'[i] = Levels[i]
  <2>1. SUFFICES ASSUME NEW i \in 1 .. N + 1, NEW k \in Keys PROVE ValueAt(i - 1, k)' = ValueAt(i - 1, k)
    BY <1>1, <1>2
  <2>2. i - 1 \in Nat /\ \A j \in 1 .. i - 1 : layers'[j].values[k] = layers[j].values[k]
    BY <1>0, <1>1
  <2> QED
    BY <2>2, ValueSame
<1>4. Levels'[N + 2] = Levels[N + 1]
  <2>1. SUFFICES ASSUME NEW k \in Keys PROVE ValueAt(N + 1, k)' = ValueAt(N, k)'
    <3>1. N + 2 \in 1 .. N + 2 /\ N + 2 - 1 = N + 1 /\ N + 1 \in 1 .. N + 2 /\ N + 1 - 1 = N /\ N + 1 \in 1 .. N + 1
      BY <1>1
    <3>2. Levels'[N + 2] = [k \in Keys |-> ValueAt(N + 1, k)'] /\ Levels'[N + 1] = [k \in Keys |-> ValueAt(N, k)']
      BY <1>2, <3>1
    <3> QED
      BY <1>3, <3>1, <3>2
  <2>2. N + 1 \in Nat \ {0} /\ N + 1 - 1 = N /\ layers'[N + 1].values[k] = Unset
    BY <1>0, <1>1
  <2>3. EntryOf(layers', 1, N + 1, k) = EntryOf(layers', 1, N + 1 - 1, k)
    BY <2>2, EntryNext
  <2>4. EntryOf(layers', 1, N + 1, k) = EntryOf(layers', 1, N, k)
    BY <2>2, <2>3
  <2> QED
    BY <2>4 DEF ValueAt
<1>5. Levels' = Append(Levels, Levels[Len(Levels)])
  <2>1. Levels[Len(Levels)] \in Image
    BY <1>1
  <2>2. /\ Append(Levels, Levels[Len(Levels)]) \in Seq(Image) /\ Len(Append(Levels, Levels[Len(Levels)])) = N + 2
        /\ \A i \in 1 .. N + 1 : Append(Levels, Levels[Len(Levels)])[i] = Levels[i]
        /\ Append(Levels, Levels[Len(Levels)])[N + 2] = Levels[N + 1]
    BY <1>1, <2>1, AppendProperties
  <2>3. \A i \in 1 .. N + 2 : i \in 1 .. N + 1 \/ i = N + 2
    BY <1>1
  <2> QED
    BY <1>2, <1>3, <1>4, <2>2, <2>3, SameLevels
<1>6. Snapshots!Open
  BY <1>5 DEF Snapshots!Open, Snapshots!Top, Levels
<1> QED
  BY <1>6 DEF Snapshots!Next

\* The layers from i up give way to a fresh one.
LEMMA ResetRestarts ==
    ASSUME TypeOK, TypeOK', root' = root, NEW i \in 1 .. Len(layers), Len(layers') = i,
           \A j \in 1 .. i - 1 : layers'[j] = layers[j],
           \A k \in Keys : layers'[i].values[k] = Unset
    PROVE  Snapshots!Next
<1>1. /\ Len(layers) \in Nat /\ Levels \in Seq(Image) /\ Len(Levels) = Len(layers) + 1
      /\ \A j \in 1 .. Len(layers) + 1 : Levels[j] = [k \in Keys |-> ValueAt(j - 1, k)]
  BY LevelsAre
<1>2. /\ Levels' \in Seq(Image) /\ Len(Levels') = i + 1
      /\ \A j \in 1 .. i + 1 : Levels'[j] = [k \in Keys |-> ValueAt(j - 1, k)']
  BY LevelsArePrimed
<1>3. \A j \in 1 .. i : Levels'[j] = Levels[j]
  <2>1. SUFFICES ASSUME NEW j \in 1 .. i, NEW k \in Keys PROVE ValueAt(j - 1, k)' = ValueAt(j - 1, k)
    BY <1>1, <1>2
  <2>2. j - 1 \in Nat /\ \A m \in 1 .. j - 1 : layers'[m].values[k] = layers[m].values[k]
    BY <1>1
  <2> QED
    BY <2>2, ValueSame
<1>4. Levels'[i + 1] = Levels[i]
  <2>1. SUFFICES ASSUME NEW k \in Keys PROVE ValueAt(i, k)' = ValueAt(i - 1, k)'
    BY <1>1, <1>2, <1>3
  <2>2. i \in Nat \ {0} /\ layers'[i].values[k] = Unset
    BY <1>1
  <2> QED
    BY <2>2, ValueNext
<1> DEFINE low == SubSeq(Levels, 1, i)
<1>5. low \in Seq(Image) /\ Len(low) = i /\ \A j \in 1 .. i : low[j] = Levels[j]
  BY <1>1, SubSeqProperties
<1> HIDE DEF low
<1>6. Levels' = Append(low, Levels[i])
  <2>1. Levels[i] \in Image
    BY <1>1
  <2>2. /\ Append(low, Levels[i]) \in Seq(Image) /\ Len(Append(low, Levels[i])) = i + 1
        /\ \A j \in 1 .. i : Append(low, Levels[i])[j] = low[j]
        /\ Append(low, Levels[i])[i + 1] = Levels[i]
    BY <1>5, <2>1, AppendProperties
  <2>3. \A j \in 1 .. i + 1 : j \in 1 .. i \/ j = i + 1
    OBVIOUS
  <2> QED
    BY <1>2, <1>3, <1>4, <1>5, <2>2, <2>3, SameLevels
<1>7. i \in DOMAIN Levels
  BY <1>1
<1>8. Snapshots!Restart(i)
  BY <1>6 DEF Snapshots!Restart, Levels, low
<1> QED
  BY <1>7, <1>8 DEF Snapshots!Next, Levels

\* A write to the top layer.
LEMMA MutateWrites ==
    ASSUME TypeOK, TypeOK', NEW id, NEW x \in Keys, NEW v \in Vals \cup {Absent}, Mutate(id, x, v)
    PROVE  Snapshots!Next
<1>0. PICK N \in Nat : N = Len(layers)
  BY LevelsAre
<1>1. /\ N \in Nat /\ Levels \in Seq(Image) /\ Len(Levels) = N + 1
      /\ \A i \in 1 .. N + 1 : Levels[i] = [k \in Keys |-> ValueAt(i - 1, k)]
  BY <1>0, LevelsAre
<1>2. /\ layers \in Seq(Layer) /\ N \in 1 .. N /\ layers[N] \in Layer /\ root' = root
      /\ layers' = [layers EXCEPT ![N] = [layers[N] EXCEPT !.values = [layers[N].values EXCEPT ![x] = v]]]
  BY <1>0, <1>1 DEF Mutate, TypeOK
<1>3. /\ Len(layers') = N /\ \A j \in 1 .. N - 1 : layers'[j] = layers[j]
      /\ layers'[N].values[x] = v /\ \A k \in Keys : k # x => layers'[N].values[k] = layers[N].values[k]
  <2>1. layers[N].values \in [Keys -> Vals \cup {Absent, Unset}]
    BY <1>2 DEF Layer, Entries
  <2> DEFINE e == [layers[N] EXCEPT !.values = [layers[N].values EXCEPT ![x] = v]]
  <2>2. e.values = [layers[N].values EXCEPT ![x] = v] /\ e \in Layer
    BY <1>2, <2>1 DEF Layer, Entries
  <2> HIDE DEF e
  <2>3. layers' = [layers EXCEPT ![N] = e]
    BY <1>2 DEF e
  <2>4. Len(layers') = N /\ layers'[N] = e /\ \A j \in 1 .. N - 1 : layers'[j] = layers[j]
    BY <1>0, <1>2, <2>2, <2>3
  <2> QED
    BY <2>1, <2>2, <2>4
<1>4. /\ Levels' \in Seq(Image) /\ Len(Levels') = N + 1
      /\ \A i \in 1 .. N + 1 : Levels'[i] = [k \in Keys |-> ValueAt(i - 1, k)']
  BY <1>1, <1>3, LevelsArePrimed
<1>5. \A i \in 1 .. N : Levels'[i] = Levels[i]
  <2>1. SUFFICES ASSUME NEW i \in 1 .. N, NEW k \in Keys PROVE ValueAt(i - 1, k)' = ValueAt(i - 1, k)
    BY <1>1, <1>4
  <2>2. i - 1 \in Nat /\ \A j \in 1 .. i - 1 : layers'[j].values[k] = layers[j].values[k]
    BY <1>1, <1>3
  <2> QED
    BY <1>2, <2>2, ValueSame
<1>6. Levels'[N + 1] = [Levels[N + 1] EXCEPT ![x] = v]
  <2>1. SUFFICES ASSUME NEW k \in Keys PROVE ValueAt(N, k)' = IF k = x THEN v ELSE ValueAt(N, k)
    BY <1>1, <1>4
  <2>2. N \in Nat \ {0}
    BY <1>1, <1>2
  <2>3. ValueAt(N, k)' = IF layers'[N].values[k] = Unset THEN ValueAt(N - 1, k)' ELSE layers'[N].values[k]
    BY <2>2, ValueNext
  <2>4. ValueAt(N, k) = IF layers[N].values[k] = Unset THEN ValueAt(N - 1, k) ELSE layers[N].values[k]
    BY <2>2, ValueNext
  <2>5. ValueAt(N - 1, k)' = ValueAt(N - 1, k)
    <3>1. N - 1 \in Nat /\ \A j \in 1 .. N - 1 : layers'[j].values[k] = layers[j].values[k]
      BY <1>1, <1>2, <1>3
    <3> QED
      BY <1>2, <3>1, ValueSame
  <2>6. v # Unset
    BY SentinelAssumption
  <2> QED
    BY <1>3, <2>3, <2>4, <2>5, <2>6
<1>7. Levels' = [Levels EXCEPT ![Len(Levels)][x] = v]
  <2> DEFINE new == [Levels EXCEPT ![N + 1] = [Levels[N + 1] EXCEPT ![x] = v]]
  <2>1. [Levels[N + 1] EXCEPT ![x] = v] \in Image
    BY <1>1 DEF Image
  <2>2. new \in Seq(Image) /\ Len(new) = N + 1 /\ new[N + 1] = [Levels[N + 1] EXCEPT ![x] = v] /\ \A i \in 1 .. N : new[i] = Levels[i]
    BY <1>1, <2>1
  <2>3. \A i \in 1 .. N + 1 : i \in 1 .. N \/ i = N + 1
    BY <1>1
  <2> HIDE DEF new
  <2>4. Levels' = new
    BY <1>4, <1>5, <1>6, <2>2, <2>3, SameLevels
  <2> QED
    BY <1>1, <2>4 DEF new
<1>8. Len(Levels) > 1
  BY <1>1, <1>2
<1>9. Snapshots!Write(x, v)
  BY <1>7, <1>8 DEF Snapshots!Write, Levels
<1> QED
  BY <1>9 DEF Snapshots!Next

\* Levels from n up give way to the top image.
LEMMA PassesDown ==
    ASSUME TypeOK, TypeOK', NEW n \in 1 .. Len(layers) + 1, Len(layers') + 1 = n,
           \A j \in 1 .. n - 1 : Levels'[j] = Levels[j], Levels'[n] = Levels[Len(Levels)]
    PROVE  Snapshots!Next
<1>1. Len(layers) \in Nat /\ Levels \in Seq(Image) /\ Len(Levels) = Len(layers) + 1
  BY LevelsAre
<1>2. Levels' \in Seq(Image) /\ Len(Levels') = n
  BY LevelsArePrimed
<1> DEFINE low == SubSeq(Levels, 1, n - 1)
           top == Levels[Len(Levels)]
<1>3. low \in Seq(Image) /\ Len(low) = n - 1 /\ \A j \in 1 .. n - 1 : low[j] = Levels[j]
  BY <1>1, SubSeqProperties
<1>4. top \in Image
  BY <1>1
<1> HIDE DEF low, top
<1>5. Levels' = Append(low, top)
  <2>1. /\ Append(low, top) \in Seq(Image) /\ Len(Append(low, top)) = n
        /\ \A j \in 1 .. n - 1 : Append(low, top)[j] = low[j]
        /\ Append(low, top)[n] = top
    BY <1>3, <1>4, AppendProperties
  <2>2. \A j \in 1 .. n : j \in 1 .. n - 1 \/ j = n
    OBVIOUS
  <2>3. Levels'[n] = top
    BY DEF top
  <2> QED
    BY <1>2, <1>3, <2>1, <2>2, <2>3, SameLevels
<1>6. n \in DOMAIN Levels
  BY <1>1
<1>7. Snapshots!PassDown(n)
  BY <1>5 DEF Snapshots!PassDown, Snapshots!Top, Levels, low, top
<1> QED
  BY <1>6, <1>7 DEF Snapshots!Next, Levels

\* A merge: the layer below takes the entries of the layers from i up, or is cut off itself.
LEMMA MergePasses ==
    ASSUME TypeOK, TypeOK', root' = root, NEW i \in 2 .. Len(layers), Len(layers') <= i - 1,
           \A j \in 1 .. Len(layers') : layers'[j].values = IF j = i - 1 THEN Absorb(i) ELSE layers[j].values
    PROVE  Snapshots!Next
<1>0. PICK N \in Nat : N = Len(layers)
  BY LevelsAre
<1>1. /\ Levels \in Seq(Image) /\ Len(Levels) = N + 1
      /\ \A j \in 1 .. N + 1 : Levels[j] = [k \in Keys |-> ValueAt(j - 1, k)]
  BY <1>0, LevelsAre
<1>2. /\ Len(layers') \in Nat /\ Levels' \in Seq(Image) /\ Len(Levels') = Len(layers') + 1
      /\ \A j \in 1 .. Len(layers') + 1 : Levels'[j] = [k \in Keys |-> ValueAt(j - 1, k)']
  BY LevelsArePrimed
<1>3. CASE Len(layers') < i - 1
  <2>1. Len(layers') <= Len(layers) /\ \A j \in 1 .. Len(layers') : layers'[j].values = layers[j].values
    BY <1>0, <1>2, <1>3
  <2> QED
    BY <2>1, CutDiscards
<1>4. CASE Len(layers') = i - 1
  <2>1. i \in Nat /\ i - 1 \in Nat \ {0} /\ i - 1 \in 1 .. Len(layers') /\ i - 2 \in Nat /\ i \in 1 .. Len(layers') + 1 /\ i - 1 - 1 = i - 2
    BY <1>4
  <2>2. ASSUME NEW j \in 1 .. i - 1, NEW k \in Keys PROVE ValueAt(j - 1, k)' = ValueAt(j - 1, k)
    <3>1. j - 1 \in Nat /\ \A m \in 1 .. j - 1 : layers'[m].values[k] = layers[m].values[k]
      BY <1>4
    <3> QED
      BY <3>1, ValueSame
  <2>3. \A j \in 1 .. i - 1 : Levels'[j] = Levels[j]
    BY <1>0, <1>1, <1>2, <1>4, <2>2
  <2>4. ASSUME NEW k \in Keys PROVE ValueAt(i - 1, k)' = ValueAt(N, k)
    <3>1. Absorb(i)[k] = EntryOf(layers, i - 1, N, k)
      BY <1>0 DEF Absorb
    <3>2. ValueAt(i - 1, k)' = IF Absorb(i)[k] = Unset THEN ValueAt(i - 2, k)' ELSE Absorb(i)[k]
      BY <2>1, ValueNext
    <3>3. ValueAt(i - 2, k)' = ValueAt(i - 2, k)
      <4>1. \A m \in 1 .. i - 2 : layers'[m].values[k] = layers[m].values[k]
        BY <1>4
      <4> QED
        BY <2>1, <4>1, ValueSame
    <3>4. i - 1 \in 1 .. N + 1
      BY <1>0
    <3>5. EntryOf(layers, 1, N, k) =
            IF EntryOf(layers, i - 1, N, k) = Unset THEN EntryOf(layers, 1, i - 2, k) ELSE EntryOf(layers, i - 1, N, k)
      BY <2>1, <3>4, EntrySplit
    <3> QED
      BY <3>1, <3>2, <3>3, <3>5 DEF ValueAt
  <2>5. Levels'[i] = Levels[Len(Levels)]
    <3>1. Levels'[i] = [k \in Keys |-> ValueAt(i - 1, k)']
      BY <1>2, <2>1
    <3>2. Levels[N + 1] = [k \in Keys |-> ValueAt(N, k)]
      BY <1>1
    <3> QED
      BY <1>1, <2>4, <3>1, <3>2
  <2>6. i \in 1 .. Len(layers) + 1 /\ Len(layers') + 1 = i
    BY <1>0, <1>4
  <2> QED
    BY <2>3, <2>5, <2>6, PassesDown
<1> QED
  BY <1>2, <1>3, <1>4

\* Nothing is below the first layer but the root.
LEMMA ValueOfRoot == ASSUME NEW k PROVE ValueAt(0, k) = root[k] /\ ValueAt(0, k)' = root'[k]
<1>1. Setters(layers, 1, 0, k) = {} /\ Setters(layers', 1, 0, k) = {}
  BY DEF Setters
<1>2. EntryOf(layers, 1, 0, k) = Unset /\ EntryOf(layers', 1, 0, k) = Unset
  BY <1>1, EntryNone
<1> QED
  BY <1>2 DEF ValueAt

\* The flush: everything reaches the root.
LEMMA FlushPasses ==
    ASSUME TypeOK, TypeOK', root' = Flushed, layers' = <<>>
    PROVE  Snapshots!Next
<1>0. PICK N \in Nat : N = Len(layers)
  BY LevelsAre
<1>1. /\ Levels \in Seq(Image) /\ Len(Levels) = N + 1
      /\ \A j \in 1 .. N + 1 : Levels[j] = [k \in Keys |-> ValueAt(j - 1, k)]
  BY <1>0, LevelsAre
<1>2. /\ Len(layers') = 0
      /\ \A j \in 1 .. Len(layers') + 1 : Levels'[j] = [k \in Keys |-> ValueAt(j - 1, k)']
  BY LevelsArePrimed
<1>3. Levels'[1] = [k \in Keys |-> ValueAt(0, k)']
  BY <1>2
<1>4. Levels[N + 1] = [k \in Keys |-> ValueAt(N, k)]
  BY <1>1
<1>5. \A k \in Keys : ValueAt(0, k)' = ValueAt(N, k)
  BY <1>0, ValueOfRoot DEF Flushed
<1>6. Levels'[1] = Levels[Len(Levels)]
  BY <1>1, <1>3, <1>4, <1>5
<1>7. 1 \in 1 .. Len(layers) + 1 /\ Len(layers') + 1 = 1 /\ \A j \in 1 .. 1 - 1 : Levels'[j] = Levels[j]
  BY <1>0, <1>2
<1> QED
  BY <1>6, <1>7, PassesDown

\* A write to the root shows through the layers below the first that holds the key.
LEMMA RootWrites ==
    ASSUME TypeOK, TypeOK', NEW x \in Keys, NEW v \in Vals \cup {Absent},
           root' = [root EXCEPT ![x] = v], layers' = layers
    PROVE  Snapshots!Next
<1>0. PICK N \in Nat : N = Len(layers)
  BY LevelsAre
<1>1. /\ Levels \in Seq(Image) /\ Len(Levels) = N + 1
      /\ \A j \in 1 .. N + 1 : Levels[j] = [k \in Keys |-> ValueAt(j - 1, k)]
  BY <1>0, LevelsAre
<1>2. /\ Levels' \in Seq(Image) /\ Len(Levels') = N + 1
      /\ \A j \in 1 .. N + 1 : Levels'[j] = [k \in Keys |-> ValueAt(j - 1, k)']
  BY <1>0, LevelsArePrimed
<1>3. root'[x] = v /\ \A k \in Keys : k # x => root'[k] = root[k]
  BY DEF TypeOK, Image
<1>4. PICK n \in 1 .. N + 1 : /\ \A j \in 1 .. n - 1 : layers[j].values[x] = Unset
                              /\ n = N + 1 \/ layers[n].values[x] # Unset
  <2> DEFINE S == Setters(layers, 1, N, x)
  <2>1. CASE S = {}
    <3>1. \A j \in 1 .. N : layers[j].values[x] = Unset
      BY <2>1 DEF Setters
    <3> QED
      BY <3>1
  <2>2. CASE S # {}
    <3>1. S \in SUBSET Nat
      BY DEF Setters
    <3>2. PICK n \in S : \A j \in S : n <= j
      <4> HIDE DEF S
      <4> QED
        BY <2>2, <3>1, LeastExists
    <3>3. n \in 1 .. N + 1 /\ layers[n].values[x] # Unset /\ \A j \in 1 .. n - 1 : j \in 1 .. N /\ j \notin S
      BY <3>2 DEF Setters
    <3>4. \A j \in 1 .. n - 1 : layers[j].values[x] = Unset
      BY <3>3 DEF Setters
    <3> QED
      BY <3>3, <3>4
  <2> QED
    BY <2>1, <2>2
<1>5. \A k \in Keys, j \in 1 .. N + 1 : k # x => ValueAt(j - 1, k)' = ValueAt(j - 1, k)
  BY <1>3 DEF ValueAt
<1>6. ASSUME NEW j \in 1 .. N + 1 PROVE ValueAt(j - 1, x)' = IF j <= n THEN v ELSE ValueAt(j - 1, x)
  <2>1. j - 1 \in Nat /\ 1 \in Nat
    OBVIOUS
  <2>2. CASE j <= n
    <3>1. Setters(layers, 1, j - 1, x) = {}
      BY <1>4, <2>2 DEF Setters
    <3>2. EntryOf(layers, 1, j - 1, x) = Unset
      BY <2>1, <3>1, EntryNone
    <3> QED
      BY <1>3, <2>2, <3>2 DEF ValueAt
  <2>3. CASE ~(j <= n)
    <3>1. n \in Setters(layers, 1, j - 1, x)
      BY <1>4, <2>3 DEF Setters
    <3>2. EntryOf(layers, 1, j - 1, x) # Unset
      BY <2>1, <3>1, EntryNone
    <3> QED
      BY <2>3, <3>2 DEF ValueAt
  <2> QED
    BY <2>2, <2>3
<1>7. ASSUME NEW j \in 1 .. N + 1 PROVE Levels'[j] = IF j <= n THEN [Levels[j] EXCEPT ![x] = v] ELSE Levels[j]
  <2>1. Levels'[j] = [k \in Keys |-> ValueAt(j - 1, k)'] /\ Levels[j] = [k \in Keys |-> ValueAt(j - 1, k)]
    BY <1>1, <1>2
  <2>2. \A k \in Keys : ValueAt(j - 1, k)' = IF j <= n /\ k = x THEN v ELSE ValueAt(j - 1, k)
    BY <1>5, <1>6
  <2>3. CASE j <= n
    BY <2>1, <2>2, <2>3
  <2>4. CASE ~(j <= n)
    BY <2>1, <2>2, <2>4
  <2> QED
    BY <2>3, <2>4
<1>8. Levels' = [j \in DOMAIN Levels |-> IF j <= n THEN [Levels[j] EXCEPT ![x] = v] ELSE Levels[j]]
  <2>1. DOMAIN Levels = 1 .. N + 1 /\ DOMAIN Levels' = 1 .. N + 1 /\ Levels' = [j \in DOMAIN Levels' |-> Levels'[j]]
    BY <1>1, <1>2
  <2> QED
    BY <1>7, <2>1
<1>9. Snapshots!WriteRoot(x, v, n)
  BY <1>8 DEF Snapshots!WriteRoot, Levels
<1>10. n \in DOMAIN Levels
  BY <1>1
<1> QED
  BY <1>9, <1>10 DEF Snapshots!Next, Levels

-----------------------------------------------------------------------------
\* What finish leaves is a lower part of the stack it settles.
LEMMA SettleCuts ==
    ASSUME NEW ls \in Seq(Layer), NEW c, NEW d, Settle(ls, c, d)
    PROVE  Len(layers') <= Len(ls) /\ Len(layers') \in Nat /\ \A j \in 1 .. Len(layers') : layers'[j] = ls[j]
<1>1. FirstAbandoned(ls) \in 1 .. Len(ls) + 1 /\ Len(ls) \in Nat
  BY FirstAbandonedProperties
<1>2. layers' = SubSeq(ls, 1, FirstAbandoned(ls) - 1)
  BY DEF Settle
<1> QED
  BY <1>1, <1>2, CutProperties

\* Every way of ending a session discards levels or passes the top image down.
LEMMA FinishImplements ==
    ASSUME TypeOK, TypeOK', root' = root, NEW i \in 1 .. Len(layers), Finish(i)
    PROVE  Snapshots!Next
<1>1. layers \in Seq(Layer) /\ Len(layers) \in Nat /\ layers[i] \in Layer /\ i \in 1 .. Len(layers) + 1
  BY DEF TypeOK
<1>2. CASE FinishCommit(i)
  <2> DEFINE e == [layers[i] EXCEPT !.committed = TRUE]
             ls == [layers EXCEPT ![i] = e]
  <2>1. e \in Layer /\ e.values = layers[i].values
    BY <1>1 DEF Layer
  <2> HIDE DEF e
  <2>2. ls \in Seq(Layer) /\ Len(ls) = Len(layers) /\ \A j \in 1 .. Len(layers) : ls[j].values = layers[j].values
    BY <1>1, <2>1
  <2>3. Settle(ls, active - 1, layers[i].disableOnExit)
    BY <1>2 DEF FinishCommit, e
  <2> HIDE DEF ls
  <2>4. Len(layers') <= Len(layers) /\ \A j \in 1 .. Len(layers') : layers'[j].values = layers[j].values
    BY <1>1, <2>2, <2>3, SettleCuts
  <2> QED
    BY <2>4, CutDiscards
<1>3. CASE FinishRevoke(i)
  <2> DEFINE ls == SubSeq(layers, 1, i - 1)
  <2>1. ls \in Seq(Layer) /\ Len(ls) = i - 1 /\ \A j \in 1 .. i - 1 : ls[j] = layers[j]
    BY <1>1, CutProperties
  <2>2. Settle(ls, active - CountLive(layers, i), Flagged(layers, i))
    BY <1>3 DEF FinishRevoke
  <2> HIDE DEF ls
  <2>3. Len(layers') <= Len(layers) /\ \A j \in 1 .. Len(layers') : layers'[j].values = layers[j].values
    BY <1>1, <2>1, <2>2, SettleCuts
  <2> QED
    BY <2>3, CutDiscards
<1>4. CASE FinishMerge(i)
  <2> DEFINE low == SubSeq(layers, 1, i - 1)
             e == [low[i - 1] EXCEPT !.values = Absorb(i)]
             ls == [low EXCEPT ![i - 1] = e]
  <2>1. low \in Seq(Layer) /\ Len(low) = i - 1 /\ \A j \in 1 .. i - 1 : low[j] = layers[j]
    BY <1>1, CutProperties
  <2>2. Settle(ls, active - 1, Flagged(layers, i)) /\ i > 1
    BY <1>4 DEF FinishMerge
  <2>3. i \in 2 .. Len(layers) /\ i - 1 \in 1 .. Len(low) /\ i - 1 \in Nat \ {0}
    BY <1>1, <2>1, <2>2
  <2>4. Absorb(i) \in Entries
    <3>1. \A k \in Keys : EntryOf(layers, i - 1, Len(layers), k) \in Vals \cup {Absent, Unset}
      BY <1>1, <2>3, EntryType
    <3> QED
      BY <3>1 DEF Absorb, Entries
  <2> HIDE DEF low
  <2>5. low[i - 1] \in Layer
    BY <2>1, <2>3
  <2>6. e \in Layer /\ e.values = Absorb(i)
    BY <2>4, <2>5 DEF Layer
  <2> HIDE DEF e
  <2>7. ls \in Seq(Layer) /\ Len(ls) = i - 1 /\ ls[i - 1] = e /\ \A j \in 1 .. i - 1 : j # i - 1 => ls[j] = low[j]
    BY <2>1, <2>3, <2>6
  <2> HIDE DEF ls
  <2>8. Len(layers') <= i - 1 /\ Len(layers') \in Nat /\ \A j \in 1 .. Len(layers') : layers'[j] = ls[j]
    BY <2>2, <2>7, SettleCuts
  <2>9. \A j \in 1 .. Len(layers') : layers'[j].values = IF j = i - 1 THEN Absorb(i) ELSE layers[j].values
    BY <1>1, <2>1, <2>6, <2>7, <2>8
  <2> QED
    BY <2>3, <2>8, <2>9, MergePasses
<1> QED
  BY <1>2, <1>3, <1>4 DEF Finish

\* A stack that is a lower part of the one before.
LEMMA PrefixDiscards ==
    ASSUME TypeOK, TypeOK', root' = root, NEW n \in 1 .. Len(layers) + 1, layers' = SubSeq(layers, 1, n - 1)
    PROVE  Snapshots!Next
<1>1. layers \in Seq(Layer) /\ Len(layers) \in Nat
  BY DEF TypeOK
<1>2. Len(layers') = n - 1 /\ \A j \in 1 .. n - 1 : layers'[j] = layers[j]
  BY <1>1, CutProperties
<1> QED
  BY <1>1, <1>2, CutDiscards

\* A stack whose layers are marked differently, and hold the same.
LEMMA MarkedDiscards ==
    ASSUME TypeOK, TypeOK', root' = root, NEW i \in 1 .. Len(layers), NEW e, e.values = layers[i].values, e \in Layer,
           layers' = [layers EXCEPT ![i] = e]
    PROVE  Snapshots!Next
<1>1. layers \in Seq(Layer) /\ Len(layers) \in Nat
  BY DEF TypeOK
<1>2. Len(layers') = Len(layers) /\ \A j \in 1 .. Len(layers) : layers'[j].values = layers[j].values
  BY <1>1
<1> QED
  BY <1>1, <1>2, CutDiscards

\* The empty stack.
LEMMA ClearDiscards ==
    ASSUME TypeOK, TypeOK', root' = root, layers' = <<>>
    PROVE  Snapshots!Next
<1>1. Len(layers) \in Nat /\ Len(layers') = 0
  BY DEF TypeOK
<1> QED
  BY <1>1, CutDiscards

\* A fresh layer on top.
LEMMA PushImplements ==
    ASSUME TypeOK, TypeOK', root' = root, NEW t \in BOOLEAN, PushLayer(t)
    PROVE  Snapshots!Next
<1> DEFINE e == NewLayer(t /\ ~enabled)
<1>1. e \in Layer /\ \A k \in Keys : e.values[k] = Unset
  BY DEF NewLayer, Layer, Entries, TypeOK
<1>2. layers' = Append(layers, e) /\ layers \in Seq(Layer) /\ Len(layers) \in Nat
  BY DEF PushLayer, TypeOK
<1> HIDE DEF e
<1>3. Len(layers') = Len(layers) + 1 /\ layers'[Len(layers')] = e /\ \A j \in 1 .. Len(layers) : layers'[j] = layers[j]
  BY <1>1, <1>2, AppendProperties
<1> QED
  BY <1>1, <1>3, PushOpens

-----------------------------------------------------------------------------
\* Opening, ending, closing and committing sessions.
LEMMA SessionImplements ==
    ASSUME StackInv, StackInv', SessionNext
    PROVE  Snapshots!Next \/ UNCHANGED <<root, layers>>
<1>1. PICK h \in Handles : \/ \E t \in BOOLEAN : BuildSession(h, t)
                           \/ \E parent \in Owners : BuildChild(h, parent)
                           \/ FinishSession(h)
                           \/ CloseSession(h)
                           \/ \E p \in Points : CommitWithCheckpoint(h, p)
  BY DEF SessionNext
<1>2. TypeOK /\ TypeOK'
  BY DEF StackInv
<1>3. CASE \E t \in BOOLEAN : BuildSession(h, t)
  BY <1>2, <1>3, PushImplements DEF BuildSession
<1>4. CASE \E parent \in Owners : BuildChild(h, parent)
  BY <1>2, <1>4, PushImplements DEF BuildChild
<1>5. CASE FinishSession(h)
  <2>1. Finish(IndexOf(handle[h])) /\ root' = root /\ Holds(handle[h])
    BY <1>5 DEF FinishSession
  <2>2. IndexOf(handle[h]) \in 1 .. Len(layers)
    BY <2>1, OwnedLayer
  <2> QED
    BY <1>2, <2>1, <2>2, FinishImplements
<1>6. CASE CloseSession(h)
  <2> DEFINE i == IndexOf(handle[h])
  <2>1. /\ root' = root
        /\ \/ UNCHANGED layers
           \/ Holds(handle[h]) /\ Abandon(i)
           \/ Holds(handle[h]) /\ FinishRevoke(i)
    BY <1>6 DEF CloseSession
  <2>2. Holds(handle[h]) => i \in 1 .. Len(layers)
    BY OwnedLayer
  <2> HIDE DEF i
  <2>3. CASE Holds(handle[h]) /\ Abandon(i)
    <3> DEFINE e == [layers[i] EXCEPT !.abandoned = TRUE]
    <3>1. i \in 1 .. Len(layers) /\ layers[i] \in Layer
      BY <1>2, <2>2, <2>3 DEF TypeOK
    <3>2. e \in Layer /\ e.values = layers[i].values
      BY <3>1 DEF Layer
    <3>3. layers' = [layers EXCEPT ![i] = e]
      BY <2>3 DEF Abandon
    <3> HIDE DEF e
    <3> QED
      BY <1>2, <2>1, <3>1, <3>2, <3>3, MarkedDiscards
  <2>4. CASE Holds(handle[h]) /\ FinishRevoke(i)
    <3>1. Finish(i) /\ i \in 1 .. Len(layers)
      BY <2>2, <2>4 DEF Finish
    <3> QED
      BY <1>2, <2>1, <3>1, FinishImplements
  <2> QED
    BY <2>1, <2>3, <2>4
<1>7. CASE \E p \in Points : CommitWithCheckpoint(h, p)
  <2> DEFINE i == IndexOf(handle[h])
             e == [layers[i] EXCEPT !.committed = TRUE]
  <2>1. root' = root /\ Holds(handle[h]) /\ layers' = [layers EXCEPT ![i] = e]
    BY <1>7 DEF CommitWithCheckpoint
  <2>2. i \in 1 .. Len(layers) /\ layers[i] \in Layer
    BY <1>2, <2>1, OwnedLayer DEF TypeOK
  <2> HIDE DEF i
  <2>3. e \in Layer /\ e.values = layers[i].values
    BY <2>2 DEF Layer
  <2> HIDE DEF e
  <2> QED
    BY <1>2, <2>1, <2>2, <2>3, MarkedDiscards
<1> QED
  BY <1>1, <1>3, <1>4, <1>5, <1>6, <1>7

\* Writes of sessions and writes to the durable root.
LEMMA StoreImplements ==
    ASSUME StackInv, StackInv', StoreNext
    PROVE  Snapshots!Next
<1>1. PICK k \in Keys : \/ \E id \in Owners, v \in Vals \cup {Absent} : Mutate(id, k, v)
                        \/ \E v \in Vals \cup {Absent} : DurablePut(k, v)
                        \/ \E v \in Vals : PublishMetadata(k, v)
  BY DEF StoreNext
<1>2. TypeOK /\ TypeOK'
  BY DEF StackInv
<1>3. CASE \E id \in Owners, v \in Vals \cup {Absent} : Mutate(id, k, v)
  BY <1>2, <1>3, MutateWrites
<1>4. CASE \E v \in Vals \cup {Absent} : DurablePut(k, v)
  BY <1>2, <1>4, RootWrites DEF DurablePut
<1>5. CASE \E v \in Vals : PublishMetadata(k, v)
  BY <1>2, <1>5, RootWrites DEF PublishMetadata
<1> QED
  BY <1>1, <1>3, <1>4, <1>5

\* The operations of the pending pool.
LEMMA PendingImplements ==
    ASSUME StackInv, StackInv', PendingNext
    PROVE  Snapshots!Next \/ UNCHANGED <<root, layers>>
<1>1. TypeOK /\ TypeOK'
  BY DEF StackInv
<1>2. CASE PendingOpen
  BY <1>1, <1>2, PushImplements DEF PendingOpen
<1>3. CASE PendingCommit \/ PendingClose
  <2>1. Finish(IndexOf(outer)) /\ root' = root /\ outer # 0
    BY <1>3 DEF PendingCommit, PendingClose, Finish
  <2>2. IndexOf(outer) \in 1 .. Len(layers)
    BY <2>1, PendingLayer
  <2> QED
    BY <1>1, <2>1, <2>2, FinishImplements
<1>4. CASE PendingReset
  <2> DEFINE i == IndexOf(outer)
             e == NewLayer(Flagged(layers, i))
             low == SubSeq(layers, 1, i - 1)
  <2>1. layers' = Append(low, e) /\ root' = root /\ outer # 0
    BY <1>4 DEF PendingReset
  <2>2. i \in 1 .. Len(layers) /\ layers \in Seq(Layer) /\ Len(layers) \in Nat
    BY <1>1, <2>1, PendingLayer DEF TypeOK
  <2> HIDE DEF i
  <2>3. e \in Layer /\ \A k \in Keys : e.values[k] = Unset
    BY <1>1 DEF NewLayer, Layer, Entries, Flagged, TypeOK
  <2>4. low \in Seq(Layer) /\ Len(low) = i - 1 /\ \A j \in 1 .. i - 1 : low[j] = layers[j]
    BY <2>2, CutProperties
  <2> HIDE DEF e, low
  <2>5. Len(layers') = i /\ layers'[i] = e /\ \A j \in 1 .. i - 1 : layers'[j] = layers[j]
    BY <2>1, <2>2, <2>3, <2>4, AppendProperties
  <2> QED
    BY <1>1, <2>1, <2>2, <2>3, <2>5, ResetRestarts
<1>5. CASE PendingForceReset
  <2> DEFINE i == IndexOf(pendingOuter)
  <2>1. root' = root /\ (UNCHANGED layers \/ layers' = SubSeq(layers, 1, i - 1)) /\ pendingOuter = outer /\ outer # 0
    BY <1>5 DEF PendingForceReset, StackInv, PendingSlot
  <2>2. i \in 1 .. Len(layers) + 1
    BY <1>1, <2>1, PendingLayer DEF TypeOK
  <2> HIDE DEF i
  <2> QED
    BY <1>1, <2>1, <2>2, PrefixDiscards
<1> QED
  BY <1>2, <1>3, <1>4, <1>5 DEF PendingNext

\* Rewinds, flushes and the other operations on the whole stack.
LEMMA ManagerImplements ==
    ASSUME StackInv, StackInv', ManagerNext
    PROVE  Snapshots!Next \/ UNCHANGED <<root, layers>>
<1>1. TypeOK /\ TypeOK'
  BY DEF StackInv
<1>2. CASE (\E d \in Identities : RewindCheckpoint(d)) \/ Pop
  <2>1. root' = root /\ layers # <<>> /\ layers' = SubSeq(layers, 1, Len(layers) - 1)
    BY <1>2 DEF RewindCheckpoint, Pop
  <2>2. Len(layers) \in 1 .. Len(layers) + 1
    BY <1>1, <2>1 DEF TypeOK
  <2> QED
    BY <1>1, <2>1, <2>2, PrefixDiscards
<1>3. CASE FlushCommitted
  BY <1>1, <1>3, FlushPasses DEF FlushCommitted
<1>4. CASE Destroy
  BY <1>1, <1>4, ClearDiscards DEF Destroy
<1>5. CASE \E flush \in BOOLEAN : Shutdown(flush)
  BY <1>1, <1>5, FlushPasses, ClearDiscards DEF Shutdown
<1>6. CASE Enable \/ Disable \/ \E p \in Points : RecordCheckpoint(p)
  BY <1>6 DEF Enable, Disable, RecordCheckpoint
<1> QED
  BY <1>2, <1>3, <1>4, <1>5, <1>6 DEF ManagerNext

\* A new manager is one empty image.
LEMMA InitImplements == Init => Snapshots!Init
<1> SUFFICES ASSUME Init PROVE Snapshots!Init
  OBVIOUS
<1>1. layers = <<>> /\ Len(layers) = 0 /\ root = [k \in Keys |-> Absent]
  BY DEF Init
<1>2. \A k \in Keys : ValueAt(0, k) = Absent
  BY <1>1, ValueOfRoot
<1>3. Levels = <<[k \in Keys |-> Absent]>>
  <2>1. 1 .. Len(layers) + 1 = {1} /\ 1 - 1 = 0
    BY <1>1
  <2>2. Levels = [n \in {1} |-> [k \in Keys |-> ValueAt(n - 1, k)]]
    BY <2>1 DEF Levels
  <2>3. \A n \in {1} : [k \in Keys |-> ValueAt(n - 1, k)] = [k \in Keys |-> Absent]
    BY <1>2
  <2>4. Levels = [n \in {1} |-> [k \in Keys |-> Absent]]
    BY <2>2, <2>3
  <2> QED
    BY <2>4
<1> QED
  BY <1>3 DEF Snapshots!Init, Levels

\* The overlay stack implements nested snapshots: every operation of the manager on layers,
\* handles, checkpoints and the durable root is, on the images that sessions read, a step of
\* NestedSnapshots or none.
THEOREM StackImplementsSnapshots == Spec => ImplementsSnapshots
<1>1. Init => Snapshots!Init
  BY InitImplements
<1>2. StackInv /\ StackInv' /\ [Next]_vars => [Snapshots!Next]_Levels
  <2> SUFFICES ASSUME StackInv, StackInv', [Next]_vars PROVE Snapshots!Next \/ UNCHANGED Levels
    OBVIOUS
  <2>1. UNCHANGED <<root, layers>> => UNCHANGED Levels
    BY DEF Levels, ValueAt
  <2>2. CASE Next
    BY <2>1, <2>2, SessionImplements, StoreImplements, PendingImplements, ManagerImplements DEF Next
  <2>3. CASE UNCHANGED vars
    BY <2>1, <2>3 DEF vars
  <2> QED
    BY <2>2, <2>3
<1> QED
  BY <1>1, <1>2, StackInvariant, PTL DEF Spec, ImplementsSnapshots, Snapshots!Spec, Levels
=============================================================================
