--------------------------- MODULE ConsensusProofs ---------------------------
(***************************************************************************)
(* Proofs about the DPoS schedule, production accounting and maintenance   *)
(* (Dpos), about the staking actuators (Staking), about the PBFT sidecar   *)
(* (Pbft) and about block rewards and their voters (Rewards), for every    *)
(* set of witnesses, voters, accounts and views, every schedule length,    *)
(* epoch, ring size, amount and delay, every quorum, timeout and bound.    *)
(* Sums are conserved: the produced blocks add up to the head's number,    *)
(* produced and missed slots to the head's slot, the votes maintenance     *)
(* has counted are the ballots as they were when it last ran; what an      *)
(* account holds free, staked, lent and unfreezing stays what it began     *)
(* with, and the two sides of every loan are the sums of the records       *)
(* between them; the bytes the sidecar retains are those of its open       *)
(* rounds and cached votes, and every certificate it persists is backed    *)
(* by a quorum; and what a voter is paid is its share of the cycles its    *)
(* votes counted in.                                                       *)
(***************************************************************************)
EXTENDS Dpos, Staking, Pbft, Rewards, FiniteSums, TLAPS

-----------------------------------------------------------------------------
\* Remainders of the ring and of the schedule.
LEMMA Remainders ==
    ASSUME NEW n \in Nat \ {0}
    PROVE  /\ \A x \in Int : x % n \in 0..n - 1
           /\ \A x \in 0..n - 1 : x % n = x /\ (x + n) % n = x
    OBVIOUS

\* The ring's next position, and the one before it again.
LEMMA RingStep ==
    ASSUME NEW n \in Nat \ {0}, NEW x \in 0..n - 1
    PROVE  /\ (x + 1) % n \in 0..n - 1
           /\ (((x + 1) % n) + n - 1) % n = x
<1>1. CASE x < n - 1
  <2>0. x + 1 \in 0..n - 1
    BY <1>1
  <2>1. (x + 1) % n = x + 1
    BY <2>0, Remainders
  <2>2. (x + 1) + n - 1 = x + n /\ (x + n) % n = x
    BY Remainders
  <2> QED
    BY <2>0, <2>1, <2>2
<1>2. CASE x = n - 1
  <2>1. x + 1 = 0 + n /\ (0 + n) % n = 0
    BY <1>2, Remainders
  <2>2. 0 + n - 1 = x /\ 0 \in 0..n - 1
    BY <1>2
  <2>3. x % n = x
    BY Remainders
  <2> QED
    BY <2>1, <2>2, <2>3
<1> QED
    BY <1>1, <1>2

\* A percentage is at most a hundred.
LEMMA Percentage ==
    ASSUME NEW n \in Nat \ {0}, NEW k \in 0..n
    PROVE  (100 * k) \div n \in 0..100
    OBVIOUS

\* Every place in the ranking is somebody's.
LEMMA RankedCandidates ==
    ASSUME NEW ws, \A c \in Candidates : ws[c].votes \in Int
    PROVE  /\ Ranked(ws) \in Seq(Candidates) /\ Len(Ranked(ws)) = Cardinality(Candidates)
           /\ Cardinality(Candidates) \in Nat \ {0}
<1> DEFINE n == Cardinality(Candidates)
           above(c) == {d \in Candidates : Above(ws, d, c)}
           rank == [c \in Candidates |-> Rank(ws, c)]
<1>1. IsFiniteSet(Candidates) /\ Candidates # {} /\ Candidates \subseteq Int
    BY DposAssumption
<1>2. n \in Nat \ {0}
    BY <1>1, FS_CardinalityType, FS_EmptySet
<1>3. ASSUME NEW c \in Candidates
      PROVE  IsFiniteSet(above(c)) /\ Cardinality(above(c)) \in Nat /\ Rank(ws, c) = Cardinality(above(c)) + 1 /\ Rank(ws, c) \in 1..n
  <2>1. ~Above(ws, c, c)
    BY <1>1 DEF Above
  <2>2. above(c) \in SUBSET (Candidates \ {c})
    BY <2>1
  <2> HIDE DEF above
  <2>3. IsFiniteSet(Candidates \ {c}) /\ Cardinality(Candidates \ {c}) = n - 1
    BY <1>1, FS_RemoveElement
  <2>4. IsFiniteSet(above(c)) /\ Cardinality(above(c)) <= n - 1 /\ Cardinality(above(c)) \in Nat
    BY <2>2, <2>3, FS_Subset, FS_CardinalityType
  <2>5. Rank(ws, c) = Cardinality(above(c)) + 1
    BY DEF Rank, above
  <2> QED
    BY <1>2, <2>4, <2>5
<1>4. ASSUME NEW c \in Candidates, NEW d \in Candidates, Above(ws, d, c)
      PROVE  Rank(ws, d) < Rank(ws, c)
  <2>1. above(d) \subseteq above(c) /\ d \in above(c) /\ d \notin above(d)
    <3>1. ASSUME NEW e \in Candidates, Above(ws, e, d) PROVE Above(ws, e, c)
      <4>1. {ws[c].votes, ws[d].votes, ws[e].votes, c, d, e} \subseteq Int
        BY <1>1
      <4> QED
        BY <1>4, <3>1, <4>1 DEF Above
    <3>2. ~Above(ws, d, d)
      BY <1>1 DEF Above
    <3> QED
      BY <1>4, <3>1, <3>2
  <2> HIDE DEF above
  <2>2. Cardinality(above(d)) <= Cardinality(above(c)) /\ Cardinality(above(c)) # Cardinality(above(d))
    BY <1>3, <2>1, FS_Subset
  <2> QED
    BY <1>3, <2>2
<1>5. rank \in Injection(Candidates, 1..n)
  <2>1. rank \in [Candidates -> 1..n]
    BY <1>3
  <2>2. \A c, d \in Candidates : c # d => Above(ws, c, d) \/ Above(ws, d, c)
    BY <1>1 DEF Above
  <2>3. \A c, d \in Candidates : c # d => Rank(ws, c) < Rank(ws, d) \/ Rank(ws, d) < Rank(ws, c)
    BY <1>4, <2>2
  <2>4. \A c, d \in Candidates : c # d => Rank(ws, c) # Rank(ws, d)
    <3> HIDE DEF above, n
    <3>0. \A c \in Candidates : Rank(ws, c) \in 1..n
      BY <1>3
    <3>1. \A c \in Candidates : Rank(ws, c) \in Int
      BY <1>2, <3>0
    <3> QED
      BY <2>3, <3>1
  <2>5. \A c, d \in Candidates : rank[c] = rank[d] => c = d
    BY <2>4
  <2> HIDE DEF rank
  <2> QED
    BY <2>1, <2>5 DEF Injection, IsInjective
<1>6. \A i \in 1..n : \E c \in Candidates : Rank(ws, c) = i
  <2>1. IsFiniteSet(1..n) /\ Cardinality(1..n) = n
    BY <1>2, FS_Interval
  <2>2. rank \in Surjection(Candidates, 1..n)
    <3> HIDE DEF rank
    <3> QED
      BY <1>5, <2>1, FS_Injection
  <2>3. \A i \in 1..n : \E c \in Candidates : rank[c] = i
    <3> HIDE DEF rank
    <3> QED
      BY <2>2 DEF Surjection
  <2> QED
    BY <2>3
<1>7. Ranked(ws) \in [1..n -> Candidates]
    BY <1>6 DEF Ranked
<1> HIDE DEF n
<1> QED
    BY <1>2, <1>7 DEF n

\* The smaller of two numbers.
LEMMA Smaller ==
    ASSUME NEW a \in Int, NEW b \in Int
    PROVE  Min({a, b}) = (IF a <= b THEN a ELSE b)
    BY DEF Min

\* The greater of two numbers.
LEMMA Greater ==
    ASSUME NEW a \in Int, NEW b \in Int
    PROVE  Max({a, b}) = (IF a >= b THEN a ELSE b)
    BY DEF Max

\* Maintenance always finds at least one active witness, and never too many.
LEMMA TakesActive ==
    ASSUME NEW ws, \A c \in Candidates : ws[c].votes \in Int
    PROVE  TakeActive(ws) \in Seq(Candidates) /\ Len(TakeActive(ws)) \in 1..MaxActive
<1> DEFINE n == Cardinality(Candidates)
           m == Min({MaxActive, n})
           r == Ranked(ws)
<1>1. r \in Seq(Candidates) /\ Len(r) = n /\ n \in Nat \ {0} /\ MaxActive \in Nat \ {0}
    BY RankedCandidates, DposAssumption
<1>2. TakeActive(ws) = SubSeq(r, 1, m)
    BY DEF TakeActive
<1> HIDE DEF n, r
<1>3. m \in 1..MaxActive /\ m <= n
  <2>1. n \in Int /\ MaxActive \in Int
    BY <1>1
  <2>2. m = IF MaxActive <= n THEN MaxActive ELSE n
    BY ONLY <2>1, Smaller DEF m
  <2> HIDE DEF m
  <2> QED
    BY ONLY <1>1, <2>2
<1> HIDE DEF m
<1> QED
    BY <1>1, <1>2, <1>3

-----------------------------------------------------------------------------
DposSpec == DposInit /\ [][DposNext]_dposVars

\* A Witness row has its five fields.
WitnessRow(r) ==
    /\ r = [votes |-> r.votes, produced |-> r.produced, missed |-> r.missed, slot |-> r.slot, block |-> r.block]
    /\ r.votes \in Nat /\ r.produced \in Nat /\ r.missed \in Nat /\ r.block \in Nat
SeenBlock == [num : Nat, time : Nat, wit : Nat, id : {2, 3}]

HeadShape ==
    /\ dclock \in 0..MaxClock /\ dhead.num \in 0..MaxBlocks /\ dhead.time \in 0..MaxClock /\ dhead.maintenance \in BOOLEAN
    /\ dhead.num = 0 => dhead.time = 0
ActiveShape == active \in Seq(Candidates) /\ Len(active) \in 1..MaxActive
WitnessShape == \A c \in Candidates : WitnessRow(wit[c]) /\ wit[c].block <= dhead.num
RingShape ==
    /\ ring.slots \in [0..RingSize - 1 -> BOOLEAN] /\ ring.index \in 0..RingSize - 1
    /\ dhead.num > 0 => ring.slots[(ring.index + RingSize - 1) % RingSize]
GuardRecord(g) ==
    /\ g = [until |-> g.until, own |-> g.own, height |-> g.height, seen |-> g.seen]
    /\ g.seen \subseteq SeenBlock /\ IsFiniteSet(g.seen) /\ Cardinality(g.seen) <= SeenCapacity
GuardShape == GuardRecord(guard)
\* A row that is not counted yet holds the ballot in the account as its new vote.
RowShape ==
    /\ ballots \in [Voters -> Nat] /\ rows \in [Voters -> [old : Int, new : Int]]
    /\ \A v \in Voters : rows[v] = NoRow \/ (rows[v].old \in Nat /\ rows[v].new = ballots[v])

\* The ballot of a voter that the last count saw.
LastCounted(v) == IF rows[v] = NoRow THEN ballots[v] ELSE rows[v].old
VotesCounted == \A c \in Candidates : wit[c].votes = Cardinality({v \in Voters : LastCounted(v) = c})
ProducedSum == dhead.num = SumFunction([c \in Candidates |-> wit[c].produced])
SlotSum == dhead.time = SumFunction([c \in Candidates |-> wit[c].produced + wit[c].missed])

DposInv ==
    /\ HeadShape /\ ActiveShape /\ WitnessShape /\ RingShape /\ GuardShape /\ RowShape
    /\ VotesCounted /\ ProducedSum /\ SlotSum

-----------------------------------------------------------------------------
\* The slot arithmetic: a slot's time leads back to the slot, and a time to itself.
LEMMA SlotTimes ==
    ASSUME HeadShape
    PROVE  /\ \A s \in Nat \ {0} : SlotAt(TimeOf(s)) = s
           /\ \A t \in Nat : SlotAt(t) \in Nat
           /\ \A t \in Nat : SlotAt(t) > 0 => TimeOf(SlotAt(t)) = t /\ t > dhead.time
<1>1. SkipSlots \in Nat /\ dhead.num \in Nat /\ dhead.time \in Nat /\ (dhead.num = 0 => dhead.time = 0)
    BY DposAssumption DEF HeadShape
<1> DEFINE base == IF dhead.num = 0 THEN 0 ELSE dhead.time + (IF dhead.maintenance THEN SkipSlots ELSE 0)
<1>2. base \in Nat /\ base >= dhead.time
    BY <1>1
<1>3. \A s \in Int : TimeOf(s) = base + s
    BY <1>1 DEF TimeOf
<1> HIDE DEF base
<1>4. \A t \in Int : SlotAt(t) = IF t < base + 1 THEN 0 ELSE t - (base + 1) + 1
    BY <1>3 DEF SlotAt
<1> QED
    BY <1>1, <1>2, <1>3, <1>4

\* VotesCounted says what VotesConserved says, and that the counts are natural numbers.
LEMMA CountsBalance ==
    ASSUME RowShape, NEW c \in Candidates
    PROVE  /\ Cardinality({v \in Voters : LastCounted(v) = c}) + Delta(c) = Cardinality({v \in Voters : ballots[v] = c})
           /\ Delta(c) \in Int /\ Cardinality({v \in Voters : ballots[v] = c}) \in Nat
           /\ Cardinality({v \in Voters : LastCounted(v) = c}) \in Nat
<1> DEFINE last == {v \in Voters : LastCounted(v) = c}
           now == {v \in Voters : ballots[v] = c}
           same == {v \in Voters : rows[v] = NoRow /\ ballots[v] = c}
           olds == {v \in Voters : rows[v].old = c}
           news == {v \in Voters : rows[v].new = c}
<1>1. c \in Nat \ {0} /\ c # -1
    BY DposAssumption
<1>2. \A v \in Voters : rows[v] = NoRow => rows[v].old = -1 /\ rows[v].new = -1
    BY DEF NoRow
<1>3. last = same \cup olds /\ same \cap olds = {}
    BY <1>1, <1>2 DEF RowShape, LastCounted
<1>4. now = same \cup news /\ same \cap news = {}
    BY <1>1, <1>2 DEF RowShape
<1>5. Delta(c) = Cardinality(news) - Cardinality(olds)
    BY DEF Delta
<1>6. \A S \in {last, now, same, olds, news} : IsFiniteSet(S) /\ Cardinality(S) \in Nat
  <2>1. \A S \in {last, now, same, olds, news} : S \in SUBSET Voters
    OBVIOUS
  <2> HIDE DEF last, now, same, olds, news
  <2> QED
    BY <2>1, DposAssumption, FS_Subset, FS_CardinalityType
<1> HIDE DEF last, now, same, olds, news
<1>7. Cardinality(last) = Cardinality(same) + Cardinality(olds)
  <2>1. Cardinality(same \cup olds) = Cardinality(same) + Cardinality(olds) - Cardinality(same \cap olds)
    BY <1>6, FS_Union
  <2>2. Cardinality(same \cap olds) = 0
    BY <1>3, FS_EmptySet
  <2>3. Cardinality(same) \in Nat /\ Cardinality(olds) \in Nat
    BY <1>6
  <2> QED
    BY <1>3, <2>1, <2>2, <2>3
<1>8. Cardinality(now) = Cardinality(same) + Cardinality(news)
  <2>1. Cardinality(same \cup news) = Cardinality(same) + Cardinality(news) - Cardinality(same \cap news)
    BY <1>6, FS_Union
  <2>2. Cardinality(same \cap news) = 0
    BY <1>4, FS_EmptySet
  <2>3. Cardinality(same) \in Nat /\ Cardinality(news) \in Nat
    BY <1>6
  <2> QED
    BY <1>4, <2>1, <2>2, <2>3
<1>9. Cardinality(last) + Delta(c) = Cardinality(now) /\ Delta(c) \in Int /\ Cardinality(now) \in Nat /\ Cardinality(last) \in Nat
    BY <1>5, <1>6, <1>7, <1>8
<1> QED
    BY <1>9 DEF last, now

-----------------------------------------------------------------------------
\* The slots between two blocks that a witness missed.
MissedBy(previous, current, c) == {s \in previous + 1..current - 1 : active[(s % Len(active)) + 1] = c}

\* The numbers of a witness's row.
LEMMA RowNumbers ==
    ASSUME NEW r, WitnessRow(r)
    PROVE  /\ r.votes \in Nat /\ r.produced \in Nat /\ r.missed \in Nat /\ r.block \in Nat
           /\ r.votes \in Int /\ r.produced \in Int /\ r.missed \in Int
    BY DEF WitnessRow

\* Every slot is scheduled for some candidate.
LEMMA Scheduled ==
    ASSUME ActiveShape
    PROVE  \A s \in Int : active[(s % Len(active)) + 1] \in Candidates
<1> SUFFICES ASSUME NEW s \in Int PROVE active[(s % Len(active)) + 1] \in Candidates
    OBVIOUS
<1> DEFINE n == Len(active)
           i == s % n
<1>1. n \in Nat \ {0} /\ active \in Seq(Candidates)
    BY DposAssumption DEF ActiveShape
<1> HIDE DEF n
<1>2. i \in 0..n - 1
    BY <1>1, Remainders
<1> HIDE DEF i
<1>3. i + 1 \in 1..n
    BY <1>1, <1>2
<1>4. active[i + 1] \in Candidates
    BY <1>1, <1>3 DEF n
<1> QED
    BY <1>4 DEF i, n

\* account_production adds one block to its producer and to every witness the slots it missed.
LEMMA AccountEffect ==
    ASSUME ActiveShape, WitnessShape, NEW previous \in Nat, NEW current \in Nat, NEW producer \in Candidates, NEW number \in Nat
    PROVE  LET new == Account(wit, previous, current, producer, number)
           IN  \A c \in Candidates :
                  /\ WitnessRow(new[c]) /\ new[c].votes = wit[c].votes
                  /\ new[c].produced = wit[c].produced + (IF c = producer THEN 1 ELSE 0)
                  /\ new[c].missed = wit[c].missed + Cardinality(MissedBy(previous, current, c))
                  /\ Cardinality(MissedBy(previous, current, c)) \in Nat
                  /\ new[c].block \in {wit[c].block, number}
<1> DEFINE new == Account(wit, previous, current, producer, number)
           missed(c) == MissedBy(previous, current, c)
           charged(c) == IF missed(c) = {} THEN wit[c]
                         ELSE [wit[c] EXCEPT !.missed = @ + Cardinality(missed(c)), !.slot = Max(missed(c))]
<1> SUFFICES ASSUME NEW c \in Candidates
             PROVE  /\ WitnessRow(new[c]) /\ new[c].votes = wit[c].votes
                    /\ new[c].produced = wit[c].produced + (IF c = producer THEN 1 ELSE 0)
                    /\ new[c].missed = wit[c].missed + Cardinality(missed(c))
                    /\ Cardinality(missed(c)) \in Nat
                    /\ new[c].block \in {wit[c].block, number}
    OBVIOUS
<1>2. new[c] = IF c = producer THEN [charged(c) EXCEPT !.produced = @ + 1, !.slot = current, !.block = number] ELSE charged(c)
    BY DEF Account, MissedBy
<1>3. IsFiniteSet(missed(c)) /\ Cardinality(missed(c)) \in Nat /\ (missed(c) = {} => Cardinality(missed(c)) = 0)
  <2>1. IsFiniteSet(previous + 1..current - 1)
    BY FS_Interval
  <2>2. missed(c) \in SUBSET (previous + 1..current - 1)
    BY DEF MissedBy
  <2> HIDE DEF missed
  <2> QED
    BY <2>1, <2>2, FS_Subset, FS_CardinalityType, FS_EmptySet
<1>4. WitnessRow(wit[c])
    BY DEF WitnessShape
<1> HIDE DEF new, missed
<1>5. /\ WitnessRow(charged(c)) /\ charged(c).votes = wit[c].votes /\ charged(c).produced = wit[c].produced
      /\ charged(c).missed = wit[c].missed + Cardinality(missed(c)) /\ charged(c).block = wit[c].block
  <2>1. CASE missed(c) = {}
    BY <1>3, <1>4, <2>1 DEF WitnessRow
  <2>2. CASE missed(c) # {}
    <3> DEFINE r == wit[c]
               k == Cardinality(missed(c))
               m == Max(missed(c))
    <3>1. charged(c) = [r EXCEPT !.missed = @ + k, !.slot = m]
      BY <2>2
    <3>2. k \in Nat /\ WitnessRow(r)
      BY <1>3, <1>4
    <3> HIDE DEF charged, r, k, m
    <3>3. r.missed + k \in Nat
      BY <3>2 DEF WitnessRow
    <3>4. charged(c) = [votes |-> r.votes, produced |-> r.produced, missed |-> r.missed + k, slot |-> m, block |-> r.block]
      BY <3>1, <3>2 DEF WitnessRow
    <3>5. /\ charged(c).votes = r.votes /\ charged(c).produced = r.produced
          /\ charged(c).missed = r.missed + k /\ charged(c).block = r.block /\ charged(c).slot = m
      BY <3>4
    <3>6. WitnessRow(charged(c))
      BY <3>2, <3>3, <3>4, <3>5 DEF WitnessRow
    <3> QED
      BY <3>5, <3>6 DEF r, k
  <2> QED
    BY <2>1, <2>2
<1> HIDE DEF charged
<1>6. CASE c # producer
    BY <1>2, <1>3, <1>4, <1>5, <1>6 DEF WitnessRow
<1>7. CASE c = producer
  <2> DEFINE r == charged(c)
  <2>1. new[c] = [r EXCEPT !.produced = @ + 1, !.slot = current, !.block = number]
    BY <1>2, <1>7
  <2>2. WitnessRow(r)
    BY <1>5
  <2> HIDE DEF r
  <2>3. new[c] = [votes |-> r.votes, produced |-> r.produced + 1, missed |-> r.missed, slot |-> current, block |-> number]
    BY <2>1, <2>2 DEF WitnessRow
  <2>4. /\ new[c].votes = r.votes /\ new[c].produced = r.produced + 1
        /\ new[c].missed = r.missed /\ new[c].block = number /\ new[c].slot = current
    BY <2>3
  <2>5. r.produced + 1 \in Nat
    BY <2>2 DEF WitnessRow
  <2>6. WitnessRow(new[c])
    BY <2>2, <2>3, <2>4, <2>5 DEF WitnessRow
  <2>7. /\ r.votes = wit[c].votes /\ r.produced = wit[c].produced /\ r.missed = wit[c].missed + Cardinality(missed(c))
    BY <1>5 DEF r
  <2> QED
    BY <1>3, <1>7, <2>4, <2>6, <2>7
<1> QED
    BY <1>6, <1>7

\* A block fills its slot in the ring, and the index stands behind it.
LEMMA FilledEffect ==
    ASSUME RingShape, NEW elapsed \in Nat \ {0}
    PROVE  LET new == Filled(elapsed)
           IN  /\ new.slots \in [0..RingSize - 1 -> BOOLEAN] /\ new.index \in 0..RingSize - 1
               /\ new.slots[(new.index + RingSize - 1) % RingSize]
<1> DEFINE gap == IF elapsed >= RingSize THEN elapsed ELSE elapsed - 1
           last == (ring.index + gap) % RingSize
           emptied == IF elapsed >= RingSize THEN 0..RingSize - 1
                      ELSE {(ring.index + k) % RingSize : k \in 0..gap - 1}
           left == [i \in 0..RingSize - 1 |-> i \notin emptied /\ ring.slots[i]]
           new == Filled(elapsed)
<1>1. RingSize \in Nat \ {0} /\ ring.index \in Nat /\ gap \in Nat /\ ring.index + gap \in Int
    BY DposAssumption DEF RingShape
<1>2. new.slots = [left EXCEPT ![last] = TRUE] /\ new.index = (last + 1) % RingSize
    BY DEF Filled
<1> HIDE DEF gap, new
<1>3. last \in 0..RingSize - 1
    BY <1>1, Remainders
<1>4. left \in [0..RingSize - 1 -> BOOLEAN]
  <2> HIDE DEF emptied
  <2> QED
    BY DEF RingShape
<1> HIDE DEF last, left
<1>5. new.slots \in [0..RingSize - 1 -> BOOLEAN] /\ new.slots[last]
    BY <1>2, <1>3, <1>4
<1>6. new.index \in 0..RingSize - 1 /\ (new.index + RingSize - 1) % RingSize = last
    BY <1>1, <1>2, <1>3, RingStep
<1> QED
    BY <1>5, <1>6 DEF new

\* A count takes the ballots in the accounts as the votes, and clears the rows.
LEMMA MaintainEffect ==
    ASSUME ActiveShape, RowShape, NEW ws, NEW time, NEW number,
           \A c \in Candidates : WitnessRow(ws[c]),
           \A c \in Candidates : ws[c].votes = Cardinality({v \in Voters : LastCounted(v) = c})
    PROVE  LET m == Maintain(ws, time, number)
           IN  /\ m.active \in Seq(Candidates) /\ Len(m.active) \in 1..MaxActive
               /\ \A c \in Candidates :
                     /\ WitnessRow(m.wit[c]) /\ m.wit[c].produced = ws[c].produced
                     /\ m.wit[c].missed = ws[c].missed /\ m.wit[c].block = ws[c].block
               /\ \/ m.rows = rows /\ m.wit = ws
                  \/ /\ m.rows = [v \in Voters |-> NoRow]
                     /\ \A c \in Candidates : m.wit[c].votes = Cardinality({v \in Voters : ballots[v] = c})
<1> DEFINE m == Maintain(ws, time, number)
           voted == Counted(ws)
           due == dynamic.next <= time /\ number # 1
<1>1. /\ m.wit = (IF due THEN voted ELSE ws)
      /\ m.active = (IF due /\ HasRows THEN TakeActive(voted) ELSE active)
      /\ m.rows = (IF due THEN [v \in Voters |-> NoRow] ELSE rows)
  <2> HIDE DEF voted
  <2> QED
    BY DEF Maintain, voted
<1> HIDE DEF m, due
<1>2. ASSUME NEW c \in Candidates
      PROVE  /\ WitnessRow(voted[c]) /\ voted[c].produced = ws[c].produced /\ voted[c].missed = ws[c].missed
             /\ voted[c].block = ws[c].block /\ voted[c].votes = Cardinality({v \in Voters : ballots[v] = c})
  <2> DEFINE r == ws[c]
             k == r.votes + Delta(c)
  <2>1. voted[c] = [r EXCEPT !.votes = k]
    BY DEF Counted
  <2>2. k = Cardinality({v \in Voters : ballots[v] = c}) /\ k \in Nat
    BY CountsBalance
  <2>3. WitnessRow(r)
    OBVIOUS
  <2> HIDE DEF r, k, voted
  <2>4. voted[c] = [votes |-> k, produced |-> r.produced, missed |-> r.missed, slot |-> r.slot, block |-> r.block]
    BY <2>1, <2>3 DEF WitnessRow
  <2>5. voted[c].votes = k /\ voted[c].produced = r.produced /\ voted[c].missed = r.missed /\ voted[c].slot = r.slot /\ voted[c].block = r.block
    BY <2>4
  <2>6. WitnessRow(voted[c])
    BY <2>2, <2>3, <2>4, <2>5 DEF WitnessRow
  <2> QED
    BY <2>2, <2>5, <2>6 DEF r
<1> HIDE DEF voted
<1>3. \A c \in Candidates : voted[c].votes \in Int
    BY <1>2, RowNumbers
<1>4. TakeActive(voted) \in Seq(Candidates) /\ Len(TakeActive(voted)) \in 1..MaxActive
    BY <1>3, TakesActive
<1>5. m.active \in Seq(Candidates) /\ Len(m.active) \in 1..MaxActive
    BY <1>1, <1>4 DEF ActiveShape
<1>6. CASE due
    BY <1>1, <1>2, <1>5, <1>6 DEF m
<1>7. CASE ~due
    BY <1>1, <1>5, <1>7 DEF m
<1> QED
    BY <1>6, <1>7

\* One slot is produced and every slot between the blocks is missed by one witness.
LEMMA SumsGrow ==
    ASSUME ActiveShape, WitnessShape, ProducedSum, SlotSum, HeadShape, NEW time \in Nat, time > dhead.time,
           NEW producer \in Candidates, NEW ws, \A c \in Candidates : WitnessRow(ws[c]),
           \A c \in Candidates :
              /\ ws[c].produced = wit[c].produced + (IF c = producer THEN 1 ELSE 0)
              /\ ws[c].missed = wit[c].missed + Cardinality(MissedBy(dhead.time, time, c))
              /\ Cardinality(MissedBy(dhead.time, time, c)) \in Nat
    PROVE  /\ SumFunction([c \in Candidates |-> ws[c].produced]) = dhead.num + 1
           /\ SumFunction([c \in Candidates |-> ws[c].produced + ws[c].missed]) = time
<1> DEFINE A == dhead.time + 1..time - 1
           turn == [s \in A |-> active[(s % Len(active)) + 1]]
           made == [c \in Candidates |-> wit[c].produced]
           madeNew == [c \in Candidates |-> ws[c].produced]
           all == [c \in Candidates |-> wit[c].produced + wit[c].missed]
           allNew == [c \in Candidates |-> ws[c].produced + ws[c].missed]
           one == [c \in Candidates |-> IF c = producer THEN 1 ELSE 0]
           zero == [c \in Candidates |-> 0]
           gaps == [c \in Candidates |-> Cardinality({s \in A : turn[s] = c})]
           step == [c \in Candidates |-> one[c] + gaps[c]]
<1>1. IsFiniteSet(Candidates)
    BY DposAssumption
<1>2. dhead.time \in Nat /\ IsFiniteSet(A) /\ Cardinality(A) = time - dhead.time - 1
  <2>1. dhead.time \in Nat
    BY DposAssumption DEF HeadShape
  <2>2. IsFiniteSet(A) /\ Cardinality(A) = IF dhead.time + 1 > time - 1 THEN 0 ELSE (time - 1) - (dhead.time + 1) + 1
    <3>1. dhead.time + 1 \in Int /\ time - 1 \in Int
      BY <2>1
    <3> QED
      BY <3>1, FS_Interval
  <2> HIDE DEF A
  <2> QED
    BY <2>1, <2>2
<1>3. \A s \in A : turn[s] \in Candidates
    BY <1>2, Scheduled
<1>4. \A c \in Candidates : MissedBy(dhead.time, time, c) = {s \in A : turn[s] = c}
    BY DEF MissedBy
<1>5. \A c \in Candidates : gaps[c] = Cardinality(MissedBy(dhead.time, time, c)) /\ gaps[c] \in Nat
    BY <1>4
<1>6. SumFunction(gaps) = Cardinality(A)
  <2> HIDE DEF A, turn
  <2> QED
    BY <1>1, <1>2, <1>3, SumOfCounts
<1>7. \A c \in Candidates : /\ wit[c].produced \in Int /\ wit[c].missed \in Int /\ ws[c].produced \in Int /\ ws[c].missed \in Int
  <2>1. \A c \in Candidates : WitnessRow(wit[c])
    BY DEF WitnessShape
  <2> QED
    BY <2>1, RowNumbers
<1>8. /\ made \in [Candidates -> Int] /\ madeNew \in [Candidates -> Int] /\ all \in [Candidates -> Int]
      /\ allNew \in [Candidates -> Int] /\ one \in [Candidates -> Int] /\ zero \in [Candidates -> Int]
    BY <1>7
<1>9. gaps \in [Candidates -> Int] /\ step \in [Candidates -> Int]
  <2>1. gaps \in [Candidates -> Int]
    <3>1. gaps = [c \in Candidates |-> gaps[c]]
      OBVIOUS
    <3> HIDE DEF gaps
    <3> QED
      BY <1>5, <3>1
  <2> HIDE DEF gaps, one
  <2> QED
    BY <1>8, <2>1
<1>10. SumFunction(zero) = 0
    BY <1>1, <1>8, SumOfZeros
<1>11. SumFunction(one) = 1
  <2>1. \A z \in Candidates : z # producer => one[z] = zero[z]
    OBVIOUS
  <2>2. one[producer] = 1 /\ zero[producer] = 0
    OBVIOUS
  <2> HIDE DEF one, zero
  <2>3. SumFunction(one) = SumFunction(zero) + one[producer] - zero[producer]
    BY <1>1, <1>8, <2>1, SumOfChange
  <2> QED
    BY <1>10, <2>2, <2>3
<1>12. SumFunction(madeNew) = SumFunction(made) + SumFunction(one)
  <2>1. \A c \in Candidates : madeNew[c] = made[c] + one[c]
    OBVIOUS
  <2> HIDE DEF made, madeNew, one
  <2> QED
    BY <1>1, <1>8, <2>1, SumOfSums
<1>13. SumFunction(step) = SumFunction(one) + SumFunction(gaps)
  <2>1. \A c \in Candidates : step[c] = one[c] + gaps[c]
    OBVIOUS
  <2> HIDE DEF step, gaps, one
  <2> QED
    BY <1>1, <1>8, <1>9, <2>1, SumOfSums
<1>14. SumFunction(allNew) = SumFunction(all) + SumFunction(step)
  <2>1. ASSUME NEW c \in Candidates PROVE allNew[c] = all[c] + step[c]
    <3> DEFINE g == gaps[c]
    <3>1. g \in Nat /\ ws[c].missed = wit[c].missed + g
      BY <1>5
    <3>2. step[c] = (IF c = producer THEN 1 ELSE 0) + g
      OBVIOUS
    <3>3. allNew[c] = ws[c].produced + ws[c].missed /\ all[c] = wit[c].produced + wit[c].missed
      OBVIOUS
    <3> HIDE DEF g, gaps, step, all, allNew
    <3>4. ws[c].produced = wit[c].produced + (IF c = producer THEN 1 ELSE 0) /\ wit[c].produced \in Int /\ wit[c].missed \in Int
      BY <1>7
    <3> QED
      BY <3>1, <3>2, <3>3, <3>4
  <2>2. \A c \in Candidates : allNew[c] = all[c] + step[c]
    BY <2>1
  <2>3. all \in [Candidates -> Int] /\ allNew \in [Candidates -> Int] /\ step \in [Candidates -> Int]
    BY <1>8, <1>9
  <2> HIDE DEF step, all, allNew
  <2> QED
    BY <1>1, <2>2, <2>3, SumOfSums
<1>15. dhead.num \in Int /\ SumFunction(made) = dhead.num /\ SumFunction(all) = dhead.time
    BY DposAssumption DEF HeadShape, ProducedSum, SlotSum
<1> HIDE DEF made, madeNew, all, allNew, one, zero, gaps, step, A
<1>16. SumFunction(madeNew) = dhead.num + 1
    BY <1>11, <1>12, <1>15
<1>17. SumFunction(allNew) = time
    BY <1>2, <1>6, <1>11, <1>13, <1>14, <1>15
<1> QED
    BY <1>16, <1>17 DEF madeNew, allNew

\* The hooks of a block (accounting, then maintenance or the vote cycle) keep the ledger.
LEMMA HooksEffect ==
    ASSUME DposInv, NEW time \in 0..MaxClock, time > dhead.time, dhead.num < MaxBlocks,
           NEW producer \in Candidates, NEW version, ApplyHooks(time, producer, version), dclock' = dclock
    PROVE  /\ HeadShape' /\ ActiveShape' /\ WitnessShape' /\ RingShape' /\ RowShape'
           /\ VotesCounted' /\ ProducedSum' /\ SlotSum'
<1> DEFINE number == dhead.num + 1
           a == Account(wit, dhead.time, time, producer, number)
           m == Maintain(a, time, number)
           e == Max({time - dhead.time, 1})
<1>1. /\ wit' = m.wit /\ active' = m.active /\ rows' = m.rows /\ ring' = Filled(e) /\ ballots' = ballots
      /\ dhead' = [num |-> number, time |-> time, maintenance |-> m.due]
  <2> HIDE DEF a, m, e
  <2> QED
    BY DEF ApplyHooks, a, m, e
<1>2. m.due \in BOOLEAN
  <2>1. m.due <=> dynamic.next <= time
    BY DEF Maintain
  <2>2. (dynamic.next <= time) \in BOOLEAN
    OBVIOUS
  <2> HIDE DEF a
  <2> QED
    BY DEF Maintain
<1>3. dhead.num \in Nat /\ dhead.time \in Nat /\ time \in Nat /\ MaxBlocks \in Nat /\ MaxClock \in Nat /\ number \in Nat
    BY DposAssumption DEF DposInv, HeadShape
<1>4. /\ dhead'.num = number /\ dhead'.time = time /\ dhead'.maintenance = m.due
    BY <1>1
<1> HIDE DEF m
<1>5. HeadShape'
    BY <1>2, <1>3, <1>4 DEF DposInv, HeadShape
<1>6. /\ ActiveShape /\ WitnessShape /\ RowShape /\ HeadShape /\ ProducedSum /\ SlotSum /\ VotesCounted /\ RingShape
    BY DEF DposInv
<1>7. \A c \in Candidates :
         /\ WitnessRow(a[c]) /\ a[c].votes = wit[c].votes
         /\ a[c].produced = wit[c].produced + (IF c = producer THEN 1 ELSE 0)
         /\ a[c].missed = wit[c].missed + Cardinality(MissedBy(dhead.time, time, c))
         /\ Cardinality(MissedBy(dhead.time, time, c)) \in Nat
         /\ a[c].block \in {wit[c].block, number}
  <2> HIDE DEF number
  <2> QED
    BY <1>3, <1>6, AccountEffect
<1> HIDE DEF a
<1>8. \A c \in Candidates : a[c].votes = Cardinality({v \in Voters : LastCounted(v) = c})
    BY <1>6, <1>7 DEF VotesCounted
<1>9. /\ m.active \in Seq(Candidates) /\ Len(m.active) \in 1..MaxActive
      /\ \A c \in Candidates :
            /\ WitnessRow(m.wit[c]) /\ m.wit[c].produced = a[c].produced
            /\ m.wit[c].missed = a[c].missed /\ m.wit[c].block = a[c].block
      /\ \/ m.rows = rows /\ m.wit = a
         \/ /\ m.rows = [v \in Voters |-> NoRow]
            /\ \A c \in Candidates : m.wit[c].votes = Cardinality({v \in Voters : ballots[v] = c})
    BY <1>6, <1>7, <1>8, MaintainEffect DEF m
<1>10. ActiveShape'
    BY <1>1, <1>9 DEF ActiveShape
<1>11. WitnessShape'
  <2> SUFFICES ASSUME NEW c \in Candidates PROVE WitnessRow(wit'[c]) /\ wit'[c].block <= dhead'.num
    BY DEF WitnessShape
  <2>1. WitnessRow(wit'[c]) /\ wit'[c].block \in {wit[c].block, number}
    BY <1>1, <1>7, <1>9
  <2>2. wit[c].block <= dhead.num /\ wit[c].block \in Nat
    BY <1>6, RowNumbers DEF WitnessShape
  <2> QED
    BY <1>3, <1>4, <2>1, <2>2
<1>12. RingShape'
  <2>1. e \in Nat \ {0}
    <3> DEFINE d == time - dhead.time
    <3>1. d \in Int /\ d >= 1
      BY <1>3
    <3> HIDE DEF d
    <3>2. Max({d, 1}) = d
      BY <3>1, Greater
    <3> QED
      BY <3>1, <3>2 DEF d
  <2> HIDE DEF e
  <2>2. LET new == Filled(e)
        IN  /\ new.slots \in [0..RingSize - 1 -> BOOLEAN] /\ new.index \in 0..RingSize - 1
            /\ new.slots[(new.index + RingSize - 1) % RingSize]
    BY <1>6, <2>1, FilledEffect
  <2> QED
    BY <1>1, <2>2 DEF RingShape
<1>13. RowShape' /\ VotesCounted'
  <2>1. CASE m.rows = rows /\ m.wit = a
    <3>1. rows' = rows /\ wit' = a /\ ballots' = ballots
      BY <1>1, <2>1
    <3>2. RowShape'
      BY <1>6, <3>1 DEF RowShape
    <3> QED
      BY <1>8, <3>1, <3>2 DEF VotesCounted, LastCounted
  <2>2. CASE /\ m.rows = [v \in Voters |-> NoRow]
             /\ \A c \in Candidates : m.wit[c].votes = Cardinality({v \in Voters : ballots[v] = c})
    <3>1. rows' = [v \in Voters |-> NoRow] /\ ballots' = ballots
      BY <1>1, <2>2
    <3>2. NoRow \in [old : Int, new : Int]
      BY DEF NoRow
    <3>3. \A v \in Voters : rows'[v] = NoRow
      BY <3>1
    <3>4. RowShape'
      BY <1>6, <3>1, <3>2 DEF RowShape
    <3>5. \A c \in Candidates : {v \in Voters : LastCounted(v) = c}' = {v \in Voters : ballots[v] = c}
      BY <3>1, <3>3 DEF LastCounted
    <3> QED
      BY <1>1, <2>2, <3>4, <3>5 DEF VotesCounted
  <2> QED
    BY <1>9, <2>1, <2>2
<1>14. ProducedSum' /\ SlotSum'
  <2>1. \A c \in Candidates : wit'[c].produced = a[c].produced /\ wit'[c].missed = a[c].missed
    BY <1>1, <1>9
  <2>2. /\ SumFunction([c \in Candidates |-> a[c].produced]) = dhead.num + 1
        /\ SumFunction([c \in Candidates |-> a[c].produced + a[c].missed]) = time
    BY <1>3, <1>6, <1>7, SumsGrow
  <2>3. /\ [c \in Candidates |-> a[c].produced] = [c \in Candidates |-> wit'[c].produced]
        /\ [c \in Candidates |-> a[c].produced + a[c].missed] = [c \in Candidates |-> wit'[c].produced + wit'[c].missed]
    BY <2>1
  <2> QED
    BY <1>4, <2>2, <2>3 DEF ProducedSum, SlotSum
<1> QED
    BY <1>5, <1>10, <1>11, <1>12, <1>13, <1>14

-----------------------------------------------------------------------------
\* The oldest block of a set: by number, then time, then witness.
Older(o, q) ==
    \/ <<o.num, o.time, o.wit>> = <<q.num, q.time, q.wit>>
    \/ o.num < q.num \/ (o.num = q.num /\ o.time < q.time)
    \/ (o.num = q.num /\ o.time = q.time /\ o.wit < q.wit)

\* Some remembered block is the oldest.
LEMMA OldestBlock ==
    ASSUME NEW S \in SUBSET SeenBlock, S # {}
    PROVE  \E o \in S : \A q \in S : Older(o, q)
<1>1. \A q \in S : q.num \in Nat /\ q.time \in Nat /\ q.wit \in Nat
    BY DEF SeenBlock
<1> DEFINE nums == {q.num : q \in S}
<1>2. PICK n \in nums : \A k \in nums : n <= k
  <2>1. nums \in SUBSET Nat /\ nums # {}
    BY <1>1
  <2> HIDE DEF nums
  <2> QED
    BY <2>1, LeastNumber
<1> DEFINE S1 == {q \in S : q.num = n}
           times == {q.time : q \in S1}
<1>3. PICK t \in times : \A k \in times : t <= k
  <2>1. times \in SUBSET Nat /\ times # {}
    BY <1>1, <1>2
  <2> HIDE DEF times
  <2> QED
    BY <2>1, LeastNumber
<1> DEFINE S2 == {q \in S1 : q.time = t}
           wits == {q.wit : q \in S2}
<1>4. PICK w \in wits : \A k \in wits : w <= k
  <2>1. wits \in SUBSET Nat /\ wits # {}
    BY <1>1, <1>3
  <2> HIDE DEF wits
  <2> QED
    BY <2>1, LeastNumber
<1>5. PICK o \in S : o.num = n /\ o.time = t /\ o.wit = w
    BY <1>4
<1>6. ASSUME NEW q \in S PROVE Older(o, q)
  <2>1. n <= q.num
    BY <1>2
  <2>2. q.num = n => t <= q.time
    BY <1>3
  <2>3. q.num = n /\ q.time = t => w <= q.wit
    BY <1>4
  <2>4. n \in Nat /\ t \in Nat /\ w \in Nat /\ q.num \in Nat /\ q.time \in Nat /\ q.wit \in Nat
    BY <1>1, <1>5
  <2> QED
    BY <1>5, <2>1, <2>2, <2>3, <2>4 DEF Older
<1> QED
    BY <1>6

\* ProductionGuard: arming keeps the guard's shape.
LEMMA ArmKeeps ==
    ASSUME NEW g, GuardRecord(g)
    PROVE  GuardRecord(Arm(g))
<1> DEFINE h == [g EXCEPT !.until = dclock + QuietSlots]
<1>1. h = [until |-> dclock + QuietSlots, own |-> g.own, height |-> g.height, seen |-> g.seen]
    BY DEF GuardRecord
<1>2. GuardRecord(h)
  <2> HIDE DEF h
  <2>1. h.until = dclock + QuietSlots /\ h.own = g.own /\ h.height = g.height /\ h.seen = g.seen
    BY <1>1
  <2> QED
    BY <1>1, <2>1 DEF GuardRecord
<1> QED
    BY <1>2 DEF Arm

\* ProductionGuard: so does forgetting old blocks.
LEMMA PruneKeeps ==
    ASSUME NEW g, GuardRecord(g), NEW number
    PROVE  GuardRecord(Prune(g, number)) /\ Prune(g, number).own = g.own
<1> DEFINE kept == {b \in g.seen : b.time >= dclock - QuietSlots}
           top == Max({g.height, number})
           h == Prune(g, number)
<1>0. h = [g EXCEPT !.height = top, !.seen = kept]
    BY DEF Prune
<1>1. h = [until |-> g.until, own |-> g.own, height |-> top, seen |-> kept]
  <2> HIDE DEF kept, top, h
  <2> QED
    BY <1>0 DEF GuardRecord
<1>2. kept \in SUBSET g.seen
    OBVIOUS
<1> HIDE DEF kept, top, h
<1>3. h.until = g.until /\ h.own = g.own /\ h.height = top /\ h.seen = kept
    BY <1>1
<1>4. IsFiniteSet(kept) /\ Cardinality(kept) <= Cardinality(g.seen) /\ Cardinality(kept) \in Nat /\ Cardinality(g.seen) \in Nat
    BY <1>2, FS_Subset, FS_CardinalityType DEF GuardRecord
<1>5. Cardinality(kept) <= SeenCapacity /\ kept \subseteq SeenBlock
    BY <1>2, <1>4, DposAssumption DEF GuardRecord
<1> QED
    BY <1>1, <1>3, <1>4, <1>5 DEF GuardRecord, h

\* The seen blocks stay within their capacity: the oldest makes room.
LEMMA RetainKeeps ==
    ASSUME NEW g, GuardRecord(g), NEW b \in SeenBlock
    PROVE  GuardRecord(RetainBlock(g, b))
<1> DEFINE p == Prune(g, b.num)
           rest == {o \in p.seen : <<o.time, o.wit>> # <<b.time, b.wit>>}
           all == rest \cup {b}
           oldest == CHOOSE o \in all : \A q \in all : Older(o, q)
           kept == IF Cardinality(all) > SeenCapacity THEN all \ {oldest} ELSE all
           h == RetainBlock(g, b)
<1>1. GuardRecord(p)
    BY PruneKeeps
<1> HIDE DEF p
<1>2. h = [p EXCEPT !.seen = kept]
    BY DEF RetainBlock, Older, p
<1>3. rest \in SUBSET p.seen
    OBVIOUS
<1> HIDE DEF rest, h
<1>4. SeenCapacity \in Nat
    BY DposAssumption
<1>5. IsFiniteSet(rest) /\ Cardinality(rest) \in Nat /\ Cardinality(rest) <= SeenCapacity
  <2>1. IsFiniteSet(rest) /\ Cardinality(rest) <= Cardinality(p.seen) /\ Cardinality(rest) \in Nat /\ Cardinality(p.seen) \in Nat
    BY <1>1, <1>3, FS_Subset, FS_CardinalityType DEF GuardRecord
  <2> QED
    BY <1>1, <1>4, <2>1 DEF GuardRecord
<1>6. IsFiniteSet(all) /\ Cardinality(all) \in Nat /\ Cardinality(all) <= SeenCapacity + 1
  <2>1. IsFiniteSet(all) /\ Cardinality(all) = IF b \in rest THEN Cardinality(rest) ELSE Cardinality(rest) + 1
    BY <1>5, FS_AddElement
  <2> HIDE DEF all
  <2> QED
    BY <1>4, <1>5, <2>1
<1>7. all \in SUBSET SeenBlock /\ all # {}
    BY <1>1, <1>3 DEF GuardRecord
<1> HIDE DEF all
<1>8. oldest \in all
    BY <1>7, OldestBlock
<1> HIDE DEF oldest
<1>9. IsFiniteSet(all \ {oldest}) /\ Cardinality(all \ {oldest}) = Cardinality(all) - 1
    BY <1>6, <1>8, FS_RemoveElement
<1>10. kept \subseteq SeenBlock /\ IsFiniteSet(kept) /\ Cardinality(kept) <= SeenCapacity
    BY <1>4, <1>6, <1>7, <1>9
<1> HIDE DEF kept
<1>11. h = [until |-> p.until, own |-> p.own, height |-> p.height, seen |-> kept]
    BY <1>1, <1>2 DEF GuardRecord
<1>12. h.until = p.until /\ h.own = p.own /\ h.height = p.height /\ h.seen = kept
    BY <1>11
<1> QED
    BY <1>10, <1>11, <1>12 DEF GuardRecord, h

\* ProductionGuard: so do producing and receiving a block.
LEMMA GuardKeeps ==
    ASSUME GuardShape, NEW b \in SeenBlock, NEW syncing, NEW handled
    PROVE  GuardRecord(Produced(guard, b)) /\ GuardRecord(Received(guard, b, syncing, handled))
<1>1. GuardRecord(Produced(guard, b))
  <2> DEFINE g == [guard EXCEPT !.own = b.id]
  <2>1. g = [until |-> guard.until, own |-> b.id, height |-> guard.height, seen |-> guard.seen]
    BY DEF GuardShape, GuardRecord
  <2>2. GuardRecord(g)
    <3> HIDE DEF g
    <3>1. g.until = guard.until /\ g.own = b.id /\ g.height = guard.height /\ g.seen = guard.seen
      BY <2>1
    <3> QED
      BY <2>1, <3>1 DEF GuardShape, GuardRecord
  <2> HIDE DEF g
  <2>3. GuardRecord(RetainBlock(g, b))
    BY <2>2, RetainKeeps
  <2> QED
    BY <2>3 DEF Produced, GuardShape, g
<1>2. GuardRecord(Received(guard, b, syncing, handled))
  <2> DEFINE p == Prune(guard, b.num)
             again == \E o \in p.seen : o.time = b.time /\ o.wit = b.wit /\ o.id # b.id
  <2>1. GuardRecord(guard) /\ GuardRecord(Arm(guard)) /\ GuardRecord(p)
    BY ArmKeeps, PruneKeeps DEF GuardShape
  <2>2. Received(guard, b, syncing, handled) \in {guard, Arm(guard), Arm(p), Arm(RetainBlock(p, b))}
    <3>1. Received(guard, b, syncing, handled) =
            IF ~Valid(b) \/ b.id = guard.own \/ syncing \/ b.wit \notin LocalWitnesses THEN guard
            ELSE IF ~handled THEN Arm(guard)
            ELSE IF guard.own > b.id THEN guard
            ELSE IF again THEN Arm(p) ELSE Arm(RetainBlock(p, b))
      BY DEF Received
    <3> HIDE DEF p, again
    <3> QED
      BY <3>1
  <2> HIDE DEF p
  <2>3. GuardRecord(Arm(p)) /\ GuardRecord(RetainBlock(p, b)) /\ GuardRecord(Arm(RetainBlock(p, b)))
    BY <2>1, ArmKeeps, RetainKeeps
  <2> QED
    BY <2>1, <2>2, <2>3
<1> QED
    BY <1>1, <1>2

-----------------------------------------------------------------------------
\* At genesis nothing is produced, missed, voted or counted.
LEMMA DposInitially ==
    ASSUME DposInit
    PROVE  DposInv
<1>1. \A c \in Candidates : wit[c] = FreshWitness
    BY DEF DposInit
<1>2. WitnessRow(FreshWitness) /\ FreshWitness.votes = 0 /\ FreshWitness.produced = 0 /\ FreshWitness.missed = 0 /\ FreshWitness.block = 0
    BY DEF FreshWitness, WitnessRow
<1>3. HeadShape
    BY DposAssumption DEF DposInit, HeadShape
<1>4. ActiveShape
  <2>1. \A c \in Candidates : wit[c].votes \in Int
    BY <1>1, <1>2
  <2> QED
    BY <2>1, TakesActive DEF DposInit, ActiveShape
<1>5. WitnessShape
  <2>1. dhead.num = 0
    BY DEF DposInit
  <2> QED
    BY <1>1, <1>2, <2>1 DEF WitnessShape
<1>6. RingShape
    BY DposAssumption DEF DposInit, RingShape
<1>7. GuardShape
  <2>1. guard = [until |-> -1, own |-> 0, height |-> 0, seen |-> {}]
    BY DEF DposInit
  <2>2. guard.until = -1 /\ guard.own = 0 /\ guard.height = 0 /\ guard.seen = {}
    BY <2>1
  <2>3. IsFiniteSet({}) /\ Cardinality({}) = 0 /\ SeenCapacity \in Nat
    BY FS_EmptySet, DposAssumption
  <2>4. 0 <= SeenCapacity /\ {} \subseteq SeenBlock
    BY <2>3
  <2> QED
    BY <2>1, <2>2, <2>3, <2>4 DEF GuardShape, GuardRecord
<1>8. RowShape
    BY DEF DposInit, RowShape, NoRow, NoVote
<1>9. VotesCounted
  <2> SUFFICES ASSUME NEW c \in Candidates PROVE wit[c].votes = Cardinality({v \in Voters : LastCounted(v) = c})
    BY DEF VotesCounted
  <2>1. {v \in Voters : LastCounted(v) = c} = {}
    BY DposAssumption DEF DposInit, LastCounted, NoVote
  <2> QED
    BY <1>1, <1>2, <2>1, FS_EmptySet
<1>10. ProducedSum /\ SlotSum
  <2> DEFINE made == [c \in Candidates |-> wit[c].produced]
             all == [c \in Candidates |-> wit[c].produced + wit[c].missed]
  <2>1. /\ made \in [Candidates -> Int] /\ all \in [Candidates -> Int]
        /\ (\A c \in Candidates : made[c] = 0) /\ (\A c \in Candidates : all[c] = 0)
    BY <1>1, <1>2
  <2>2. dhead.num = 0 /\ dhead.time = 0
    BY DEF DposInit
  <2> HIDE DEF made, all
  <2>3. SumFunction(made) = 0
    BY <2>1, DposAssumption, SumOfZeros
  <2>4. SumFunction(all) = 0
    BY <2>1, DposAssumption, SumOfZeros
  <2> QED
    BY <2>2, <2>3, <2>4 DEF ProducedSum, SlotSum, made, all
<1> QED
    BY <1>3, <1>4, <1>5, <1>6, <1>7, <1>8, <1>9, <1>10 DEF DposInv

\* A block of this node's own keeps the invariant.
LEMMA ProducePreserves ==
    ASSUME DposInv, NEW version \in Versions, Produce(version)
    PROVE  DposInv'
<1> DEFINE slot == SlotAt(dclock)
           time == TimeOf(slot)
           w == ScheduledWitness(slot)
<1>1. /\ dhead.num < MaxBlocks /\ slot > 0 /\ w \in LocalWitnesses /\ ApplyHooks(time, w, version)
      /\ guard' = Produced(guard, Block(time, w, 2)) /\ dclock' = dclock
    BY DEF Produce, Plan
<1>2. HeadShape /\ GuardShape
    BY DEF DposInv
<1>3. dclock \in 0..MaxClock /\ dclock \in Nat /\ dhead.num \in Nat /\ MaxClock \in Nat
    BY <1>2, DposAssumption DEF HeadShape
<1>4. time = dclock /\ time > dhead.time
    BY <1>1, <1>2, <1>3, SlotTimes
<1> HIDE DEF time, w
<1>5. time \in 0..MaxClock /\ time \in Nat /\ w \in Candidates /\ w \in Nat
    BY <1>1, <1>3, <1>4, DposAssumption
<1>6. Block(time, w, 2) \in SeenBlock
    BY <1>3, <1>5 DEF Block, SeenBlock
<1>7. GuardShape'
    BY <1>1, <1>2, <1>6, GuardKeeps DEF GuardShape
<1>8. /\ HeadShape' /\ ActiveShape' /\ WitnessShape' /\ RingShape' /\ RowShape'
      /\ VotesCounted' /\ ProducedSum' /\ SlotSum'
    BY <1>1, <1>4, <1>5, HooksEffect
<1> QED
    BY <1>7, <1>8 DEF DposInv

\* So does a block of another node, whether on schedule or not.
LEMMA ReceivePreserves ==
    ASSUME DposInv, NEW time \in 1..dclock, NEW w \in Candidates, NEW version \in Versions, NEW syncing \in BOOLEAN,
           ReceiveBlock(time, w, version, syncing)
    PROVE  DposInv'
<1> DEFINE handled == SlotAt(time) > 0 /\ ScheduledWitness(SlotAt(time)) = w
<1>1. /\ dhead.num < MaxBlocks /\ time > dhead.time /\ dclock' = dclock
      /\ guard' = Received(guard, Block(time, w, 3), syncing, handled)
      /\ IF handled THEN ApplyHooks(time, w, version)
         ELSE UNCHANGED <<dhead, active, wit, ballots, rows, ring, dynamic, stats, changes>>
    BY DEF ReceiveBlock
<1> HIDE DEF handled
<1>2. HeadShape /\ GuardShape
    BY DEF DposInv
<1>3. dclock \in 0..MaxClock /\ dclock \in Nat /\ dhead.num \in Nat /\ MaxClock \in Nat /\ w \in Nat
    BY <1>2, DposAssumption DEF HeadShape
<1>4. time \in 0..MaxClock /\ time \in Nat
    BY <1>3
<1>5. Block(time, w, 3) \in SeenBlock
    BY <1>3, <1>4 DEF Block, SeenBlock
<1>6. GuardShape'
    BY <1>1, <1>2, <1>5, GuardKeeps DEF GuardShape
<1>7. /\ HeadShape' /\ ActiveShape' /\ WitnessShape' /\ RingShape' /\ RowShape'
      /\ VotesCounted' /\ ProducedSum' /\ SlotSum'
  <2>1. CASE handled
    BY <1>1, <1>4, <2>1, HooksEffect
  <2>2. CASE ~handled
    <3>1. UNCHANGED <<dhead, active, wit, ballots, rows, ring>>
      BY <1>1, <2>2
    <3> QED
      BY <1>1, <3>1 DEF DposInv, HeadShape, ActiveShape, WitnessShape, RingShape, RowShape, VotesCounted, LastCounted,
                        ProducedSum, SlotSum
  <2> QED
    BY <2>1, <2>2
<1> QED
    BY <1>6, <1>7 DEF DposInv

\* A vote leaves what the last count saw alone.
LEMMA VotePreserves ==
    ASSUME DposInv, NEW v \in Voters, NEW c \in Candidates, Vote(v, c)
    PROVE  DposInv'
<1>1. UNCHANGED <<dclock, dhead, active, wit, ring, guard>>
    BY DEF Vote
<1>2. /\ HeadShape' /\ ActiveShape' /\ WitnessShape' /\ RingShape' /\ GuardShape' /\ ProducedSum' /\ SlotSum'
    BY <1>1 DEF DposInv, HeadShape, ActiveShape, WitnessShape, RingShape, GuardShape, ProducedSum, SlotSum
<1>3. RowShape /\ VotesCounted /\ c \in Nat
    BY DposAssumption DEF DposInv
<1> DEFINE old == IF rows[v] = NoRow THEN ballots[v] ELSE rows[v].old
<1>4. rows' = [rows EXCEPT ![v] = [old |-> old, new |-> c]] /\ ballots' = [ballots EXCEPT ![v] = c]
    BY DEF Vote
<1>5. old \in Nat /\ old = LastCounted(v)
    BY <1>3 DEF RowShape, LastCounted
<1> HIDE DEF old
<1>6. /\ rows'[v] = [old |-> old, new |-> c] /\ rows'[v].old = old /\ rows'[v].new = c /\ ballots'[v] = c
      /\ \A u \in Voters : u # v => rows'[u] = rows[u] /\ ballots'[u] = ballots[u]
    BY <1>3, <1>4 DEF RowShape
<1>7. rows'[v] # NoRow
    BY <1>5, <1>6 DEF NoRow
<1>8. RowShape'
  <2>1. ballots' \in [Voters -> Nat] /\ rows' \in [Voters -> [old : Int, new : Int]]
    BY <1>3, <1>4, <1>5 DEF RowShape
  <2>2. \A u \in Voters : rows'[u] = NoRow \/ (rows'[u].old \in Nat /\ rows'[u].new = ballots'[u])
    BY <1>3, <1>5, <1>6 DEF RowShape
  <2> QED
    BY <2>1, <2>2 DEF RowShape
<1>9. \A u \in Voters : LastCounted(u)' = LastCounted(u)
    BY <1>5, <1>6, <1>7 DEF LastCounted
<1>10. VotesCounted'
  <2>1. \A d \in Candidates : {u \in Voters : LastCounted(u) = d}' = {u \in Voters : LastCounted(u) = d}
    BY <1>9
  <2> QED
    BY <1>1, <1>3, <2>1 DEF VotesCounted
<1> QED
    BY <1>2, <1>8, <1>10 DEF DposInv

\* Every step keeps the invariant.
LEMMA DposStep ==
    ASSUME DposInv, [DposNext]_dposVars
    PROVE  DposInv'
<1>1. CASE \E version \in Versions : Produce(version)
    BY <1>1, ProducePreserves
<1>2. CASE \E time \in 1..dclock, w \in Candidates, version \in Versions, syncing \in BOOLEAN :
              ReceiveBlock(time, w, version, syncing)
    BY <1>2, ReceivePreserves
<1>3. CASE \E v \in Voters, c \in Candidates : Vote(v, c)
    BY <1>3, VotePreserves
<1>4. CASE DposTick
  <2>1. UNCHANGED <<dhead, active, wit, ballots, rows, ring, guard>> /\ dclock < MaxClock /\ dclock' = dclock + 1
    BY <1>4 DEF DposTick
  <2>2. HeadShape'
    BY <2>1, DposAssumption DEF DposInv, HeadShape
  <2> QED
    BY <2>1, <2>2 DEF DposInv, ActiveShape, WitnessShape, RingShape, GuardShape, RowShape, VotesCounted, LastCounted,
                      ProducedSum, SlotSum
<1>5. CASE UNCHANGED dposVars
    BY <1>5 DEF dposVars, DposInv, HeadShape, ActiveShape, WitnessShape, RingShape, GuardShape, RowShape, VotesCounted,
                LastCounted, ProducedSum, SlotSum
<1> QED
    BY <1>1, <1>2, <1>3, <1>4, <1>5 DEF DposNext

\* The ledger of consensus: rows, ring, schedule and guard keep their shapes; votes are those of
\* the last count; produced and missed slots add up to the head (account_production,
\* do_maintenance, VoteWitness, ProductionGuard).
THEOREM DposInvariant == DposSpec => []DposInv
<1> QED
    BY DposInitially, DposStep, PTL DEF DposSpec

\* Participation counts slots of the ring.
LEMMA ParticipationInRange ==
    ASSUME RingShape
    PROVE  Participation \in 0..100
<1> DEFINE full == {i \in 0..RingSize - 1 : ring.slots[i]}
<1>1. RingSize \in Nat \ {0}
    BY DposAssumption
<1>2. IsFiniteSet(0..RingSize - 1) /\ Cardinality(0..RingSize - 1) = RingSize
    BY <1>1, FS_Interval
<1>3. full \in SUBSET (0..RingSize - 1)
    OBVIOUS
<1> HIDE DEF full
<1>4. Cardinality(full) \in 0..RingSize
  <2>1. Cardinality(full) <= Cardinality(0..RingSize - 1) /\ IsFiniteSet(full)
    BY <1>2, <1>3, FS_Subset
  <2>2. Cardinality(full) \in Nat
    BY <2>1, FS_CardinalityType
  <2> QED
    BY <1>1, <1>2, <2>1, <2>2
<1>5. (100 * Cardinality(full)) \div RingSize \in 0..100
    BY <1>1, <1>4, Percentage
<1> QED
    BY <1>5 DEF Participation, full

\* Every variable of consensus keeps its type; the participation rate of apply_filled_slot's ring
\* stays a percentage and no schedule is empty.
THEOREM DposTypes == DposSpec => []DposTypeOK
<1>1. DposInv => DposTypeOK
  <2> SUFFICES ASSUME DposInv PROVE DposTypeOK
    OBVIOUS
  <2>1. \A c \in Candidates : wit[c].votes \in Nat /\ wit[c].block <= dhead.num
    BY RowNumbers DEF DposInv, WitnessShape
  <2>2. Participation \in 0..100
    BY ParticipationInRange DEF DposInv
  <2> QED
    BY <2>1, <2>2 DEF DposInv, HeadShape, ActiveShape, RingShape, GuardShape, GuardRecord, DposTypeOK
<1> QED
    BY <1>1, DposInvariant, PTL

\* Every slot up to the head is charged exactly once, as produced by or missed by one witness
\* (account_production), through gaps, changes of the schedule and maintenance, for any number of
\* witnesses and blocks.
THEOREM SlotsAreAccounted == DposSpec => []SlotsAccounted
<1>1. DposInv => SlotsAccounted
  <2> SUFFICES ASSUME DposInv PROVE SlotsAccounted
    OBVIOUS
  <2>1. \A s \in Nat \ {0} : SlotAt(TimeOf(s)) = s
    BY SlotTimes DEF DposInv
  <2>2. \A s \in 1..MaxClock : s \in Nat \ {0}
    BY DposAssumption
  <2> QED
    BY <2>1, <2>2 DEF DposInv, ProducedSum, SlotSum, RingShape, SlotsAccounted
<1> QED
    BY <1>1, DposInvariant, PTL

\* However often a voter changes its ballot within a period (VoteWitness), the votes counted so far
\* and the rows do_maintenance has still to apply add up to one vote per voter, for the witness the
\* voter last named.
THEOREM VotesAreConserved == DposSpec => []VotesConserved
<1>1. DposInv => VotesConserved
    BY CountsBalance DEF DposInv, VotesCounted, VotesConserved
<1> QED
    BY <1>1, DposInvariant, PTL

-----------------------------------------------------------------------------
(* The staking actuators: the types of the rows, what the inductive invariant  *)
(* of the ledger is, and the operators the actuators share.                    *)

PerKind == [Kinds -> Nat]
Items == [kind : Kinds, amount : Nat, expire : Nat]
ItemBags == UNION {[D -> Nat] : D \in {E \in SUBSET Items : IsFiniteSet(E)}}
Row == [balance : Nat, allowance : Nat, frozen : PerKind, expire : PerKind, delegated : PerKind,
        acquired : PerKind, frozen2 : PerKind, delegated2 : PerKind, acquired2 : PerKind,
        unfrozen : ItemBags, votes : Nat, oldPower : Int]
Grant == [there : BOOLEAN, amount : PerKind, expire : PerKind]

StakeTypes ==
    /\ acct \in [Accounts -> Row] /\ legacy \in [Pairs -> Grant] /\ granted \in [Pairs \X BOOLEAN -> Grant]
    /\ v2Open \in BOOLEAN /\ newModel \in BOOLEAN /\ stakeNow \in Nat

\* The old power is set aside only under the new model, and -1 stands for none.
OldPowerSound(r) == r.oldPower >= -1 /\ (newModel \/ r.oldPower = 0)
Backed(r) == r.votes * Trx <= Power(r)
\* What no record holds is not lent.
RecordsHold == \A g \in Pairs \X BOOLEAN : granted[g].there \/ granted[g].amount = None

StakeInv ==
    /\ StakeTypes /\ (\A a \in Accounts : OldPowerSound(acct[a])) /\ RecordsHold
    /\ StakeConserved /\ DelegationsAgree /\ VotesBacked

\* The resources are few.
LEMMA KindsFinite == IsFiniteSet(Kinds) /\ IsFiniteSet(Shared) /\ Shared \in SUBSET Kinds
<1>1. IsFiniteSet({"bandwidth", "energy", "power"})
  <2>1. IsFiniteSet({"bandwidth"})
    BY FS_Singleton
  <2>2. IsFiniteSet({"bandwidth"} \cup {"energy"})
    BY <2>1, FS_AddElement
  <2>3. IsFiniteSet(({"bandwidth"} \cup {"energy"}) \cup {"power"})
    BY <2>2, FS_AddElement
  <2>4. ({"bandwidth"} \cup {"energy"}) \cup {"power"} = {"bandwidth", "energy", "power"}
    OBVIOUS
  <2> QED
    BY <2>3, <2>4
<1>2. Kinds \in SUBSET {"bandwidth", "energy", "power"} /\ Shared \in SUBSET Kinds
  BY StakingAssumption DEF Shared
<1>3. IsFiniteSet(Kinds)
  BY <1>1, <1>2, FS_Subset
<1> QED
  BY <1>2, <1>3, FS_Subset

\* So are the pairs of accounts.
LEMMA PairsFinite == IsFiniteSet(Pairs)
<1>1. IsFiniteSet(Accounts \X Accounts)
  BY StakingAssumption, FS_Product
<1>2. Pairs \in SUBSET (Accounts \X Accounts)
  BY DEF Pairs
<1> QED
  BY <1>1, <1>2, FS_Subset

\* One amount grows or shrinks.
LEMMA PlusIs ==
    ASSUME NEW f \in PerKind, NEW k \in Kinds, NEW x \in Int, f[k] + x >= 0
    PROVE  /\ Plus(f, k, x) \in PerKind /\ Plus(f, k, x)[k] = f[k] + x
           /\ \A j \in Kinds : j # k => Plus(f, k, x)[j] = f[j]
  BY DEF Plus, PerKind

-----------------------------------------------------------------------------
\* The value of a list of unfreezings.
LEMMA SumOfType ==
    ASSUME NEW us \in ItemBags
    PROVE  /\ us \in [DOMAIN us -> Nat] /\ DOMAIN us \in SUBSET Items /\ IsFiniteSet(DOMAIN us)
           /\ [u \in DOMAIN us |-> us[u] * u.amount] \in [DOMAIN us -> Nat]
           /\ SumOf(us) \in Nat
<1>1. us \in [DOMAIN us -> Nat] /\ DOMAIN us \in SUBSET Items /\ IsFiniteSet(DOMAIN us)
  BY DEF ItemBags
<1>2. \A u \in DOMAIN us : us[u] \in Nat /\ u.amount \in Nat
  BY <1>1 DEF Items
<1>3. \A m, n \in Nat : m * n \in Nat
  OBVIOUS
<1>4. \A u \in DOMAIN us : us[u] * u.amount \in Nat
  BY <1>2, <1>3
<1> DEFINE w == [u \in DOMAIN us |-> us[u] * u.amount]
<1>5. w \in [DOMAIN us -> Nat]
  BY <1>4
<1> HIDE DEF w
<1>6. SumFunction(w) \in Nat
  BY <1>1, <1>5, SumOfNaturals
<1> QED
  BY <1>1, <1>5, <1>6 DEF SumOf, w

\* A part of a list, and its value beside that of the rest.
LEMMA SumOfSplit ==
    ASSUME NEW us \in ItemBags, NEW A \in SUBSET DOMAIN us
    PROVE  /\ Restrict(us, A) \in ItemBags /\ Restrict(us, DOMAIN us \ A) \in ItemBags
           /\ SumOf(us) = SumOf(Restrict(us, A)) + SumOf(Restrict(us, DOMAIN us \ A))
<1> DEFINE w == [u \in DOMAIN us |-> us[u] * u.amount]
<1>1. /\ us \in [DOMAIN us -> Nat] /\ DOMAIN us \in SUBSET Items /\ IsFiniteSet(DOMAIN us)
      /\ w \in [DOMAIN us -> Nat]
  BY SumOfType
<1>2. ASSUME NEW B \in SUBSET DOMAIN us
      PROVE  Restrict(us, B) \in ItemBags /\ SumOf(Restrict(us, B)) = SumFunction(Restrict(w, B))
  <2>1. IsFiniteSet(B) /\ B \in SUBSET Items
    BY <1>1, FS_Subset
  <2>2. Restrict(us, B) \in [B -> Nat] /\ DOMAIN Restrict(us, B) = B
    BY <1>1 DEF Restrict
  <2>3. Restrict(us, B) \in ItemBags
    BY <2>1, <2>2 DEF ItemBags
  <2>4. [u \in B |-> Restrict(us, B)[u] * u.amount] = Restrict(w, B)
    BY DEF Restrict
  <2>5. SumOf(Restrict(us, B)) = SumFunction([u \in B |-> Restrict(us, B)[u] * u.amount])
    BY <2>2 DEF SumOf
  <2> QED
    BY <2>3, <2>4, <2>5
<1>3. w \in [DOMAIN us -> Int]
  BY <1>1
<1>4. SumOf(us) = SumFunction(w)
  BY DEF SumOf
<1> HIDE DEF w
<1>5. SumFunction(w) = SumFunction(Restrict(w, A)) + SumFunction(Restrict(w, DOMAIN us \ A))
  BY <1>1, <1>3, SumOfParts
<1>6. DOMAIN us \ A \in SUBSET DOMAIN us
  OBVIOUS
<1> QED
  BY <1>2, <1>4, <1>5, <1>6

\* One more unfreezing.
LEMMA SumOfAdd ==
    ASSUME NEW us \in ItemBags, NEW u \in Items, NEW b, b = us (+) SetToBag({u})
    PROVE  b \in ItemBags /\ SumOf(b) = SumOf(us) + u.amount
<1> DEFINE D == DOMAIN us
           w == [v \in D |-> us[v] * v.amount]
           y == [v \in D \cup {u} |-> b[v] * v.amount]
<1>1. /\ us \in [D -> Nat] /\ D \in SUBSET Items /\ IsFiniteSet(D) /\ w \in [D -> Nat] /\ SumOf(us) = SumFunction(w)
  BY SumOfType DEF SumOf
<1>2. IsFiniteSet(D \cup {u}) /\ D \cup {u} \in SUBSET Items
  BY <1>1, FS_AddElement
<1>3. /\ b \in [D \cup {u} -> Nat] /\ DOMAIN b = D \cup {u} /\ b[u] = (IF u \in D THEN us[u] ELSE 0) + 1
      /\ \A v \in D : v # u => b[v] = us[v]
  <2>1. b = [e \in D \cup {u} |-> (IF e \in D THEN us[e] ELSE 0) + (IF e \in {u} THEN 1 ELSE 0)]
    BY DEF (+), SetToBag
  <2>2. \A e \in D : us[e] \in Nat
    BY <1>1
  <2> HIDE DEF D
  <2>3. \A e \in D \cup {u} : b[e] = (IF e \in D THEN us[e] ELSE 0) + (IF e \in {u} THEN 1 ELSE 0)
    BY ONLY <2>1
  <2>4. \A e \in D \cup {u} : b[e] \in Nat
    BY ONLY <2>2, <2>3
  <2>5. b \in [D \cup {u} -> Nat] /\ DOMAIN b = D \cup {u}
    <3>1. b = [e \in D \cup {u} |-> b[e]]
      BY ONLY <2>1
    <3> QED
      BY ONLY <2>4, <3>1
  <2>6. b[u] = (IF u \in D THEN us[u] ELSE 0) + 1
    BY ONLY <2>3
  <2>7. \A v \in D : v # u => b[v] = us[v]
    BY ONLY <2>2, <2>3
  <2> QED
    BY <2>5, <2>6, <2>7
<1>4. b \in ItemBags /\ SumOf(b) = SumFunction(y) /\ y \in [D \cup {u} -> Nat]
  <2>1. b \in ItemBags
    BY <1>2, <1>3 DEF ItemBags
  <2>2. SumOf(b) = SumFunction(y)
    BY <1>3 DEF SumOf
  <2>3. y \in [D \cup {u} -> Nat]
    BY <1>3, <2>1, SumOfType
  <2> QED
    BY <2>1, <2>2, <2>3
<1>5. u.amount \in Nat
  BY DEF Items
<1>6. CASE u \in D
  <2>1. D \cup {u} = D
    BY <1>6
  <2>2. \A v \in D : v # u => y[v] = w[v]
    BY <1>3, <2>1
  <2>3. b[u] = us[u] + 1 /\ us[u] \in Nat
    BY <1>1, <1>3, <1>6
  <2>4. y[u] = w[u] + u.amount
    <3>1. y[u] = b[u] * u.amount /\ w[u] = us[u] * u.amount
      BY <1>6
    <3>2. \A m, n \in Nat : (m + 1) * n = m * n + n
      OBVIOUS
    <3> HIDE DEF y, w
    <3> QED
      BY <1>5, <2>3, <3>1, <3>2
  <2>5. w \in [D -> Int] /\ y \in [D -> Int]
    <3> HIDE DEF w, y, D
    <3>1. y \in [D -> Nat] /\ w \in [D -> Nat]
      BY <1>1, <1>4, <2>1
    <3> QED
      BY ONLY <3>1
  <2> HIDE DEF y, w, D
  <2>6. SumFunction(y) = SumFunction(w) + y[u] - w[u]
    BY <1>1, <1>6, <2>2, <2>5, SumOfChange
  <2>7. w[u] \in Int /\ SumFunction(w) \in Int
    BY <1>1, <1>6, <2>5, SumIsInteger
  <2> QED
    BY <1>1, <1>4, <1>5, <2>4, <2>6, <2>7
<1>7. CASE u \notin D
  <2>1. (D \cup {u}) \ {u} = D
    BY <1>7
  <2>2. Restrict(y, D) = w
    BY <1>3, <1>7 DEF Restrict
  <2>3. y[u] = u.amount
    <3>1. b[u] = 1 /\ y[u] = b[u] * u.amount
      BY <1>3, <1>7
    <3> HIDE DEF y
    <3> QED
      BY <1>5, <3>1
  <2>4. y \in [D \cup {u} -> Int]
    BY <1>4
  <2> HIDE DEF y, w, D
  <2>5. SumFunction(y) = SumFunction(Restrict(y, (D \cup {u}) \ {u})) + y[u]
    BY <1>2, <2>4, SumWithout
  <2> QED
    BY <1>1, <1>4, <2>1, <2>2, <2>3, <2>5
<1> QED
  BY <1>6, <1>7

-----------------------------------------------------------------------------
(* Rows: their stake, their power and their worth. *)

Staked(r) == SumFunction([k \in Kinds |-> StakeIn(r, k)])
SameStake(r, s) ==
    s.frozen = r.frozen /\ s.delegated = r.delegated /\ s.frozen2 = r.frozen2 /\ s.delegated2 = r.delegated2
SameLoans(r, s) ==
    s.delegated = r.delegated /\ s.acquired = r.acquired /\ s.delegated2 = r.delegated2 /\ s.acquired2 = r.acquired2
SameMoney(r, s) == s.balance = r.balance /\ s.allowance = r.allowance /\ s.unfrozen = r.unfrozen

\* Everything a row is summed up to is a natural.
LEMMA RowSums ==
    ASSUME NEW r \in Row
    PROVE  /\ \A k \in Kinds : StakeIn(r, k) \in Nat
           /\ LegacyPower(r) \in Nat /\ Staked(r) \in Nat /\ SumOf(r.unfrozen) \in Nat /\ Dedicated(r) \in Nat
           /\ Worth(r) = r.balance + r.allowance + SumOf(r.unfrozen) + Staked(r)
<1>1. ASSUME NEW k \in Kinds PROVE StakeIn(r, k) \in Nat
  <2>1. r.frozen[k] \in Nat /\ r.delegated[k] \in Nat /\ r.frozen2[k] \in Nat /\ r.delegated2[k] \in Nat
    BY DEF Row, PerKind
  <2> QED
    BY <2>1 DEF StakeIn
<1>2. /\ [k \in Kinds |-> StakeIn(r, k)] \in [Kinds -> Nat] /\ [k \in Shared |-> StakeIn(r, k)] \in [Shared -> Nat]
  BY <1>1, KindsFinite
<1>3. LegacyPower(r) \in Nat /\ Staked(r) \in Nat
  BY <1>2, KindsFinite, SumOfNaturals DEF LegacyPower, Staked
<1>4. SumOf(r.unfrozen) \in Nat
  BY SumOfType DEF Row
<1>5. Dedicated(r) \in Nat
  BY DEF Dedicated, Row, PerKind
<1> QED
  BY <1>1, <1>3, <1>4, <1>5 DEF Worth, Staked

\* The same stake gives the same power.
LEMMA SameSums ==
    ASSUME NEW r \in Row, NEW s \in Row, SameStake(r, s)
    PROVE  LegacyPower(s) = LegacyPower(r) /\ Staked(s) = Staked(r) /\ Dedicated(s) = Dedicated(r)
<1>1. \A k \in Kinds : StakeIn(s, k) = StakeIn(r, k)
  BY DEF StakeIn, SameStake
<1>2. Dedicated(s) = Dedicated(r)
  BY DEF Dedicated, SameStake
<1>3. [k \in Kinds |-> StakeIn(s, k)] = [k \in Kinds |-> StakeIn(r, k)]
  BY <1>1
<1>4. [k \in Shared |-> StakeIn(s, k)] = [k \in Shared |-> StakeIn(r, k)]
  BY <1>1, KindsFinite
<1> QED
  BY <1>2, <1>3, <1>4 DEF LegacyPower, Staked

\* The stake of one kind changes.
LEMMA ChangedSums ==
    ASSUME NEW r \in Row, NEW s \in Row, NEW k \in Kinds, \A j \in Kinds : j # k => StakeIn(s, j) = StakeIn(r, j)
    PROVE  /\ Staked(s) = Staked(r) + StakeIn(s, k) - StakeIn(r, k)
           /\ k \in Shared => LegacyPower(s) = LegacyPower(r) + StakeIn(s, k) - StakeIn(r, k)
           /\ k \notin Shared => LegacyPower(s) = LegacyPower(r)
<1>1. \A j \in Kinds : StakeIn(r, j) \in Int /\ StakeIn(s, j) \in Int
  BY RowSums
<1>2. ASSUME NEW S \in SUBSET Kinds, IsFiniteSet(S)
      PROVE  LET f == [j \in S |-> StakeIn(r, j)]
                 g == [j \in S |-> StakeIn(s, j)]
             IN  /\ k \in S => SumFunction(g) = SumFunction(f) + StakeIn(s, k) - StakeIn(r, k)
                 /\ k \notin S => SumFunction(g) = SumFunction(f)
  <2> DEFINE f == [j \in S |-> StakeIn(r, j)]
             g == [j \in S |-> StakeIn(s, j)]
  <2>1. f \in [S -> Int] /\ g \in [S -> Int]
    BY <1>1
  <2>2. CASE k \in S
    <3>1. \A z \in S : z # k => g[z] = f[z]
      OBVIOUS
    <3>2. g[k] = StakeIn(s, k) /\ f[k] = StakeIn(r, k)
      BY <2>2
    <3> HIDE DEF f, g
    <3>3. SumFunction(g) = SumFunction(f) + g[k] - f[k]
      BY <1>2, <2>1, <2>2, <3>1, SumOfChange
    <3> QED
      BY <2>2, <3>2, <3>3 DEF f, g
  <2>3. CASE k \notin S
    <3>1. g = f
      BY <2>3
    <3> QED
      BY <2>3, <3>1
  <2> QED
    BY <2>2, <2>3
<1>3. k \in Kinds /\ IsFiniteSet(Kinds) /\ IsFiniteSet(Shared) /\ Shared \in SUBSET Kinds /\ Kinds \in SUBSET Kinds
  BY KindsFinite
<1>4. Staked(s) = Staked(r) + StakeIn(s, k) - StakeIn(r, k)
  BY <1>2, <1>3 DEF Staked
<1> QED
  BY <1>2, <1>3, <1>4 DEF LegacyPower

\* Power by the model in force.
LEMMA PowerIs ==
    ASSUME NEW r \in Row, newModel \in BOOLEAN, OldPowerSound(r)
    PROVE  /\ ~newModel => Power(r) = LegacyPower(r)
           /\ newModel /\ r.oldPower = 0 => Power(r) = Dedicated(r) + LegacyPower(r)
           /\ newModel /\ r.oldPower = -1 => Power(r) = Dedicated(r)
           /\ newModel /\ r.oldPower > 0 => Power(r) = Dedicated(r) + r.oldPower
           /\ Power(r) \in Nat
<1>1. LegacyPower(r) \in Nat /\ Dedicated(r) \in Nat /\ r.oldPower \in Int /\ r.oldPower >= -1
  BY RowSums DEF Row, OldPowerSound
<1> QED
  BY <1>1 DEF Power, AllPower

\* initialize_old_tron_power changes what the old power is, and not the power.
LEMMA RememberedIs ==
    ASSUME NEW r \in Row, newModel \in BOOLEAN, OldPowerSound(r), NEW s, s = Remembered(r)
    PROVE  /\ s \in Row /\ OldPowerSound(s) /\ SameStake(r, s) /\ SameLoans(r, s) /\ SameMoney(r, s)
           /\ s.votes = r.votes /\ s.expire = r.expire
           /\ Power(s) = Power(r) /\ (newModel => s.oldPower # 0) /\ (~newModel => s = r)
<1>1. LegacyPower(r) \in Nat
  BY RowSums
<1>2. CASE newModel /\ r.oldPower = 0
  <2>1. PICK v \in Int : v = IF LegacyPower(r) = 0 THEN -1 ELSE LegacyPower(r)
    BY <1>1
  <2>2. s = [r EXCEPT !.oldPower = v]
    BY <1>2, <2>1 DEF Remembered
  <2>3. /\ s \in Row /\ SameStake(r, s) /\ SameLoans(r, s) /\ SameMoney(r, s) /\ s.votes = r.votes /\ s.expire = r.expire
        /\ s.oldPower = v
    BY <2>2 DEF Row, SameStake, SameLoans, SameMoney
  <2>4. OldPowerSound(s) /\ v # 0
    BY <1>1, <1>2, <2>1, <2>3 DEF OldPowerSound
  <2>5. Dedicated(s) = Dedicated(r) /\ Dedicated(r) \in Nat
    BY <2>3, SameSums, RowSums
  <2>6. Power(s) = Power(r)
    BY <1>1, <1>2, <2>1, <2>3, <2>4, <2>5, PowerIs
  <2> QED
    BY <1>2, <2>3, <2>4, <2>6
<1>3. CASE ~(newModel /\ r.oldPower = 0)
  <2>1. s = r
    BY <1>3 DEF Remembered
  <2> QED
    BY <1>3, <2>1 DEF SameStake, SameLoans, SameMoney
<1> QED
  BY <1>2, <1>3

\* What is due is paid out: the row is worth the same.
LEMMA PaidIs ==
    ASSUME NEW r \in Row, stakeNow \in Nat, NEW s, s = Paid(r)
    PROVE  /\ s \in Row /\ SameStake(r, s) /\ SameLoans(r, s) /\ s.votes = r.votes /\ s.oldPower = r.oldPower
           /\ Worth(s) = Worth(r)
<1> DEFINE us == r.unfrozen
           A == {u \in DOMAIN us : u.expire <= stakeNow}
           B == {u \in DOMAIN us : u.expire > stakeNow}
<1>1. us \in ItemBags /\ r.balance \in Nat /\ r.allowance \in Nat
  BY DEF Row
<1>2. A \in SUBSET DOMAIN us /\ B = DOMAIN us \ A
  <2>1. \A u \in DOMAIN us : u.expire \in Nat
    BY <1>1, SumOfType DEF Items
  <2> QED
    BY <2>1
<1>3. /\ Due(r) \in ItemBags /\ Undue(r) \in ItemBags /\ SumOf(us) = SumOf(Due(r)) + SumOf(Undue(r))
  <2>1. Due(r) = Restrict(us, A) /\ Undue(r) = Restrict(us, DOMAIN us \ A)
    BY <1>2 DEF Due, Undue
  <2> HIDE DEF A, us
  <2> QED
    BY <1>1, <1>2, <2>1, SumOfSplit
<1>4. SumOf(Due(r)) \in Nat /\ SumOf(Undue(r)) \in Nat
  BY <1>3, SumOfType
<1>5. PICK x \in Nat : x = r.balance + SumOf(Due(r))
  BY <1>1, <1>4
<1>6. s = [r EXCEPT !.balance = x, !.unfrozen = Undue(r)]
  BY <1>5 DEF Paid
<1>7. /\ s \in Row /\ SameStake(r, s) /\ SameLoans(r, s) /\ s.votes = r.votes /\ s.oldPower = r.oldPower
      /\ s.balance = x /\ s.allowance = r.allowance /\ s.unfrozen = Undue(r)
  BY <1>3, <1>6 DEF Row, SameStake, SameLoans
<1>8. /\ Worth(s) = s.balance + s.allowance + SumOf(s.unfrozen) + Staked(s)
      /\ Worth(r) = r.balance + r.allowance + SumOf(us) + Staked(r) /\ Staked(s) = Staked(r) /\ Staked(r) \in Nat
  BY <1>7, RowSums, SameSums
<1>9. Worth(s) = (r.balance + SumOf(Due(r))) + r.allowance + SumOf(Undue(r)) + Staked(r)
  BY <1>5, <1>7, <1>8
<1> HIDE DEF us
<1>10. Worth(s) = Worth(r)
  BY <1>1, <1>3, <1>4, <1>8, <1>9
<1> QED
  BY <1>7, <1>10

-----------------------------------------------------------------------------
(* Votes. *)

\* scale_legacy_votes: the share that is kept is backed by the power that is left.
LEMMA ScaledShare ==
    ASSUME NEW v \in Nat, NEW new \in Nat, NEW old \in Nat, old > 0, NEW t \in Nat, v * t <= old
    PROVE  (v * new) \div old \in Nat /\ ((v * new) \div old) * t <= new
<1> DEFINE m == v * new
           q == m \div old
<1>1. m \in Nat /\ (\A i, j \in Nat : i * j \in Nat)
  OBVIOUS
<1>2. m * t = (v * t) * new
  OBVIOUS
<1> HIDE DEF m
<1>3. q \in Nat /\ q * old <= m
  BY <1>1
<1> HIDE DEF q
<1>4. (v * t) * new <= old * new
  <2>1. \A i, j, n \in Nat : i <= j => i * n <= j * n
    OBVIOUS
  <2> QED
    BY ONLY <1>1, <2>1, v \in Nat, t \in Nat, old \in Nat, new \in Nat, v * t <= old
<1>5. (q * old) * t <= m * t
  <2>1. \A i, j, n \in Nat : i <= j => i * n <= j * n
    OBVIOUS
  <2> QED
    BY ONLY <1>1, <1>3, <2>1, t \in Nat, old \in Nat
<1>6. (q * old) * t = old * (q * t)
  BY ONLY <1>3, old \in Nat, t \in Nat
<1>7. old * (q * t) <= old * new
  <2> DEFINE a == (q * old) * t
             b == m * t
             c == (v * t) * new
             d == old * new
             e == old * (q * t)
  <2>1. a \in Nat /\ b \in Nat /\ c \in Nat /\ d \in Nat /\ e \in Nat
    BY <1>1, <1>3
  <2>2. a = e /\ a <= b /\ b = c /\ c <= d
    BY <1>2, <1>4, <1>5, <1>6
  <2> HIDE DEF a, b, c, d, e
  <2>3. e <= d
    BY <2>1, <2>2
  <2> QED
    BY <2>3 DEF d, e
<1>8. q * t \in Nat
  BY <1>1, <1>3
<1>9. \A i, j \in Nat : old * i <= old * j => i <= j
  OBVIOUS
<1>10. q * t <= new
  BY ONLY <1>7, <1>8, <1>9, new \in Nat
<1> QED
  BY <1>3, <1>10 DEF q, m

\* A row without votes is backed.
LEMMA UnvotedIs ==
    ASSUME NEW r \in Row, newModel \in BOOLEAN, OldPowerSound(r), NEW s, s = Unvoted(r)
    PROVE  /\ s \in Row /\ OldPowerSound(s) /\ SameStake(r, s) /\ SameLoans(r, s) /\ SameMoney(r, s)
           /\ s.votes = 0 /\ s.oldPower = r.oldPower /\ s.expire = r.expire
<1>1. s = [r EXCEPT !.votes = 0]
  BY DEF Unvoted
<1> QED
  BY <1>1 DEF Row, SameStake, SameLoans, SameMoney, OldPowerSound

LEMMA NoVotesBacked ==
    ASSUME NEW r \in Row, newModel \in BOOLEAN, OldPowerSound(r), r.votes = 0
    PROVE  Backed(r)
<1>1. Power(r) \in Nat /\ Trx \in Nat
  BY PowerIs, StakingAssumption
<1>2. r.votes * Trx = 0
  BY <1>1
<1> QED
  BY <1>1, <1>2 DEF Backed

\* What scaling leaves of the votes is backed.
LEMMA ScaledIs ==
    ASSUME NEW r \in Row, newModel \in BOOLEAN, OldPowerSound(r), ~newModel, NEW old \in Nat, r.votes * Trx <= old,
           NEW s, s = Scaled(r, old)
    PROVE  /\ s \in Row /\ OldPowerSound(s) /\ SameStake(r, s) /\ SameLoans(r, s) /\ SameMoney(r, s) /\ Backed(s)
<1>1. LegacyPower(r) \in Nat /\ Trx \in Nat /\ r.votes \in Nat /\ Power(r) = LegacyPower(r)
  BY RowSums, PowerIs, StakingAssumption DEF Row
<1>2. CASE LegacyPower(r) >= r.votes * Trx
  <2>1. s = r
    BY <1>2 DEF Scaled
  <2> QED
    BY <1>1, <1>2, <2>1 DEF SameStake, SameLoans, SameMoney, Backed
<1>3. CASE ~(LegacyPower(r) >= r.votes * Trx)
  <2>0. r.votes * Trx \in Nat
    BY <1>1
  <2>1. old > 0
    BY <1>1, <1>3, <2>0
  <2>2. PICK n \in Nat : n = (r.votes * LegacyPower(r)) \div old /\ n * Trx <= LegacyPower(r)
    BY <1>1, <2>1, ScaledShare
  <2>3. s = [r EXCEPT !.votes = n]
    BY <1>3, <2>2 DEF Scaled
  <2>4. s \in Row /\ SameStake(r, s) /\ SameLoans(r, s) /\ SameMoney(r, s) /\ OldPowerSound(s) /\ s.votes = n
    BY <2>3 DEF Row, SameStake, SameLoans, SameMoney, OldPowerSound
  <2>5. Power(s) = LegacyPower(s) /\ LegacyPower(s) = LegacyPower(r)
    BY <2>4, PowerIs, SameSums
  <2> QED
    BY <2>2, <2>4, <2>5 DEF Backed
<1> QED
  BY <1>2, <1>3

-----------------------------------------------------------------------------
(* Loans: the two sides of a sum over the pairs. *)

\* What is lent between one pair is part of what its owner lends and its receiver holds.
LEMMA LentType ==
    ASSUME NEW lent \in [Pairs -> PerKind], NEW k \in Kinds, NEW a \in Accounts
    PROVE  /\ LentBy(a, lent, k) \in Nat /\ LentTo(a, lent, k) \in Nat
           /\ \A p \in Pairs : p[1] = a => lent[p][k] <= LentBy(a, lent, k)
           /\ \A p \in Pairs : p[2] = a => lent[p][k] <= LentTo(a, lent, k)
<1> DEFINE by == {q \in Pairs : q[1] = a}
           to == {q \in Pairs : q[2] = a}
           f == [p \in by |-> lent[p][k]]
           g == [p \in to |-> lent[p][k]]
<1>1. IsFiniteSet(by) /\ IsFiniteSet(to)
  BY PairsFinite, FS_Subset
<1>2. f \in [by -> Nat] /\ g \in [to -> Nat]
  BY DEF PerKind
<1>3. LentBy(a, lent, k) = SumFunction(f) /\ LentTo(a, lent, k) = SumFunction(g)
  BY DEF LentBy, LentTo
<1>4. (\A p \in by : f[p] = lent[p][k]) /\ (\A p \in to : g[p] = lent[p][k])
  OBVIOUS
<1> HIDE DEF f, g
<1>5. /\ SumFunction(f) \in Nat /\ SumFunction(g) \in Nat
      /\ (\A p \in by : f[p] <= SumFunction(f)) /\ (\A p \in to : g[p] <= SumFunction(g))
  BY <1>1, <1>2, SumOfNaturals
<1> QED
  BY <1>3, <1>4, <1>5

\* One loan grows or shrinks: so do one owner's sum and one receiver's, and no other.
LEMMA LentChange ==
    ASSUME NEW lent \in [Pairs -> PerKind], NEW new \in [Pairs -> PerKind], NEW p \in Pairs, NEW k \in Kinds,
           \A q \in Pairs, j \in Kinds : (q # p \/ j # k) => new[q][j] = lent[q][j]
    PROVE  \A a \in Accounts, j \in Kinds :
             /\ LentBy(a, new, j) = LentBy(a, lent, j) + IF a = p[1] /\ j = k THEN new[p][k] - lent[p][k] ELSE 0
             /\ LentTo(a, new, j) = LentTo(a, lent, j) + IF a = p[2] /\ j = k THEN new[p][k] - lent[p][k] ELSE 0
<1>1. ASSUME NEW S \in SUBSET Pairs, NEW j \in Kinds
      PROVE  LET f == [q \in S |-> lent[q][j]]
                 g == [q \in S |-> new[q][j]]
             IN  SumFunction(g) = SumFunction(f) + IF p \in S /\ j = k THEN new[p][k] - lent[p][k] ELSE 0
  <2> DEFINE f == [q \in S |-> lent[q][j]]
             g == [q \in S |-> new[q][j]]
  <2>1. IsFiniteSet(S)
    BY PairsFinite, FS_Subset
  <2>2. f \in [S -> Int] /\ g \in [S -> Int]
    BY DEF PerKind
  <2>3. SumFunction(f) \in Int
    BY <2>1, <2>2, SumIsInteger
  <2>4. CASE p \in S /\ j = k
    <3>1. (\A z \in S : z # p => g[z] = f[z]) /\ g[p] = new[p][k] /\ f[p] = lent[p][k] /\ p \in S
      BY <2>4
    <3> HIDE DEF f, g
    <3>2. SumFunction(g) = SumFunction(f) + g[p] - f[p] /\ g[p] \in Int /\ f[p] \in Int
      BY <2>1, <2>2, <3>1, SumOfChange
    <3>3. SumFunction(g) = SumFunction(f) + (new[p][k] - lent[p][k])
      BY <2>3, <3>1, <3>2
    <3> QED
      BY <2>4, <3>3 DEF f, g
  <2>5. CASE ~(p \in S /\ j = k)
    <3>1. g = f
      BY <2>5
    <3> HIDE DEF f, g
    <3>2. SumFunction(g) = SumFunction(f) + 0
      BY <2>3, <3>1
    <3> QED
      BY <2>5, <3>2 DEF f, g
  <2> QED
    BY <2>4, <2>5
<1>2. TAKE a \in Accounts, j \in Kinds
<1> DEFINE by == {q \in Pairs : q[1] = a}
           to == {q \in Pairs : q[2] = a}
<1>3. by \in SUBSET Pairs /\ to \in SUBSET Pairs /\ (p \in by <=> p[1] = a) /\ (p \in to <=> p[2] = a)
  OBVIOUS
<1>4. LentBy(a, new, j) = LentBy(a, lent, j) + IF a = p[1] /\ j = k THEN new[p][k] - lent[p][k] ELSE 0
  BY <1>1, <1>3 DEF LentBy
<1>5. LentTo(a, new, j) = LentTo(a, lent, j) + IF a = p[2] /\ j = k THEN new[p][k] - lent[p][k] ELSE 0
  BY <1>1, <1>3 DEF LentTo
<1> QED
  BY <1>4, <1>5

-----------------------------------------------------------------------------
(* Steps that change one row. *)

\* What the actuators that leave the loans alone keep of a row.
Keeps(r, s) == s \in Row /\ OldPowerSound(s) /\ Backed(s) /\ SameLoans(r, s) /\ Worth(s) = Worth(r)

\* What the invariant says of one row.
LEMMA RowFacts ==
    ASSUME StakeInv, NEW a \in Accounts
    PROVE  /\ acct[a] \in Row /\ OldPowerSound(acct[a]) /\ Backed(acct[a]) /\ newModel \in BOOLEAN /\ stakeNow \in Nat
  BY DEF StakeInv, StakeTypes, VotesBacked, Backed

\* Nothing changes in the records: what is lent does not either.
LEMMA LentSame ==
    ASSUME UNCHANGED <<legacy, granted>>
    PROVE  /\ \A a \in Accounts, k \in Kinds : LentBy(a, Lent2, k)' = LentBy(a, Lent2, k) /\ LentTo(a, Lent2, k)' = LentTo(a, Lent2, k)
           /\ \A a \in Accounts, k \in Kinds : LentBy(a, Lent1, k)' = LentBy(a, Lent1, k) /\ LentTo(a, Lent1, k)' = LentTo(a, Lent1, k)
<1>1. Lent2' = Lent2 /\ Lent1' = Lent1
  BY DEF Lent2, Lent1
<1> QED
  BY <1>1 DEF LentBy, LentTo

LEMMA RowStep ==
    ASSUME StakeInv, NEW a \in Accounts, NEW s, Keeps(acct[a], s), acct' = [acct EXCEPT ![a] = s],
           UNCHANGED <<legacy, granted, index1, index2, v2Open, newModel, stakeNow>>
    PROVE  StakeInv'
<1>1. /\ acct \in [Accounts -> Row] /\ s \in Row /\ acct' \in [Accounts -> Row] /\ acct'[a] = s
      /\ \A b \in Accounts : b # a => acct'[b] = acct[b]
  BY DEF StakeInv, StakeTypes, Keeps
<1>2. StakeTypes'
  BY <1>1 DEF StakeInv, StakeTypes
<1>3. (\A b \in Accounts : OldPowerSound(acct[b]))'
  BY <1>1 DEF StakeInv, OldPowerSound, Keeps
<1>4. RecordsHold'
  BY DEF StakeInv, RecordsHold
<1>5. StakeConserved'
  <2>1. \A b \in Accounts : Worth(acct'[b]) = Stake[b] + Allowance[b]
    BY <1>1 DEF StakeInv, StakeConserved, Keeps
  <2> QED
    BY <2>1 DEF StakeConserved, Worth, SumOf, StakeIn
<1>6. VotesBacked'
  <2>1. \A b \in Accounts : Backed(acct'[b])
    BY <1>1 DEF StakeInv, VotesBacked, Keeps, Backed
  <2> QED
    BY <2>1 DEF VotesBacked, Backed, Power, AllPower, LegacyPower, StakeIn, Dedicated
<1>7. DelegationsAgree'
  <2>1. \A b \in Accounts : SameLoans(acct[b], acct'[b])
    BY <1>1 DEF Keeps, SameLoans
  <2>2. \A b \in Accounts, k \in Shared :
          /\ acct'[b].delegated2[k] = LentBy(b, Lent2, k)' /\ acct'[b].acquired2[k] = LentTo(b, Lent2, k)'
          /\ acct'[b].delegated[k] = LentBy(b, Lent1, k)' /\ acct'[b].acquired[k] = LentTo(b, Lent1, k)'
    BY <2>1, LentSame, KindsFinite DEF StakeInv, DelegationsAgree, SameLoans
  <2> QED
    BY <2>2 DEF StakeInv, DelegationsAgree
<1> QED
  BY <1>2, <1>3, <1>4, <1>5, <1>6, <1>7 DEF StakeInv

\* The same stake and money are worth the same.
LEMMA SameWorth ==
    ASSUME NEW r \in Row, NEW s \in Row, SameStake(r, s), SameMoney(r, s)
    PROVE  Worth(s) = Worth(r)
  BY SameSums, RowSums DEF SameMoney

\* More power backs the same votes.
LEMMA MorePower ==
    ASSUME newModel \in BOOLEAN, NEW r \in Row, NEW s \in Row, OldPowerSound(r), Backed(r), s.oldPower = r.oldPower,
           s.votes = r.votes, LegacyPower(s) >= LegacyPower(r), Dedicated(s) >= Dedicated(r)
    PROVE  OldPowerSound(s) /\ Backed(s)
<1>1. OldPowerSound(s)
  BY DEF OldPowerSound
<1>2. /\ LegacyPower(r) \in Nat /\ Dedicated(r) \in Nat /\ LegacyPower(s) \in Nat /\ Dedicated(s) \in Nat
      /\ r.oldPower \in Int /\ r.oldPower >= -1 /\ r.votes \in Nat /\ Trx \in Nat
  BY RowSums, StakingAssumption DEF Row, OldPowerSound
<1>3. Power(r) <= Power(s) /\ Power(r) \in Nat /\ Power(s) \in Nat
  BY <1>1, <1>2, PowerIs
<1>4. r.votes * Trx \in Nat
  BY <1>2
<1> QED
  BY <1>1, <1>3, <1>4 DEF Backed

\* Stake of one kind that is frozen, for either version.
LEMMA DedicatedIs ==
    ASSUME NEW r \in Row, NEW s \in Row,
           \A k \in Kinds : s.frozen[k] + s.frozen2[k] >= r.frozen[k] + r.frozen2[k] \/ k # "power"
    PROVE  Dedicated(s) >= Dedicated(r)
  BY RowSums DEF Dedicated, Row, PerKind

\* Stake of one kind that comes from, or goes to, what is free and unfreezing.
LEMMA KindMoved ==
    ASSUME NEW r \in Row, NEW s \in Row, NEW k \in Kinds, NEW d \in Int, StakeIn(s, k) = StakeIn(r, k) + d,
           \A j \in Kinds : j # k => StakeIn(s, j) = StakeIn(r, j),
           s.balance + s.allowance + SumOf(s.unfrozen) + d = r.balance + r.allowance + SumOf(r.unfrozen)
    PROVE  /\ Worth(s) = Worth(r)
           /\ k \in Shared => LegacyPower(s) = LegacyPower(r) + d
           /\ k \notin Shared => LegacyPower(s) = LegacyPower(r)
<1>1. /\ StakeIn(r, k) \in Nat /\ Staked(r) \in Nat /\ LegacyPower(r) \in Nat /\ SumOf(r.unfrozen) \in Nat
      /\ SumOf(s.unfrozen) \in Nat /\ r.balance \in Nat /\ s.balance \in Nat /\ r.allowance \in Nat /\ s.allowance \in Nat
  BY RowSums DEF Row
<1>2. /\ Staked(s) = Staked(r) + StakeIn(s, k) - StakeIn(r, k)
      /\ (k \in Shared => LegacyPower(s) = LegacyPower(r) + StakeIn(s, k) - StakeIn(r, k))
      /\ (k \notin Shared => LegacyPower(s) = LegacyPower(r))
  BY ChangedSums
<1>3. /\ Worth(s) = s.balance + s.allowance + SumOf(s.unfrozen) + Staked(s)
      /\ Worth(r) = r.balance + r.allowance + SumOf(r.unfrozen) + Staked(r)
  BY RowSums
<1>4. Staked(s) = Staked(r) + d
  BY <1>1, <1>2
<1>5. Worth(s) = Worth(r)
  BY <1>1, <1>3, <1>4
<1> QED
  BY <1>1, <1>2, <1>5

\* An actuator's row after initialize_old_tron_power.
LEMMA RememberedRow ==
    ASSUME StakeInv, NEW a \in Accounts, NEW q \in Row, OldPowerSound(q), Backed(q), SameLoans(acct[a], q), Worth(q) = Worth(acct[a]),
           NEW r, r = Remembered(q)
    PROVE  /\ r \in Row /\ OldPowerSound(r) /\ Backed(r) /\ SameLoans(acct[a], r) /\ Worth(r) = Worth(acct[a])
           /\ SameStake(q, r) /\ SameMoney(q, r) /\ r.expire = q.expire /\ (newModel => r.oldPower # 0)
<1>1. newModel \in BOOLEAN
  BY RowFacts
<1>2. /\ r \in Row /\ OldPowerSound(r) /\ SameStake(q, r) /\ SameLoans(q, r) /\ SameMoney(q, r) /\ r.expire = q.expire
      /\ r.votes = q.votes /\ Power(r) = Power(q) /\ (newModel => r.oldPower # 0)
  BY <1>1, RememberedIs
<1>3. Backed(r) /\ Worth(r) = Worth(acct[a])
  BY <1>2, SameWorth DEF Backed
<1> QED
  BY <1>2, <1>3 DEF SameLoans

LEMMA RememberedAccount ==
    ASSUME StakeInv, NEW a \in Accounts, NEW r, r = Remembered(acct[a])
    PROVE  /\ r \in Row /\ OldPowerSound(r) /\ Backed(r) /\ SameLoans(acct[a], r) /\ Worth(r) = Worth(acct[a])
           /\ SameStake(acct[a], r) /\ SameMoney(acct[a], r) /\ r.expire = acct[a].expire /\ (newModel => r.oldPower # 0)
  BY RowFacts, RememberedRow DEF SameLoans

LEMMA FreezeBalanceV2Keeps ==
    ASSUME StakeInv, NEW a \in Accounts, NEW k \in Kinds, NEW x \in Amounts, FreezeBalanceV2(a, k, x)
    PROVE  StakeInv'
<1>1. PICK r : r = Remembered(acct[a])
  OBVIOUS
<1>2. /\ r \in Row /\ OldPowerSound(r) /\ Backed(r) /\ SameLoans(acct[a], r) /\ Worth(r) = Worth(acct[a])
      /\ SameMoney(acct[a], r) /\ newModel \in BOOLEAN
  BY <1>1, RememberedAccount, RowFacts
<1>4. x \in Nat /\ x <= r.balance /\ r.balance \in Nat /\ r.frozen2 \in PerKind /\ r.frozen2[k] \in Nat
  BY <1>2, StakingAssumption DEF FreezeBalanceV2, SameMoney, Row, PerKind
<1>5. PICK f \in PerKind : f = Plus(r.frozen2, k, x) /\ f[k] = r.frozen2[k] + x /\ \A j \in Kinds : j # k => f[j] = r.frozen2[j]
  BY <1>4, PlusIs
<1>6. PICK y \in Nat : y = r.balance - x
  BY <1>4
<1>7. PICK s : s = [r EXCEPT !.frozen2 = f, !.balance = y]
  OBVIOUS
<1>8. /\ s \in Row /\ s.frozen2 = f /\ s.balance = y /\ s.frozen = r.frozen /\ s.delegated = r.delegated /\ s.delegated2 = r.delegated2
      /\ s.allowance = r.allowance /\ s.unfrozen = r.unfrozen /\ s.votes = r.votes /\ s.oldPower = r.oldPower
      /\ SameLoans(r, s)
  BY <1>2, <1>7 DEF Row, SameLoans
<1>9. acct' = [acct EXCEPT ![a] = s]
  BY <1>1, <1>5, <1>6, <1>7 DEF FreezeBalanceV2
<1>10. StakeIn(s, k) = StakeIn(r, k) + x /\ \A j \in Kinds : j # k => StakeIn(s, j) = StakeIn(r, j)
  <2>1. /\ r.frozen[k] \in Nat /\ r.delegated[k] \in Nat /\ r.delegated2[k] \in Nat
    BY <1>2 DEF Row, PerKind
  <2> QED
    BY <1>4, <1>5, <1>8, <2>1 DEF StakeIn
<1>11. Worth(s) = Worth(r) /\ LegacyPower(s) >= LegacyPower(r)
  <2>1. SumOf(r.unfrozen) \in Nat /\ r.allowance \in Nat /\ LegacyPower(r) \in Nat
    BY <1>2, RowSums DEF Row
  <2>2. s.balance + s.allowance + SumOf(s.unfrozen) + x = r.balance + r.allowance + SumOf(r.unfrozen)
    BY <1>4, <1>6, <1>8, <2>1
  <2>3. Worth(s) = Worth(r) /\ (k \in Shared => LegacyPower(s) = LegacyPower(r) + x) /\ (k \notin Shared => LegacyPower(s) = LegacyPower(r))
    BY <1>2, <1>4, <1>8, <1>10, <2>2, KindMoved
  <2> QED
    BY <1>4, <2>1, <2>3
<1>12. Dedicated(s) >= Dedicated(r)
  <2>1. \A j \in Kinds : s.frozen[j] + s.frozen2[j] >= r.frozen[j] + r.frozen2[j]
    BY <1>2, <1>4, <1>5, <1>8 DEF Row, PerKind
  <2> QED
    BY <1>2, <1>8, <2>1, DedicatedIs
<1>13. OldPowerSound(s) /\ Backed(s)
  BY <1>2, <1>8, <1>11, <1>12, MorePower
<1>14. Keeps(acct[a], s)
  BY <1>2, <1>8, <1>11, <1>13 DEF Keeps, SameLoans
<1> QED
  BY <1>9, <1>14, RowStep DEF FreezeBalanceV2, Grants, Settled

LEMMA FreezeBalanceKeeps ==
    ASSUME StakeInv, NEW a \in Accounts, NEW k \in Kinds, NEW x \in Amounts, FreezeBalance(a, k, x)
    PROVE  StakeInv'
<1>1. PICK r : r = Remembered(acct[a])
  OBVIOUS
<1>2. /\ r \in Row /\ OldPowerSound(r) /\ Backed(r) /\ SameLoans(acct[a], r) /\ Worth(r) = Worth(acct[a])
      /\ SameMoney(acct[a], r) /\ newModel \in BOOLEAN /\ stakeNow \in Nat
  BY <1>1, RememberedAccount, RowFacts
<1>4. x \in Nat /\ x <= r.balance /\ r.balance \in Nat /\ r.frozen \in PerKind /\ r.frozen[k] \in Nat /\ FrozenTime \in Nat
  BY <1>2, StakingAssumption DEF FreezeBalance, SameMoney, Row, PerKind
<1>5. PICK f \in PerKind : f = Plus(r.frozen, k, x) /\ f[k] = r.frozen[k] + x /\ \A j \in Kinds : j # k => f[j] = r.frozen[j]
  BY <1>4, PlusIs
<1>6. PICK y \in Nat : y = r.balance - x
  BY <1>4
<1>e. PICK e \in PerKind : e = [r.expire EXCEPT ![k] = stakeNow + FrozenTime]
  <2>1. r.expire \in PerKind /\ stakeNow + FrozenTime \in Nat
    BY <1>2, <1>4 DEF Row
  <2> QED
    BY <2>1 DEF PerKind
<1>7. PICK s : s = [r EXCEPT !.frozen = f, !.expire = e, !.balance = y]
  OBVIOUS
<1>8. /\ s \in Row /\ s.frozen2 = r.frozen2 /\ s.balance = y /\ s.frozen = f /\ s.delegated = r.delegated /\ s.delegated2 = r.delegated2
      /\ s.allowance = r.allowance /\ s.unfrozen = r.unfrozen /\ s.votes = r.votes /\ s.oldPower = r.oldPower
      /\ SameLoans(r, s)
  BY <1>2, <1>7 DEF Row, SameLoans
<1>9. acct' = [acct EXCEPT ![a] = s]
  BY <1>1, <1>5, <1>6, <1>7, <1>e DEF FreezeBalance
<1>10. StakeIn(s, k) = StakeIn(r, k) + x /\ \A j \in Kinds : j # k => StakeIn(s, j) = StakeIn(r, j)
  <2>1. /\ r.frozen2[k] \in Nat /\ r.delegated[k] \in Nat /\ r.delegated2[k] \in Nat
    BY <1>2 DEF Row, PerKind
  <2> QED
    BY <1>4, <1>5, <1>8, <2>1 DEF StakeIn
<1>11. Worth(s) = Worth(r) /\ LegacyPower(s) >= LegacyPower(r)
  <2>1. SumOf(r.unfrozen) \in Nat /\ r.allowance \in Nat /\ LegacyPower(r) \in Nat
    BY <1>2, RowSums DEF Row
  <2>2. s.balance + s.allowance + SumOf(s.unfrozen) + x = r.balance + r.allowance + SumOf(r.unfrozen)
    BY <1>4, <1>6, <1>8, <2>1
  <2>3. Worth(s) = Worth(r) /\ (k \in Shared => LegacyPower(s) = LegacyPower(r) + x) /\ (k \notin Shared => LegacyPower(s) = LegacyPower(r))
    BY <1>2, <1>4, <1>8, <1>10, <2>2, KindMoved
  <2> QED
    BY <1>4, <2>1, <2>3
<1>12. Dedicated(s) >= Dedicated(r)
  <2>1. \A j \in Kinds : s.frozen[j] + s.frozen2[j] >= r.frozen[j] + r.frozen2[j]
    BY <1>2, <1>4, <1>5, <1>8 DEF Row, PerKind
  <2> QED
    BY <1>2, <1>8, <2>1, DedicatedIs
<1>13. OldPowerSound(s) /\ Backed(s)
  BY <1>2, <1>8, <1>11, <1>12, MorePower
<1>14. Keeps(acct[a], s)
  BY <1>2, <1>8, <1>11, <1>13 DEF Keeps, SameLoans
<1> QED
  BY <1>9, <1>14, RowStep DEF FreezeBalance, Grants, Settled

\* The row a payment of what is due leaves.
LEMMA PaidAccount ==
    ASSUME StakeInv, NEW a \in Accounts, NEW r, r = Paid(acct[a])
    PROVE  /\ r \in Row /\ OldPowerSound(r) /\ Backed(r) /\ SameLoans(acct[a], r) /\ Worth(r) = Worth(acct[a])
           /\ SameStake(acct[a], r)
<1>1. acct[a] \in Row /\ OldPowerSound(acct[a]) /\ Backed(acct[a]) /\ newModel \in BOOLEAN /\ stakeNow \in Nat
  BY RowFacts
<1>2. /\ r \in Row /\ SameStake(acct[a], r) /\ SameLoans(acct[a], r) /\ r.votes = acct[a].votes /\ r.oldPower = acct[a].oldPower
      /\ Worth(r) = Worth(acct[a])
  BY <1>1, PaidIs
<1>3. LegacyPower(r) >= LegacyPower(acct[a]) /\ Dedicated(r) >= Dedicated(acct[a])
  BY <1>1, <1>2, SameSums, RowSums
<1> QED
  BY <1>1, <1>2, <1>3, MorePower

\* Unfreezing moves stake to the list, where it is worth as much.
LEMMA UnfreezingIs ==
    ASSUME StakeInv, NEW r \in Row, NEW k \in Kinds, NEW x \in Nat, x <= r.frozen2[k], NEW s, s = Unfreezing(r, k, x)
    PROVE  /\ s \in Row /\ SameLoans(r, s) /\ s.votes = r.votes /\ s.oldPower = r.oldPower /\ Worth(s) = Worth(r)
           /\ k # "power" => Dedicated(s) = Dedicated(r)
<1>1. r.frozen2 \in PerKind /\ r.frozen2[k] \in Nat /\ r.unfrozen \in ItemBags /\ stakeNow \in Nat /\ UnfreezeDelay \in Nat
  BY StakingAssumption DEF Row, PerKind, StakeInv, StakeTypes
<1>2. PICK f \in PerKind : f = Plus(r.frozen2, k, -x) /\ f[k] = r.frozen2[k] - x /\ \A j \in Kinds : j # k => f[j] = r.frozen2[j]
  <2>1. -x \in Int /\ r.frozen2[k] + (-x) >= 0 /\ r.frozen2[k] + (-x) = r.frozen2[k] - x
    BY <1>1
  <2> QED
    BY <1>1, <2>1, PlusIs
<1>3. PICK u \in Items : u = [kind |-> k, amount |-> x, expire |-> stakeNow + UnfreezeDelay] /\ u.amount = x
  <2>1. PICK n \in Nat : n = stakeNow + UnfreezeDelay
    BY <1>1
  <2>2. PICK u : u = [kind |-> k, amount |-> x, expire |-> n]
    OBVIOUS
  <2>3. u \in Items /\ u.amount = x
    BY <2>2 DEF Items
  <2> QED
    BY <2>1, <2>2, <2>3
<1>4. PICK us \in ItemBags : us = r.unfrozen (+) SetToBag({u}) /\ SumOf(us) = SumOf(r.unfrozen) + x
  BY <1>1, <1>3, SumOfAdd
<1>5. s = [r EXCEPT !.frozen2 = f, !.unfrozen = us]
  BY <1>2, <1>3, <1>4 DEF Unfreezing
<1>6. /\ s \in Row /\ s.frozen2 = f /\ s.unfrozen = us /\ s.frozen = r.frozen /\ s.delegated = r.delegated /\ s.delegated2 = r.delegated2
      /\ s.balance = r.balance /\ s.allowance = r.allowance /\ s.votes = r.votes /\ s.oldPower = r.oldPower /\ SameLoans(r, s)
  BY <1>5 DEF Row, SameLoans
<1>7. StakeIn(s, k) = StakeIn(r, k) + (-x) /\ \A j \in Kinds : j # k => StakeIn(s, j) = StakeIn(r, j)
  <2>1. /\ r.frozen[k] \in Nat /\ r.delegated[k] \in Nat /\ r.delegated2[k] \in Nat
    BY DEF Row, PerKind
  <2> QED
    BY <1>1, <1>2, <1>6, <2>1 DEF StakeIn
<1>8. Worth(s) = Worth(r)
  <2>1. SumOf(r.unfrozen) \in Nat /\ r.allowance \in Nat /\ r.balance \in Nat /\ -x \in Int
    BY RowSums DEF Row
  <2>2. s.balance + s.allowance + SumOf(s.unfrozen) + (-x) = r.balance + r.allowance + SumOf(r.unfrozen)
    BY <1>4, <1>6, <2>1
  <2> QED
    BY <1>6, <1>7, <2>1, <2>2, KindMoved
<1>9. k # "power" => Dedicated(s) = Dedicated(r)
  BY <1>2, <1>6 DEF Dedicated
<1> QED
  BY <1>6, <1>8, <1>9

\* Votes that only the dedicated stake backs.
LEMMA DedicatedBacked ==
    ASSUME newModel, newModel \in BOOLEAN, NEW r \in Row, OldPowerSound(r), Backed(r), r.oldPower = -1,
           NEW s \in Row, s.oldPower = -1, s.votes = r.votes, Dedicated(s) = Dedicated(r)
    PROVE  OldPowerSound(s) /\ Backed(s)
<1>1. OldPowerSound(s)
  BY DEF OldPowerSound
<1>3. Power(r) = Dedicated(r) /\ Power(s) = Dedicated(s) /\ Dedicated(r) \in Nat
  BY RowSums, <1>1, PowerIs
<1> QED
  BY <1>1, <1>3 DEF Backed

LEMMA UnfreezeBalanceV2Keeps ==
    ASSUME StakeInv, NEW a \in Accounts, NEW k \in Kinds, NEW x \in Amounts, UnfreezeBalanceV2(a, k, x)
    PROVE  StakeInv'
<1>1. PICK q : q = Paid(acct[a])
  OBVIOUS
<1>2. PICK r : r = Remembered(q)
  OBVIOUS
<1>3. PICK s : s = Unfreezing(r, k, x)
  OBVIOUS
<1>4. /\ r \in Row /\ OldPowerSound(r) /\ Backed(r) /\ SameLoans(acct[a], r) /\ Worth(r) = Worth(acct[a])
      /\ SameStake(acct[a], r) /\ (newModel => r.oldPower # 0)
  <2>1. /\ q \in Row /\ OldPowerSound(q) /\ Backed(q) /\ SameLoans(acct[a], q) /\ Worth(q) = Worth(acct[a]) /\ SameStake(acct[a], q)
    BY <1>1, PaidAccount
  <2>2. /\ r \in Row /\ OldPowerSound(r) /\ Backed(r) /\ SameLoans(acct[a], r) /\ Worth(r) = Worth(acct[a])
        /\ SameStake(q, r) /\ (newModel => r.oldPower # 0)
    BY <1>2, <2>1, RememberedRow
  <2> QED
    BY <2>1, <2>2 DEF SameStake
<1>5. x \in Nat /\ x <= r.frozen2[k] /\ newModel \in BOOLEAN
  BY <1>4, RowFacts, StakingAssumption DEF UnfreezeBalanceV2, SameStake
<1>6. /\ s \in Row /\ SameLoans(r, s) /\ s.votes = r.votes /\ s.oldPower = r.oldPower /\ Worth(s) = Worth(r)
      /\ (k # "power" => Dedicated(s) = Dedicated(r)) /\ OldPowerSound(s)
  BY <1>3, <1>4, <1>5, UnfreezingIs DEF OldPowerSound
<1>7. PICK t : t = IF newModel /\ s.oldPower # -1 THEN [Unvoted(s) EXCEPT !.oldPower = -1]
                   ELSE IF ~newModel THEN Scaled(s, LegacyPower(r))
                   ELSE IF k = "power" THEN Unvoted(s) ELSE s
  OBVIOUS
<1>8. acct' = [acct EXCEPT ![a] = t]
  BY <1>1, <1>2, <1>3, <1>7 DEF UnfreezeBalanceV2
<1>9. t \in Row /\ OldPowerSound(t) /\ Backed(t) /\ SameLoans(s, t) /\ Worth(t) = Worth(s)
  <2>1. CASE newModel /\ s.oldPower # -1
    <3>1. PICK v : v = Unvoted(s)
      OBVIOUS
    <3>2. v \in Row /\ SameStake(s, v) /\ SameLoans(s, v) /\ SameMoney(s, v) /\ v.votes = 0
      BY <1>5, <1>6, <3>1, UnvotedIs
    <3>3. t = [v EXCEPT !.oldPower = -1]
      BY <1>7, <2>1, <3>1
    <3>4. t \in Row /\ SameStake(s, t) /\ SameLoans(s, t) /\ SameMoney(s, t) /\ t.votes = 0 /\ t.oldPower = -1
      BY <3>2, <3>3 DEF Row, SameStake, SameLoans, SameMoney
    <3>5. OldPowerSound(t)
      BY <2>1, <3>4 DEF OldPowerSound
    <3> QED
      BY <1>5, <1>6, <3>4, <3>5, NoVotesBacked, SameWorth
  <2>2. CASE ~newModel
    <3>1. t = Scaled(s, LegacyPower(r)) /\ LegacyPower(r) \in Nat /\ s.votes * Trx <= LegacyPower(r)
      BY <1>4, <1>5, <1>6, <1>7, <2>2, RowSums, PowerIs DEF Backed
    <3>2. t \in Row /\ OldPowerSound(t) /\ SameStake(s, t) /\ SameLoans(s, t) /\ SameMoney(s, t) /\ Backed(t)
      BY <1>5, <1>6, <2>2, <3>1, ScaledIs
    <3> QED
      BY <1>6, <3>2, SameWorth
  <2>3. CASE newModel /\ s.oldPower = -1 /\ k = "power"
    <3>1. t = Unvoted(s)
      BY <1>7, <2>3
    <3>2. t \in Row /\ OldPowerSound(t) /\ SameStake(s, t) /\ SameLoans(s, t) /\ SameMoney(s, t) /\ t.votes = 0
      BY <1>5, <1>6, <3>1, UnvotedIs
    <3> QED
      BY <1>5, <1>6, <3>2, NoVotesBacked, SameWorth
  <2>4. CASE newModel /\ s.oldPower = -1 /\ k # "power"
    <3>1. t = s
      BY <1>7, <2>4
    <3>2. Backed(s)
      BY <1>4, <1>5, <1>6, <2>4, DedicatedBacked
    <3> QED
      BY <1>6, <3>1, <3>2 DEF SameLoans
  <2> QED
    BY <1>5, <2>1, <2>2, <2>3, <2>4
<1>10. Keeps(acct[a], t)
  BY <1>4, <1>6, <1>9 DEF Keeps, SameLoans
<1> QED
  BY <1>8, <1>10, RowStep DEF UnfreezeBalanceV2, Grants, Settled

LEMMA WithdrawExpireUnfreezeKeeps ==
    ASSUME StakeInv, NEW a \in Accounts, WithdrawExpireUnfreeze(a)
    PROVE  StakeInv'
<1>1. PICK s : s = Paid(acct[a])
  OBVIOUS
<1>2. Keeps(acct[a], s)
  BY <1>1, PaidAccount DEF Keeps
<1>3. acct' = [acct EXCEPT ![a] = s]
  BY <1>1 DEF WithdrawExpireUnfreeze
<1> QED
  BY <1>2, <1>3, RowStep DEF WithdrawExpireUnfreeze, Grants, Settled

\* An empty list is worth nothing.
LEMMA EmptyBagIs == EmptyBag \in ItemBags /\ SumOf(EmptyBag) = 0
<1>1. EmptyBag \in [{} -> Nat] /\ DOMAIN EmptyBag = {}
  BY DEF EmptyBag, SetToBag
<1>2. IsFiniteSet({}) /\ {} \in SUBSET Items
  BY FS_EmptySet
<1>3. EmptyBag \in ItemBags
  BY <1>1, <1>2 DEF ItemBags
<1> DEFINE z == [u \in {} |-> EmptyBag[u] * u.amount]
<1>4. SumOf(EmptyBag) = SumFunction(z) /\ z \in [{} -> Int]
  BY <1>1 DEF SumOf
<1> HIDE DEF z
<1>5. SumFunction(z) = 0
  BY <1>2, <1>4, SumOfZeros
<1> QED
  BY <1>3, <1>4, <1>5

\* Cancelling puts every unfreezing back to the stake of its kind.
LEMMA RefrozenIs ==
    ASSUME NEW r \in Row, NEW s, s = Refrozen(r)
    PROVE  /\ s \in Row /\ SameLoans(r, s) /\ s.votes = r.votes /\ s.oldPower = r.oldPower /\ Worth(s) = Worth(r)
           /\ LegacyPower(s) >= LegacyPower(r) /\ Dedicated(s) >= Dedicated(r)
<1> DEFINE us == r.unfrozen
           D == DOMAIN us
           of(k) == {u \in D : u.kind = k}
           w == [u \in D |-> us[u] * u.amount]
           back == [k \in Kinds |-> SumOf(Restrict(us, of(k)))]
           kind == [u \in D |-> u.kind]
<1>1. /\ us \in ItemBags /\ us \in [D -> Nat] /\ D \in SUBSET Items /\ IsFiniteSet(D) /\ w \in [D -> Nat] /\ SumOf(us) = SumFunction(w)
  BY SumOfType DEF SumOf, Row
<1>2. kind \in [D -> Kinds]
  BY <1>1 DEF Items
<1>3. ASSUME NEW k \in Kinds
      PROVE  back[k] \in Nat /\ back[k] = SumFunction(Restrict(w, {u \in D : kind[u] = k}))
  <2>1. of(k) \in SUBSET D /\ {u \in D : kind[u] = k} = of(k)
    OBVIOUS
  <2>2. Restrict(us, of(k)) \in ItemBags
    BY <1>1, <2>1, SumOfSplit
  <2>3. DOMAIN Restrict(us, of(k)) = of(k)
    BY DEF Restrict
  <2>4. [u \in of(k) |-> Restrict(us, of(k))[u] * u.amount] = Restrict(w, of(k))
    BY DEF Restrict
  <2>5. SumOf(Restrict(us, of(k))) = SumFunction(Restrict(w, of(k)))
    BY <2>3, <2>4 DEF SumOf
  <2>6. SumOf(Restrict(us, of(k))) \in Nat
    BY <2>2, SumOfType
  <2> QED
    BY <2>1, <2>5, <2>6
<1>4. back \in PerKind
  BY <1>3 DEF PerKind
<1>5. SumFunction(back) = SumOf(us)
  <2>1. back = [k \in Kinds |-> SumFunction(Restrict(w, {u \in D : kind[u] = k}))]
    BY <1>3
  <2>2. w \in [D -> Int]
    BY <1>1
  <2> HIDE DEF back, w, kind, D, us
  <2>3. SumFunction([k \in Kinds |-> SumFunction(Restrict(w, {u \in D : kind[u] = k}))]) = SumFunction(w)
    BY <1>1, <1>2, <2>2, KindsFinite, SumByKind
  <2> QED
    BY <1>1, <2>1, <2>3
<1>6. PICK f \in PerKind : f = [k \in Kinds |-> r.frozen2[k] + back[k]] /\ \A k \in Kinds : f[k] = r.frozen2[k] + back[k]
  <2> HIDE DEF back
  <2> DEFINE g == [k \in Kinds |-> r.frozen2[k] + back[k]]
  <2>1. r.frozen2 \in [Kinds -> Nat] /\ back \in [Kinds -> Nat]
    BY <1>4 DEF Row, PerKind
  <2>2. g \in PerKind
    BY <2>1 DEF PerKind
  <2>3. \A k \in Kinds : g[k] = r.frozen2[k] + back[k]
    OBVIOUS
  <2> HIDE DEF g
  <2>4. \E f \in PerKind : f = g /\ \A k \in Kinds : f[k] = r.frozen2[k] + back[k]
    BY <2>2, <2>3
  <2> QED
    BY <2>4 DEF g
<1>7. EmptyBag \in ItemBags /\ SumOf(EmptyBag) = 0
  BY EmptyBagIs
<1>8. s = [r EXCEPT !.frozen2 = f, !.unfrozen = EmptyBag]
  BY <1>3, <1>6 DEF Refrozen
<1>9. /\ s \in Row /\ s.frozen2 = f /\ s.unfrozen = EmptyBag /\ s.frozen = r.frozen /\ s.delegated = r.delegated
      /\ s.delegated2 = r.delegated2 /\ s.balance = r.balance /\ s.allowance = r.allowance /\ s.votes = r.votes
      /\ s.oldPower = r.oldPower /\ SameLoans(r, s)
  BY <1>7, <1>8 DEF Row, SameLoans
<1> HIDE DEF back
<1>10. \A k \in Kinds : StakeIn(s, k) = StakeIn(r, k) + back[k] /\ back[k] \in Nat /\ StakeIn(r, k) \in Nat
  <2> TAKE k \in Kinds
  <2>1. /\ r.frozen[k] \in Nat /\ r.delegated[k] \in Nat /\ r.frozen2[k] \in Nat /\ r.delegated2[k] \in Nat
    BY DEF Row, PerKind
  <2> QED
    <3>1. back[k] \in Nat /\ s.frozen2[k] = r.frozen2[k] + back[k]
      BY <1>4, <1>6, <1>9 DEF PerKind
    <3> QED
      BY <1>9, <2>1, <3>1 DEF StakeIn
<1>11. Staked(s) = Staked(r) + SumOf(us)
  <2> DEFINE h == [k \in Kinds |-> StakeIn(s, k)]
             g == [k \in Kinds |-> StakeIn(r, k)]
  <2>1. h \in [Kinds -> Int] /\ g \in [Kinds -> Int] /\ back \in [Kinds -> Int] /\ \A k \in Kinds : h[k] = g[k] + back[k]
    BY <1>4, <1>10 DEF PerKind
  <2> HIDE DEF h, g, us
  <2>2. SumFunction(h) = SumFunction(g) + SumFunction(back)
    BY <2>1, KindsFinite, SumOfSums
  <2> QED
    BY <1>5, <2>2 DEF Staked, h, g
<1>12. LegacyPower(s) >= LegacyPower(r)
  <2> DEFINE h == [k \in Shared |-> StakeIn(s, k)]
             g == [k \in Shared |-> StakeIn(r, k)]
             b == [k \in Shared |-> back[k]]
  <2>1. h \in [Shared -> Int] /\ g \in [Shared -> Int] /\ b \in [Shared -> Nat] /\ b \in [Shared -> Int] /\ \A k \in Shared : h[k] = g[k] + b[k]
    BY <1>10, KindsFinite
  <2> HIDE DEF h, g, b
  <2>2. SumFunction(h) = SumFunction(g) + SumFunction(b) /\ SumFunction(b) \in Nat /\ SumFunction(g) \in Int
    BY <2>1, KindsFinite, SumOfSums, SumOfNaturals, SumIsInteger
  <2>3. SumFunction(h) >= SumFunction(g)
    BY <2>2
  <2> QED
    BY <2>3 DEF LegacyPower, h, g
<1>13. Dedicated(s) >= Dedicated(r)
  <2>1. \A j \in Kinds : s.frozen[j] + s.frozen2[j] >= r.frozen[j] + r.frozen2[j]
    BY <1>6, <1>9, <1>10 DEF Row, PerKind
  <2> QED
    BY <1>9, <2>1, DedicatedIs
<1>14. Worth(s) = Worth(r)
  <2>1. SumOf(us) \in Nat /\ Staked(r) \in Nat /\ r.balance \in Nat /\ r.allowance \in Nat
    BY RowSums DEF Row
  <2>2. /\ Worth(s) = s.balance + s.allowance + SumOf(s.unfrozen) + Staked(s)
        /\ Worth(r) = r.balance + r.allowance + SumOf(us) + Staked(r)
    BY <1>9, RowSums
  <2> HIDE DEF us
  <2> QED
    BY <1>7, <1>9, <1>11, <2>1, <2>2
<1> QED
  BY <1>9, <1>12, <1>13, <1>14

LEMMA CancelAllUnfreezeV2Keeps ==
    ASSUME StakeInv, NEW a \in Accounts, CancelAllUnfreezeV2(a)
    PROVE  StakeInv'
<1>1. PICK r : r = Paid(acct[a])
  OBVIOUS
<1>2. PICK s : s = Refrozen(r)
  OBVIOUS
<1>3. /\ r \in Row /\ OldPowerSound(r) /\ Backed(r) /\ SameLoans(acct[a], r) /\ Worth(r) = Worth(acct[a]) /\ newModel \in BOOLEAN
  BY <1>1, PaidAccount, RowFacts
<1>4. /\ s \in Row /\ SameLoans(r, s) /\ s.votes = r.votes /\ s.oldPower = r.oldPower /\ Worth(s) = Worth(r)
      /\ LegacyPower(s) >= LegacyPower(r) /\ Dedicated(s) >= Dedicated(r)
  BY <1>2, <1>3, RefrozenIs
<1>5. OldPowerSound(s) /\ Backed(s)
  BY <1>3, <1>4, MorePower
<1>6. Keeps(acct[a], s)
  BY <1>3, <1>4, <1>5 DEF Keeps, SameLoans
<1>7. acct' = [acct EXCEPT ![a] = s]
  BY <1>1, <1>2 DEF CancelAllUnfreezeV2
<1> QED
  BY <1>6, <1>7, RowStep DEF CancelAllUnfreezeV2, Grants, Settled

\* The first version's unfreezing forgets the votes, unless they rest on the dedicated stake alone.
LEMMA ForgottenIs ==
    ASSUME newModel \in BOOLEAN, NEW r \in Row, OldPowerSound(r), Backed(r), NEW q \in Row, q.votes = r.votes, q.oldPower = r.oldPower,
           NEW k \in Kinds, k # "power" => Dedicated(q) = Dedicated(r), NEW s, s = Forgotten(q, k)
    PROVE  s \in Row /\ OldPowerSound(s) /\ Backed(s) /\ SameStake(q, s) /\ SameLoans(q, s) /\ SameMoney(q, s)
<1>1. OldPowerSound(q)
  BY DEF OldPowerSound
<1>2. PICK v : v = Unvoted(q)
  OBVIOUS
<1>3. v \in Row /\ OldPowerSound(v) /\ SameStake(q, v) /\ SameLoans(q, v) /\ SameMoney(q, v) /\ v.votes = 0
  BY <1>1, <1>2, UnvotedIs
<1>4. CASE ~newModel
  <2>1. s = v
    BY <1>2, <1>4 DEF Forgotten
  <2> QED
    BY <1>3, <2>1, NoVotesBacked
<1>5. CASE newModel /\ (q.oldPower # -1 \/ k = "power")
  <2>1. s = [v EXCEPT !.oldPower = -1]
    BY <1>2, <1>5 DEF Forgotten
  <2>2. s \in Row /\ SameStake(q, s) /\ SameLoans(q, s) /\ SameMoney(q, s) /\ s.votes = 0 /\ s.oldPower = -1
    BY <1>3, <2>1 DEF Row, SameStake, SameLoans, SameMoney
  <2>3. OldPowerSound(s)
    BY <1>5, <2>2 DEF OldPowerSound
  <2> QED
    BY <2>2, <2>3, NoVotesBacked
<1>6. CASE newModel /\ q.oldPower = -1 /\ k # "power"
  <2>1. s = [q EXCEPT !.oldPower = -1]
    BY <1>6 DEF Forgotten
  <2>2. s \in Row /\ SameStake(q, s) /\ SameLoans(q, s) /\ SameMoney(q, s) /\ s.votes = q.votes /\ s.oldPower = -1
    BY <2>1 DEF Row, SameStake, SameLoans, SameMoney
  <2>3. Dedicated(s) = Dedicated(r)
    BY <1>6, <2>2, SameSums
  <2> QED
    BY <1>6, <2>2, <2>3, DedicatedBacked
<1> QED
  BY <1>4, <1>5, <1>6

LEMMA UnfreezeBalanceKeeps ==
    ASSUME StakeInv, NEW a \in Accounts, NEW k \in Kinds, UnfreezeBalance(a, k)
    PROVE  StakeInv'
<1>1. PICK r : r = Remembered(acct[a])
  OBVIOUS
<1>2. /\ r \in Row /\ OldPowerSound(r) /\ Backed(r) /\ SameLoans(acct[a], r) /\ Worth(r) = Worth(acct[a])
      /\ SameStake(acct[a], r) /\ newModel \in BOOLEAN
  BY <1>1, RememberedAccount, RowFacts
<1>3. PICK x \in Nat : x = acct[a].frozen[k] /\ x = r.frozen[k]
  BY <1>2 DEF Row, PerKind, SameStake
<1>4. PICK f \in PerKind : f = Plus(r.frozen, k, -x) /\ f[k] = 0 /\ \A j \in Kinds : j # k => f[j] = r.frozen[j]
  <2>1. r.frozen \in PerKind /\ -x \in Int /\ r.frozen[k] + (-x) = 0
    BY <1>2, <1>3 DEF Row
  <2> QED
    BY <2>1, PlusIs
<1>5. PICK e \in PerKind : e = [r.expire EXCEPT ![k] = 0]
  BY <1>2 DEF Row, PerKind
<1>6. PICK y \in Nat : y = r.balance + x
  BY <1>2 DEF Row
<1>7. PICK q : q = [r EXCEPT !.frozen = f, !.expire = e, !.balance = y]
  OBVIOUS
<1>8. /\ q \in Row /\ q.frozen2 = r.frozen2 /\ q.balance = y /\ q.frozen = f /\ q.delegated = r.delegated /\ q.delegated2 = r.delegated2
      /\ q.allowance = r.allowance /\ q.unfrozen = r.unfrozen /\ q.votes = r.votes /\ q.oldPower = r.oldPower
      /\ SameLoans(r, q)
  BY <1>2, <1>7 DEF Row, SameLoans
<1>9. PICK s : s = Forgotten(q, k)
  OBVIOUS
<1>10. acct' = [acct EXCEPT ![a] = s]
  BY <1>1, <1>3, <1>4, <1>5, <1>6, <1>7, <1>9 DEF UnfreezeBalance
<1>11. StakeIn(q, k) = StakeIn(r, k) + (-x) /\ \A j \in Kinds : j # k => StakeIn(q, j) = StakeIn(r, j)
  <2>1. /\ r.frozen2[k] \in Nat /\ r.delegated[k] \in Nat /\ r.delegated2[k] \in Nat
    BY <1>2 DEF Row, PerKind
  <2> QED
    BY <1>3, <1>4, <1>8, <2>1 DEF StakeIn
<1>12. Worth(q) = Worth(r)
  <2>1. SumOf(r.unfrozen) \in Nat /\ r.allowance \in Nat /\ r.balance \in Nat /\ -x \in Int
    BY <1>2, RowSums DEF Row
  <2>2. q.balance + q.allowance + SumOf(q.unfrozen) + (-x) = r.balance + r.allowance + SumOf(r.unfrozen)
    BY <1>6, <1>8, <2>1
  <2> QED
    BY <1>2, <1>8, <1>11, <2>1, <2>2, KindMoved
<1>13. k # "power" => Dedicated(q) = Dedicated(r)
  BY <1>4, <1>8 DEF Dedicated
<1>14. s \in Row /\ OldPowerSound(s) /\ Backed(s) /\ SameStake(q, s) /\ SameLoans(q, s) /\ SameMoney(q, s)
  BY <1>2, <1>8, <1>9, <1>13, ForgottenIs
<1>15. Keeps(acct[a], s)
  BY <1>2, <1>8, <1>12, <1>14, SameWorth DEF Keeps, SameLoans
<1> QED
  BY <1>10, <1>15, RowStep DEF UnfreezeBalance, Grants, Settled

LEMMA VoteWitnessKeeps ==
    ASSUME StakeInv, NEW a \in Accounts, NEW n \in Amounts, VoteWitness(a, n)
    PROVE  StakeInv'
<1>1. PICK r : r = Remembered(acct[a])
  OBVIOUS
<1>2. /\ r \in Row /\ OldPowerSound(r) /\ SameLoans(acct[a], r) /\ Worth(r) = Worth(acct[a]) /\ newModel \in BOOLEAN
  BY <1>1, RememberedAccount, RowFacts
<1>3. Power(r) = Power(acct[a]) /\ n \in Nat /\ n * Trx <= Power(r)
  BY <1>1, RowFacts, RememberedIs, StakingAssumption DEF VoteWitness
<1>4. PICK s : s = [r EXCEPT !.votes = n]
  OBVIOUS
<1>5. s \in Row /\ SameStake(r, s) /\ SameLoans(r, s) /\ SameMoney(r, s) /\ s.votes = n /\ s.oldPower = r.oldPower
  BY <1>2, <1>3, <1>4 DEF Row, SameStake, SameLoans, SameMoney
<1>6. OldPowerSound(s)
  BY <1>2, <1>5 DEF OldPowerSound
<1>7. Power(s) = Power(r)
  BY <1>2, <1>5, SameSums DEF Power, AllPower
<1>8. Backed(s)
  BY <1>3, <1>5, <1>7 DEF Backed
<1>9. Keeps(acct[a], s)
  BY <1>2, <1>5, <1>6, <1>8, SameWorth DEF Keeps, SameLoans
<1>10. acct' = [acct EXCEPT ![a] = s]
  BY <1>1, <1>4 DEF VoteWitness
<1> QED
  BY <1>9, <1>10, RowStep DEF VoteWitness, Grants, Settled

LEMMA WithdrawBalanceKeeps ==
    ASSUME StakeInv, NEW a \in Accounts, WithdrawBalance(a)
    PROVE  StakeInv'
<1>1. PICK r : r = acct[a]
  OBVIOUS
<1>2. r \in Row /\ OldPowerSound(r) /\ Backed(r) /\ newModel \in BOOLEAN /\ r.balance \in Nat /\ r.allowance \in Nat
  BY <1>1, RowFacts DEF Row
<1>3. PICK y \in Nat : y = r.balance + r.allowance
  BY <1>2
<1>4. PICK s : s = [r EXCEPT !.balance = y, !.allowance = 0]
  OBVIOUS
<1>5. /\ s \in Row /\ SameStake(r, s) /\ SameLoans(r, s) /\ s.votes = r.votes /\ s.oldPower = r.oldPower
      /\ s.balance = y /\ s.allowance = 0 /\ s.unfrozen = r.unfrozen
  BY <1>2, <1>4 DEF Row, SameStake, SameLoans
<1>6. Staked(s) = Staked(r) /\ LegacyPower(s) >= LegacyPower(r) /\ Dedicated(s) >= Dedicated(r)
  BY <1>2, <1>5, SameSums, RowSums
<1>7. OldPowerSound(s) /\ Backed(s)
  BY <1>2, <1>5, <1>6, MorePower
<1>8. Worth(s) = Worth(r)
  <2>1. SumOf(r.unfrozen) \in Nat /\ Staked(r) \in Nat
    BY <1>2, RowSums
  <2>2. /\ Worth(s) = s.balance + s.allowance + SumOf(s.unfrozen) + Staked(s)
        /\ Worth(r) = r.balance + r.allowance + SumOf(r.unfrozen) + Staked(r)
    BY <1>2, <1>5, RowSums
  <2> QED
    BY <1>2, <1>3, <1>5, <1>6, <2>1, <2>2
<1>9. Keeps(acct[a], s)
  BY <1>1, <1>5, <1>7, <1>8 DEF Keeps
<1>10. acct' = [acct EXCEPT ![a] = s]
  BY <1>1, <1>3, <1>4 DEF WithdrawBalance
<1> QED
  BY <1>9, <1>10, RowStep DEF WithdrawBalance, Grants, Settled

\* Time passes, or nothing happens.
LEMMA StakeTickKeeps ==
    ASSUME StakeInv, StakeTick \/ UNCHANGED stakeVars
    PROVE  StakeInv'
<1>1. UNCHANGED <<acct, legacy, granted, index1, index2, v2Open, newModel>> /\ stakeNow' \in Nat
  BY DEF StakeTick, stakeVars, Grants, StakeInv, StakeTypes
<1>2. StakeTypes'
  BY <1>1 DEF StakeInv, StakeTypes
<1>3. (\A b \in Accounts : OldPowerSound(acct[b]))'
  BY <1>1 DEF StakeInv, OldPowerSound
<1>4. RecordsHold'
  BY <1>1 DEF StakeInv, RecordsHold
<1>5. StakeConserved'
  BY <1>1 DEF StakeInv, StakeConserved, Worth, SumOf, StakeIn
<1>6. VotesBacked'
  BY <1>1 DEF StakeInv, VotesBacked, Power, AllPower, LegacyPower, StakeIn, Dedicated
<1>7. DelegationsAgree'
  <2>1. \A b \in Accounts, k \in Shared :
          /\ acct'[b].delegated2[k] = LentBy(b, Lent2, k)' /\ acct'[b].acquired2[k] = LentTo(b, Lent2, k)'
          /\ acct'[b].delegated[k] = LentBy(b, Lent1, k)' /\ acct'[b].acquired[k] = LentTo(b, Lent1, k)'
    BY <1>1, LentSame, KindsFinite DEF StakeInv, DelegationsAgree
  <2> QED
    BY <1>1, <2>1 DEF StakeInv, DelegationsAgree
<1> QED
  BY <1>2, <1>3, <1>4, <1>5, <1>6, <1>7 DEF StakeInv

\* The new model counts the dedicated stake besides what it counted before.
LEMMA ActivateKeeps ==
    ASSUME StakeInv, Activate
    PROVE  StakeInv'
<1>1. UNCHANGED <<acct, legacy, granted, index1, index2, stakeNow>> /\ v2Open' \in BOOLEAN /\ newModel' \in BOOLEAN
  BY DEF Activate, Grants, StakeInv, StakeTypes
<1>2. StakeTypes'
  BY <1>1 DEF StakeInv, StakeTypes
<1>3. (\A b \in Accounts : OldPowerSound(acct[b]))'
  BY <1>1 DEF StakeInv, OldPowerSound, Activate
<1>4. RecordsHold'
  BY <1>1 DEF StakeInv, RecordsHold
<1>5. StakeConserved'
  BY <1>1 DEF StakeInv, StakeConserved, Worth, SumOf, StakeIn
<1>6. VotesBacked'
  <2>1. CASE newModel' = newModel
    BY <1>1, <2>1 DEF StakeInv, VotesBacked, Power, AllPower, LegacyPower, StakeIn, Dedicated
  <2>2. CASE ~newModel /\ newModel'
    <3>1. ASSUME NEW b \in Accounts PROVE acct[b].votes * Trx <= Dedicated(acct[b]) + LegacyPower(acct[b]) /\ acct[b].oldPower = 0
      <4>1. acct[b] \in Row /\ OldPowerSound(acct[b]) /\ Backed(acct[b]) /\ newModel \in BOOLEAN
        BY RowFacts
      <4>2. /\ acct[b].votes \in Nat /\ Trx \in Nat /\ LegacyPower(acct[b]) \in Nat /\ Dedicated(acct[b]) \in Nat
        BY <4>1, RowSums, StakingAssumption DEF Row
      <4>3. acct[b].votes * Trx <= LegacyPower(acct[b]) /\ acct[b].oldPower = 0
        BY <2>2, <4>1, PowerIs DEF Backed, OldPowerSound
      <4>4. acct[b].votes * Trx \in Nat
        BY <4>2
      <4> QED
        BY <4>2, <4>3, <4>4
    <3>2. \A b \in Accounts : Power(acct[b])' = Dedicated(acct[b]) + LegacyPower(acct[b])
      BY <1>1, <2>2, <3>1 DEF Power, AllPower, LegacyPower, StakeIn, Dedicated
    <3> QED
      BY <1>1, <3>1, <3>2 DEF VotesBacked
  <2> QED
    BY <2>1, <2>2 DEF Activate
<1>7. DelegationsAgree'
  <2>1. \A b \in Accounts, k \in Shared :
          /\ acct'[b].delegated2[k] = LentBy(b, Lent2, k)' /\ acct'[b].acquired2[k] = LentTo(b, Lent2, k)'
          /\ acct'[b].delegated[k] = LentBy(b, Lent1, k)' /\ acct'[b].acquired[k] = LentTo(b, Lent1, k)'
    BY <1>1, LentSame, KindsFinite DEF StakeInv, DelegationsAgree
  <2> QED
    BY <1>1, <2>1 DEF StakeInv, DelegationsAgree
<1> QED
  BY <1>2, <1>3, <1>4, <1>5, <1>6, <1>7 DEF StakeInv

-----------------------------------------------------------------------------
(* Steps that change an owner's row, a receiver's and the record between them. *)

Sound(r, s) == s \in Row /\ OldPowerSound(s) /\ Backed(s) /\ Worth(s) = Worth(r)
Moved(f, g, k, d) == g[k] = f[k] + d /\ \A j \in Kinds : j # k => g[j] = f[j]
Lends2(r, s, k, d) ==
    s.delegated = r.delegated /\ s.acquired = r.acquired /\ s.acquired2 = r.acquired2 /\ Moved(r.delegated2, s.delegated2, k, d)
Holds2(r, s, k, d) ==
    s.delegated = r.delegated /\ s.acquired = r.acquired /\ s.delegated2 = r.delegated2 /\ Moved(r.acquired2, s.acquired2, k, d)
Lends1(r, s, k, d) ==
    s.delegated2 = r.delegated2 /\ s.acquired = r.acquired /\ s.acquired2 = r.acquired2 /\ Moved(r.delegated, s.delegated, k, d)
Holds1(r, s, k, d) ==
    s.delegated = r.delegated /\ s.acquired2 = r.acquired2 /\ s.delegated2 = r.delegated2 /\ Moved(r.acquired, s.acquired, k, d)
LentMoved(old, new, p, k, d) ==
    new[p][k] = old[p][k] + d /\ \A q \in Pairs, j \in Kinds : (q # p \/ j # k) => new[q][j] = old[q][j]

\* What two sound rows leave of the invariant.
LEMMA PairRows ==
    ASSUME StakeInv, NEW p \in Pairs, NEW s, NEW t, Sound(acct[p[1]], s), Sound(acct[p[2]], t),
           acct' = [acct EXCEPT ![p[1]] = s, ![p[2]] = t], UNCHANGED newModel
    PROVE  /\ acct' \in [Accounts -> Row] /\ acct'[p[1]] = s /\ acct'[p[2]] = t
           /\ \A b \in Accounts : b # p[1] /\ b # p[2] => acct'[b] = acct[b]
           /\ (\A b \in Accounts : OldPowerSound(acct[b]))' /\ StakeConserved' /\ VotesBacked'
<1>1. p[1] \in Accounts /\ p[2] \in Accounts /\ p[1] # p[2] /\ acct \in [Accounts -> Row] /\ s \in Row /\ t \in Row
  BY DEF Pairs, StakeInv, StakeTypes, Sound
<1>2. /\ acct' \in [Accounts -> Row] /\ acct'[p[1]] = s /\ acct'[p[2]] = t
      /\ \A b \in Accounts : b # p[1] /\ b # p[2] => acct'[b] = acct[b]
  BY <1>1
<1>3. \A b \in Accounts : OldPowerSound(acct'[b]) /\ Backed(acct'[b]) /\ Worth(acct'[b]) = Worth(acct[b])
  BY <1>2, RowFacts DEF Sound
<1>4. (\A b \in Accounts : OldPowerSound(acct[b]))'
  BY <1>3 DEF OldPowerSound
<1>5. StakeConserved'
  <2>1. \A b \in Accounts : Worth(acct'[b]) = Stake[b] + Allowance[b]
    BY <1>3 DEF StakeInv, StakeConserved
  <2> QED
    BY <2>1 DEF StakeConserved, Worth, SumOf, StakeIn
<1>6. VotesBacked'
  <2>1. \A b \in Accounts : Backed(acct'[b])
    BY <1>3
  <2>2. newModel' = newModel
    OBVIOUS
  <2> QED
    BY ONLY <2>1, <2>2 DEF VotesBacked, Backed, Power, AllPower, LegacyPower, StakeIn, Dedicated
<1> QED
  BY <1>2, <1>4, <1>5, <1>6

\* Both sums move with the record.
LEMMA LentMovedSums ==
    ASSUME NEW lent \in [Pairs -> PerKind], NEW new \in [Pairs -> PerKind], NEW p \in Pairs, NEW k \in Kinds, NEW d \in Int,
           LentMoved(lent, new, p, k, d)
    PROVE  \A b \in Accounts, j \in Kinds :
             /\ LentBy(b, new, j) = LentBy(b, lent, j) + IF b = p[1] /\ j = k THEN d ELSE 0
             /\ LentTo(b, new, j) = LentTo(b, lent, j) + IF b = p[2] /\ j = k THEN d ELSE 0
<1>1. lent[p][k] \in Nat /\ new[p][k] = lent[p][k] + d
  BY DEF PerKind, LentMoved
<1>2. new[p][k] - lent[p][k] = d
  BY <1>1
<1>3. \A q \in Pairs, j \in Kinds : (q # p \/ j # k) => new[q][j] = lent[q][j]
  BY DEF LentMoved
<1> QED
  BY <1>2, <1>3, LentChange

LEMMA LentTypes ==
    ASSUME NEW g \in [Pairs \X BOOLEAN -> Grant]
    PROVE  [p \in Pairs |-> [k \in Kinds |-> g[<<p, TRUE>>].amount[k] + g[<<p, FALSE>>].amount[k]]] \in [Pairs -> PerKind]
<1>1. ASSUME NEW p \in Pairs, NEW k \in Kinds PROVE g[<<p, TRUE>>].amount[k] + g[<<p, FALSE>>].amount[k] \in Nat
  <2>1. g[<<p, TRUE>>] \in Grant /\ g[<<p, FALSE>>] \in Grant
    OBVIOUS
  <2>2. g[<<p, TRUE>>].amount[k] \in Nat /\ g[<<p, FALSE>>].amount[k] \in Nat
    BY <2>1 DEF Grant, PerKind
  <2> QED
    BY <2>2
<1> QED
  BY <1>1 DEF PerKind

LEMMA PairStep2 ==
    ASSUME StakeInv, NEW p \in Pairs, NEW k \in Shared, NEW d \in Int, NEW s, NEW t, Sound(acct[p[1]], s), Sound(acct[p[2]], t),
           acct' = [acct EXCEPT ![p[1]] = s, ![p[2]] = t], Lends2(acct[p[1]], s, k, d), Holds2(acct[p[2]], t, k, d),
           granted' \in [Pairs \X BOOLEAN -> Grant], RecordsHold', LentMoved(Lent2, Lent2', p, k, d),
           index2' = {q \in Pairs : granted'[<<q, TRUE>>].there \/ granted'[<<q, FALSE>>].there},
           UNCHANGED <<legacy, index1, v2Open, newModel, stakeNow>>
    PROVE  StakeInv'
<1>1. /\ acct' \in [Accounts -> Row] /\ acct'[p[1]] = s /\ acct'[p[2]] = t
      /\ (\A b \in Accounts : b # p[1] /\ b # p[2] => acct'[b] = acct[b])
      /\ (\A b \in Accounts : OldPowerSound(acct[b]))' /\ StakeConserved' /\ VotesBacked'
  BY PairRows
<1>2. StakeTypes'
  BY <1>1 DEF StakeInv, StakeTypes
<1>3. k \in Kinds /\ Shared \in SUBSET Kinds /\ p[1] \in Accounts /\ p[2] \in Accounts /\ p[1] # p[2]
  BY KindsFinite DEF Pairs
<1>4. Lent2 \in [Pairs -> PerKind] /\ Lent2' \in [Pairs -> PerKind]
  BY LentTypes DEF StakeInv, StakeTypes, Lent2
<1>5. PICK new \in [Pairs -> PerKind] : new = Lent2'
  BY <1>4
<1>6. \A b \in Accounts, j \in Kinds :
        /\ LentBy(b, new, j) = LentBy(b, Lent2, j) + IF b = p[1] /\ j = k THEN d ELSE 0
        /\ LentTo(b, new, j) = LentTo(b, Lent2, j) + IF b = p[2] /\ j = k THEN d ELSE 0
  BY <1>3, <1>4, <1>5, LentMovedSums
<1>7. ASSUME NEW b \in Accounts, NEW j \in Shared
      PROVE  acct'[b].delegated2[j] = LentBy(b, new, j) /\ acct'[b].acquired2[j] = LentTo(b, new, j)
  <2>0. j \in Kinds
    BY <1>3
  <2>1. acct[b].delegated2[j] = LentBy(b, Lent2, j) /\ acct[b].acquired2[j] = LentTo(b, Lent2, j)
    BY DEF StakeInv, DelegationsAgree
  <2>2. LentBy(b, Lent2, j) \in Nat /\ LentTo(b, Lent2, j) \in Nat
    BY <1>4, <2>0, LentType
  <2>3. acct'[b].delegated2[j] = acct[b].delegated2[j] + IF b = p[1] /\ j = k THEN d ELSE 0
    BY <1>1, <1>3, <2>0, <2>1, <2>2 DEF Lends2, Holds2, Moved
  <2>4. acct'[b].acquired2[j] = acct[b].acquired2[j] + IF b = p[2] /\ j = k THEN d ELSE 0
    BY <1>1, <1>3, <2>0, <2>1, <2>2 DEF Lends2, Holds2, Moved
  <2> QED
    BY <1>6, <2>0, <2>1, <2>3, <2>4
<1>8. ASSUME NEW b \in Accounts, NEW j \in Shared
      PROVE  acct'[b].delegated[j] = LentBy(b, Lent1, j) /\ acct'[b].acquired[j] = LentTo(b, Lent1, j)
  BY <1>1 DEF Lends2, Holds2, StakeInv, DelegationsAgree
<1>9. Lent1' = Lent1
  BY DEF Lent1
<1>10. DelegationsAgree'
  <2>1. ASSUME NEW b \in Accounts, NEW j \in Shared
        PROVE  /\ acct'[b].delegated2[j] = LentBy(b, Lent2, j)' /\ acct'[b].acquired2[j] = LentTo(b, Lent2, j)'
               /\ acct'[b].delegated[j] = LentBy(b, Lent1, j)' /\ acct'[b].acquired[j] = LentTo(b, Lent1, j)'
    <3>1. /\ LentBy(b, Lent2, j)' = LentBy(b, new, j) /\ LentTo(b, Lent2, j)' = LentTo(b, new, j)
          /\ LentBy(b, Lent1, j)' = LentBy(b, Lent1, j) /\ LentTo(b, Lent1, j)' = LentTo(b, Lent1, j)
      BY <1>5, <1>9 DEF LentBy, LentTo
    <3>2. /\ acct'[b].delegated2[j] = LentBy(b, new, j) /\ acct'[b].acquired2[j] = LentTo(b, new, j)
          /\ acct'[b].delegated[j] = LentBy(b, Lent1, j) /\ acct'[b].acquired[j] = LentTo(b, Lent1, j)
      BY <1>7, <1>8
    <3> QED
      BY <3>1, <3>2
  <2> QED
    BY <2>1 DEF StakeInv, DelegationsAgree
<1> QED
  BY <1>1, <1>2, <1>10 DEF StakeInv

LEMMA PairStep1 ==
    ASSUME StakeInv, NEW p \in Pairs, NEW k \in Shared, NEW d \in Int, NEW s, NEW t, Sound(acct[p[1]], s), Sound(acct[p[2]], t),
           acct' = [acct EXCEPT ![p[1]] = s, ![p[2]] = t], Lends1(acct[p[1]], s, k, d), Holds1(acct[p[2]], t, k, d),
           legacy' \in [Pairs -> Grant], LentMoved(Lent1, Lent1', p, k, d),
           DelegateOptimization \/ index1' = {q \in Pairs : legacy'[q].there},
           UNCHANGED <<granted, index2, v2Open, newModel, stakeNow>>
    PROVE  StakeInv'
<1>1. /\ acct' \in [Accounts -> Row] /\ acct'[p[1]] = s /\ acct'[p[2]] = t
      /\ (\A b \in Accounts : b # p[1] /\ b # p[2] => acct'[b] = acct[b])
      /\ (\A b \in Accounts : OldPowerSound(acct[b]))' /\ StakeConserved' /\ VotesBacked'
  BY PairRows
<1>2. StakeTypes' /\ RecordsHold'
  BY <1>1 DEF StakeInv, StakeTypes, RecordsHold
<1>3. k \in Kinds /\ Shared \in SUBSET Kinds /\ p[1] \in Accounts /\ p[2] \in Accounts /\ p[1] # p[2]
  BY KindsFinite DEF Pairs
<1>4. Lent1 \in [Pairs -> PerKind] /\ Lent1' \in [Pairs -> PerKind]
  BY DEF StakeInv, StakeTypes, Lent1, Grant
<1>5. PICK new \in [Pairs -> PerKind] : new = Lent1'
  BY <1>4
<1>6. \A b \in Accounts, j \in Kinds :
        /\ LentBy(b, new, j) = LentBy(b, Lent1, j) + IF b = p[1] /\ j = k THEN d ELSE 0
        /\ LentTo(b, new, j) = LentTo(b, Lent1, j) + IF b = p[2] /\ j = k THEN d ELSE 0
  BY <1>3, <1>4, <1>5, LentMovedSums
<1>7. ASSUME NEW b \in Accounts, NEW j \in Shared
      PROVE  acct'[b].delegated[j] = LentBy(b, new, j) /\ acct'[b].acquired[j] = LentTo(b, new, j)
  <2>0. j \in Kinds
    BY <1>3
  <2>1. acct[b].delegated[j] = LentBy(b, Lent1, j) /\ acct[b].acquired[j] = LentTo(b, Lent1, j)
    BY DEF StakeInv, DelegationsAgree
  <2>2. LentBy(b, Lent1, j) \in Nat /\ LentTo(b, Lent1, j) \in Nat
    BY <1>4, <2>0, LentType
  <2>3. acct'[b].delegated[j] = acct[b].delegated[j] + IF b = p[1] /\ j = k THEN d ELSE 0
    BY <1>1, <1>3, <2>0, <2>1, <2>2 DEF Lends1, Holds1, Moved
  <2>4. acct'[b].acquired[j] = acct[b].acquired[j] + IF b = p[2] /\ j = k THEN d ELSE 0
    BY <1>1, <1>3, <2>0, <2>1, <2>2 DEF Lends1, Holds1, Moved
  <2> QED
    BY <1>6, <2>0, <2>1, <2>3, <2>4
<1>8. ASSUME NEW b \in Accounts, NEW j \in Shared
      PROVE  acct'[b].delegated2[j] = LentBy(b, Lent2, j) /\ acct'[b].acquired2[j] = LentTo(b, Lent2, j)
  BY <1>1 DEF Lends1, Holds1, StakeInv, DelegationsAgree
<1>9. Lent2' = Lent2
  BY DEF Lent2
<1>10. DelegationsAgree'
  <2>1. ASSUME NEW b \in Accounts, NEW j \in Shared
        PROVE  /\ acct'[b].delegated2[j] = LentBy(b, Lent2, j)' /\ acct'[b].acquired2[j] = LentTo(b, Lent2, j)'
               /\ acct'[b].delegated[j] = LentBy(b, Lent1, j)' /\ acct'[b].acquired[j] = LentTo(b, Lent1, j)'
    <3>1. /\ LentBy(b, Lent2, j)' = LentBy(b, Lent2, j) /\ LentTo(b, Lent2, j)' = LentTo(b, Lent2, j)
          /\ LentBy(b, Lent1, j)' = LentBy(b, new, j) /\ LentTo(b, Lent1, j)' = LentTo(b, new, j)
      BY <1>5, <1>9 DEF LentBy, LentTo
    <3>2. /\ acct'[b].delegated2[j] = LentBy(b, Lent2, j) /\ acct'[b].acquired2[j] = LentTo(b, Lent2, j)
          /\ acct'[b].delegated[j] = LentBy(b, new, j) /\ acct'[b].acquired[j] = LentTo(b, new, j)
      BY <1>7, <1>8
    <3> QED
      BY <3>1, <3>2
  <2> QED
    BY <2>1 DEF StakeInv, DelegationsAgree
<1> QED
  BY <1>1, <1>2, <1>10 DEF StakeInv

\* The owner's side of a delegation: stake that is lent backs the owner's votes as before.
LEMMA LendingIs ==
    ASSUME newModel \in BOOLEAN, NEW r \in Row, OldPowerSound(r), Backed(r), NEW k \in Shared, NEW d \in Int,
           r.frozen2[k] - d >= 0, r.delegated2[k] + d >= 0, NEW s, s = Lending(r, k, d)
    PROVE  Sound(r, s) /\ Lends2(r, s, k, d)
<1>1. k \in Kinds /\ k # "power" /\ r.frozen2 \in PerKind /\ r.delegated2 \in PerKind /\ r.frozen2[k] \in Nat /\ r.delegated2[k] \in Nat
  BY KindsFinite DEF Row, PerKind, Shared
<1>2. PICK f \in PerKind : f = Plus(r.frozen2, k, -d) /\ f[k] = r.frozen2[k] - d /\ \A j \in Kinds : j # k => f[j] = r.frozen2[j]
  <2>1. -d \in Int /\ r.frozen2[k] + (-d) >= 0 /\ r.frozen2[k] + (-d) = r.frozen2[k] - d
    BY <1>1
  <2> QED
    BY <1>1, <2>1, PlusIs
<1>3. PICK g \in PerKind : g = Plus(r.delegated2, k, d) /\ Moved(r.delegated2, g, k, d)
  BY <1>1, PlusIs DEF Moved
<1>4. s = [r EXCEPT !.frozen2 = f, !.delegated2 = g]
  BY <1>2, <1>3 DEF Lending
<1>5. /\ s \in Row /\ s.frozen2 = f /\ s.delegated2 = g /\ s.frozen = r.frozen /\ s.delegated = r.delegated
      /\ s.acquired = r.acquired /\ s.acquired2 = r.acquired2 /\ s.balance = r.balance /\ s.allowance = r.allowance
      /\ s.unfrozen = r.unfrozen /\ s.votes = r.votes /\ s.oldPower = r.oldPower
  BY <1>4 DEF Row
<1>6. StakeIn(s, k) = StakeIn(r, k) + 0 /\ \A j \in Kinds : j # k => StakeIn(s, j) = StakeIn(r, j)
  <2>1. r.frozen[k] \in Nat /\ r.delegated[k] \in Nat
    BY <1>1 DEF Row, PerKind
  <2> QED
    BY <1>1, <1>2, <1>3, <1>5, <2>1 DEF StakeIn, Moved
<1>7. Worth(s) = Worth(r) /\ LegacyPower(s) >= LegacyPower(r)
  <2>1. SumOf(r.unfrozen) \in Nat /\ r.allowance \in Nat /\ r.balance \in Nat /\ LegacyPower(r) \in Nat /\ 0 \in Int
    BY RowSums DEF Row
  <2>2. s.balance + s.allowance + SumOf(s.unfrozen) + 0 = r.balance + r.allowance + SumOf(r.unfrozen)
    BY <1>5, <2>1
  <2>3. Worth(s) = Worth(r) /\ (k \in Shared => LegacyPower(s) = LegacyPower(r) + 0)
    BY <1>1, <1>5, <1>6, <2>1, <2>2, KindMoved
  <2> QED
    BY <2>1, <2>3
<1>8. Dedicated(s) >= Dedicated(r)
  <2>1. Dedicated(s) = Dedicated(r)
    BY <1>1, <1>2, <1>5 DEF Dedicated
  <2> QED
    BY <2>1, RowSums
<1>9. OldPowerSound(s) /\ Backed(s)
  BY <1>5, <1>7, <1>8, MorePower
<1> QED
  BY <1>3, <1>5, <1>7, <1>9 DEF Sound, Lends2

\* What a receiver holds for others is no stake of its own.
LEMMA NoStakeMoved ==
    ASSUME newModel \in BOOLEAN, NEW r \in Row, OldPowerSound(r), Backed(r), NEW s \in Row, SameStake(r, s), SameMoney(r, s),
           s.votes = r.votes, s.oldPower = r.oldPower
    PROVE  Sound(r, s)
<1>1. LegacyPower(s) >= LegacyPower(r) /\ Dedicated(s) >= Dedicated(r)
  BY SameSums, RowSums
<1> QED
  BY <1>1, MorePower, SameWorth DEF Sound

\* The receiver's side, in the second version and in the first.
LEMMA HeldIs ==
    ASSUME newModel \in BOOLEAN, NEW r \in Row, OldPowerSound(r), Backed(r), NEW k \in Kinds, NEW d \in Int
    PROVE  /\ r.acquired2[k] + d >= 0 =>
                Sound(r, [r EXCEPT !.acquired2 = Plus(@, k, d)]) /\ Holds2(r, [r EXCEPT !.acquired2 = Plus(@, k, d)], k, d)
           /\ r.acquired[k] + d >= 0 =>
                Sound(r, [r EXCEPT !.acquired = Plus(@, k, d)]) /\ Holds1(r, [r EXCEPT !.acquired = Plus(@, k, d)], k, d)
<1>1. ASSUME r.acquired2[k] + d >= 0
      PROVE  Sound(r, [r EXCEPT !.acquired2 = Plus(@, k, d)]) /\ Holds2(r, [r EXCEPT !.acquired2 = Plus(@, k, d)], k, d)
  <2>1. r.acquired2 \in PerKind
    BY DEF Row
  <2>2. PICK g \in PerKind : g = Plus(r.acquired2, k, d) /\ Moved(r.acquired2, g, k, d)
    BY <1>1, <2>1, PlusIs DEF Moved
  <2>3. PICK s : s = [r EXCEPT !.acquired2 = g]
    OBVIOUS
  <2>4. /\ s \in Row /\ s.acquired2 = g /\ s.acquired = r.acquired /\ SameStake(r, s) /\ SameMoney(r, s) /\ s.votes = r.votes
        /\ s.oldPower = r.oldPower
    BY <2>3 DEF Row, SameStake, SameMoney
  <2>5. Sound(r, s)
    BY <2>4, NoStakeMoved
  <2>6. Holds2(r, s, k, d)
    BY <2>2, <2>4 DEF Holds2, SameStake
  <2> QED
    BY <2>2, <2>3, <2>5, <2>6
<1>2. ASSUME r.acquired[k] + d >= 0
      PROVE  Sound(r, [r EXCEPT !.acquired = Plus(@, k, d)]) /\ Holds1(r, [r EXCEPT !.acquired = Plus(@, k, d)], k, d)
  <2>1. r.acquired \in PerKind
    BY DEF Row
  <2>2. PICK g \in PerKind : g = Plus(r.acquired, k, d) /\ Moved(r.acquired, g, k, d)
    BY <1>2, <2>1, PlusIs DEF Moved
  <2>3. PICK s : s = [r EXCEPT !.acquired = g]
    OBVIOUS
  <2>4. /\ s \in Row /\ s.acquired = g /\ s.acquired2 = r.acquired2 /\ SameStake(r, s) /\ SameMoney(r, s) /\ s.votes = r.votes
        /\ s.oldPower = r.oldPower
    BY <2>3 DEF Row, SameStake, SameMoney
  <2>5. Sound(r, s)
    BY <2>4, NoStakeMoved
  <2>6. Holds1(r, s, k, d)
    BY <2>2, <2>4 DEF Holds1, SameStake
  <2> QED
    BY <2>2, <2>3, <2>5, <2>6
<1> QED
  BY <1>1, <1>2

LEMMA NoGrantIs == NoGrant \in Grant /\ None \in PerKind /\ NoGrant.amount = None /\ NoGrant.there = FALSE /\ \A k \in Kinds : None[k] = 0
<1>1. None \in PerKind /\ \A k \in Kinds : None[k] = 0
  BY DEF None, PerKind
<1> QED
  BY <1>1 DEF NoGrant, Grant

LEMMA GrantingIs ==
    ASSUME NEW g \in Grant, NEW k \in Kinds, NEW x \in Nat, NEW until \in Nat, NEW h, h = Granting(g, k, x, until)
    PROVE  h \in Grant /\ h.there = TRUE /\ Moved(g.amount, h.amount, k, x)
<1>1. g.amount \in PerKind /\ g.amount[k] \in Nat /\ g.expire \in PerKind
  BY DEF Grant, PerKind
<1>2. PICK f \in PerKind : f = Plus(g.amount, k, x) /\ Moved(g.amount, f, k, x)
  <2>1. x \in Int /\ g.amount[k] + x >= 0
    BY <1>1
  <2> QED
    BY <1>1, <2>1, PlusIs DEF Moved
<1>3. PICK e \in PerKind : e = [g.expire EXCEPT ![k] = until]
  BY <1>1 DEF PerKind
<1>4. h = [g EXCEPT !.there = TRUE, !.amount = f, !.expire = e]
  BY <1>2, <1>3 DEF Granting
<1>5. h \in Grant /\ h.there = TRUE /\ h.amount = f
  BY <1>4 DEF Grant
<1> QED
  BY <1>2, <1>5

-----------------------------------------------------------------------------
\* What is left of the records of a pair: every amount, in a record that holds it.
UnlockedSound(p, g) ==
    /\ g \in [Pairs \X BOOLEAN -> Grant]
    /\ \A h \in Pairs \X BOOLEAN : g[h].there \/ g[h].amount = None
    /\ \A q \in Pairs, b \in BOOLEAN : q # p => g[<<q, b>>] = granted[<<q, b>>]
    /\ \A k \in Kinds : g[<<p, TRUE>>].amount[k] + g[<<p, FALSE>>].amount[k] = Lent2[p][k]
    /\ \A k \in Shared : g[<<p, FALSE>>].amount[k] = Available(p, k)
    /\ p \in index2 <=> g[<<p, TRUE>>].there \/ g[<<p, FALSE>>].there

\* unlock_expired moves amounts between the records of a pair and loses none.
LEMMA UnlockedIs ==
    ASSUME StakeInv, NEW p \in Pairs, NEW g, g = Unlocked(p)
    PROVE  UnlockedSound(p, g)
<1> DEFINE l == granted[<<p, TRUE>>]
           u == granted[<<p, FALSE>>]
           out == Expired(l)
<1>1. /\ granted \in [Pairs \X BOOLEAN -> Grant] /\ <<p, TRUE>> \in Pairs \X BOOLEAN /\ <<p, FALSE>> \in Pairs \X BOOLEAN
      /\ l \in Grant /\ u \in Grant /\ (p \in index2 <=> l.there \/ u.there)
      /\ (l.there \/ l.amount = None)
  BY DEF StakeInv, StakeTypes, DelegationsAgree, RecordsHold
<1>2. \A k \in Kinds : l.amount[k] \in Nat /\ u.amount[k] \in Nat /\ l.expire[k] \in Nat /\ Lent2[p][k] = l.amount[k] + u.amount[k]
  BY <1>1 DEF Grant, PerKind, Lent2
<1>3. \A k \in Kinds : Available(p, k) = u.amount[k] + IF k \in out THEN l.amount[k] ELSE 0
  BY DEF Available
<1>4. CASE ~l.there \/ out = {}
  <2>1. g = granted
    BY <1>4 DEF Unlocked
  <2>2. \A k \in Kinds : u.amount[k] = Available(p, k)
    <3> HIDE DEF l, u, out
    <3>1. ASSUME NEW k \in Kinds PROVE (IF k \in out THEN l.amount[k] ELSE 0) = 0
      BY <1>1, <1>4, NoGrantIs
    <3> QED
      BY <1>2, <1>3, <3>1
  <2> QED
    BY <1>1, <1>2, <2>1, <2>2, KindsFinite DEF StakeInv, RecordsHold, UnlockedSound
<1>5. CASE ~(~l.there \/ out = {})
  <2>1. PICK ka \in PerKind : ka = [k \in Kinds |-> IF k \in out THEN 0 ELSE l.amount[k]]
    BY <1>2 DEF PerKind
  <2>2. PICK ke \in PerKind : ke = [k \in Kinds |-> IF k \in out THEN 0 ELSE l.expire[k]]
    BY <1>2 DEF PerKind
  <2>3. PICK fa \in PerKind : fa = [k \in Kinds |-> u.amount[k] + IF k \in out THEN l.amount[k] ELSE 0]
    <3> HIDE DEF l, u, out
    <3>1. \A k \in Kinds : u.amount[k] + (IF k \in out THEN l.amount[k] ELSE 0) \in Nat
      BY <1>2
    <3> QED
      BY <3>1 DEF PerKind
  <2>4. PICK kept : kept = [l EXCEPT !.amount = ka, !.expire = ke]
    OBVIOUS
  <2>5. PICK freed : freed = [u EXCEPT !.there = TRUE, !.amount = fa]
    OBVIOUS
  <2>6. kept \in Grant /\ kept.there = TRUE /\ kept.amount = ka /\ freed \in Grant /\ freed.there = TRUE /\ freed.amount = fa
    <3>1. l.there = TRUE
      BY <1>1, <1>5 DEF Grant
    <3> HIDE DEF l, u, out
    <3> QED
      BY <1>1, <2>4, <2>5, <3>1 DEF Grant
  <2>7. PICK m : m = IF kept.amount = None THEN NoGrant ELSE kept
    OBVIOUS
  <2>8. m \in Grant /\ m.amount = ka /\ (m.there \/ m.amount = None)
    BY <2>6, <2>7, NoGrantIs
  <2>9. g = [granted EXCEPT ![<<p, FALSE>>] = freed, ![<<p, TRUE>>] = m]
    BY <1>5, <2>1, <2>2, <2>3, <2>4, <2>5, <2>7 DEF Unlocked
  <2>10. /\ g \in [Pairs \X BOOLEAN -> Grant] /\ g[<<p, TRUE>>] = m /\ g[<<p, FALSE>>] = freed
         /\ \A h \in Pairs \X BOOLEAN : h # <<p, TRUE>> /\ h # <<p, FALSE>> => g[h] = granted[h]
    <3> HIDE DEF l, u, out
    <3>1. <<p, TRUE>> # <<p, FALSE>>
      OBVIOUS
    <3> QED
      BY <1>1, <2>6, <2>8, <2>9, <3>1
  <2>11. \A h \in Pairs \X BOOLEAN : g[h].there \/ g[h].amount = None
    BY <2>6, <2>8, <2>10 DEF StakeInv, RecordsHold
  <2>12. \A q \in Pairs, b \in BOOLEAN : q # p => g[<<q, b>>] = granted[<<q, b>>]
    BY <2>10
  <2>13. \A k \in Kinds : ka[k] + fa[k] = Lent2[p][k] /\ fa[k] = Available(p, k)
    <3> HIDE DEF l, u, out
    <3> QED
      BY <1>2, <1>3, <2>1, <2>3
  <2> QED
    BY <1>1, <1>5, <2>6, <2>8, <2>10, <2>11, <2>12, <2>13, KindsFinite DEF UnlockedSound
<1> QED
  BY <1>4, <1>5

\* The records agree with the sums, and those of the other pairs are as before.
RecordMoved(p, k, d, b, g, h) ==
    /\ granted' \in [Pairs \X BOOLEAN -> Grant] /\ RecordsHold' /\ LentMoved(Lent2, Lent2', p, k, d)
    /\ granted'[<<p, b>>] = h /\ \A c \in BOOLEAN : c # b => granted'[<<p, c>>] = g[<<p, c>>]
    /\ \A q \in Pairs, c \in BOOLEAN : q # p => granted'[<<q, c>>] = granted[<<q, c>>]

\* One record of a pair changes, after what expired was unlocked.
LEMMA RecordStep ==
    ASSUME StakeInv, NEW p \in Pairs, NEW k \in Kinds, NEW d \in Int, NEW b \in BOOLEAN, NEW g, g = Unlocked(p), NEW h \in Grant,
           Moved(g[<<p, b>>].amount, h.amount, k, d), h.there \/ h.amount = None, granted' = [g EXCEPT ![<<p, b>>] = h]
    PROVE  RecordMoved(p, k, d, b, g, h)
<1>1. /\ g \in [Pairs \X BOOLEAN -> Grant] /\ (\A i \in Pairs \X BOOLEAN : g[i].there \/ g[i].amount = None)
      /\ (\A q \in Pairs, c \in BOOLEAN : q # p => g[<<q, c>>] = granted[<<q, c>>])
      /\ (\A j \in Kinds : g[<<p, TRUE>>].amount[j] + g[<<p, FALSE>>].amount[j] = Lent2[p][j])
  <2>1. UnlockedSound(p, g)
    BY UnlockedIs
  <2> QED
    BY ONLY <2>1 DEF UnlockedSound
<1>2. <<p, b>> \in Pairs \X BOOLEAN
  OBVIOUS
<1>3. /\ granted' \in [Pairs \X BOOLEAN -> Grant] /\ granted'[<<p, b>>] = h
      /\ \A i \in Pairs \X BOOLEAN : i # <<p, b>> => granted'[i] = g[i]
  BY <1>1, <1>2
<1>4. \A c \in BOOLEAN : c # b => granted'[<<p, c>>] = g[<<p, c>>]
  <2>1. \A c \in BOOLEAN : c # b => <<p, c>> # <<p, b>> /\ <<p, c>> \in Pairs \X BOOLEAN
    OBVIOUS
  <2> QED
    BY <1>3, <2>1
<1>5. \A q \in Pairs, c \in BOOLEAN : q # p => granted'[<<q, c>>] = granted[<<q, c>>]
  <2>1. \A q \in Pairs, c \in BOOLEAN : q # p => <<q, c>> # <<p, b>> /\ <<q, c>> \in Pairs \X BOOLEAN
    OBVIOUS
  <2> QED
    BY <1>1, <1>3, <2>1
<1>6. \A i \in Pairs \X BOOLEAN : granted'[i].there \/ granted'[i].amount = None
  BY <1>1, <1>3
<1>7. RecordsHold'
  BY <1>6 DEF RecordsHold
<1>8. \A q \in Pairs, j \in Kinds :
        /\ Lent2[q][j] = granted[<<q, TRUE>>].amount[j] + granted[<<q, FALSE>>].amount[j]
        /\ Lent2'[q][j] = granted'[<<q, TRUE>>].amount[j] + granted'[<<q, FALSE>>].amount[j]
  BY DEF Lent2
<1>9. ASSUME NEW q \in Pairs, NEW j \in Kinds, q # p PROVE Lent2'[q][j] = Lent2[q][j]
  <2>1. granted'[<<q, TRUE>>] = granted[<<q, TRUE>>] /\ granted'[<<q, FALSE>>] = granted[<<q, FALSE>>]
    BY <1>5, <1>9
  <2>2. /\ Lent2[q][j] = granted[<<q, TRUE>>].amount[j] + granted[<<q, FALSE>>].amount[j]
        /\ Lent2'[q][j] = granted'[<<q, TRUE>>].amount[j] + granted'[<<q, FALSE>>].amount[j]
    BY <1>8
  <2> QED
    BY ONLY <2>1, <2>2
<1>10. ASSUME NEW j \in Kinds PROVE Lent2'[p][j] = Lent2[p][j] + IF j = k THEN d ELSE 0
  <2>1. g[<<p, TRUE>>] \in Grant /\ g[<<p, FALSE>>] \in Grant
    BY <1>1
  <2>2. g[<<p, TRUE>>].amount[j] \in Nat /\ g[<<p, FALSE>>].amount[j] \in Nat
    BY <2>1 DEF Grant, PerKind
  <2>3. h.amount[j] = g[<<p, b>>].amount[j] + IF j = k THEN d ELSE 0
    <3>1. g[<<p, b>>].amount[j] \in Nat
      BY <2>2
    <3> QED
      BY <3>1 DEF Moved
  <2>4. Lent2'[p][j] = granted'[<<p, TRUE>>].amount[j] + granted'[<<p, FALSE>>].amount[j]
    BY <1>8
  <2>5. Lent2[p][j] = g[<<p, TRUE>>].amount[j] + g[<<p, FALSE>>].amount[j]
    BY <1>1
  <2>6. CASE b = TRUE
    <3>1. granted'[<<p, TRUE>>] = h /\ granted'[<<p, FALSE>>] = g[<<p, FALSE>>]
      BY <1>3, <1>4, <2>6
    <3> QED
      BY ONLY <2>2, <2>3, <2>4, <2>5, <2>6, <3>1, d \in Int
  <2>7. CASE b = FALSE
    <3>1. granted'[<<p, FALSE>>] = h /\ granted'[<<p, TRUE>>] = g[<<p, TRUE>>]
      BY <1>3, <1>4, <2>7
    <3>2. h.amount[j] = g[<<p, FALSE>>].amount[j] + IF j = k THEN d ELSE 0
      BY <2>3, <2>7
    <3> QED
      BY ONLY <2>2, <2>4, <2>5, <3>1, <3>2, d \in Int
  <2> QED
    BY <2>6, <2>7
<1>11. LentMoved(Lent2, Lent2', p, k, d)
  <2>1. Lent2 \in [Pairs -> PerKind]
    BY LentTypes DEF StakeInv, StakeTypes, Lent2
  <2>2. Lent2[p] \in PerKind
    BY <2>1
  <2>3. Lent2'[p][k] = Lent2[p][k] + d
    BY <1>10
  <2>4. \A j \in Kinds : j # k => Lent2'[p][j] = Lent2[p][j]
    <3>1. \A j \in Kinds : Lent2[p][j] \in Nat
      BY <2>2 DEF PerKind
    <3> QED
      BY <1>10, <3>1
  <2> QED
    BY <1>9, <2>3, <2>4 DEF LentMoved
<1> QED
  BY <1>3, <1>4, <1>5, <1>7, <1>11 DEF RecordMoved

\* What both rows of a pair are.
LEMMA PairFacts ==
    ASSUME StakeInv, NEW p \in Pairs, NEW k \in Shared
    PROVE  /\ p[1] \in Accounts /\ p[2] \in Accounts /\ p[1] # p[2] /\ k \in Kinds /\ k # "power" /\ newModel \in BOOLEAN /\ stakeNow \in Nat
           /\ acct[p[1]] \in Row /\ OldPowerSound(acct[p[1]]) /\ Backed(acct[p[1]])
           /\ acct[p[2]] \in Row /\ OldPowerSound(acct[p[2]]) /\ Backed(acct[p[2]])
           /\ Lent2[p][k] \in Nat /\ Lent2[p][k] <= acct[p[1]].delegated2[k] /\ Lent2[p][k] <= acct[p[2]].acquired2[k]
           /\ Lent1[p][k] \in Nat /\ Lent1[p][k] <= acct[p[1]].delegated[k] /\ Lent1[p][k] <= acct[p[2]].acquired[k]
<1>1. p[1] \in Accounts /\ p[2] \in Accounts /\ p[1] # p[2] /\ k \in Kinds /\ k # "power"
  BY KindsFinite DEF Pairs, Shared
<1>2. Lent2 \in [Pairs -> PerKind] /\ Lent1 \in [Pairs -> PerKind]
  <2>1. Lent2 \in [Pairs -> PerKind]
    BY LentTypes DEF StakeInv, StakeTypes, Lent2
  <2>2. Lent1 \in [Pairs -> PerKind]
    BY DEF StakeInv, StakeTypes, Lent1, Grant
  <2> QED
    BY <2>1, <2>2
<1>3. /\ acct[p[1]].delegated2[k] = LentBy(p[1], Lent2, k) /\ acct[p[2]].acquired2[k] = LentTo(p[2], Lent2, k)
      /\ acct[p[1]].delegated[k] = LentBy(p[1], Lent1, k) /\ acct[p[2]].acquired[k] = LentTo(p[2], Lent1, k)
  BY <1>1 DEF StakeInv, DelegationsAgree
<1>4. Lent2[p][k] \in Nat /\ Lent1[p][k] \in Nat
  BY <1>1, <1>2 DEF PerKind
<1>5. /\ Lent2[p][k] <= LentBy(p[1], Lent2, k) /\ Lent2[p][k] <= LentTo(p[2], Lent2, k)
      /\ Lent1[p][k] <= LentBy(p[1], Lent1, k) /\ Lent1[p][k] <= LentTo(p[2], Lent1, k)
  BY <1>1, <1>2, LentType
<1> QED
  BY <1>1, <1>3, <1>4, <1>5, RowFacts

LEMMA DelegateResourceKeeps ==
    ASSUME StakeInv, NEW p \in Pairs, NEW k \in Kinds, NEW x \in Amounts, NEW locked \in BOOLEAN, NEW period \in LockPeriods,
           DelegateResource(p, k, x, locked, period)
    PROVE  StakeInv'
<1>1. k \in Shared /\ x \in Nat /\ x <= acct[p[1]].frozen2[k] /\ period \in Nat
  BY StakingAssumption DEF DelegateResource
<1>2. PICK g : g = Unlocked(p)
  OBVIOUS
<1>3. PICK until \in Nat : until = IF locked THEN stakeNow + period ELSE 0
  BY <1>1 DEF StakeInv, StakeTypes
<1>4. PICK h : h = Granting(g[<<p, locked>>], k, x, until)
  OBVIOUS
<1>5. g[<<p, locked>>] \in Grant
  BY <1>2, UnlockedIs DEF UnlockedSound
<1>6. h \in Grant /\ h.there = TRUE /\ Moved(g[<<p, locked>>].amount, h.amount, k, x)
  BY <1>1, <1>4, <1>5, GrantingIs
<1>7. granted' = [g EXCEPT ![<<p, locked>>] = h]
  BY <1>2, <1>3, <1>4 DEF DelegateResource
<1>8. /\ granted' \in [Pairs \X BOOLEAN -> Grant] /\ RecordsHold' /\ LentMoved(Lent2, Lent2', p, k, x) /\ granted'[<<p, locked>>] = h
      /\ (\A q \in Pairs, c \in BOOLEAN : q # p => granted'[<<q, c>>] = granted[<<q, c>>])
  <2>1. x \in Int
    BY <1>1
  <2>2. RecordMoved(p, k, x, locked, g, h)
    BY <1>2, <1>6, <1>7, <2>1, RecordStep
  <2> QED
    BY ONLY <2>2 DEF RecordMoved
<1>9. index2' = {q \in Pairs : granted'[<<q, TRUE>>].there \/ granted'[<<q, FALSE>>].there}
  <2>1. index2' = index2 \cup {p} /\ index2 = {q \in Pairs : granted[<<q, TRUE>>].there \/ granted[<<q, FALSE>>].there}
    BY DEF DelegateResource, StakeInv, DelegationsAgree
  <2>2. granted'[<<p, TRUE>>].there \/ granted'[<<p, FALSE>>].there
    BY <1>6, <1>8
  <2> QED
    BY <1>8, <2>1, <2>2
<1>10. PICK s : s = Lending(acct[p[1]], k, x)
  OBVIOUS
<1>11. PICK t : t = Borrowing(acct[p[2]], k, x)
  OBVIOUS
<1>12. acct' = [acct EXCEPT ![p[1]] = s, ![p[2]] = t]
  <2>1. p[1] # p[2]
    BY DEF Pairs
  <2> QED
    BY <1>10, <1>11, <2>1 DEF DelegateResource
<1>13. Sound(acct[p[1]], s) /\ Lends2(acct[p[1]], s, k, x)
  <2>1. /\ acct[p[1]] \in Row /\ OldPowerSound(acct[p[1]]) /\ Backed(acct[p[1]]) /\ newModel \in BOOLEAN
        /\ acct[p[1]].frozen2[k] - x >= 0 /\ acct[p[1]].delegated2[k] + x >= 0 /\ x \in Int
    <3>1. acct[p[1]] \in Row /\ OldPowerSound(acct[p[1]]) /\ Backed(acct[p[1]]) /\ newModel \in BOOLEAN
      BY <1>1, PairFacts
    <3>2. acct[p[1]].frozen2[k] \in Nat /\ acct[p[1]].delegated2[k] \in Nat
      BY <3>1 DEF Row, PerKind
    <3> QED
      BY <1>1, <3>1, <3>2
  <2> QED
    BY <1>1, <1>10, <2>1, LendingIs
<1>14. Sound(acct[p[2]], t) /\ Holds2(acct[p[2]], t, k, x)
  <2>1. acct[p[2]] \in Row /\ OldPowerSound(acct[p[2]]) /\ Backed(acct[p[2]]) /\ newModel \in BOOLEAN
    BY <1>1, PairFacts
  <2>2. acct[p[2]].acquired2[k] + x >= 0 /\ x \in Int
    BY <1>1, <2>1 DEF Row, PerKind
  <2> QED
    BY <1>11, <2>1, <2>2, HeldIs DEF Borrowing
<1>15. x \in Int /\ UNCHANGED <<legacy, index1, v2Open, newModel, stakeNow>>
  BY <1>1 DEF DelegateResource, Settled
<1> QED
  BY ONLY StakeInv, p \in Pairs, <1>1, <1>8, <1>9, <1>12, <1>13, <1>14, <1>15, PairStep2

LEMMA UnDelegateResourceKeeps ==
    ASSUME StakeInv, NEW p \in Pairs, NEW k \in Kinds, NEW x \in Amounts, UnDelegateResource(p, k, x)
    PROVE  StakeInv'
<1>1. k \in Shared /\ x \in Nat \ {0} /\ Available(p, k) >= x
  BY StakingAssumption DEF UnDelegateResource
<1>2. PICK g : g = Unlocked(p)
  OBVIOUS
<1>3. PICK c : c = g[<<p, FALSE>>]
  OBVIOUS
<1>4. /\ c \in Grant /\ (c.there \/ c.amount = None) /\ c.amount[k] >= x /\ c.amount[k] \in Nat /\ c.amount[k] <= Lent2[p][k]
      /\ (p \in index2 <=> g[<<p, TRUE>>].there \/ c.there)
  <2>1. /\ g \in [Pairs \X BOOLEAN -> Grant] /\ (\A h \in Pairs \X BOOLEAN : g[h].there \/ g[h].amount = None)
        /\ (\A j \in Kinds : g[<<p, TRUE>>].amount[j] + g[<<p, FALSE>>].amount[j] = Lent2[p][j])
        /\ g[<<p, FALSE>>].amount[k] = Available(p, k) /\ (p \in index2 <=> g[<<p, TRUE>>].there \/ g[<<p, FALSE>>].there)
    <3>1. UnlockedSound(p, g)
      BY <1>2, UnlockedIs
    <3> QED
      BY ONLY <1>1, <3>1 DEF UnlockedSound
  <2>2. g[<<p, TRUE>>] \in Grant /\ g[<<p, FALSE>>] \in Grant /\ <<p, FALSE>> \in Pairs \X BOOLEAN
    BY <2>1
  <2>3. g[<<p, TRUE>>].amount[k] \in Nat /\ g[<<p, FALSE>>].amount[k] \in Nat
    BY <2>2 DEF Grant, PerKind
  <2>4. g[<<p, FALSE>>].there \/ g[<<p, FALSE>>].amount = None
    BY <2>1, <2>2
  <2>5. g[<<p, TRUE>>].amount[k] + g[<<p, FALSE>>].amount[k] = Lent2[p][k]
    BY <2>1
  <2>6. c.amount[k] >= x /\ c.amount[k] \in Nat /\ c.amount[k] <= Lent2[p][k]
    BY <1>1, <1>3, <2>1, <2>3, <2>5
  <2> QED
    BY <1>3, <2>1, <2>2, <2>4, <2>6
<1>5. PICK f \in PerKind : f = Plus(c.amount, k, -x) /\ Moved(c.amount, f, k, -x)
  <2>1. c.amount \in PerKind /\ -x \in Int /\ c.amount[k] + (-x) >= 0
    BY <1>1, <1>4 DEF Grant
  <2> QED
    BY <2>1, PlusIs DEF Moved
<1>6. c.there
  <2>1. c.amount # None
    BY <1>1, <1>4, NoGrantIs
  <2> QED
    BY <1>4, <2>1
<1>7. PICK u : u = [c EXCEPT !.amount = f]
  OBVIOUS
<1>8. PICK h : h = IF u.amount = None THEN NoGrant ELSE [u EXCEPT !.there = TRUE]
  OBVIOUS
<1>9. u \in Grant /\ u.amount = f
  BY <1>4, <1>7 DEF Grant
<1>10. h \in Grant /\ h.amount = f /\ (h.there <=> f # None)
  <2>1. CASE f = None
    BY <1>8, <1>9, <2>1, NoGrantIs
  <2>2. CASE f # None
    BY <1>8, <1>9, <2>2 DEF Grant
  <2> QED
    BY <2>1, <2>2
<1>11. granted' = [g EXCEPT ![<<p, FALSE>>] = h]
  BY <1>2, <1>3, <1>5, <1>7, <1>8 DEF UnDelegateResource
<1>12. /\ granted' \in [Pairs \X BOOLEAN -> Grant] /\ RecordsHold' /\ LentMoved(Lent2, Lent2', p, k, -x) /\ granted'[<<p, FALSE>>] = h
       /\ granted'[<<p, TRUE>>] = g[<<p, TRUE>>]
       /\ (\A q \in Pairs, b \in BOOLEAN : q # p => granted'[<<q, b>>] = granted[<<q, b>>])
  <2>1. -x \in Int /\ FALSE \in BOOLEAN /\ TRUE \in BOOLEAN /\ TRUE # FALSE /\ (h.there \/ h.amount = None)
        /\ Moved(g[<<p, FALSE>>].amount, h.amount, k, -x)
    BY <1>1, <1>3, <1>5, <1>10
  <2>2. RecordMoved(p, k, -x, FALSE, g, h)
    <3> DEFINE d == -x
               b == FALSE
    <3>1. /\ StakeInv /\ p \in Pairs /\ k \in Kinds /\ d \in Int /\ b \in BOOLEAN /\ g = Unlocked(p) /\ h \in Grant
          /\ Moved(g[<<p, b>>].amount, h.amount, k, d) /\ (h.there \/ h.amount = None) /\ granted' = [g EXCEPT ![<<p, b>>] = h]
      BY <1>2, <1>10, <1>11, <2>1
    <3> HIDE DEF d, b
    <3>2. RecordMoved(p, k, d, b, g, h)
      BY ONLY <3>1, RecordStep
    <3> QED
      BY ONLY <3>2 DEF d, b
  <2> QED
    BY ONLY <2>1, <2>2 DEF RecordMoved
<1>13. index2' = {q \in Pairs : granted'[<<q, TRUE>>].there \/ granted'[<<q, FALSE>>].there}
  <2>1. /\ index2' = (IF f = None /\ ~g[<<p, TRUE>>].there THEN index2 \ {p} ELSE index2)
        /\ index2 = {q \in Pairs : granted[<<q, TRUE>>].there \/ granted[<<q, FALSE>>].there}
    BY <1>2, <1>3, <1>5, <1>7, <1>9 DEF UnDelegateResource, StakeInv, DelegationsAgree
  <2>2. p \in index2
    BY <1>4, <1>6
  <2> QED
    BY <1>10, <1>12, <2>1, <2>2
<1>14. PICK s : s = Lending(acct[p[1]], k, -x)
  OBVIOUS
<1>15. PICK t : t = Returning(acct[p[2]], k, x)
  OBVIOUS
<1>16. acct' = [acct EXCEPT ![p[1]] = s, ![p[2]] = t]
  <2>1. p[1] # p[2]
    BY DEF Pairs
  <2> QED
    BY <1>14, <1>15, <2>1 DEF UnDelegateResource
<1>17. /\ acct[p[1]] \in Row /\ OldPowerSound(acct[p[1]]) /\ Backed(acct[p[1]]) /\ newModel \in BOOLEAN
       /\ acct[p[2]] \in Row /\ OldPowerSound(acct[p[2]]) /\ Backed(acct[p[2]])
       /\ Lent2[p][k] \in Nat /\ Lent2[p][k] <= acct[p[1]].delegated2[k] /\ Lent2[p][k] <= acct[p[2]].acquired2[k]
  BY <1>1, PairFacts
<1>18. /\ acct[p[1]].frozen2[k] \in Nat /\ acct[p[1]].delegated2[k] \in Nat /\ acct[p[2]].acquired2[k] \in Nat
  BY <1>17 DEF Row, PerKind
<1>19. Sound(acct[p[1]], s) /\ Lends2(acct[p[1]], s, k, -x)
  <2>1. -x \in Int /\ acct[p[1]].frozen2[k] - (-x) >= 0 /\ acct[p[1]].delegated2[k] + (-x) >= 0
    BY <1>1, <1>4, <1>17, <1>18
  <2> QED
    BY <1>1, <1>14, <1>17, <2>1, LendingIs
<1>20. Sound(acct[p[2]], t) /\ Holds2(acct[p[2]], t, k, -x)
  <2>1. -x \in Int /\ acct[p[2]].acquired2[k] + (-x) >= 0 /\ ~(acct[p[2]].acquired2[k] < x)
    BY <1>1, <1>4, <1>17, <1>18
  <2>2. t = [acct[p[2]] EXCEPT !.acquired2 = Plus(@, k, -x)]
    BY <1>15, <2>1 DEF Returning
  <2> QED
    BY <1>17, <2>1, <2>2, HeldIs
<1>21. -x \in Int /\ UNCHANGED <<legacy, index1, v2Open, newModel, stakeNow>>
  BY <1>1 DEF UnDelegateResource, Settled
<1> QED
  BY ONLY StakeInv, p \in Pairs, <1>1, <1>12, <1>13, <1>16, <1>19, <1>20, <1>21, PairStep2

LegacyLent(r, k, d, y) == [r EXCEPT !.delegated = Plus(@, k, d), !.balance = y]

\* The owner's side of a delegation of the first version, from and to what is free.
LEMMA LegacyLentIs ==
    ASSUME NEW r \in Row, NEW k \in Shared, NEW d \in Int, NEW y \in Nat, y + d = r.balance, r.delegated[k] + d >= 0,
           NEW s, s = LegacyLent(r, k, d, y)
    PROVE  /\ s \in Row /\ Lends1(r, s, k, d) /\ Worth(s) = Worth(r) /\ LegacyPower(s) = LegacyPower(r) + d
           /\ Dedicated(s) = Dedicated(r) /\ s.votes = r.votes /\ s.oldPower = r.oldPower
<1>1. k \in Kinds /\ r.delegated \in PerKind /\ r.delegated[k] \in Nat
  BY KindsFinite DEF Row, PerKind
<1>2. PICK f \in PerKind : f = Plus(r.delegated, k, d) /\ Moved(r.delegated, f, k, d)
  BY <1>1, PlusIs DEF Moved
<1>3. s = [r EXCEPT !.delegated = f, !.balance = y]
  BY <1>2 DEF LegacyLent
<1>4. /\ s \in Row /\ s.delegated = f /\ s.balance = y /\ s.frozen = r.frozen /\ s.frozen2 = r.frozen2 /\ s.delegated2 = r.delegated2
      /\ s.acquired = r.acquired /\ s.acquired2 = r.acquired2 /\ s.allowance = r.allowance /\ s.unfrozen = r.unfrozen
      /\ s.votes = r.votes /\ s.oldPower = r.oldPower
  BY <1>3 DEF Row
<1>5. StakeIn(s, k) = StakeIn(r, k) + d /\ \A j \in Kinds : j # k => StakeIn(s, j) = StakeIn(r, j)
  <2>1. r.frozen[k] \in Nat /\ r.frozen2[k] \in Nat /\ r.delegated2[k] \in Nat
    BY <1>1 DEF Row, PerKind
  <2> QED
    BY <1>1, <1>2, <1>4, <2>1 DEF StakeIn, Moved
<1>6. s.balance + s.allowance + SumOf(s.unfrozen) + d = r.balance + r.allowance + SumOf(r.unfrozen)
  <2>1. SumOf(r.unfrozen) \in Nat /\ r.allowance \in Nat /\ r.balance \in Nat
    BY RowSums DEF Row
  <2> QED
    BY <1>4, <2>1
<1>7. Worth(s) = Worth(r) /\ (k \in Shared => LegacyPower(s) = LegacyPower(r) + d)
  BY ONLY r \in Row, d \in Int, <1>1, <1>4, <1>5, <1>6, KindMoved
<1>8. Dedicated(s) = Dedicated(r)
  BY <1>4 DEF Dedicated
<1> QED
  BY <1>2, <1>4, <1>7, <1>8 DEF Lends1

\* The record of a pair changes.
LEMMA LegacyStep ==
    ASSUME StakeInv, NEW p \in Pairs, NEW k \in Kinds, NEW d \in Int, NEW h \in Grant, Moved(legacy[p].amount, h.amount, k, d),
           legacy' = [legacy EXCEPT ![p] = h]
    PROVE  /\ legacy' \in [Pairs -> Grant] /\ LentMoved(Lent1, Lent1', p, k, d) /\ legacy'[p] = h
           /\ \A q \in Pairs : q # p => legacy'[q] = legacy[q]
<1>1. /\ legacy' \in [Pairs -> Grant] /\ legacy'[p] = h /\ \A q \in Pairs : q # p => legacy'[q] = legacy[q]
  BY DEF StakeInv, StakeTypes
<1>2. \A q \in Pairs : Lent1[q] = legacy[q].amount /\ Lent1'[q] = legacy'[q].amount
  BY DEF Lent1
<1>3. LentMoved(Lent1, Lent1', p, k, d)
  BY <1>1, <1>2 DEF LentMoved, Moved
<1> QED
  BY <1>1, <1>3

LEMMA FreezeBalanceForKeeps ==
    ASSUME StakeInv, NEW p \in Pairs, NEW k \in Kinds, NEW x \in Amounts, FreezeBalanceFor(p, k, x)
    PROVE  StakeInv'
<1>1. k \in Shared /\ x \in Nat /\ x \in Int /\ x <= acct[p[1]].balance
  BY StakingAssumption DEF FreezeBalanceFor
<1>2. /\ p[1] \in Accounts /\ p[2] \in Accounts /\ p[1] # p[2] /\ newModel \in BOOLEAN /\ stakeNow \in Nat
      /\ acct[p[2]] \in Row /\ OldPowerSound(acct[p[2]]) /\ Backed(acct[p[2]])
  BY <1>1, PairFacts
<1>3. PICK r : r = Remembered(acct[p[1]])
  OBVIOUS
<1>4. /\ r \in Row /\ OldPowerSound(r) /\ Backed(r) /\ SameLoans(acct[p[1]], r) /\ Worth(r) = Worth(acct[p[1]])
      /\ SameMoney(acct[p[1]], r)
  BY <1>2, <1>3, RememberedAccount
<1>5. PICK y \in Nat : y = r.balance - x /\ y + x = r.balance
  <2>1. r.balance \in Nat /\ x <= r.balance
    BY <1>1, <1>4 DEF Row, SameMoney
  <2> QED
    BY <1>1, <2>1
<1>6. PICK s : s = LegacyLent(r, k, x, y)
  OBVIOUS
<1>7. PICK t : t = Acquiring(acct[p[2]], k, x)
  OBVIOUS
<1>8. acct' = [acct EXCEPT ![p[1]] = s, ![p[2]] = t]
  BY <1>2, <1>3, <1>5, <1>6, <1>7 DEF FreezeBalanceFor, LegacyLent
<1>9. /\ s \in Row /\ Lends1(r, s, k, x) /\ Worth(s) = Worth(r) /\ LegacyPower(s) = LegacyPower(r) + x
      /\ Dedicated(s) = Dedicated(r) /\ s.votes = r.votes /\ s.oldPower = r.oldPower
  <2>1. r.delegated[k] + x >= 0
    BY <1>1, <1>4 DEF Row, PerKind
  <2> QED
    BY <1>1, <1>4, <1>5, <1>6, <2>1, LegacyLentIs
<1>10. Sound(acct[p[1]], s) /\ Lends1(acct[p[1]], s, k, x)
  <2>1. LegacyPower(s) >= LegacyPower(r) /\ Dedicated(s) >= Dedicated(r)
    BY <1>1, <1>4, <1>9, RowSums
  <2>2. OldPowerSound(s) /\ Backed(s)
    BY <1>2, <1>4, <1>9, <2>1, MorePower
  <2> QED
    BY <1>4, <1>9, <2>2 DEF Sound, Lends1, SameLoans
<1>11. Sound(acct[p[2]], t) /\ Holds1(acct[p[2]], t, k, x)
  <2>1. acct[p[2]].acquired[k] + x >= 0
    BY <1>1, <1>2 DEF Row, PerKind
  <2> QED
    BY <1>1, <1>2, <1>7, <2>1, HeldIs DEF Acquiring
<1>12. PICK until \in Nat : until = stakeNow + FrozenTime
  BY <1>2, StakingAssumption
<1>13. PICK h : h = Granting(legacy[p], k, x, until)
  OBVIOUS
<1>14. h \in Grant /\ h.there = TRUE /\ Moved(legacy[p].amount, h.amount, k, x)
  <2>1. legacy[p] \in Grant
    BY DEF StakeInv, StakeTypes
  <2> QED
    BY <1>1, <1>13, <2>1, GrantingIs
<1>15. legacy' = [legacy EXCEPT ![p] = h]
  BY <1>12, <1>13 DEF FreezeBalanceFor
<1>16. /\ legacy' \in [Pairs -> Grant] /\ LentMoved(Lent1, Lent1', p, k, x) /\ legacy'[p] = h
       /\ \A q \in Pairs : q # p => legacy'[q] = legacy[q]
  BY <1>1, <1>14, <1>15, LegacyStep
<1>17. DelegateOptimization \/ index1' = {q \in Pairs : legacy'[q].there}
  <2>1. index1' = index1 \cup {p} /\ (DelegateOptimization \/ index1 = {q \in Pairs : legacy[q].there})
    BY DEF FreezeBalanceFor, StakeInv, DelegationsAgree
  <2> QED
    BY <1>14, <1>16, <2>1
<1>18. UNCHANGED <<granted, index2, v2Open, newModel, stakeNow>>
  BY DEF FreezeBalanceFor, Settled
<1> QED
  BY ONLY StakeInv, p \in Pairs, <1>1, <1>8, <1>10, <1>11, <1>16, <1>17, <1>18, PairStep1

LEMMA UnfreezeBalanceOfKeeps ==
    ASSUME StakeInv, NEW p \in Pairs, NEW k \in Kinds, UnfreezeBalanceOf(p, k)
    PROVE  StakeInv'
<1>1. /\ k \in Shared /\ p[1] \in Accounts /\ p[2] \in Accounts /\ p[1] # p[2] /\ k # "power" /\ newModel \in BOOLEAN
      /\ acct[p[2]] \in Row /\ OldPowerSound(acct[p[2]]) /\ Backed(acct[p[2]]) /\ Lent1[p][k] \in Nat
      /\ Lent1[p][k] <= acct[p[1]].delegated[k] /\ Lent1[p][k] <= acct[p[2]].acquired[k]
  <2>1. k \in Shared
    BY DEF UnfreezeBalanceOf
  <2> QED
    BY <2>1, PairFacts
<1>2. PICK x \in Nat : x = legacy[p].amount[k] /\ x = Lent1[p][k]
  BY <1>1 DEF Lent1
<1>3. PICK d \in Int : d = -x
  OBVIOUS
<1>4. PICK r : r = Remembered(acct[p[1]])
  OBVIOUS
<1>5. /\ r \in Row /\ OldPowerSound(r) /\ Backed(r) /\ SameLoans(acct[p[1]], r) /\ Worth(r) = Worth(acct[p[1]])
  BY <1>1, <1>4, RememberedAccount
<1>6. PICK y \in Nat : y = r.balance + x /\ y + d = r.balance
  <2>1. r.balance \in Nat
    BY <1>5 DEF Row
  <2>2. r.balance + x \in Nat /\ (r.balance + x) + d = r.balance
    BY <1>3, <2>1
  <2> QED
    BY <2>2
<1>7. PICK q : q = LegacyLent(r, k, d, y)
  OBVIOUS
<1>8. /\ q \in Row /\ Lends1(r, q, k, d) /\ Worth(q) = Worth(r) /\ Dedicated(q) = Dedicated(r) /\ q.votes = r.votes /\ q.oldPower = r.oldPower
  <2>1. r.delegated[k] + d >= 0
    <3>1. r.delegated[k] \in Nat /\ x <= r.delegated[k]
      BY <1>1, <1>2, <1>5 DEF Row, PerKind, SameLoans
    <3> QED
      BY <1>3, <3>1
  <2> QED
    BY <1>1, <1>5, <1>6, <1>7, <2>1, LegacyLentIs
<1>9. PICK s : s = Forgotten(q, k)
  OBVIOUS
<1>10. s \in Row /\ OldPowerSound(s) /\ Backed(s) /\ SameStake(q, s) /\ SameLoans(q, s) /\ SameMoney(q, s)
  BY <1>1, <1>5, <1>8, <1>9, ForgottenIs
<1>11. Sound(acct[p[1]], s) /\ Lends1(acct[p[1]], s, k, d)
  <2>1. Worth(s) = Worth(q)
    BY <1>8, <1>10, SameWorth
  <2> QED
    BY <1>5, <1>8, <1>10, <2>1 DEF Sound, Lends1, SameLoans
<1>12. PICK t : t = Acquiring(acct[p[2]], k, d)
  OBVIOUS
<1>13. Sound(acct[p[2]], t) /\ Holds1(acct[p[2]], t, k, d)
  <2>1. acct[p[2]].acquired[k] \in Nat
    BY <1>1 DEF Row, PerKind
  <2>2. acct[p[2]].acquired[k] + d >= 0
    BY <1>1, <1>2, <1>3, <2>1
  <2> QED
    BY <1>1, <1>12, <2>2, HeldIs DEF Acquiring
<1>14. acct' = [acct EXCEPT ![p[1]] = s, ![p[2]] = t]
  BY <1>1, <1>2, <1>3, <1>4, <1>6, <1>7, <1>9, <1>12 DEF UnfreezeBalanceOf, LegacyLent
<1>15. PICK f \in PerKind : f = Plus(legacy[p].amount, k, d) /\ Moved(legacy[p].amount, f, k, d)
  <2>1. legacy[p].amount \in PerKind /\ legacy[p].amount[k] + d >= 0
    BY <1>2, <1>3 DEF StakeInv, StakeTypes, Grant
  <2> QED
    BY <2>1, PlusIs DEF Moved
<1>16. PICK rest : rest = [legacy[p] EXCEPT !.amount = f]
  OBVIOUS
<1>17. PICK h : h = IF rest.amount = None THEN NoGrant ELSE rest
  OBVIOUS
<1>18. rest \in Grant /\ rest.amount = f /\ rest.there /\ h \in Grant /\ h.amount = f /\ (h.there <=> f # None)
  <2>1. rest \in Grant /\ rest.amount = f /\ rest.there
    BY <1>16 DEF StakeInv, StakeTypes, Grant, UnfreezeBalanceOf
  <2>2. CASE f = None
    BY <1>17, <2>1, <2>2, NoGrantIs
  <2>3. CASE f # None
    BY <1>17, <2>1, <2>3
  <2> QED
    BY <2>1, <2>2, <2>3
<1>19. legacy' = [legacy EXCEPT ![p] = h]
  BY <1>2, <1>3, <1>15, <1>16, <1>17 DEF UnfreezeBalanceOf
<1>20. /\ legacy' \in [Pairs -> Grant] /\ LentMoved(Lent1, Lent1', p, k, d) /\ legacy'[p] = h
       /\ \A i \in Pairs : i # p => legacy'[i] = legacy[i]
  BY <1>15, <1>18, <1>19, LegacyStep
<1>21. DelegateOptimization \/ index1' = {i \in Pairs : legacy'[i].there}
  <2>1. /\ index1' = (IF rest.amount = None /\ ~DelegateOptimization THEN index1 \ {p} ELSE index1) /\ legacy[p].there
        /\ (DelegateOptimization \/ index1 = {i \in Pairs : legacy[i].there})
    BY <1>2, <1>3, <1>15, <1>16 DEF UnfreezeBalanceOf, StakeInv, DelegationsAgree
  <2> QED
    BY <1>18, <1>20, <2>1
<1>22. UNCHANGED <<granted, index2, v2Open, newModel, stakeNow>>
  BY DEF UnfreezeBalanceOf, Settled
<1> QED
  BY ONLY StakeInv, p \in Pairs, d \in Int, <1>1, <1>11, <1>13, <1>14, <1>20, <1>21, <1>22, PairStep1

-----------------------------------------------------------------------------
\* Nothing is staked, lent or voted at first.
LEMMA StakeInitInv ==
    ASSUME StakeInit PROVE StakeInv
<1>1. None \in PerKind /\ (\A k \in Kinds : None[k] = 0) /\ NoGrant \in Grant /\ NoGrant.amount = None /\ NoGrant.there = FALSE
  BY NoGrantIs
<1>2. EmptyBag \in ItemBags /\ SumOf(EmptyBag) = 0
  BY EmptyBagIs
<1>3. ASSUME NEW a \in Accounts
      PROVE  /\ acct[a] \in Row /\ acct[a].balance = Stake[a] /\ acct[a].allowance = Allowance[a] /\ acct[a].unfrozen = EmptyBag
             /\ acct[a].votes = 0 /\ acct[a].oldPower = 0 /\ \A k \in Kinds : StakeIn(acct[a], k) = 0
             /\ acct[a].delegated = None /\ acct[a].acquired = None /\ acct[a].delegated2 = None /\ acct[a].acquired2 = None
  <2>1. PICK r : r = [balance |-> Stake[a], allowance |-> Allowance[a], frozen |-> None, expire |-> None, delegated |-> None,
          acquired |-> None, frozen2 |-> None, delegated2 |-> None, acquired2 |-> None, unfrozen |-> EmptyBag, votes |-> 0, oldPower |-> 0]
    OBVIOUS
  <2>2. acct[a] = r
    BY <2>1 DEF StakeInit
  <2>3. Stake[a] \in Nat /\ Allowance[a] \in Nat
    BY StakingAssumption
  <2>4. /\ r \in Row /\ r.balance = Stake[a] /\ r.allowance = Allowance[a] /\ r.unfrozen = EmptyBag /\ r.votes = 0 /\ r.oldPower = 0
        /\ r.frozen = None /\ r.delegated = None /\ r.acquired = None /\ r.frozen2 = None /\ r.delegated2 = None /\ r.acquired2 = None
    BY ONLY <1>1, <1>2, <2>1, <2>3 DEF Row
  <2>5. \A k \in Kinds : StakeIn(r, k) = 0
    BY <1>1, <2>4 DEF StakeIn
  <2> QED
    BY <2>2, <2>4, <2>5
<1>4. StakeTypes
  <2>1. acct \in [Accounts -> Row]
    <3>1. acct = [a \in Accounts |-> acct[a]]
      BY DEF StakeInit
    <3> QED
      BY <1>3, <3>1
  <2> QED
    BY <1>1, <2>1 DEF StakeInit, StakeTypes
<1>5. \A a \in Accounts : OldPowerSound(acct[a])
  BY <1>3 DEF OldPowerSound
<1>6. RecordsHold
  BY <1>1 DEF RecordsHold, StakeInit
<1>7. StakeConserved
  <2>1. ASSUME NEW a \in Accounts PROVE Worth(acct[a]) = Stake[a] + Allowance[a]
    <3> DEFINE z == [k \in Kinds |-> StakeIn(acct[a], k)]
    <3>1. z \in [Kinds -> Int] /\ \A k \in Kinds : z[k] = 0
      BY <1>3
    <3>2. Staked(acct[a]) = SumFunction(z)
      BY DEF Staked
    <3> HIDE DEF z
    <3>3. SumFunction(z) = 0
      BY <3>1, KindsFinite, SumOfZeros
    <3>4. Worth(acct[a]) = acct[a].balance + acct[a].allowance + SumOf(acct[a].unfrozen) + Staked(acct[a])
      BY <1>3, RowSums
    <3>5. Stake[a] \in Nat /\ Allowance[a] \in Nat
      BY StakingAssumption
    <3> QED
      BY <1>2, <1>3, <3>2, <3>3, <3>4, <3>5
  <2> QED
    BY <2>1 DEF StakeConserved
<1>8. VotesBacked
  <2>1. ASSUME NEW a \in Accounts PROVE Backed(acct[a])
    BY <1>3, <1>4, <1>5, NoVotesBacked DEF StakeTypes
  <2> QED
    BY <2>1 DEF VotesBacked, Backed
<1>9. DelegationsAgree
  <2>1. \A p \in Pairs, k \in Kinds : Lent2[p][k] = 0 /\ Lent1[p][k] = 0
    <3>1. \A p \in Pairs : granted[<<p, TRUE>>] = NoGrant /\ granted[<<p, FALSE>>] = NoGrant /\ legacy[p] = NoGrant
      BY DEF StakeInit
    <3>2. ASSUME NEW p \in Pairs, NEW k \in Kinds PROVE Lent2[p][k] = NoGrant.amount[k] + NoGrant.amount[k] /\ Lent1[p][k] = NoGrant.amount[k]
      BY <3>1 DEF Lent2, Lent1
    <3> QED
      BY <1>1, <3>2
  <2>2. ASSUME NEW lent, \A p \in Pairs, k \in Kinds : lent[p][k] = 0, NEW a \in Accounts, NEW k \in Kinds
        PROVE  LentBy(a, lent, k) = 0 /\ LentTo(a, lent, k) = 0
    <3> DEFINE by == {q \in Pairs : q[1] = a}
               to == {q \in Pairs : q[2] = a}
               f == [p \in by |-> lent[p][k]]
               g == [p \in to |-> lent[p][k]]
    <3>1. IsFiniteSet(by) /\ IsFiniteSet(to)
      BY PairsFinite, FS_Subset
    <3>2. f \in [by -> Int] /\ g \in [to -> Int] /\ (\A p \in by : f[p] = 0) /\ (\A p \in to : g[p] = 0)
      BY <2>2
    <3>3. LentBy(a, lent, k) = SumFunction(f) /\ LentTo(a, lent, k) = SumFunction(g)
      BY DEF LentBy, LentTo
    <3> HIDE DEF f, g, by, to
    <3>4. SumFunction(f) = 0 /\ SumFunction(g) = 0
      BY <3>1, <3>2, SumOfZeros
    <3> QED
      BY <3>3, <3>4
  <2>3. \A a \in Accounts, k \in Shared :
          /\ acct[a].delegated2[k] = LentBy(a, Lent2, k) /\ acct[a].acquired2[k] = LentTo(a, Lent2, k)
          /\ acct[a].delegated[k] = LentBy(a, Lent1, k) /\ acct[a].acquired[k] = LentTo(a, Lent1, k)
    <3> TAKE a \in Accounts, k \in Shared
    <3>1. k \in Kinds
      BY KindsFinite
    <3>2. /\ LentBy(a, Lent2, k) = 0 /\ LentTo(a, Lent2, k) = 0 /\ LentBy(a, Lent1, k) = 0 /\ LentTo(a, Lent1, k) = 0
      BY <2>1, <2>2, <3>1
    <3> QED
      BY <1>1, <1>3, <3>1, <3>2
  <2>4. /\ index2 = {p \in Pairs : granted[<<p, TRUE>>].there \/ granted[<<p, FALSE>>].there}
        /\ index1 = {p \in Pairs : legacy[p].there}
    <3>1. \A p \in Pairs : ~granted[<<p, TRUE>>].there /\ ~granted[<<p, FALSE>>].there /\ ~legacy[p].there
      BY <1>1 DEF StakeInit
    <3> QED
      BY <3>1 DEF StakeInit
  <2> QED
    BY <2>3, <2>4 DEF DelegationsAgree
<1> QED
  BY <1>4, <1>5, <1>6, <1>7, <1>8, <1>9 DEF StakeInv

LEMMA StakeNextInv ==
    ASSUME StakeInv, [StakeNext]_stakeVars PROVE StakeInv'
<1>1. ASSUME NEW a \in Accounts, NEW k \in Kinds, NEW x \in Amounts, FreezeBalanceV2(a, k, x) \/ UnfreezeBalanceV2(a, k, x) \/ FreezeBalance(a, k, x)
      PROVE  StakeInv'
  BY <1>1, FreezeBalanceV2Keeps, UnfreezeBalanceV2Keeps, FreezeBalanceKeeps
<1>2. ASSUME NEW a \in Accounts, WithdrawExpireUnfreeze(a) \/ CancelAllUnfreezeV2(a) \/ WithdrawBalance(a) \/ \E n \in Amounts : VoteWitness(a, n)
      PROVE  StakeInv'
  BY <1>2, WithdrawExpireUnfreezeKeeps, CancelAllUnfreezeV2Keeps, WithdrawBalanceKeeps, VoteWitnessKeeps
<1>3. ASSUME NEW p \in Pairs, NEW k \in Kinds, NEW x \in Amounts,
             \/ \E locked \in BOOLEAN, period \in LockPeriods : DelegateResource(p, k, x, locked, period)
             \/ UnDelegateResource(p, k, x) \/ FreezeBalanceFor(p, k, x)
      PROVE  StakeInv'
  BY <1>3, DelegateResourceKeeps, UnDelegateResourceKeeps, FreezeBalanceForKeeps
<1>4. ASSUME NEW a \in Accounts, NEW k \in Kinds, UnfreezeBalance(a, k) PROVE StakeInv'
  BY <1>4, UnfreezeBalanceKeeps
<1>5. ASSUME NEW p \in Pairs, NEW k \in Kinds, UnfreezeBalanceOf(p, k) PROVE StakeInv'
  BY <1>5, UnfreezeBalanceOfKeeps
<1>6. ASSUME StakeTick \/ UNCHANGED stakeVars PROVE StakeInv'
  BY <1>6, StakeTickKeeps
<1>7. ASSUME Activate PROVE StakeInv'
  BY <1>7, ActivateKeeps
<1> QED
  BY <1>1, <1>2, <1>3, <1>4, <1>5, <1>6, <1>7 DEF StakeNext

StakeSpec == StakeInit /\ [][StakeNext]_stakeVars

(* The invariant of the staking actuators: rows and records keep their types, the old  *)
(* power is set aside only under the new model, what no record holds is not lent, and  *)
(* the ledger and the votes are sound, after any sequence of actuators, blocks and     *)
(* activations, for any accounts, amounts and delays.                                  *)
THEOREM StakeInvariant == StakeSpec => []StakeInv
<1>1. StakeInit => StakeInv
  BY StakeInitInv
<1>2. StakeInv /\ [StakeNext]_stakeVars => StakeInv'
  BY StakeNextInv
<1> QED
  BY <1>1, <1>2, PTL DEF StakeSpec

(* No sequence of staking actuators makes or loses TRX, and what owners lent, receivers  *)
(* acquired, the records and the indexes agree (freeze_balance, freeze_balance_v2,       *)
(* unfreeze, cancel, delegate and undelegate, unlock_expired, remove_v2_indexes).        *)
THEOREM StakesConserved == StakeSpec => []StakeLedger
<1>1. StakeInv => StakeLedger
  BY DEF StakeInv, StakeLedger
<1> QED
  BY <1>1, StakeInvariant, PTL

(* An account never keeps more votes than whole TRX of its power: not when stake is      *)
(* unfrozen, scaled or lent, nor when the new resource model takes effect                *)
(* (scale_legacy_votes, clear_votes, initialize_old_tron_power).                         *)
THEOREM VotesStayBacked == StakeSpec => []VotesBacked
<1>1. StakeInv => VotesBacked
  BY DEF StakeInv
<1> QED
  BY <1>1, StakeInvariant, PTL

-----------------------------------------------------------------------------
(* The list of unfreezings: how many wait in it at most. *)

Waiting(us) == SumFunction(us)
UnfreezingsFit == \A a \in Accounts : Waiting(acct[a].unfrozen) <= MaxUnfreezing

\* A part of a list is no longer than the list, and one more unfreezing makes it one longer.
LEMMA WaitingPart ==
    ASSUME NEW us \in ItemBags, NEW A \in SUBSET DOMAIN us
    PROVE  Waiting(us) \in Nat /\ Waiting(Restrict(us, A)) \in Nat /\ Waiting(Restrict(us, A)) <= Waiting(us)
<1>1. us \in [DOMAIN us -> Nat] /\ us \in [DOMAIN us -> Int] /\ IsFiniteSet(DOMAIN us) /\ DOMAIN us \ A \in SUBSET DOMAIN us
  BY SumOfType
<1>2. SumFunction(us) = SumFunction(Restrict(us, A)) + SumFunction(Restrict(us, DOMAIN us \ A)) /\ SumFunction(us) \in Nat
  BY <1>1, SumOfParts, SumOfNaturals
<1>3. ASSUME NEW B \in SUBSET DOMAIN us PROVE SumFunction(Restrict(us, B)) \in Nat
  <2>1. IsFiniteSet(B) /\ Restrict(us, B) \in [B -> Nat]
    BY <1>1, FS_Subset DEF Restrict
  <2> QED
    BY <2>1, SumOfNaturals
<1>4. SumFunction(Restrict(us, A)) \in Nat /\ SumFunction(Restrict(us, DOMAIN us \ A)) \in Nat
  BY <1>1, <1>3
<1> QED
  BY <1>2, <1>4 DEF Waiting

LEMMA WaitingMore ==
    ASSUME NEW us \in ItemBags, NEW u \in Items, NEW b, b = us (+) SetToBag({u})
    PROVE  Waiting(b) = Waiting(us) + 1
<1> DEFINE D == DOMAIN us
<1>1. us \in [D -> Nat] /\ us \in [D -> Int] /\ IsFiniteSet(D) /\ IsFiniteSet(D \cup {u})
  BY SumOfType, FS_AddElement
<1>2. b = [e \in D \cup {u} |-> (IF e \in D THEN us[e] ELSE 0) + (IF e \in {u} THEN 1 ELSE 0)]
  BY DEF (+), SetToBag
<1> HIDE DEF D
<1>3. /\ b \in [D \cup {u} -> Int] /\ b[u] = (IF u \in D THEN us[u] ELSE 0) + 1
      /\ \A v \in D : v # u => b[v] = us[v]
  <2>1. \A e \in D : us[e] \in Nat
    BY <1>1
  <2> QED
    BY ONLY <1>2, <2>1
<1>4. SumFunction(us) \in Int
  BY <1>1, SumIsInteger
<1>5. CASE u \in D
  <2>1. D \cup {u} = D
    BY <1>5
  <2>2. SumFunction(b) = SumFunction(us) + b[u] - us[u]
    BY <1>1, <1>3, <1>5, <2>1, SumOfChange
  <2> QED
    BY <1>1, <1>3, <1>4, <1>5, <2>2 DEF Waiting
<1>6. CASE u \notin D
  <2>1. (D \cup {u}) \ {u} = D /\ Restrict(b, D) = us
    BY <1>1, <1>3, <1>6 DEF Restrict
  <2>2. SumFunction(b) = SumFunction(Restrict(b, (D \cup {u}) \ {u})) + b[u]
    BY <1>1, <1>3, SumWithout
  <2>3. b[u] = 1
    BY <1>3, <1>6
  <2> QED
    BY <1>4, <2>1, <2>2, <2>3 DEF Waiting
<1> QED
  BY <1>5, <1>6

\* Assigning another field leaves a row its list.
Listed(r) == "unfrozen" \in DOMAIN r
LEMMA ListKept ==
    ASSUME NEW r, Listed(r), NEW f, f # "unfrozen", NEW v, NEW s, s = [r EXCEPT ![f] = v]
    PROVE  Listed(s) /\ s.unfrozen = r.unfrozen
  BY DEF Listed

LEMMA RowListed == \A r \in Row : Listed(r)
  BY DEF Row, Listed

LEMMA ForgottenList ==
    ASSUME NEW r, Listed(r), NEW k
    PROVE  Forgotten(r, k).unfrozen = r.unfrozen
<1>1. PICK v : v = Unvoted(r)
  OBVIOUS
<1>2. Listed(v) /\ v.unfrozen = r.unfrozen
  BY <1>1 DEF Unvoted, Listed
<1>3. PICK s : s = IF ~newModel \/ r.oldPower # -1 \/ k = "power" THEN v ELSE r
  OBVIOUS
<1>4. Listed(s) /\ s.unfrozen = r.unfrozen
  BY <1>2, <1>3
<1>5. PICK t : t = [s EXCEPT !.oldPower = -1]
  OBVIOUS
<1>6. t.unfrozen = s.unfrozen
  BY <1>4, <1>5 DEF Listed
<1>7. Forgotten(r, k) = t \/ Forgotten(r, k) = s
  BY <1>1, <1>3, <1>5 DEF Forgotten
<1> QED
  BY <1>4, <1>6, <1>7

\* One row changes, or the two rows of a pair.
LEMMA OneRow ==
    ASSUME StakeInv, UnfreezingsFit, NEW a \in Accounts, NEW s, acct' = [acct EXCEPT ![a] = s], Waiting(s.unfrozen) <= MaxUnfreezing
    PROVE  UnfreezingsFit'
<1>1. acct'[a] = s /\ \A b \in Accounts : b # a => acct'[b] = acct[b]
  BY DEF StakeInv, StakeTypes
<1>2. \A b \in Accounts : Waiting(acct'[b].unfrozen) <= MaxUnfreezing
  BY <1>1 DEF UnfreezingsFit
<1> QED
  BY <1>2 DEF UnfreezingsFit, Waiting

LEMMA TwoRows ==
    ASSUME StakeInv, UnfreezingsFit, NEW p \in Pairs, NEW s, NEW t, acct' = [acct EXCEPT ![p[1]] = s, ![p[2]] = t],
           s.unfrozen = acct[p[1]].unfrozen, t.unfrozen = acct[p[2]].unfrozen
    PROVE  UnfreezingsFit'
<1>0. p[1] \in Accounts /\ p[2] \in Accounts /\ p[1] # p[2] /\ acct \in [Accounts -> Row]
  BY DEF StakeInv, StakeTypes, Pairs
<1>1. acct'[p[1]] = s /\ acct'[p[2]] = t /\ \A b \in Accounts : b # p[1] /\ b # p[2] => acct'[b] = acct[b]
  BY <1>0
<1>2. \A b \in Accounts : acct'[b].unfrozen = acct[b].unfrozen
  BY <1>0, <1>1
<1> QED
  BY <1>2 DEF UnfreezingsFit, Waiting

LEMMA SameRows ==
    ASSUME UnfreezingsFit, UNCHANGED acct PROVE UnfreezingsFit'
  BY DEF UnfreezingsFit, Waiting
\* The steps that leave the lists alone.
LEMMA ListsKept ==
    ASSUME StakeInv, UnfreezingsFit, NEW a \in Accounts, NEW k, NEW x,
           \/ FreezeBalanceV2(a, k, x) \/ FreezeBalance(a, k, x) \/ VoteWitness(a, x) \/ WithdrawBalance(a) \/ UnfreezeBalance(a, k)
    PROVE  UnfreezingsFit'
<1>1. PICK r : r = Remembered(acct[a])
  OBVIOUS
<1>2. acct[a] \in Row /\ r \in Row /\ r.unfrozen = acct[a].unfrozen /\ Listed(r) /\ Listed(acct[a])
  BY <1>1, RowFacts, RememberedIs, RowListed DEF SameMoney
<1>3. Waiting(r.unfrozen) <= MaxUnfreezing
  BY <1>2 DEF UnfreezingsFit
<1>4. CASE FreezeBalanceV2(a, k, x)
  <2>1. PICK f, y, s : s = [r EXCEPT !.frozen2 = f, !.balance = y] /\ acct' = [acct EXCEPT ![a] = s]
    BY <1>1, <1>4 DEF FreezeBalanceV2
  <2>2. s.unfrozen = r.unfrozen
    BY <1>2, <2>1 DEF Listed
  <2> QED
    BY <1>3, <2>1, <2>2, OneRow
<1>5. CASE FreezeBalance(a, k, x)
  <2>1. PICK f, e, y, s : s = [r EXCEPT !.frozen = f, !.expire = e, !.balance = y] /\ acct' = [acct EXCEPT ![a] = s]
    BY <1>1, <1>5 DEF FreezeBalance
  <2>2. s.unfrozen = r.unfrozen
    BY <1>2, <2>1 DEF Listed
  <2> QED
    BY <1>3, <2>1, <2>2, OneRow
<1>6. CASE VoteWitness(a, x)
  <2>1. PICK s : s = [r EXCEPT !.votes = x] /\ acct' = [acct EXCEPT ![a] = s]
    BY <1>1, <1>6 DEF VoteWitness
  <2>2. s.unfrozen = r.unfrozen
    BY <1>2, <2>1 DEF Listed
  <2> QED
    BY <1>3, <2>1, <2>2, OneRow
<1>7. CASE WithdrawBalance(a)
  <2>1. PICK y, s : s = [acct[a] EXCEPT !.balance = y, !.allowance = 0] /\ acct' = [acct EXCEPT ![a] = s]
    BY <1>7 DEF WithdrawBalance
  <2>2. s.unfrozen = r.unfrozen
    BY <1>2, <2>1 DEF Listed
  <2> QED
    BY <1>3, <2>1, <2>2, OneRow
<1>8. CASE UnfreezeBalance(a, k)
  <2>1. PICK f, e, y, q, s : /\ q = [r EXCEPT !.frozen = f, !.expire = e, !.balance = y]
                             /\ s = Forgotten(q, k) /\ acct' = [acct EXCEPT ![a] = s]
    BY <1>1, <1>8 DEF UnfreezeBalance
  <2>2. Listed(q) /\ q.unfrozen = r.unfrozen
    BY <1>2, <2>1 DEF Listed
  <2>3. s.unfrozen = r.unfrozen
    BY <2>1, <2>2, ForgottenList
  <2> QED
    BY <1>3, <2>1, <2>3, OneRow
<1> QED
  BY <1>4, <1>5, <1>6, <1>7, <1>8

LEMMA PairListsKept ==
    ASSUME StakeInv, UnfreezingsFit, NEW p \in Pairs, NEW k, NEW x,
           \/ \E locked \in BOOLEAN, period \in LockPeriods : DelegateResource(p, k, x, locked, period)
           \/ UnDelegateResource(p, k, x) \/ FreezeBalanceFor(p, k, x) \/ UnfreezeBalanceOf(p, k)
    PROVE  UnfreezingsFit'
<1>0. p[1] \in Accounts /\ p[2] \in Accounts /\ p[1] # p[2] /\ acct \in [Accounts -> Row]
  BY DEF StakeInv, StakeTypes, Pairs
<1> DEFINE o == acct[p[1]]
           h == acct[p[2]]
<1>1. PICK r : r = Remembered(o)
  OBVIOUS
<1>2. r.unfrozen = o.unfrozen /\ Listed(r) /\ Listed(o) /\ Listed(h)
  BY <1>0, <1>1, RowFacts, RememberedIs, RowListed DEF SameMoney
<1>3. CASE \E locked \in BOOLEAN, period \in LockPeriods : DelegateResource(p, k, x, locked, period)
  <2>1. PICK s, t : s = Lending(o, k, x) /\ t = Borrowing(h, k, x) /\ acct' = [acct EXCEPT ![p[1]] = s, ![p[2]] = t]
    <3>1. acct' = [acct EXCEPT ![p[1]] = Lending(@, k, x), ![p[2]] = Borrowing(@, k, x)]
      BY <1>3 DEF DelegateResource
    <3> QED
      BY <1>0, <3>1
  <2>2. s.unfrozen = o.unfrozen /\ t.unfrozen = h.unfrozen
    BY <1>2, <2>1 DEF Lending, Borrowing, Listed
  <2> QED
    BY <2>1, <2>2, TwoRows
<1>4. CASE UnDelegateResource(p, k, x)
  <2>1. PICK s, t : s = Lending(o, k, -x) /\ t = Returning(h, k, x) /\ acct' = [acct EXCEPT ![p[1]] = s, ![p[2]] = t]
    <3>1. acct' = [acct EXCEPT ![p[1]] = Lending(@, k, -x), ![p[2]] = Returning(@, k, x)]
      BY <1>4 DEF UnDelegateResource
    <3> QED
      BY <1>0, <3>1
  <2>2. s.unfrozen = o.unfrozen /\ t.unfrozen = h.unfrozen
    BY <1>2, <2>1 DEF Lending, Returning, Listed
  <2> QED
    BY <2>1, <2>2, TwoRows
<1>5. CASE FreezeBalanceFor(p, k, x)
  <2>1. PICK d, y, s, t : /\ s = [r EXCEPT !.delegated = d, !.balance = y] /\ t = Acquiring(h, k, x)
                          /\ acct' = [acct EXCEPT ![p[1]] = s, ![p[2]] = t]
    <3>1. acct' = [acct EXCEPT ![p[1]] = [r EXCEPT !.delegated = Plus(@, k, x), !.balance = @ - x], ![p[2]] = Acquiring(@, k, x)]
      BY <1>1, <1>5 DEF FreezeBalanceFor
    <3> QED
      BY <1>0, <3>1
  <2>2. s.unfrozen = o.unfrozen /\ t.unfrozen = h.unfrozen
    BY <1>2, <2>1 DEF Acquiring, Listed
  <2> QED
    BY <2>1, <2>2, TwoRows
<1>6. CASE UnfreezeBalanceOf(p, k)
  <2>1. PICK d, y, z, q, s, t : /\ q = [r EXCEPT !.delegated = d, !.balance = y] /\ s = Forgotten(q, k) /\ t = Acquiring(h, k, z)
                                /\ acct' = [acct EXCEPT ![p[1]] = s, ![p[2]] = t]
    <3>1. PICK w : acct' = [acct EXCEPT ![p[1]] = Forgotten([r EXCEPT !.delegated = Plus(@, k, -w), !.balance = @ + w], k),
                                        ![p[2]] = Acquiring(@, k, -w)]
      BY <1>1, <1>6 DEF UnfreezeBalanceOf
    <3> QED
      BY <1>0, <3>1
  <2>2. Listed(q) /\ q.unfrozen = r.unfrozen
    BY <1>2, <2>1 DEF Listed
  <2>3. s.unfrozen = o.unfrozen /\ t.unfrozen = h.unfrozen
    BY <1>2, <2>1, <2>2, ForgottenList DEF Acquiring, Listed
  <2> QED
    BY <2>1, <2>3, TwoRows
<1> QED
  BY <1>3, <1>4, <1>5, <1>6

\* Paying what is due shortens the list to what is not.
LEMMA PaidList ==
    ASSUME StakeInv, NEW a \in Accounts
    PROVE  /\ Paid(acct[a]).unfrozen = Undue(acct[a]) /\ Undue(acct[a]) \in ItemBags
           /\ Waiting(Undue(acct[a])) \in Nat /\ Waiting(Undue(acct[a])) <= Waiting(acct[a].unfrozen)
           /\ Waiting(acct[a].unfrozen) \in Nat
<1>1. acct[a] \in Row /\ Listed(acct[a]) /\ acct[a].unfrozen \in ItemBags
  BY RowFacts, RowListed DEF Row
<1>2. Paid(acct[a]).unfrozen = Undue(acct[a])
  BY <1>1 DEF Paid, Row
<1>3. PICK A \in SUBSET DOMAIN acct[a].unfrozen : Undue(acct[a]) = Restrict(acct[a].unfrozen, A)
  BY DEF Undue
<1> QED
  BY <1>1, <1>2, <1>3, WaitingPart, SumOfSplit

LEMMA UnfreezeFits ==
    ASSUME StakeInv, UnfreezingsFit, NEW a \in Accounts, NEW k \in Kinds, NEW x \in Amounts, UnfreezeBalanceV2(a, k, x)
    PROVE  UnfreezingsFit'
<1>1. PICK q : q = Paid(acct[a])
  OBVIOUS
<1>2. PICK r : r = Remembered(q)
  OBVIOUS
<1>3. PICK s : s = Unfreezing(r, k, x)
  OBVIOUS
<1>4. /\ q.unfrozen = Undue(acct[a]) /\ Waiting(q.unfrozen) \in Nat /\ Waiting(q.unfrozen) < MaxUnfreezing
      /\ q \in Row /\ OldPowerSound(q) /\ newModel \in BOOLEAN /\ stakeNow \in Nat
  BY <1>1, PaidList, PaidAccount, RowFacts DEF UnfreezeBalanceV2, Waiting
<1>5. r \in Row /\ r.unfrozen = q.unfrozen /\ Listed(r) /\ r.unfrozen \in ItemBags
  <2>1. r \in Row /\ r.unfrozen = q.unfrozen
    BY <1>2, <1>4, RememberedIs DEF SameMoney
  <2> QED
    BY <2>1, RowListed DEF Row
<1>6. PICK n \in Nat : n = stakeNow + UnfreezeDelay
  BY <1>4, StakingAssumption
<1>7. x \in Nat
  BY StakingAssumption
<1>8. PICK u : u = [kind |-> k, amount |-> x, expire |-> n]
  OBVIOUS
<1>9. u \in Items
  BY <1>7, <1>8 DEF Items
<1>10. PICK b : b = r.unfrozen (+) SetToBag({u})
  OBVIOUS
<1>11. Listed(s) /\ s.unfrozen = b
  <2>1. PICK f : s = [r EXCEPT !.frozen2 = f, !.unfrozen = b]
    BY <1>3, <1>6, <1>8, <1>10 DEF Unfreezing
  <2> QED
    BY <1>5, <2>1 DEF Listed
<1>12. Waiting(b) = Waiting(r.unfrozen) + 1
  BY <1>5, <1>9, <1>10, WaitingMore
<1>13. Waiting(s.unfrozen) <= MaxUnfreezing
  BY <1>4, <1>5, <1>11, <1>12, StakingAssumption
<1>14. PICK t : t = IF newModel /\ s.oldPower # -1 THEN [Unvoted(s) EXCEPT !.oldPower = -1]
                    ELSE IF ~newModel THEN Scaled(s, LegacyPower(r))
                    ELSE IF k = "power" THEN Unvoted(s) ELSE s
  OBVIOUS
<1>15. acct' = [acct EXCEPT ![a] = t]
  BY <1>1, <1>2, <1>3, <1>14 DEF UnfreezeBalanceV2
<1>16. t.unfrozen = s.unfrozen
  <2>1. PICK v : v = Unvoted(s)
    OBVIOUS
  <2>2. Listed(v) /\ v.unfrozen = s.unfrozen
    BY <1>11, <2>1 DEF Unvoted, Listed
  <2>3. PICK w : w = [v EXCEPT !.oldPower = -1]
    OBVIOUS
  <2>4. w.unfrozen = s.unfrozen
    BY <2>2, <2>3 DEF Listed
  <2>5. Scaled(s, LegacyPower(r)).unfrozen = s.unfrozen
    BY <1>11 DEF Scaled, Listed
  <2>6. t = w \/ t = Scaled(s, LegacyPower(r)) \/ t = v \/ t = s
    BY <1>14, <2>1, <2>3
  <2> QED
    BY <2>2, <2>4, <2>5, <2>6
<1> QED
  BY <1>13, <1>15, <1>16, OneRow

LEMMA PayFits ==
    ASSUME StakeInv, UnfreezingsFit, NEW a \in Accounts, WithdrawExpireUnfreeze(a) \/ CancelAllUnfreezeV2(a)
    PROVE  UnfreezingsFit'
<1>1. MaxUnfreezing \in Nat /\ Waiting(acct[a].unfrozen) <= MaxUnfreezing
  BY StakingAssumption DEF UnfreezingsFit
<1>2. PICK q : q = Paid(acct[a])
  OBVIOUS
<1>3. q \in Row /\ Waiting(q.unfrozen) <= MaxUnfreezing
  BY <1>1, <1>2, PaidList, PaidAccount
<1>4. CASE WithdrawExpireUnfreeze(a)
  <2>1. acct' = [acct EXCEPT ![a] = q]
    BY <1>2, <1>4 DEF WithdrawExpireUnfreeze
  <2> QED
    BY <1>3, <2>1, OneRow
<1>5. CASE CancelAllUnfreezeV2(a)
  <2>1. PICK s : s = Refrozen(q) /\ acct' = [acct EXCEPT ![a] = s]
    BY <1>2, <1>5 DEF CancelAllUnfreezeV2
  <2>2. s.unfrozen = EmptyBag
    BY <1>3, <2>1 DEF Refrozen, Row
  <2>3. Waiting(EmptyBag) = 0
    <3>1. EmptyBag \in ItemBags /\ DOMAIN EmptyBag = {}
      BY EmptyBagIs DEF EmptyBag, SetToBag
    <3>2. EmptyBag \in [{} -> Int] /\ IsFiniteSet({})
      BY <3>1, SumOfType
    <3> QED
      BY <3>2, SumOfZeros DEF Waiting
  <2>4. Waiting(s.unfrozen) <= MaxUnfreezing
    BY <1>1, <2>2, <2>3
  <2> QED
    BY <2>1, <2>4, OneRow
<1> QED
  BY <1>4, <1>5

(* No account ever has more unfreezings waiting than the limit allows, whatever it      *)
(* unfreezes, withdraws, cancels, lends or is given back (UnfreezeBalanceV2: validation *)
(* counts the unfreezings that are not due against 32, and the ones that are due leave  *)
(* the list in the same execution).                                                     *)
THEOREM UnfreezingsAreBounded == StakeSpec => []UnfreezingsFit
<1>1. StakeInit => UnfreezingsFit
  <2>1. EmptyBag \in [{} -> Int] /\ IsFiniteSet({})
    <3>1. EmptyBag \in ItemBags /\ DOMAIN EmptyBag = {}
      BY EmptyBagIs DEF EmptyBag, SetToBag
    <3> QED
      BY <3>1, SumOfType
  <2>2. Waiting(EmptyBag) = 0
    BY <2>1, SumOfZeros DEF Waiting
  <2> QED
    BY <2>2, StakingAssumption DEF StakeInit, UnfreezingsFit
<1>2. StakeInv /\ UnfreezingsFit /\ [StakeNext]_stakeVars => UnfreezingsFit'
  <2> SUFFICES ASSUME StakeInv, UnfreezingsFit, [StakeNext]_stakeVars PROVE UnfreezingsFit'
    OBVIOUS
  <2>1. ASSUME NEW a \in Accounts, NEW k \in Kinds, NEW x \in Amounts, FreezeBalanceV2(a, k, x) \/ UnfreezeBalanceV2(a, k, x) \/ FreezeBalance(a, k, x)
        PROVE  UnfreezingsFit'
    BY <2>1, UnfreezeFits, ListsKept
  <2>2. ASSUME NEW a \in Accounts, WithdrawExpireUnfreeze(a) \/ CancelAllUnfreezeV2(a) \/ WithdrawBalance(a) \/ \E n \in Amounts : VoteWitness(a, n)
        PROVE  UnfreezingsFit'
    BY <2>2, PayFits, ListsKept
  <2>3. ASSUME NEW p \in Pairs, NEW k \in Kinds, NEW x \in Amounts,
               \/ \E locked \in BOOLEAN, period \in LockPeriods : DelegateResource(p, k, x, locked, period)
               \/ UnDelegateResource(p, k, x) \/ FreezeBalanceFor(p, k, x)
        PROVE  UnfreezingsFit'
    BY <2>3, PairListsKept
  <2>4. ASSUME NEW a \in Accounts, NEW k \in Kinds, UnfreezeBalance(a, k) PROVE UnfreezingsFit'
    BY <2>4, ListsKept
  <2>5. ASSUME NEW p \in Pairs, NEW k \in Kinds, UnfreezeBalanceOf(p, k) PROVE UnfreezingsFit'
    BY <2>5, PairListsKept
  <2>6. ASSUME StakeTick \/ Activate \/ UNCHANGED stakeVars PROVE UnfreezingsFit'
    BY <2>6, SameRows DEF StakeTick, Activate, stakeVars
  <2> QED
    BY <2>1, <2>2, <2>3, <2>4, <2>5, <2>6 DEF StakeNext
<1> QED
  BY <1>1, <1>2, StakeInvariant, PTL DEF StakeSpec

(* Balances, votes and every kind of stake stay natural numbers and the list of          *)
(* unfreezings short, through every staking actuator (resource_actuators.rs).            *)
THEOREM StakeTypesHold == StakeSpec => []StakeTypeOK
<1>1. ASSUME StakeInv, UnfreezingsFit PROVE StakeTypeOK
  <2> SUFFICES ASSUME NEW a \in Accounts
               PROVE  /\ {acct[a].balance, acct[a].allowance, acct[a].votes} \subseteq Nat /\ acct[a].oldPower >= -1
                      /\ SumFunction(acct[a].unfrozen) <= MaxUnfreezing
                      /\ \A k \in Kinds : {acct[a].frozen[k], acct[a].delegated[k], acct[a].acquired[k],
                                           acct[a].frozen2[k], acct[a].delegated2[k], acct[a].acquired2[k]} \subseteq Nat
    BY DEF StakeTypeOK
  <2>1. acct[a] \in Row /\ OldPowerSound(acct[a])
    BY <1>1, RowFacts
  <2>2. Waiting(acct[a].unfrozen) <= MaxUnfreezing /\ Waiting(acct[a].unfrozen) \in Nat
    BY <1>1, PaidList DEF UnfreezingsFit
  <2> QED
    BY <2>1, <2>2, StakingAssumption DEF Row, PerKind, OldPowerSound, Waiting
<1> QED
  BY <1>1, StakeInvariant, UnfreezingsAreBounded, PTL

-----------------------------------------------------------------------------
(* The PBFT sidecar.  First loops: what a recursive function over 0..N computes. *)

\* A loop that leaves every member of a set in it has a run, and the run stays in the set.
Looped(f, base, op, N) == f[0] = base /\ \A n \in 1..N : f[n] = op[<<f[n - 1], n>>]
\* Every such loop has a run.
LEMMA LoopExists ==
    ASSUME NEW S, NEW base \in S, NEW N \in Nat, NEW op \in [S \X (1..N) -> S]
    PROVE  \E f \in [0..N -> S] : Looped(f, base, op, N)
<1> USE DEF Looped
<1> DEFINE Run(k, f) == Looped(f, base, op, k)
<1> DEFINE T == {k \in 0..N : ~\E f \in [0..k -> S] : Run(k, f)}
<1> SUFFICES ASSUME T # {} PROVE FALSE
  <2>1. N \in 0..N
    OBVIOUS
  <2> QED
    BY <2>1
<1>t. T \in SUBSET Nat
    OBVIOUS
<1> HIDE DEF T
<1>1. PICK k \in T : \A m \in T : k <= m
    BY <1>t, LeastNumber
<1> USE DEF T
<1>2. k # 0
  <2> DEFINE f == [n \in 0..0 |-> base]
  <2>1. f \in [0..0 -> S] /\ Run(0, f)
    OBVIOUS
  <2> QED
    BY <1>1, <2>1
<1>3. k - 1 \in 0..N /\ k \in 1..N
    BY <1>1, <1>2
<1>4. PICK g \in [0..(k - 1) -> S] : Run(k - 1, g)
    BY <1>1, <1>3
<1> DEFINE f == [n \in 0..k |-> IF n = k THEN op[<<g[k - 1], k>>] ELSE g[n]]
<1>5. \A n \in 0..(k - 1) : n \in 0..k /\ n # k /\ f[n] = g[n] /\ g[n] \in S
    BY <1>3
<1>6. k - 1 \in 0..(k - 1) /\ f[k] = op[<<g[k - 1], k>>] /\ op[<<g[k - 1], k>>] \in S
    BY <1>3
<1>7. f \in [0..k -> S]
    BY <1>3, <1>5, <1>6
<1>8. f[0] = base
    BY <1>3, <1>4, <1>5
<1> HIDE DEF f
<1>9. ASSUME NEW n \in 1..k PROVE f[n] = op[<<f[n - 1], n>>]
  <2>1. CASE n = k
    BY <1>5, <1>6, <2>1
  <2>2. CASE n # k
    <3>1. n \in 1..(k - 1) /\ n \in 0..(k - 1) /\ n - 1 \in 0..(k - 1)
      BY <1>3, <2>2
    <3> QED
      BY <1>4, <1>5, <3>1
  <2> QED
    BY <2>1, <2>2
<1> QED
    BY <1>1, <1>7, <1>8, <1>9

\* A function that stays in a set from one place to the next is in it everywhere.
LEMMA LoopStays ==
    ASSUME NEW S, NEW N \in Nat, NEW g, g[0] \in S, \A n \in 1..N : g[n - 1] \in S => g[n] \in S
    PROVE  g[N] \in S
<1> DEFINE T == {k \in 0..N : g[k] \notin S}
<1> SUFFICES ASSUME T # {} PROVE FALSE
    OBVIOUS
<1>t. T \in SUBSET Nat
    OBVIOUS
<1> HIDE DEF T
<1>1. PICK k \in T : \A m \in T : k <= m
    BY <1>t, LeastNumber
<1> USE DEF T
<1>2. k \in 1..N /\ k - 1 \in 0..N /\ ~(k <= k - 1)
    BY <1>1
<1>3. g[k - 1] \in S
    BY <1>1, <1>2
<1> QED
    BY <1>1, <1>2, <1>3

\* A finite set as a list: its members, each at one place.
LEMMA SetToSeqIs ==
    ASSUME NEW S, IsFiniteSet(S)
    PROVE  SetToSeq(S) \in Seq(S)
<1>1. PICK n \in Nat : ExistsBijection(1..n, S)
    BY FS_NatBijection
<1>2. Cardinality(S) = n
    BY <1>1, FS_CountingElements
<1>3. \E f \in [1..n -> S] : IsInjective(f)
    BY <1>1 DEF ExistsBijection, Bijection, Injection
<1>4. SetToSeq(S) \in [1..n -> S]
    BY <1>2, <1>3 DEF SetToSeq
<1> QED
    BY <1>4

\* The sidecar between two steps, and after any part of one: the byte budget is exact, only
\* witnesses that prepared have committed, and a round that is open is not completed.
Sidecars ==
    [rounds : [Views -> RoundRecord \cup {NoRound}], completed : [Views -> -1..MaxTime],
     prepares : SUBSET CachedVote, commits : SUBSET CachedVote, retained : Nat]
RoundsSound(s) ==
    \A v \in Views : Open(s.rounds[v]) => s.rounds[v].commit \subseteq s.rounds[v].prepare /\ s.completed[v] = -1
Budgeted(s) ==
    /\ IsFiniteSet(s.prepares) /\ IsFiniteSet(s.commits) /\ s.retained <= MaxRetained
    /\ s.retained = Cardinality(s.prepares) + Cardinality(s.commits) + RoundsBytes(s.rounds)
SidecarSound(s) == s \in Sidecars /\ RoundsSound(s) /\ Budgeted(s)

\* The certificates that are persisted, and how they are told from the completed rounds.
CertRecords ==
    [kind : {"Commit"}, view : Views, data : Datas, signers : SUBSET Witnesses, prepared : SUBSET Witnesses,
     committee : SUBSET Witnesses, at : 0..MaxTime]
BackedCert(c) == c.signers \subseteq c.prepared /\ Cardinality(c.signers) >= QuorumOf(c.committee)
\* A view that may be voted again has no certificate that is recent.
Dated(completed, c) ==
    IF completed[c.view] = -1 THEN pbNow - c.at > VoteTtl ELSE c.at <= completed[c.view]
ResultsDated == \A i \in DOMAIN results : Dated(sidecar.completed, results[i])
PbftInv ==
    /\ pbNow \in 0..MaxTime /\ committee \subseteq Witnesses /\ latest \in Views \cup {0} /\ results \in Seq(CertRecords)
    /\ SidecarSound(sidecar) /\ PbftCertificate /\ ResultsDated

\* What a step of the sidecar may end in, when it begins with the completed rounds c and is
\* about view v: no certificate, or one for the round that it completed.
Effects == [kind : {"Forward"}, msg : PbftMsg] \cup CertRecords
NoCert(out) == \A i \in DOMAIN out : out[i].kind # "Commit"
OneCert(out, v) ==
    \A i \in DOMAIN out : out[i].kind = "Commit" =>
        /\ BackedCert(out[i]) /\ out[i].view = v /\ out[i].at = pbNow
        /\ \A j \in DOMAIN out : out[j].kind = "Commit" => i = j
CompletedNow(c, v) == [c EXCEPT ![v] = pbNow]
Certified(r, c, v) ==
    \/ r.s.completed = c /\ NoCert(r.out)
    \/ c[v] = -1 /\ r.s.completed = CompletedNow(c, v) /\ OneCert(r.out, v)
Errors == {"Ok", "Equivocation", "Capacity", "ProposalMismatch", "WrongProposer", "NonWitness", "LocalPreprepareOnly"}
OutcomeRecords == [s : Sidecars, err : Errors, out : Seq(Effects)]
Outcomes(c, v) == {r \in OutcomeRecords : SidecarSound(r.s) /\ Certified(r, c, v)}

\* The fields of a round.
RoundSlots == RoundRecord \cup {NoRound}
\* What each slot says of itself.
LEMMA RoundFields ==
    /\ NoRound \in RoundSlots /\ ~Open(NoRound) /\ RoundBytes(NoRound) = 0
    /\ \A r \in RoundSlots :
        /\ Open(r) \in BOOLEAN /\ RoundBytes(r) \in Nat
        /\ Open(r) => /\ r \in RoundRecord /\ r.bytes \in 0..MaxRoundBytes /\ r.bytes \in Nat /\ RoundBytes(r) = r.bytes
                      /\ r.prepare \in SUBSET Witnesses /\ r.commit \in SUBSET Witnesses
    /\ \A r \in RoundRecord : r \in RoundSlots /\ Open(r)
<1>1. MaxRoundBytes \in Nat
    BY PbftAssumption
<1>2. Open(NoRound) = FALSE /\ RoundBytes(NoRound) = 0 /\ NoRound \in RoundSlots
    BY DEF NoRound, Open, RoundBytes, RoundSlots
<1>3. ASSUME NEW r \in RoundRecord
      PROVE  /\ Open(r) = TRUE /\ r.bytes \in 0..MaxRoundBytes /\ r.bytes \in Nat /\ RoundBytes(r) = r.bytes
             /\ r.prepare \in SUBSET Witnesses /\ r.commit \in SUBSET Witnesses /\ r \in RoundSlots
  <2>1. /\ Open(r) = TRUE /\ r.bytes \in 0..MaxRoundBytes
        /\ r.prepare \in SUBSET Witnesses /\ r.commit \in SUBSET Witnesses
    BY DEF RoundRecord, Open
  <2>2. r.bytes \in Nat
    BY <1>1, <2>1
  <2>3. RoundBytes(r) = r.bytes
    BY <2>1 DEF RoundBytes
  <2> QED
    BY <2>1, <2>2, <2>3 DEF RoundSlots
<1>4. ASSUME NEW r \in RoundSlots
      PROVE  /\ Open(r) \in BOOLEAN /\ RoundBytes(r) \in Nat
             /\ Open(r) => /\ r \in RoundRecord /\ r.bytes \in 0..MaxRoundBytes /\ r.bytes \in Nat /\ RoundBytes(r) = r.bytes
                           /\ r.prepare \in SUBSET Witnesses /\ r.commit \in SUBSET Witnesses
  <2>1. CASE r \in RoundRecord
    BY <1>3, <2>1
  <2>2. CASE r = NoRound
    <3>1. Open(r) = FALSE
      BY <1>2, <2>2
    <3>2. RoundBytes(r) = 0
      BY <1>2, <2>2
    <3>3. RoundBytes(r) \in Nat
      BY <3>2
    <3>4. Open(r) \in BOOLEAN /\ ~Open(r)
      BY <3>1
    <3> QED
      BY <3>3, <3>4
  <2> QED
    BY <2>1, <2>2 DEF RoundSlots
<1>5. \A r \in RoundRecord : r \in RoundSlots /\ Open(r)
    BY <1>3
<1> QED
    BY <1>2, <1>4, <1>5

\* The fields of the sidecar.
LEMMA SidecarFields ==
    ASSUME NEW s \in Sidecars
    PROVE  /\ s.rounds \in [Views -> RoundSlots] /\ s.completed \in [Views -> -1..MaxTime]
           /\ s.prepares \in SUBSET CachedVote /\ s.commits \in SUBSET CachedVote /\ s.retained \in Nat
BY DEF Sidecars, RoundSlots

\* What the rounds hold together.
LEMMA BytesAre ==
    ASSUME NEW rounds \in [Views -> RoundSlots]
    PROVE  /\ RoundsBytes(rounds) \in Nat
           /\ \A v \in Views : RoundBytes(rounds[v]) <= RoundsBytes(rounds)
           /\ [v \in Views |-> RoundBytes(rounds[v])] \in [Views -> Nat]
<1> DEFINE f == [v \in Views |-> RoundBytes(rounds[v])]
<1>1. f \in [Views -> Nat] /\ \A v \in Views : f[v] = RoundBytes(rounds[v])
    BY RoundFields
<1>2. IsFiniteSet(Views)
    BY PbftAssumption
<1> HIDE DEF f
<1>3. SumFunction(f) \in Nat /\ \A v \in Views : f[v] <= SumFunction(f)
    BY <1>1, <1>2, SumOfNaturals
<1>4. RoundsBytes(rounds) = SumFunction(f)
    BY DEF RoundsBytes, f
<1> QED
    BY <1>1, <1>3, <1>4 DEF f

\* One round replaced changes what they hold by its bytes.
LEMMA BytesChange ==
    ASSUME NEW rounds \in [Views -> RoundSlots], NEW v \in Views, NEW r \in RoundSlots
    PROVE  RoundsBytes([rounds EXCEPT ![v] = r]) = RoundsBytes(rounds) + RoundBytes(r) - RoundBytes(rounds[v])
<1> DEFINE now == [rounds EXCEPT ![v] = r]
<1>1. now \in [Views -> RoundSlots] /\ now[v] = r /\ \A u \in Views : u # v => now[u] = rounds[u]
    OBVIOUS
<1> HIDE DEF now
<1> DEFINE f == [u \in Views |-> RoundBytes(rounds[u])]
<1> DEFINE g == [u \in Views |-> RoundBytes(now[u])]
<1>2. f \in [Views -> Nat] /\ g \in [Views -> Nat]
    BY <1>1, BytesAre
<1>3. f \in [Views -> Int] /\ g \in [Views -> Int]
    BY <1>2
<1>4. f[v] = RoundBytes(rounds[v]) /\ g[v] = RoundBytes(r) /\ \A u \in Views : u # v => g[u] = f[u]
    BY <1>1
<1> HIDE DEF f, g
<1>5. SumFunction(g) = SumFunction(f) + g[v] - f[v]
    BY <1>3, <1>4, SumOfChange, PbftAssumption
<1>6. RoundsBytes(now) = SumFunction(g) /\ RoundsBytes(rounds) = SumFunction(f)
    BY DEF RoundsBytes, f, g
<1> QED
    BY <1>4, <1>5, <1>6 DEF now

\* The sidecar with one round replaced and its bytes counted.
LEMMA RoundReplaced ==
    ASSUME NEW s, SidecarSound(s), NEW t \in Sidecars, NEW v \in Views, NEW r \in RoundSlots,
           t.rounds[v] = r, \A u \in Views : u # v => t.rounds[u] = s.rounds[u], t.completed = s.completed, t.prepares = s.prepares, t.commits = s.commits,
           t.retained = s.retained + RoundBytes(r) - RoundBytes(s.rounds[v]), t.retained <= MaxRetained,
           Open(r) => r.commit \subseteq r.prepare /\ s.completed[v] = -1
    PROVE  SidecarSound(t)
<1>1. s \in Sidecars /\ RoundsSound(s) /\ Budgeted(s)
    BY DEF SidecarSound
<1>2. s.rounds \in [Views -> RoundSlots] /\ s.retained \in Nat
    BY <1>1, SidecarFields
<1>3. t.rounds = [s.rounds EXCEPT ![v] = r]
  <2>1. t.rounds \in [Views -> RoundSlots]
    BY SidecarFields
  <2> QED
    BY <1>2, <2>1
<1>4. RoundsBytes(t.rounds) = RoundsBytes(s.rounds) + RoundBytes(r) - RoundBytes(s.rounds[v])
    BY <1>2, <1>3, BytesChange
<1>5. RoundsSound(t)
    BY <1>1 DEF RoundsSound
<1>6. Budgeted(t)
  <2>1. RoundsBytes(s.rounds) \in Nat /\ RoundBytes(r) \in Nat /\ RoundBytes(s.rounds[v]) \in Nat
    BY <1>2, BytesAre, RoundFields
  <2>2. Cardinality(s.prepares) \in Nat /\ Cardinality(s.commits) \in Nat
    BY <1>1, FS_CardinalityType DEF Budgeted
  <2> QED
    BY <1>1, <1>2, <1>4, <2>1, <2>2 DEF Budgeted
<1> QED
    BY <1>5, <1>6 DEF SidecarSound

\* The sidecar with other votes in its caches, and these counted.
LEMMA CachesReplaced ==
    ASSUME NEW s, SidecarSound(s), NEW t \in Sidecars, t.rounds = s.rounds, t.completed = s.completed,
           IsFiniteSet(t.prepares), IsFiniteSet(t.commits), t.retained <= MaxRetained,
           t.retained = s.retained + (Cardinality(t.prepares) - Cardinality(s.prepares))
                                   + (Cardinality(t.commits) - Cardinality(s.commits))
    PROVE  SidecarSound(t)
<1>1. s \in Sidecars /\ RoundsSound(s) /\ Budgeted(s)
    BY DEF SidecarSound
<1>2. /\ Cardinality(s.prepares) \in Nat /\ Cardinality(s.commits) \in Nat /\ RoundsBytes(s.rounds) \in Nat
      /\ Cardinality(t.prepares) \in Nat /\ Cardinality(t.commits) \in Nat
    BY <1>1, FS_CardinalityType, SidecarFields, BytesAre DEF Budgeted
<1>3. Budgeted(t) /\ RoundsSound(t)
    BY <1>1, <1>2 DEF Budgeted, RoundsSound
<1> QED
    BY <1>3 DEF SidecarSound

\* Votes that leave a cache leave the budget.
LEMMA VotesTaken ==
    ASSUME NEW cache, IsFiniteSet(cache), NEW gone \in SUBSET cache
    PROVE  /\ IsFiniteSet(cache \ gone) /\ IsFiniteSet(gone) /\ Cardinality(gone) \in Nat /\ Cardinality(cache) \in Nat
           /\ Cardinality(cache \ gone) = Cardinality(cache) - Cardinality(gone) /\ Cardinality(gone) <= Cardinality(cache)
<1>1. cache \cap gone = gone
    OBVIOUS
<1>2. /\ IsFiniteSet(cache \ gone) /\ Cardinality(cache \ gone) = Cardinality(cache) - Cardinality(cache \cap gone)
    BY FS_Difference
<1>3. IsFiniteSet(gone) /\ Cardinality(gone) <= Cardinality(cache)
    BY FS_Subset
<1>4. Cardinality(gone) \in Nat /\ Cardinality(cache) \in Nat
    BY <1>3, FS_CardinalityType
<1> QED
    BY <1>1, <1>2, <1>3, <1>4

WithoutPrepares(s, gone) == [s EXCEPT !.prepares = @ \ gone, !.retained = @ - Cardinality(gone)]
WithoutCommits(s, gone) == [s EXCEPT !.commits = @ \ gone, !.retained = @ - Cardinality(gone)]
\* Prepares that leave their cache leave the sidecar sound.
LEMMA PreparesTaken ==
    ASSUME NEW s, SidecarSound(s), NEW gone \in SUBSET s.prepares,
           NEW t, t = WithoutPrepares(s, gone)
    PROVE  SidecarSound(t) /\ t.rounds = s.rounds /\ t.completed = s.completed
<1> DEFINE left == s.prepares \ gone
<1> DEFINE n == s.retained - Cardinality(gone)
<1>1. s \in Sidecars /\ Budgeted(s) /\ IsFiniteSet(s.prepares)
    BY DEF SidecarSound, Budgeted
<1>2. /\ IsFiniteSet(left) /\ Cardinality(gone) \in Nat /\ Cardinality(s.prepares) \in Nat
      /\ Cardinality(left) = Cardinality(s.prepares) - Cardinality(gone) /\ Cardinality(gone) <= Cardinality(s.prepares)
    BY <1>1, VotesTaken
<1>3. Cardinality(s.commits) \in Nat /\ RoundsBytes(s.rounds) \in Nat /\ s.retained \in Nat
    BY <1>1, FS_CardinalityType, SidecarFields, BytesAre DEF Budgeted
<1>4. n \in Nat /\ n <= MaxRetained
    BY <1>1, <1>2, <1>3, PbftAssumption DEF Budgeted
<1>5. left \in SUBSET CachedVote
    BY <1>1, SidecarFields
<1>6. t = [s EXCEPT !.prepares = left, !.retained = n]
    BY <1>1 DEF Sidecars, WithoutPrepares
<1> HIDE DEF left, n
<1>7. /\ t \in Sidecars /\ t.rounds = s.rounds /\ t.completed = s.completed /\ t.prepares = left
      /\ t.commits = s.commits /\ t.retained = n
    BY <1>1, <1>4, <1>5, <1>6 DEF Sidecars
<1>8. n = s.retained + (Cardinality(left) - Cardinality(s.prepares)) + (Cardinality(s.commits) - Cardinality(s.commits))
    BY <1>2, <1>3 DEF n
<1>9. SidecarSound(t)
    BY <1>1, <1>2, <1>4, <1>7, <1>8, CachesReplaced DEF Budgeted
<1> QED
    BY <1>7, <1>9

\* And commits that leave theirs.
LEMMA CommitsTaken ==
    ASSUME NEW s, SidecarSound(s), NEW gone \in SUBSET s.commits,
           NEW t, t = WithoutCommits(s, gone)
    PROVE  SidecarSound(t) /\ t.rounds = s.rounds /\ t.completed = s.completed
<1> DEFINE left == s.commits \ gone
<1> DEFINE n == s.retained - Cardinality(gone)
<1>1. s \in Sidecars /\ Budgeted(s) /\ IsFiniteSet(s.commits)
    BY DEF SidecarSound, Budgeted
<1>2. /\ IsFiniteSet(left) /\ Cardinality(gone) \in Nat /\ Cardinality(s.commits) \in Nat
      /\ Cardinality(left) = Cardinality(s.commits) - Cardinality(gone) /\ Cardinality(gone) <= Cardinality(s.commits)
    BY <1>1, VotesTaken
<1>3. Cardinality(s.prepares) \in Nat /\ RoundsBytes(s.rounds) \in Nat /\ s.retained \in Nat
    BY <1>1, FS_CardinalityType, SidecarFields, BytesAre DEF Budgeted
<1>4. n \in Nat /\ n <= MaxRetained
    BY <1>1, <1>2, <1>3, PbftAssumption DEF Budgeted
<1>5. left \in SUBSET CachedVote
    BY <1>1, SidecarFields
<1>6. t = [s EXCEPT !.commits = left, !.retained = n]
    BY <1>1 DEF Sidecars, WithoutCommits
<1> HIDE DEF left, n
<1>7. /\ t \in Sidecars /\ t.rounds = s.rounds /\ t.completed = s.completed /\ t.prepares = s.prepares
      /\ t.commits = left /\ t.retained = n
    BY <1>1, <1>4, <1>5, <1>6 DEF Sidecars
<1>8. n = s.retained + (Cardinality(s.prepares) - Cardinality(s.prepares)) + (Cardinality(left) - Cardinality(s.commits))
    BY <1>2, <1>3 DEF n
<1>9. SidecarSound(t)
    BY <1>1, <1>2, <1>4, <1>7, <1>8, CachesReplaced DEF Budgeted
<1> QED
    BY <1>7, <1>9

\* The fields of an outcome.
LEMMA OutcomeFields ==
    ASSUME NEW c, NEW v, NEW r \in Outcomes(c, v)
    PROVE  /\ r \in OutcomeRecords /\ SidecarSound(r.s) /\ Certified(r, c, v)
           /\ r.s \in Sidecars /\ r.err \in Errors /\ r.out \in Seq(Effects)
BY DEF Outcomes, OutcomeRecords

\* Nothing but a new state, with or without an error.
LEMMA PlainOutcome ==
    ASSUME NEW s, SidecarSound(s), NEW e \in Errors, NEW v
    PROVE  /\ Done(s, <<>>) \in Outcomes(s.completed, v) /\ Fail(s, e) \in Outcomes(s.completed, v)
           /\ Done(s, <<>>).s = s /\ Fail(s, e).s = s /\ Done(s, <<>>).err = "Ok"
<1>1. s \in Sidecars
    BY DEF SidecarSound
<1> DEFINE none == <<>>
<1>2. none \in Seq(Effects) /\ NoCert(none)
    BY DEF NoCert
<1> DEFINE d == Done(s, <<>>)
<1> DEFINE f == Fail(s, e)
<1>3. d = [s |-> s, err |-> "Ok", out |-> none] /\ f = [s |-> s, err |-> e, out |-> none]
    BY DEF Done, Fail
<1> HIDE DEF none, d, f
<1>4. d.s = s /\ d.out = none /\ d.err = "Ok"
    BY <1>3
<1>5. f.s = s /\ f.out = none
    BY <1>3
<1>6. d \in OutcomeRecords
  <2>1. "Ok" \in Errors
    BY DEF Errors
  <2> QED
    BY <1>1, <1>2, <1>3, <2>1 DEF OutcomeRecords
<1>7. f \in OutcomeRecords
    BY <1>1, <1>2, <1>3 DEF OutcomeRecords
<1>8. d \in Outcomes(s.completed, v) /\ f \in Outcomes(s.completed, v)
    BY <1>2, <1>4, <1>5, <1>6, <1>7 DEF Outcomes, Certified
<1> QED
    BY <1>4, <1>5, <1>8 DEF d, f

\* The places of two lists, one after the other.
LEMMA EffectsJoined ==
    ASSUME NEW S, NEW a \in Seq(S), NEW b \in Seq(S)
    PROVE  /\ a \o b \in Seq(S) /\ Len(a) \in Nat
           /\ \A i \in DOMAIN (a \o b) :
                /\ i \in Nat
                /\ \/ i \in DOMAIN a /\ (a \o b)[i] = a[i]
                   \/ i - Len(a) \in DOMAIN b /\ (a \o b)[i] = b[i - Len(a)]
<1> DEFINE t == a \o b
<1>1. /\ t \in Seq(S) /\ Len(t) = Len(a) + Len(b) /\ Len(a) \in Nat /\ Len(b) \in Nat /\ DOMAIN t = 1..Len(t)
      /\ DOMAIN a = 1..Len(a) /\ DOMAIN b = 1..Len(b)
    OBVIOUS
<1>2. ASSUME NEW i \in 1..(Len(a) + Len(b)) PROVE t[i] = IF i <= Len(a) THEN a[i] ELSE b[i - Len(a)]
    BY <1>2
<1> HIDE DEF t
<1>3. ASSUME NEW i \in DOMAIN t
      PROVE  /\ i \in Nat
             /\ (i \in DOMAIN a /\ t[i] = a[i]) \/ (i - Len(a) \in DOMAIN b /\ t[i] = b[i - Len(a)])
    BY <1>1, <1>2
<1> QED
    BY <1>1, <1>3 DEF t

\* One part of a step after another: the first one's effects come first.
LEMMA OutcomesJoin ==
    ASSUME pbNow \in 0..MaxTime, NEW v \in Views, NEW c \in [Views -> -1..MaxTime],
           NEW r \in Outcomes(c, v), NEW n \in Outcomes(r.s.completed, v)
    PROVE  After(r, n) \in Outcomes(c, v) /\ After(r, n).s = n.s /\ After(r, n).err = n.err
<1>1. /\ SidecarSound(r.s) /\ Certified(r, c, v) /\ r.out \in Seq(Effects) /\ r.s \in Sidecars
      /\ SidecarSound(n.s) /\ Certified(n, r.s.completed, v) /\ n.out \in Seq(Effects) /\ n \in OutcomeRecords
    BY OutcomeFields
<1> DEFINE none == <<>>
<1> DEFINE both == r.out \o n.out
<1> DEFINE out == IF n.err = "Ok" THEN both ELSE none
<1>2. /\ both \in Seq(Effects)
      /\ \A i \in DOMAIN both :
            \/ i \in DOMAIN r.out /\ both[i] = r.out[i]
            \/ i - Len(r.out) \in DOMAIN n.out /\ both[i] = n.out[i - Len(r.out)]
      /\ \A i \in DOMAIN both : i \in Nat
      /\ Len(r.out) \in Nat
  <2>1. r.out \in Seq(Effects) /\ n.out \in Seq(Effects)
    BY <1>1
  <2> QED
    BY ONLY <2>1, EffectsJoined
<1>3. After(r, n) = [n EXCEPT !.out = out]
    BY DEF After
<1>4. none \in Seq(Effects) /\ NoCert(none) /\ OneCert(none, v)
    BY DEF NoCert, OneCert
<1>5. out \in Seq(Effects) /\ (out = both \/ out = none)
    BY <1>2, <1>4
<1> HIDE DEF none, both, out
<1>6. After(r, n) \in OutcomeRecords /\ After(r, n).s = n.s /\ After(r, n).err = n.err /\ After(r, n).out = out
    BY <1>1, <1>3, <1>5 DEF OutcomeRecords
<1>7. NoCert(r.out) /\ NoCert(n.out) => NoCert(both)
    BY <1>2 DEF NoCert
<1>8. NoCert(r.out) /\ OneCert(n.out, v) => OneCert(both, v)
  <2> SUFFICES ASSUME NoCert(r.out), OneCert(n.out, v), NEW i \in DOMAIN both, both[i].kind = "Commit"
               PROVE  /\ BackedCert(both[i]) /\ both[i].view = v /\ both[i].at = pbNow
                      /\ \A j \in DOMAIN both : both[j].kind = "Commit" => i = j
    BY DEF OneCert
  <2>1. \A j \in DOMAIN both : both[j].kind = "Commit" => j - Len(r.out) \in DOMAIN n.out /\ both[j] = n.out[j - Len(r.out)]
    BY <1>2 DEF NoCert
  <2>2. /\ BackedCert(both[i]) /\ both[i].view = v /\ both[i].at = pbNow
    BY <2>1 DEF OneCert
  <2>3. ASSUME NEW j \in DOMAIN both, both[j].kind = "Commit" PROVE i = j
    <3>1. i - Len(r.out) = j - Len(r.out)
      BY <2>1, <2>3 DEF OneCert
    <3>2. i \in Nat /\ j \in Nat /\ Len(r.out) \in Nat
      BY <1>2
    <3> QED
      BY <3>1, <3>2
  <2> QED
    BY <2>2, <2>3
<1>9. OneCert(r.out, v) /\ NoCert(n.out) => OneCert(both, v)
    BY <1>2 DEF NoCert, OneCert
<1>10. r.s.completed \in [Views -> -1..MaxTime] /\ pbNow # -1
    BY <1>1, SidecarFields, PbftAssumption
<1>11. Certified(After(r, n), c, v)
  <2>1. CASE n.s.completed = r.s.completed /\ NoCert(n.out)
    <3>1. CASE r.s.completed = c /\ NoCert(r.out)
      BY <1>4, <1>5, <1>6, <1>7, <2>1, <3>1 DEF Certified
    <3>2. CASE c[v] = -1 /\ r.s.completed = CompletedNow(c, v) /\ OneCert(r.out, v)
      BY <1>4, <1>5, <1>6, <1>9, <2>1, <3>2 DEF Certified
    <3> QED
      BY <1>1, <3>1, <3>2 DEF Certified
  <2>2. CASE r.s.completed[v] = -1 /\ n.s.completed = CompletedNow(r.s.completed, v) /\ OneCert(n.out, v)
    <3>1. CASE r.s.completed = c /\ NoCert(r.out)
      BY <1>4, <1>5, <1>6, <1>8, <2>2, <3>1 DEF Certified
    <3>2. CASE c[v] = -1 /\ r.s.completed = CompletedNow(c, v) /\ OneCert(r.out, v)
      <4>1. r.s.completed[v] = pbNow
        BY <3>2 DEF CompletedNow
      <4> QED
        BY <1>10, <2>2, <4>1
    <3> QED
      BY <1>1, <3>1, <3>2 DEF Certified
  <2> QED
    BY <1>1, <2>1, <2>2 DEF Certified
<1> QED
    BY <1>1, <1>6, <1>11 DEF Outcomes

\* A vote that is forwarded is no certificate.
LEMMA OutcomeForwarded ==
    ASSUME NEW v \in Views, NEW c, NEW r \in Outcomes(c, v), NEW m \in PbftMsg
    PROVE  Forwarded(r, m) \in Outcomes(c, v) /\ Forwarded(r, m).s = r.s
<1>1. SidecarSound(r.s) /\ Certified(r, c, v) /\ r.out \in Seq(Effects) /\ r \in OutcomeRecords
    BY OutcomeFields
<1> DEFINE e == Forward(m)
<1> DEFINE out == Append(r.out, e)
<1>2. e \in Effects /\ e.kind = "Forward"
    BY DEF Forward, Effects
<1> HIDE DEF e
<1>3. /\ out \in Seq(Effects) /\ Len(r.out) \in Nat /\ DOMAIN r.out = 1..Len(r.out)
      /\ \A i \in DOMAIN out : (i \in DOMAIN r.out /\ out[i] = r.out[i]) \/ (i = Len(r.out) + 1 /\ out[i] = e)
    BY <1>1, <1>2
<1>4. Forwarded(r, m) = [r EXCEPT !.out = out]
    BY <1>1 DEF Forwarded, e, OutcomeRecords
<1> HIDE DEF out
<1>5. Forwarded(r, m) \in OutcomeRecords /\ Forwarded(r, m).s = r.s /\ Forwarded(r, m).out = out
    BY <1>1, <1>3, <1>4 DEF OutcomeRecords
<1>6. \A i \in DOMAIN out : out[i].kind = "Commit" => i \in DOMAIN r.out /\ out[i] = r.out[i]
    BY <1>2, <1>3
<1>7. (NoCert(r.out) => NoCert(out)) /\ (OneCert(r.out, v) => OneCert(out, v))
    BY <1>6 DEF NoCert, OneCert
<1> QED
    BY <1>1, <1>5, <1>7 DEF Outcomes, Certified

\* A vote that is cached before its round can take it.
LEMMA CachePendingOk ==
    ASSUME pbNow \in 0..MaxTime, NEW s, SidecarSound(s), NEW m \in PbftMsg, NEW kind \in {"Prepare", "Commit"}, NEW v
    PROVE  /\ CachePending(s, m, kind) \in Outcomes(s.completed, v)
           /\ CachePending(s, m, kind).s.rounds = s.rounds /\ CachePending(s, m, kind).s.completed = s.completed
<1> DEFINE e == [msg |-> m, at |-> pbNow]
<1> DEFINE add == {e}
<1> DEFINE cache == IF kind = "Prepare" THEN s.prepares ELSE s.commits
<1> DEFINE same == CachedAs(cache, m)
<1> DEFINE n == s.retained + 1
<1>1. s \in Sidecars /\ Budgeted(s) /\ IsFiniteSet(s.prepares) /\ IsFiniteSet(s.commits)
    BY DEF SidecarSound, Budgeted
<1>2. s.prepares \in SUBSET CachedVote /\ s.commits \in SUBSET CachedVote /\ s.retained \in Nat
    BY <1>1, SidecarFields
<1>3. e \in CachedVote /\ n \in Nat
    BY <1>2 DEF CachedVote
<1>4. "Ok" \in Errors /\ "Equivocation" \in Errors /\ "Capacity" \in Errors
    BY DEF Errors
<1>5. \A x \in Errors : /\ Done(s, <<>>) \in Outcomes(s.completed, v) /\ Fail(s, x) \in Outcomes(s.completed, v)
                        /\ Done(s, <<>>).s = s /\ Fail(s, x).s = s
    BY PlainOutcome
<1>6. CASE same # {}
  <2>1. CachePending(s, m, kind) \in {Done(s, <<>>), Fail(s, "Equivocation")}
    BY <1>6 DEF CachePending
  <2> QED
    BY <1>4, <1>5, <2>1
<1>7. CASE same = {} /\ (Cardinality(cache) >= MaxVotes \/ ~Reserve(s, 0))
  <2>1. CachePending(s, m, kind) = Fail(s, "Capacity")
    BY <1>7 DEF CachePending
  <2> QED
    BY <1>4, <1>5, <2>1
<1>8. CASE same = {} /\ ~(Cardinality(cache) >= MaxVotes \/ ~Reserve(s, 0))
  <2>1. e \notin cache
    BY <1>8 DEF CachedAs
  <2>2. n <= MaxRetained
    BY <1>8 DEF Reserve
  <2>3. CASE kind = "Prepare"
    <3> DEFINE more == s.prepares \cup add
    <3> DEFINE t == [s EXCEPT !.prepares = more, !.retained = n]
    <3>1. CachePending(s, m, kind) = Done(t, <<>>)
      <4>1. t = [s EXCEPT !.prepares = @ \cup {[msg |-> m, at |-> pbNow]}, !.retained = @ + 1]
        BY <1>1 DEF Sidecars
      <4>2. CachePending(s, m, kind) = Done([s EXCEPT !.prepares = @ \cup {[msg |-> m, at |-> pbNow]}, !.retained = @ + 1], <<>>)
        BY <1>8, <2>3 DEF CachePending
      <4> QED
        BY ONLY <4>1, <4>2
    <3>2. e \notin s.prepares
      BY <2>1, <2>3
    <3> HIDE DEF e
    <3>3. IsFiniteSet(more) /\ Cardinality(more) = Cardinality(s.prepares) + 1
      BY <1>1, <3>2, FS_AddElement
    <3>4. more \in SUBSET CachedVote
      BY <1>2, <1>3
    <3> HIDE DEF more, n
    <3>5. /\ t \in Sidecars /\ t.rounds = s.rounds /\ t.completed = s.completed /\ t.prepares = more
          /\ t.commits = s.commits /\ t.retained = n
      BY <1>1, <1>3, <3>4 DEF Sidecars
    <3> HIDE DEF t
    <3>6. Cardinality(s.prepares) \in Nat /\ Cardinality(s.commits) \in Nat
      BY <1>1, FS_CardinalityType
    <3>7. n = s.retained + (Cardinality(more) - Cardinality(s.prepares)) + (Cardinality(s.commits) - Cardinality(s.commits))
      BY <1>2, <3>3, <3>6 DEF n
    <3>8. SidecarSound(t)
      BY <1>1, <2>2, <3>3, <3>5, <3>7, CachesReplaced
    <3> QED
      BY <1>4, <3>1, <3>5, <3>8, PlainOutcome
  <2>4. CASE kind = "Commit"
    <3> DEFINE more == s.commits \cup add
    <3> DEFINE t == [s EXCEPT !.commits = more, !.retained = n]
    <3>1. CachePending(s, m, kind) = Done(t, <<>>)
      <4>1. t = [s EXCEPT !.commits = @ \cup {[msg |-> m, at |-> pbNow]}, !.retained = @ + 1]
        BY <1>1 DEF Sidecars
      <4>2. CachePending(s, m, kind) = Done([s EXCEPT !.commits = @ \cup {[msg |-> m, at |-> pbNow]}, !.retained = @ + 1], <<>>)
        BY <1>8, <2>4 DEF CachePending
      <4> QED
        BY ONLY <4>1, <4>2
    <3>2. e \notin s.commits
      BY <2>1, <2>4
    <3> HIDE DEF e
    <3>3. IsFiniteSet(more) /\ Cardinality(more) = Cardinality(s.commits) + 1
      BY <1>1, <3>2, FS_AddElement
    <3>4. more \in SUBSET CachedVote
      BY <1>2, <1>3
    <3> HIDE DEF more, n
    <3>5. /\ t \in Sidecars /\ t.rounds = s.rounds /\ t.completed = s.completed /\ t.prepares = s.prepares
          /\ t.commits = more /\ t.retained = n
      BY <1>1, <1>3, <3>4 DEF Sidecars
    <3> HIDE DEF t
    <3>6. Cardinality(s.prepares) \in Nat /\ Cardinality(s.commits) \in Nat
      BY <1>1, FS_CardinalityType
    <3>7. n = s.retained + (Cardinality(s.prepares) - Cardinality(s.prepares)) + (Cardinality(more) - Cardinality(s.commits))
      BY <1>2, <3>3, <3>6 DEF n
    <3>8. SidecarSound(t)
      BY <1>1, <2>2, <3>3, <3>5, <3>7, CachesReplaced
    <3> QED
      BY <1>4, <3>1, <3>5, <3>8, PlainOutcome
  <2> QED
    BY <2>3, <2>4
<1> QED
    BY <1>6, <1>7, <1>8

\* A vote counted in its round.
WithCommit(s, v, w) ==
    [s EXCEPT !.rounds[v].commit = @ \cup {w}, !.rounds[v].bytes = @ + 1, !.retained = @ + 1]
WithPrepare(s, v, w) ==
    [s EXCEPT !.rounds[v].prepare = @ \cup {w}, !.rounds[v].bytes = @ + 1, !.retained = @ + 1]

\* A commit counted in its round keeps the sidecar sound.
LEMMA CommitCounted ==
    ASSUME NEW s, SidecarSound(s), NEW v \in Views, NEW w \in Witnesses, Open(s.rounds[v]),
           HasPrepared(s.rounds[v], w), Reserve(s, s.rounds[v].bytes)
    PROVE  LET t == WithCommit(s, v, w)
           IN  SidecarSound(t) /\ Open(t.rounds[v]) /\ t.completed = s.completed
<1> DEFINE r == s.rounds[v]
<1> DEFINE more == r.commit \cup {w}
<1> DEFINE b == r.bytes + 1
<1> DEFINE n == s.retained + 1
<1> DEFINE q == [r EXCEPT !.commit = more, !.bytes = b]
<1> DEFINE rs == [s.rounds EXCEPT ![v] = q]
<1> DEFINE t == [s EXCEPT !.rounds = rs, !.retained = n]
<1>1. s \in Sidecars /\ RoundsSound(s)
    BY DEF SidecarSound
<1>2. s.rounds \in [Views -> RoundSlots] /\ s.retained \in Nat /\ r \in RoundSlots
    BY <1>1, SidecarFields
<1>3. r \in RoundRecord /\ r.bytes \in Nat /\ RoundBytes(r) = r.bytes /\ r.commit \in SUBSET Witnesses /\ r.commit \subseteq r.prepare
      /\ s.completed[v] = -1
    BY <1>1, <1>2, RoundFields DEF RoundsSound
<1>4. t = WithCommit(s, v, w)
    BY <1>1, <1>2, <1>3 DEF WithCommit, Sidecars, RoundRecord
<1>5. b \in 0..MaxRoundBytes /\ n \in Nat /\ n <= MaxRetained
    BY <1>2, <1>3, PbftAssumption DEF Reserve
<1>6. more \in SUBSET Witnesses /\ more \subseteq r.prepare
    BY <1>3 DEF HasPrepared
<1> HIDE DEF more, b, n
<1>7. q \in RoundRecord /\ q.commit = more /\ q.prepare = r.prepare /\ q.bytes = b
    BY <1>3, <1>5, <1>6 DEF RoundRecord
<1> HIDE DEF q
<1>8. q \in RoundSlots /\ Open(q) /\ RoundBytes(q) = b
    BY <1>7, RoundFields
<1>9. rs \in [Views -> RoundSlots] /\ rs[v] = q /\ \A u \in Views : u # v => rs[u] = s.rounds[u]
    BY <1>2, <1>8
<1> HIDE DEF r
<1>10. /\ t \in Sidecars /\ t.rounds = rs /\ t.completed = s.completed /\ t.prepares = s.prepares
       /\ t.commits = s.commits /\ t.retained = n
  <2> HIDE DEF rs
  <2> QED
    BY <1>1, <1>5, <1>9 DEF Sidecars, RoundSlots
<1> HIDE DEF t, rs
<1>11. n = s.retained + RoundBytes(q) - RoundBytes(s.rounds[v])
    BY <1>2, <1>3, <1>8 DEF n, b, r
<1>12. SidecarSound(t) /\ t.rounds[v] = q
  <2>1. q.commit \subseteq q.prepare /\ s.completed[v] = -1
    BY <1>3, <1>6, <1>7
  <2> QED
    BY <1>5, <1>8, <1>9, <1>10, <1>11, <2>1, RoundReplaced
<1> QED
    BY <1>4, <1>8, <1>10, <1>12

\* And a prepare.
LEMMA PrepareCounted ==
    ASSUME NEW s, SidecarSound(s), NEW v \in Views, NEW w \in Witnesses, Open(s.rounds[v]),
           Reserve(s, s.rounds[v].bytes)
    PROVE  LET t == WithPrepare(s, v, w)
           IN  SidecarSound(t) /\ Open(t.rounds[v]) /\ t.completed = s.completed /\ t.commits = s.commits
<1> DEFINE r == s.rounds[v]
<1> DEFINE more == r.prepare \cup {w}
<1> DEFINE b == r.bytes + 1
<1> DEFINE n == s.retained + 1
<1> DEFINE q == [r EXCEPT !.prepare = more, !.bytes = b]
<1> DEFINE rs == [s.rounds EXCEPT ![v] = q]
<1> DEFINE t == [s EXCEPT !.rounds = rs, !.retained = n]
<1>1. s \in Sidecars /\ RoundsSound(s)
    BY DEF SidecarSound
<1>2. s.rounds \in [Views -> RoundSlots] /\ s.retained \in Nat /\ r \in RoundSlots
    BY <1>1, SidecarFields
<1>3. r \in RoundRecord /\ r.bytes \in Nat /\ RoundBytes(r) = r.bytes /\ r.prepare \in SUBSET Witnesses /\ r.commit \subseteq r.prepare
      /\ s.completed[v] = -1
    BY <1>1, <1>2, RoundFields DEF RoundsSound
<1>4. t = WithPrepare(s, v, w)
    BY <1>1, <1>2, <1>3 DEF WithPrepare, Sidecars, RoundRecord
<1>5. b \in 0..MaxRoundBytes /\ n \in Nat /\ n <= MaxRetained
    BY <1>2, <1>3, PbftAssumption DEF Reserve
<1>6. more \in SUBSET Witnesses /\ r.commit \subseteq more
    BY <1>3
<1> HIDE DEF more, b, n
<1>7. q \in RoundRecord /\ q.commit = r.commit /\ q.prepare = more /\ q.bytes = b
    BY <1>3, <1>5, <1>6 DEF RoundRecord
<1> HIDE DEF q
<1>8. q \in RoundSlots /\ Open(q) /\ RoundBytes(q) = b
    BY <1>7, RoundFields
<1>9. rs \in [Views -> RoundSlots] /\ rs[v] = q /\ \A u \in Views : u # v => rs[u] = s.rounds[u]
    BY <1>2, <1>8
<1> HIDE DEF r
<1>10. /\ t \in Sidecars /\ t.rounds = rs /\ t.completed = s.completed /\ t.prepares = s.prepares
       /\ t.commits = s.commits /\ t.retained = n
  <2> HIDE DEF rs
  <2> QED
    BY <1>1, <1>5, <1>9 DEF Sidecars, RoundSlots
<1> HIDE DEF t, rs
<1>11. n = s.retained + RoundBytes(q) - RoundBytes(s.rounds[v])
    BY <1>2, <1>3, <1>8 DEF n, b, r
<1>12. SidecarSound(t) /\ t.rounds[v] = q
  <2>1. q.commit \subseteq q.prepare /\ s.completed[v] = -1
    BY <1>3, <1>6, <1>7
  <2> QED
    BY <1>5, <1>8, <1>9, <1>10, <1>11, <2>1, RoundReplaced
<1> QED
    BY <1>4, <1>8, <1>10, <1>12

\* A round that is dropped gives back its bytes.
LEMMA RoundRemoved ==
    ASSUME NEW s, SidecarSound(s), NEW v \in Views
    PROVE  LET t == RemoveRound(s, v) IN SidecarSound(t) /\ ~Open(t.rounds[v]) /\ t.completed = s.completed
<1> DEFINE r == s.rounds[v]
<1>1. s \in Sidecars /\ Budgeted(s)
    BY DEF SidecarSound
<1>2. s.rounds \in [Views -> RoundSlots] /\ s.retained \in Nat /\ r \in RoundSlots
    BY <1>1, SidecarFields
<1>3. CASE ~Open(r)
    BY <1>3 DEF RemoveRound
<1>4. CASE Open(r)
  <2> DEFINE n == s.retained - r.bytes
  <2> DEFINE rs == [s.rounds EXCEPT ![v] = NoRound]
  <2> DEFINE t == [s EXCEPT !.rounds = rs, !.retained = n]
  <2>1. r.bytes \in Nat /\ RoundBytes(r) = r.bytes /\ NoRound \in RoundSlots /\ ~Open(NoRound) /\ RoundBytes(NoRound) = 0
    BY <1>2, <1>4, RoundFields
  <2>2. t = RemoveRound(s, v)
    BY <1>1, <1>4 DEF RemoveRound, Sidecars
  <2>3. n \in Nat /\ n <= MaxRetained
    <3>1. RoundBytes(r) <= RoundsBytes(s.rounds) /\ RoundsBytes(s.rounds) \in Nat
      BY <1>2, BytesAre
    <3>2. Cardinality(s.prepares) \in Nat /\ Cardinality(s.commits) \in Nat
      BY <1>1, FS_CardinalityType DEF Budgeted
    <3>3. s.retained = Cardinality(s.prepares) + Cardinality(s.commits) + RoundsBytes(s.rounds) /\ s.retained <= MaxRetained
      BY <1>1 DEF Budgeted
    <3> QED
      BY <1>2, <2>1, <3>1, <3>2, <3>3, PbftAssumption
  <2>4. rs \in [Views -> RoundSlots] /\ rs[v] = NoRound /\ \A u \in Views : u # v => rs[u] = s.rounds[u]
    BY <1>2, <2>1
  <2>5. n = s.retained + RoundBytes(NoRound) - RoundBytes(s.rounds[v])
    BY <1>2, <2>1
  <2> HIDE DEF r, n
  <2>6. /\ t \in Sidecars /\ t.rounds = rs /\ t.completed = s.completed /\ t.prepares = s.prepares
        /\ t.commits = s.commits /\ t.retained = n
    <3> HIDE DEF rs
    <3> QED
      BY <1>1, <2>3, <2>4 DEF Sidecars, RoundSlots
  <2> HIDE DEF t, rs
  <2>7. SidecarSound(t) /\ t.rounds[v] = NoRound
    BY <2>1, <2>3, <2>4, <2>5, <2>6, RoundReplaced
  <2> QED
    BY <2>1, <2>2, <2>6, <2>7
<1> QED
    BY <1>3, <1>4

\* A view that is completed has no round.
LEMMA RoundCompleted ==
    ASSUME pbNow \in 0..MaxTime, NEW s, SidecarSound(s), NEW v \in Views, ~Open(s.rounds[v])
    PROVE  LET t == [s EXCEPT !.completed[v] = pbNow]
           IN  SidecarSound(t) /\ t.completed = [s.completed EXCEPT ![v] = pbNow]
<1> DEFINE c == [s.completed EXCEPT ![v] = pbNow]
<1> DEFINE t == [s EXCEPT !.completed = c]
<1>1. s \in Sidecars /\ RoundsSound(s) /\ Budgeted(s)
    BY DEF SidecarSound
<1>2. c \in [Views -> -1..MaxTime] /\ \A u \in Views : u # v => c[u] = s.completed[u]
    BY <1>1, SidecarFields, PbftAssumption
<1>3. t = [s EXCEPT !.completed[v] = pbNow]
    BY <1>1 DEF Sidecars
<1> HIDE DEF c
<1>4. /\ t \in Sidecars /\ t.rounds = s.rounds /\ t.completed = c /\ t.prepares = s.prepares
      /\ t.commits = s.commits /\ t.retained = s.retained
    BY <1>1, <1>2 DEF Sidecars
<1> HIDE DEF t
<1>5. RoundsSound(t)
    BY <1>1, <1>2, <1>4 DEF RoundsSound
<1>6. Budgeted(t)
    BY <1>1, <1>4 DEF Budgeted
<1> QED
    BY <1>3, <1>4, <1>5, <1>6 DEF SidecarSound, c

\* A round that ends in its certificate, or in silence while the node is syncing.
LEMMA CompletedOutcome ==
    ASSUME NEW t, SidecarSound(t), NEW v, NEW c, c[v] = -1, t.completed = CompletedNow(c, v),
           NEW x \in CertRecords, BackedCert(x), x.view = v, x.at = pbNow, NEW out, out = <<>> \/ out = <<x>>
    PROVE  Done(t, out) \in Outcomes(c, v) /\ Done(t, out).s = t /\ Done(t, out).err = "Ok"
<1>1. t \in Sidecars /\ "Ok" \in Errors /\ x \in Effects
    BY DEF SidecarSound, Errors, Effects
<1>2. out \in Seq(Effects) /\ OneCert(out, v)
  <2>1. CASE out = <<>>
    BY <2>1 DEF OneCert
  <2>2. CASE out = <<x>>
    <3>1. out \in Seq(Effects) /\ DOMAIN out = {1} /\ out[1] = x
      BY <1>1, <2>2
    <3>2. OneCert(out, v)
      BY ONLY <3>1, BackedCert(x), x.view = v, x.at = pbNow DEF OneCert
    <3> QED
      BY <3>1, <3>2
  <2> QED
    BY <2>1, <2>2
<1> DEFINE d == Done(t, out)
<1>3. d = [s |-> t, err |-> "Ok", out |-> out]
    BY DEF Done
<1> HIDE DEF d
<1>4. d \in OutcomeRecords /\ d.s = t /\ d.err = "Ok" /\ d.out = out
    BY <1>1, <1>2, <1>3 DEF OutcomeRecords
<1>5. d \in Outcomes(c, v)
    BY <1>2, <1>4 DEF Outcomes, Certified, CompletedNow
<1> QED
    BY <1>4, <1>5 DEF d

\* A commit vote: counted in its round, cached for later, refused, or the one that completes.
LEMMA CommitVoteOk ==
    ASSUME pbNow \in 0..MaxTime, committee \subseteq Witnesses, NEW s, SidecarSound(s), NEW m \in PbftMsg, NEW ctx \in Contexts
    PROVE  /\ CommitVote(s, m, ctx) \in Outcomes(s.completed, m.view)
           /\ Open(s.rounds[m.view]) =>
                 LET t == CommitVote(s, m, ctx).s IN Open(t.rounds[m.view]) \/ t.completed[m.view] # -1
<1> DEFINE v == m.view
<1> DEFINE w == m.signer
<1> DEFINE r == s.rounds[v]
<1>1. s \in Sidecars /\ RoundsSound(s) /\ v \in Views /\ w \in Witnesses /\ m.data \in Datas
    BY DEF SidecarSound, PbftMsg
<1>2. s.rounds \in [Views -> RoundSlots] /\ r \in RoundSlots /\ s.completed \in [Views -> -1..MaxTime]
    BY <1>1, SidecarFields
<1>3. "Ok" \in Errors /\ "ProposalMismatch" \in Errors /\ "Capacity" \in Errors
    BY DEF Errors
<1>4. \A x \in Errors : /\ Done(s, <<>>) \in Outcomes(s.completed, v) /\ Fail(s, x) \in Outcomes(s.completed, v)
                        /\ Done(s, <<>>).s = s /\ Fail(s, x).s = s
    BY PlainOutcome
<1>5. /\ CachePending(s, m, "Commit") \in Outcomes(s.completed, v)
      /\ CachePending(s, m, "Commit").s.rounds = s.rounds
    BY CachePendingOk
<1>6. CASE ~Open(r)
    BY <1>5, <1>6 DEF CommitVote
<1>7. CASE Open(r) /\ r.data # m.data
  <2>1. CommitVote(s, m, ctx) = Fail(s, "ProposalMismatch")
    BY <1>7 DEF CommitVote
  <2> QED
    BY <1>3, <1>4, <1>7, <2>1
<1>8. CASE Open(r) /\ r.data = m.data /\ ~HasPrepared(r, w)
  <2>1. CommitVote(s, m, ctx) = CachePending(s, m, "Commit")
    BY <1>8 DEF CommitVote
  <2> QED
    BY <1>5, <1>8, <2>1
<1>9. CASE Open(r) /\ r.data = m.data /\ HasPrepared(r, w) /\ w \in r.commit
  <2>1. CommitVote(s, m, ctx) = Done(s, <<>>)
    BY <1>9 DEF CommitVote
  <2> QED
    BY <1>3, <1>4, <1>9, <2>1
<1> DEFINE full == Cardinality(r.commit) >= MaxVotes \/ ~Reserve(s, r.bytes)
<1>10. CASE Open(r) /\ r.data = m.data /\ HasPrepared(r, w) /\ w \notin r.commit /\ full
  <2>1. CommitVote(s, m, ctx) = Fail(s, "Capacity")
    BY <1>10 DEF CommitVote
  <2> QED
    BY <1>3, <1>4, <1>10, <2>1
<1>11. CASE Open(r) /\ r.data = m.data /\ HasPrepared(r, w) /\ w \notin r.commit /\ ~full
  <2> DEFINE voted == WithCommit(s, v, w)
  <2> DEFINE signers == r.commit \cup {w}
  <2> DEFINE x == [kind |-> "Commit", view |-> v, data |-> m.data, signers |-> signers, prepared |-> r.prepare,
                   committee |-> committee, at |-> pbNow]
  <2> DEFINE u == RemoveRound(voted, v)
  <2> DEFINE t == [u EXCEPT !.completed[v] = pbNow]
  <2> DEFINE out == IF ctx.syncing THEN <<>> ELSE <<x>>
  <2>1. CommitVote(s, m, ctx) = IF Cardinality(r.commit) + 1 < QuorumOf(committee) THEN Done(voted, <<>>) ELSE Done(t, out)
    BY <1>11 DEF CommitVote, WithCommit
  <2>2. SidecarSound(voted) /\ Open(voted.rounds[v]) /\ voted.completed = s.completed
    BY <1>1, <1>11, CommitCounted
  <2> HIDE DEF voted
  <2>3. CASE Cardinality(r.commit) + 1 < QuorumOf(committee)
    <3>1. Done(voted, <<>>) \in Outcomes(voted.completed, v) /\ Done(voted, <<>>).s = voted
      BY <1>3, <2>2, PlainOutcome
    <3> QED
      BY <2>1, <2>2, <2>3, <3>1
  <2>4. CASE ~(Cardinality(r.commit) + 1 < QuorumOf(committee))
    <3>1. SidecarSound(u) /\ ~Open(u.rounds[v]) /\ u.completed = s.completed
      BY <1>1, <2>2, RoundRemoved
    <3> HIDE DEF u
    <3>2. SidecarSound(t) /\ t.completed = [s.completed EXCEPT ![v] = pbNow]
      BY <1>1, <3>1, RoundCompleted
    <3> HIDE DEF t
    <3>3. s.completed[v] = -1 /\ r.commit \subseteq r.prepare /\ r.prepare \in SUBSET Witnesses
      BY <1>1, <1>2, <1>11, RoundFields DEF RoundsSound
    <3>4. signers \in SUBSET r.prepare /\ signers \in SUBSET Witnesses
      BY <1>11, <3>3 DEF HasPrepared
    <3>5. Cardinality(signers) = Cardinality(r.commit) + 1 /\ Cardinality(r.commit) \in Nat
      <4>1. IsFiniteSet(r.commit)
        BY <3>3, FS_Subset, PbftAssumption
      <4> QED
        BY <4>1, <1>11, FS_AddElement, FS_CardinalityType
    <3>6. QuorumOf(committee) \in Nat
      <4>1. IsFiniteSet(committee)
        BY FS_Subset, PbftAssumption
      <4>2. Cardinality(committee) \in Nat
        BY <4>1, FS_CardinalityType
      <4> QED
        BY <4>2, PbftAssumption DEF QuorumOf
    <3>7. Cardinality(signers) >= QuorumOf(committee)
      BY <2>4, <3>5, <3>6
    <3> HIDE DEF signers
    <3>8. x \in CertRecords
      <4>1. /\ v \in Views /\ m.data \in Datas /\ signers \in SUBSET Witnesses /\ r.prepare \in SUBSET Witnesses
            /\ committee \in SUBSET Witnesses /\ pbNow \in 0..MaxTime
        BY <1>1, <3>3, <3>4
      <4> QED
        BY <4>1 DEF CertRecords
    <3>9. x.signers = signers /\ x.prepared = r.prepare /\ x.committee = committee /\ x.view = v /\ x.at = pbNow
      OBVIOUS
    <3> HIDE DEF x
    <3>10. BackedCert(x)
      BY <3>4, <3>7, <3>9 DEF BackedCert
    <3>11. out \in {<<>>, <<x>>}
      OBVIOUS
    <3> HIDE DEF out, v
    <3>12. Done(t, out) \in Outcomes(s.completed, v) /\ Done(t, out).s = t
      <4> DEFINE c == s.completed
      <4>1. /\ SidecarSound(t) /\ c[v] = -1 /\ t.completed = CompletedNow(c, v) /\ x \in CertRecords /\ BackedCert(x)
            /\ x.view = v /\ x.at = pbNow /\ (out = <<>> \/ out = <<x>>)
        BY <3>2, <3>3, <3>8, <3>9, <3>10, <3>11 DEF v, CompletedNow
      <4> HIDE DEF c
      <4>2. Done(t, out) \in Outcomes(c, v) /\ Done(t, out).s = t
        BY ONLY <4>1, CompletedOutcome
      <4> QED
        BY <4>2 DEF c
    <3>13. t.completed[v] # -1
      BY <1>1, <1>2, <3>2
    <3> QED
      BY <2>1, <2>4, <3>12, <3>13 DEF v
  <2> QED
    BY <2>3, <2>4
<1> QED
    BY <1>6, <1>7, <1>8, <1>9, <1>10, <1>11

\* The vote that a local key signs.
LEMMA SignedIs ==
    ASSUME NEW m \in PbftMsg, NEW w \in Witnesses, NEW type \in {"Prepare", "Commit"}
    PROVE  Signed(m, type, w) \in PbftMsg /\ Signed(m, type, w).view = m.view
BY DEF Signed, PbftMsg

\* A commit of the node itself.
LEMMA SignCommitOk ==
    ASSUME pbNow \in 0..MaxTime, committee \subseteq Witnesses, NEW m \in PbftMsg, NEW ctx \in Contexts, NEW w \in Witnesses,
           NEW c \in [Views -> -1..MaxTime], NEW r \in Outcomes(c, m.view)
    PROVE  SignCommit(r, m, w, ctx) \in Outcomes(c, m.view)
<1> DEFINE vote == Signed(m, "Commit", w)
<1>1. vote \in PbftMsg /\ vote.view = m.view /\ m.view \in Views
    BY SignedIs DEF PbftMsg
<1>2. SignCommit(r, m, w, ctx) = r \/ SignCommit(r, m, w, ctx) = After(Forwarded(r, vote), CommitVote(r.s, vote, ctx))
    BY DEF SignCommit
<1> HIDE DEF vote
<1> DEFINE f == Forwarded(r, vote)
<1>3. f \in Outcomes(c, m.view) /\ f.s = r.s
    BY <1>1, OutcomeForwarded
<1>4. SidecarSound(r.s)
    BY OutcomeFields
<1> HIDE DEF f
<1>5. CommitVote(r.s, vote, ctx) \in Outcomes(f.s.completed, m.view)
    BY <1>1, <1>3, <1>4, CommitVoteOk
<1>6. After(f, CommitVote(r.s, vote, ctx)) \in Outcomes(c, m.view)
    BY <1>1, <1>3, <1>5, OutcomesJoin
<1> QED
    BY <1>2, <1>6 DEF f

\* All the commits of the node itself.
LEMMA SignCommitsOk ==
    ASSUME pbNow \in 0..MaxTime, committee \subseteq Witnesses, NEW m \in PbftMsg, NEW ctx \in Contexts,
           NEW c \in [Views -> -1..MaxTime], NEW r \in Outcomes(c, m.view)
    PROVE  SignCommits(r, m, ctx) \in Outcomes(c, m.view)
<1> DEFINE S == Outcomes(c, m.view)
<1> DEFINE N == Len(LocalSigners)
<1>1. N \in Nat /\ \A n \in 1..N : LocalSigners[n] \in Witnesses
    BY PbftAssumption
<1> DEFINE Body(g) == [n \in 0..N |-> IF n = 0 THEN r ELSE SignCommit(g[n - 1], m, LocalSigners[n], ctx)]
<1> DEFINE op == [p \in S \X (1..N) |-> SignCommit(p[1], m, LocalSigners[p[2]], ctx)]
<1>2. \A x \in S, n \in 1..N : SignCommit(x, m, LocalSigners[n], ctx) \in S
    BY <1>1, SignCommitOk
<1> HIDE DEF S, N
<1>3. op \in [S \X (1..N) -> S] /\ \A x \in S, n \in 1..N : op[<<x, n>>] = SignCommit(x, m, LocalSigners[n], ctx)
    BY <1>2
<1> HIDE DEF op
<1>4. r \in S
    BY DEF S
<1>5. PICK f \in [0..N -> S] : Looped(f, r, op, N)
  <2>1. N \in Nat
    BY <1>1
  <2>2. op \in [S \X (1..N) -> S]
    BY <1>3
  <2> QED
    BY ONLY <1>4, <2>1, <2>2, LoopExists
<1>6. f = Body(f)
  <2>1. ASSUME NEW n \in 0..N PROVE f[n] = IF n = 0 THEN r ELSE SignCommit(f[n - 1], m, LocalSigners[n], ctx)
    <3>1. CASE n = 0
      BY <1>5, <3>1 DEF Looped
    <3>2. CASE n # 0
      <4>1. n \in 1..N /\ n - 1 \in 0..N
        BY <1>1, <3>2
      <4>2. f[n - 1] \in S
        BY <4>1
      <4> QED
        BY <1>3, <1>5, <3>2, <4>1, <4>2 DEF Looped
    <3> QED
      BY <3>1, <3>2
  <2> QED
    BY <2>1
<1> DEFINE cast == CHOOSE g : g = Body(g)
<1>7. SignCommits(r, m, ctx) = cast[N]
    BY DEF SignCommits, N
<1>8. cast = Body(cast)
    BY <1>6
<1> HIDE DEF cast
<1>9. cast[0] \in S /\ \A n \in 1..N : cast[n - 1] \in S => cast[n] \in S
  <2>1. cast[0] = r
    BY <1>1, <1>8
  <2>2. ASSUME NEW n \in 1..N, cast[n - 1] \in S PROVE cast[n] \in S
    <3>1. cast[n] = SignCommit(cast[n - 1], m, LocalSigners[n], ctx)
      BY <1>1, <1>8
    <3> QED
      BY <1>2, <2>2, <3>1
  <2> QED
    BY <1>4, <2>1, <2>2
<1>10. cast[N] \in S
    BY <1>1, <1>9, LoopStays
<1> QED
    BY <1>7, <1>10 DEF S

\* An error keeps the state that was reached and drops the effects.
LEMMA FailedOutcome ==
    ASSUME NEW c, NEW v, NEW r \in Outcomes(c, v)
    PROVE  Fail(r.s, r.err) \in Outcomes(c, v)
<1>1. SidecarSound(r.s) /\ Certified(r, c, v) /\ r.s \in Sidecars /\ r.err \in Errors
    BY OutcomeFields
<1> DEFINE none == <<>>
<1> DEFINE f == Fail(r.s, r.err)
<1>2. none \in Seq(Effects) /\ NoCert(none) /\ OneCert(none, v)
    BY DEF NoCert, OneCert
<1>3. f = [s |-> r.s, err |-> r.err, out |-> none]
    BY DEF Fail
<1> HIDE DEF none, f
<1>4. f \in OutcomeRecords /\ f.s = r.s /\ f.out = none
    BY <1>1, <1>2, <1>3 DEF OutcomeRecords
<1>5. Certified(f, c, v)
    BY <1>1, <1>2, <1>4 DEF Certified
<1> QED
    BY <1>1, <1>4, <1>5 DEF Outcomes, f

\* The round that has sent its own commits.
Marked(r, v) == [r EXCEPT !.s.rounds[v].done = TRUE]
\* Marking a round leaves the outcome an outcome.
LEMMA MarkedOutcome ==
    ASSUME NEW c, NEW v \in Views, NEW r \in Outcomes(c, v), Open(r.s.rounds[v])
    PROVE  Marked(r, v) \in Outcomes(c, v)
<1> DEFINE s == r.s
<1> DEFINE q == [s.rounds[v] EXCEPT !.done = TRUE]
<1> DEFINE rs == [s.rounds EXCEPT ![v] = q]
<1> DEFINE t == [s EXCEPT !.rounds = rs]
<1> DEFINE n == [r EXCEPT !.s = t]
<1>1. SidecarSound(s) /\ Certified(r, c, v) /\ s \in Sidecars /\ r \in OutcomeRecords
    BY OutcomeFields
<1>2. RoundsSound(s) /\ Budgeted(s)
    BY <1>1 DEF SidecarSound
<1>3. s.rounds \in [Views -> RoundSlots] /\ s.retained \in Nat
    BY <1>1, SidecarFields
<1>4. s.rounds[v] \in RoundRecord /\ s.rounds[v].bytes \in Nat /\ RoundBytes(s.rounds[v]) = s.rounds[v].bytes
      /\ s.rounds[v].commit \subseteq s.rounds[v].prepare /\ s.completed[v] = -1
    BY <1>2, <1>3, RoundFields DEF RoundsSound
<1>5. n = Marked(r, v)
    BY <1>1, <1>3, <1>4 DEF Marked, OutcomeRecords, Sidecars, RoundRecord
<1> HIDE DEF s
<1>6. q \in RoundRecord /\ q.commit = s.rounds[v].commit /\ q.prepare = s.rounds[v].prepare /\ q.bytes = s.rounds[v].bytes
    BY <1>4 DEF RoundRecord
<1> HIDE DEF q
<1>7. q \in RoundSlots /\ Open(q) /\ RoundBytes(q) = s.rounds[v].bytes
    BY <1>6, RoundFields
<1>8. rs \in [Views -> RoundSlots] /\ rs[v] = q /\ \A u \in Views : u # v => rs[u] = s.rounds[u]
    BY <1>3, <1>7
<1> HIDE DEF rs
<1>9. /\ t \in Sidecars /\ t.rounds = rs /\ t.completed = s.completed /\ t.prepares = s.prepares
      /\ t.commits = s.commits /\ t.retained = s.retained
    BY <1>1, <1>8 DEF Sidecars, RoundSlots
<1> HIDE DEF t
<1>10. t.retained = s.retained + RoundBytes(q) - RoundBytes(s.rounds[v]) /\ t.retained <= MaxRetained
    BY <1>2, <1>3, <1>4, <1>7, <1>9 DEF Budgeted
<1>11. SidecarSound(t)
  <2>1. q.commit \subseteq q.prepare /\ s.completed[v] = -1
    BY <1>4, <1>6
  <2> QED
    BY <1>1, <1>7, <1>8, <1>9, <1>10, <2>1, RoundReplaced
<1>12. n \in OutcomeRecords /\ n.s = t /\ n.out = r.out
    BY <1>1, <1>9 DEF OutcomeRecords
<1> HIDE DEF n
<1>13. n \in Outcomes(c, v)
    BY <1>1, <1>9, <1>11, <1>12 DEF Outcomes, Certified, s
<1> QED
    BY <1>5, <1>13

\* A prepare vote: counted in its round, with the commit that came before it and the commits of
\* the node itself once it is the one that makes the quorum; or cached, or refused.
LEMMA PrepareVoteOk ==
    ASSUME pbNow \in 0..MaxTime, committee \subseteq Witnesses, NEW s, SidecarSound(s), NEW m \in PbftMsg, NEW ctx \in Contexts
    PROVE  PrepareVote(s, m, ctx) \in Outcomes(s.completed, m.view)
<1> DEFINE v == m.view
<1> DEFINE w == m.signer
<1> DEFINE r == s.rounds[v]
<1>1. s \in Sidecars /\ v \in Views /\ w \in Witnesses
    BY DEF SidecarSound, PbftMsg
<1>2. s.completed \in [Views -> -1..MaxTime]
    BY <1>1, SidecarFields
<1>3. "Ok" \in Errors /\ "ProposalMismatch" \in Errors /\ "Capacity" \in Errors
    BY DEF Errors
<1>4. \A x \in Errors : Done(s, <<>>) \in Outcomes(s.completed, v) /\ Fail(s, x) \in Outcomes(s.completed, v)
    BY PlainOutcome
<1>5. CachePending(s, m, "Prepare") \in Outcomes(s.completed, v)
    BY CachePendingOk
<1>6. CASE ~Open(r)
    BY <1>5, <1>6 DEF PrepareVote
<1>7. CASE Open(r) /\ r.data # m.data
  <2>1. PrepareVote(s, m, ctx) = Fail(s, "ProposalMismatch")
    BY <1>7 DEF PrepareVote
  <2> QED
    BY <1>3, <1>4, <2>1
<1>8. CASE Open(r) /\ r.data = m.data /\ w \in r.prepare
  <2>1. PrepareVote(s, m, ctx) = Done(s, <<>>)
    BY <1>8 DEF PrepareVote
  <2> QED
    BY <1>3, <1>4, <2>1
<1> DEFINE full == Cardinality(r.prepare) >= MaxVotes \/ ~Reserve(s, r.bytes)
<1>9. CASE Open(r) /\ r.data = m.data /\ w \notin r.prepare /\ full
  <2>1. PrepareVote(s, m, ctx) = Fail(s, "Capacity")
    BY <1>9 DEF PrepareVote
  <2> QED
    BY <1>3, <1>4, <2>1
<1>10. CASE Open(r) /\ r.data = m.data /\ w \notin r.prepare /\ ~full
  <2> DEFINE voted == WithPrepare(s, v, w)
  <2> DEFINE early == CachedAs(s.commits, m)
  <2> DEFINE drained == WithoutCommits(voted, early)
  <2> DEFINE x == CHOOSE e \in early : TRUE
  <2> DEFINE after == IF early = {} THEN Done(voted, <<>>) ELSE CommitVote(drained, x.msg, ctx)
  <2> DEFINE quiet == \/ after.s.completed[v] # -1 \/ r.done \/ ctx.syncing
                      \/ Cardinality(r.prepare) + 1 < QuorumOf(committee)
  <2>1. PrepareVote(s, m, ctx) = IF after.err # "Ok" THEN Fail(after.s, after.err)
                                 ELSE IF quiet THEN after ELSE SignCommits(Marked(after, v), m, ctx)
    BY <1>10 DEF PrepareVote, WithPrepare, WithoutCommits, Marked
  <2>2. SidecarSound(voted) /\ Open(voted.rounds[v]) /\ voted.completed = s.completed /\ voted.commits = s.commits
    BY <1>1, <1>10, PrepareCounted
  <2> HIDE DEF voted
  <2>3. after \in Outcomes(s.completed, v) /\ (Open(after.s.rounds[v]) \/ after.s.completed[v] # -1)
    <3>1. CASE early = {}
      <4>1. Done(voted, <<>>) \in Outcomes(voted.completed, v) /\ Done(voted, <<>>).s = voted
        BY <1>3, <2>2, PlainOutcome
      <4> QED
        BY <2>2, <3>1, <4>1
    <3>2. CASE early # {}
      <4>1. x \in early
        BY <3>2
      <4> HIDE DEF x
      <4>2. early \in SUBSET voted.commits /\ x \in CachedVote /\ x.msg.view = v
        BY <1>1, <2>2, <4>1, SidecarFields DEF CachedAs
      <4>3. x.msg \in PbftMsg
        BY <4>2 DEF CachedVote
      <4>4. SidecarSound(drained) /\ drained.rounds = voted.rounds /\ drained.completed = s.completed
        BY <2>2, <4>2, CommitsTaken
      <4> HIDE DEF drained, early
      <4>5. CommitVote(drained, x.msg, ctx) \in Outcomes(drained.completed, v)
        BY <4>2, <4>3, <4>4, CommitVoteOk
      <4>6. LET t == CommitVote(drained, x.msg, ctx).s IN Open(t.rounds[v]) \/ t.completed[v] # -1
        <5>1. Open(drained.rounds[x.msg.view])
          BY <2>2, <4>2, <4>4
        <5> QED
          BY <4>2, <4>3, <4>4, <5>1, CommitVoteOk
      <4> QED
        BY <3>2, <4>4, <4>5, <4>6
    <3> QED
      BY <3>1, <3>2
  <2> HIDE DEF after
  <2>4. CASE after.err # "Ok"
    BY <2>1, <2>3, <2>4, FailedOutcome
  <2>5. CASE after.err = "Ok" /\ quiet
    BY <2>1, <2>3, <2>5
  <2>6. CASE after.err = "Ok" /\ ~quiet
    <3>1. Open(after.s.rounds[v])
      BY <2>3, <2>6
    <3>2. Marked(after, v) \in Outcomes(s.completed, v)
      BY <1>1, <2>3, <3>1, MarkedOutcome
    <3>3. SignCommits(Marked(after, v), m, ctx) \in Outcomes(s.completed, v)
      BY <1>2, <3>2, SignCommitsOk
    <3> QED
      BY <2>1, <2>6, <3>3
  <2> QED
    BY <2>4, <2>5, <2>6
<1> QED
    BY <1>6, <1>7, <1>8, <1>9, <1>10

\* A prepare of the node itself.
LEMMA SignPrepareOk ==
    ASSUME pbNow \in 0..MaxTime, committee \subseteq Witnesses, NEW m \in PbftMsg, NEW ctx \in Contexts, NEW w \in Witnesses,
           NEW c \in [Views -> -1..MaxTime], NEW r \in Outcomes(c, m.view)
    PROVE  SignPrepare(r, m, w, ctx) \in Outcomes(c, m.view)
<1> DEFINE vote == Signed(m, "Prepare", w)
<1>1. vote \in PbftMsg /\ vote.view = m.view /\ m.view \in Views
    BY SignedIs DEF PbftMsg
<1>2. SignPrepare(r, m, w, ctx) = r \/ SignPrepare(r, m, w, ctx) = After(Forwarded(r, vote), PrepareVote(r.s, vote, ctx))
    BY DEF SignPrepare
<1> HIDE DEF vote
<1> DEFINE f == Forwarded(r, vote)
<1>3. f \in Outcomes(c, m.view) /\ f.s = r.s
    BY <1>1, OutcomeForwarded
<1>4. SidecarSound(r.s)
    BY OutcomeFields
<1> HIDE DEF f
<1>5. PrepareVote(r.s, vote, ctx) \in Outcomes(f.s.completed, m.view)
    BY <1>1, <1>3, <1>4, PrepareVoteOk
<1>6. After(f, PrepareVote(r.s, vote, ctx)) \in Outcomes(c, m.view)
    BY <1>1, <1>3, <1>5, OutcomesJoin
<1> QED
    BY <1>2, <1>6 DEF f

\* All the prepares of the node itself.
LEMMA SignPreparesOk ==
    ASSUME pbNow \in 0..MaxTime, committee \subseteq Witnesses, NEW m \in PbftMsg, NEW ctx \in Contexts,
           NEW c \in [Views -> -1..MaxTime], NEW r \in Outcomes(c, m.view)
    PROVE  SignPrepares(r, m, ctx) \in Outcomes(c, m.view)
<1> DEFINE S == Outcomes(c, m.view)
<1> DEFINE N == Len(LocalSigners)
<1>1. N \in Nat /\ \A n \in 1..N : LocalSigners[n] \in Witnesses
    BY PbftAssumption
<1> DEFINE Body(g) == [n \in 0..N |-> IF n = 0 THEN r ELSE SignPrepare(g[n - 1], m, LocalSigners[n], ctx)]
<1> DEFINE op == [p \in S \X (1..N) |-> SignPrepare(p[1], m, LocalSigners[p[2]], ctx)]
<1>2. \A x \in S, n \in 1..N : SignPrepare(x, m, LocalSigners[n], ctx) \in S
    BY <1>1, SignPrepareOk
<1> HIDE DEF S, N
<1>3. op \in [S \X (1..N) -> S] /\ \A x \in S, n \in 1..N : op[<<x, n>>] = SignPrepare(x, m, LocalSigners[n], ctx)
    BY <1>2
<1> HIDE DEF op
<1>4. r \in S
    BY DEF S
<1>5. PICK f \in [0..N -> S] : Looped(f, r, op, N)
  <2>1. N \in Nat
    BY <1>1
  <2>2. op \in [S \X (1..N) -> S]
    BY <1>3
  <2> QED
    BY ONLY <1>4, <2>1, <2>2, LoopExists
<1>6. f = Body(f)
  <2>1. ASSUME NEW n \in 0..N PROVE f[n] = IF n = 0 THEN r ELSE SignPrepare(f[n - 1], m, LocalSigners[n], ctx)
    <3>1. CASE n = 0
      BY <1>5, <3>1 DEF Looped
    <3>2. CASE n # 0
      <4>1. n \in 1..N /\ n - 1 \in 0..N
        BY <1>1, <3>2
      <4>2. f[n - 1] \in S
        BY <4>1
      <4> QED
        BY <1>3, <1>5, <3>2, <4>1, <4>2 DEF Looped
    <3> QED
      BY <3>1, <3>2
  <2> QED
    BY <2>1
<1> DEFINE cast == CHOOSE g : g = Body(g)
<1>7. SignPrepares(r, m, ctx) = cast[N]
    BY DEF SignPrepares, N
<1>8. cast = Body(cast)
    BY <1>6
<1> HIDE DEF cast
<1>9. cast[0] \in S /\ \A n \in 1..N : cast[n - 1] \in S => cast[n] \in S
  <2>1. cast[0] = r
    BY <1>1, <1>8
  <2>2. ASSUME NEW n \in 1..N, cast[n - 1] \in S PROVE cast[n] \in S
    <3>1. cast[n] = SignPrepare(cast[n - 1], m, LocalSigners[n], ctx)
      BY <1>1, <1>8
    <3> QED
      BY <1>2, <2>2, <3>1
  <2> QED
    BY <1>4, <2>1, <2>2
<1>10. cast[N] \in S
    BY <1>1, <1>9, LoopStays
<1> QED
    BY <1>7, <1>10 DEF S

\* The replay of a cached prepare.
LEMMA ReplayPrepareOk ==
    ASSUME pbNow \in 0..MaxTime, committee \subseteq Witnesses, NEW m \in PbftMsg, NEW ctx \in Contexts,
           NEW c \in [Views -> -1..MaxTime], NEW r \in Outcomes(c, m.view)
    PROVE  ReplayPrepare(r, m, ctx) \in Outcomes(c, m.view)
<1> DEFINE gone == CachedAs(r.s.prepares, m)
<1> DEFINE taken == WithoutPrepares(r.s, gone)
<1>1. ReplayPrepare(r, m, ctx) = r \/ ReplayPrepare(r, m, ctx) = After(r, PrepareVote(taken, m, ctx))
    BY DEF ReplayPrepare, WithoutPrepares
<1>2. SidecarSound(r.s) /\ m.view \in Views
    BY OutcomeFields DEF PbftMsg
<1>3. gone \in SUBSET r.s.prepares
    BY DEF CachedAs
<1> HIDE DEF gone
<1>4. SidecarSound(taken) /\ taken.completed = r.s.completed
    BY <1>2, <1>3, PreparesTaken
<1> HIDE DEF taken
<1>5. PrepareVote(taken, m, ctx) \in Outcomes(r.s.completed, m.view)
    BY <1>4, PrepareVoteOk
<1>6. After(r, PrepareVote(taken, m, ctx)) \in Outcomes(c, m.view)
    BY <1>2, <1>5, OutcomesJoin
<1> QED
    BY <1>1, <1>6

\* The replay of all the prepares cached for a proposal.
LEMMA ReplayPreparesOk ==
    ASSUME pbNow \in 0..MaxTime, committee \subseteq Witnesses, NEW v \in Views, NEW ctx \in Contexts,
           NEW votes \in Seq(CachedVote), \A i \in DOMAIN votes : votes[i].msg.view = v,
           NEW c \in [Views -> -1..MaxTime], NEW r \in Outcomes(c, v)
    PROVE  ReplayPrepares(r, votes, ctx) \in Outcomes(c, v)
<1> DEFINE S == Outcomes(c, v)
<1> DEFINE N == Len(votes)
<1>1. N \in Nat /\ \A n \in 1..N : votes[n].msg \in PbftMsg /\ votes[n].msg.view = v
  <2>1. N \in Nat /\ DOMAIN votes = 1..N
    OBVIOUS
  <2>2. \A n \in 1..N : votes[n] \in CachedVote
    BY <2>1
  <2> QED
    BY <2>1, <2>2 DEF CachedVote
<1> DEFINE Body(g) == [n \in 0..N |-> IF n = 0 THEN r ELSE ReplayPrepare(g[n - 1], votes[n].msg, ctx)]
<1> DEFINE op == [p \in S \X (1..N) |-> ReplayPrepare(p[1], votes[p[2]].msg, ctx)]
<1>2. \A x \in S, n \in 1..N : ReplayPrepare(x, votes[n].msg, ctx) \in S
    BY <1>1, ReplayPrepareOk
<1> HIDE DEF S, N
<1>3. op \in [S \X (1..N) -> S] /\ \A x \in S, n \in 1..N : op[<<x, n>>] = ReplayPrepare(x, votes[n].msg, ctx)
    BY <1>2
<1> HIDE DEF op
<1>4. r \in S
    BY DEF S
<1>5. PICK f \in [0..N -> S] : Looped(f, r, op, N)
  <2>1. N \in Nat
    BY <1>1
  <2>2. op \in [S \X (1..N) -> S]
    BY <1>3
  <2> QED
    BY ONLY <1>4, <2>1, <2>2, LoopExists
<1>6. f = Body(f)
  <2>1. ASSUME NEW n \in 0..N PROVE f[n] = IF n = 0 THEN r ELSE ReplayPrepare(f[n - 1], votes[n].msg, ctx)
    <3>1. CASE n = 0
      BY <1>5, <3>1 DEF Looped
    <3>2. CASE n # 0
      <4>1. n \in 1..N /\ n - 1 \in 0..N
        BY <1>1, <3>2
      <4>2. f[n - 1] \in S
        BY <4>1
      <4> QED
        BY <1>3, <1>5, <3>2, <4>1, <4>2 DEF Looped
    <3> QED
      BY <3>1, <3>2
  <2> QED
    BY <2>1
<1> DEFINE cast == CHOOSE g : g = Body(g)
<1>7. ReplayPrepares(r, votes, ctx) = cast[N]
    BY DEF ReplayPrepares, N
<1>8. cast = Body(cast)
    BY <1>6
<1> HIDE DEF cast
<1>9. cast[0] \in S /\ \A n \in 1..N : cast[n - 1] \in S => cast[n] \in S
  <2>1. cast[0] = r
    BY <1>1, <1>8
  <2>2. ASSUME NEW n \in 1..N, cast[n - 1] \in S PROVE cast[n] \in S
    <3>1. cast[n] = ReplayPrepare(cast[n - 1], votes[n].msg, ctx)
      BY <1>1, <1>8
    <3> QED
      BY <1>2, <2>2, <3>1
  <2> QED
    BY <1>4, <2>1, <2>2
<1>10. cast[N] \in S
    BY <1>1, <1>9, LoopStays
<1> QED
    BY <1>7, <1>10 DEF S

\* A proposal: the round it opens, the node's own prepares and the prepares that came before it.
LEMMA PreprepareOk ==
    ASSUME pbNow \in 0..MaxTime, committee \subseteq Witnesses, NEW s, SidecarSound(s), NEW m \in PbftMsg, NEW ctx \in Contexts,
           NEW signer, s.completed[m.view] = -1
    PROVE  Preprepare(s, m, signer, ctx) \in Outcomes(s.completed, m.view)
<1> DEFINE v == m.view
<1>1. s \in Sidecars /\ v \in Views /\ m.data \in Datas
    BY DEF SidecarSound, PbftMsg
<1>2. s.rounds \in [Views -> RoundSlots] /\ s.completed \in [Views -> -1..MaxTime] /\ s.retained \in Nat
    BY <1>1, SidecarFields
<1>3. "Ok" \in Errors /\ "ProposalMismatch" \in Errors /\ "Capacity" \in Errors /\ "WrongProposer" \in Errors
    BY DEF Errors
<1>4. \A x \in Errors : Done(s, <<>>) \in Outcomes(s.completed, v) /\ Fail(s, x) \in Outcomes(s.completed, v)
    BY PlainOutcome
<1>5. CASE ctx.chainSwitch
  <2> DEFINE t == RemoveRound(s, v)
  <2>1. Preprepare(s, m, signer, ctx) = Done(t, <<>>)
    BY <1>5 DEF Preprepare
  <2>2. SidecarSound(t) /\ t.completed = s.completed
    BY <1>1, RoundRemoved
  <2> HIDE DEF t
  <2> QED
    BY <1>3, <2>1, <2>2, PlainOutcome
<1> DEFINE wrong == expected[v].data # m.data \/ signer \notin {"local", expected[v].proposer}
<1> DEFINE full == Cardinality({u \in Views : Open(s.rounds[u])}) >= MaxRounds \/ ~Reserve(s, 0)
<1>6. CASE ~ctx.chainSwitch /\ (wrong \/ Open(s.rounds[v]) \/ full)
  <2>1. Preprepare(s, m, signer, ctx) \in {Done(s, <<>>), Fail(s, "ProposalMismatch"), Fail(s, "WrongProposer"), Fail(s, "Capacity")}
    BY <1>6 DEF Preprepare
  <2> QED
    BY <1>3, <1>4, <2>1
<1>7. CASE ~ctx.chainSwitch /\ ~wrong /\ ~Open(s.rounds[v]) /\ ~full
  <2> DEFINE q == [open |-> TRUE, at |-> pbNow, data |-> m.data, prepare |-> {}, commit |-> {}, done |-> FALSE, bytes |-> 1]
  <2> DEFINE n == s.retained + 1
  <2> DEFINE rs == [s.rounds EXCEPT ![v] = q]
  <2> DEFINE opened == [s EXCEPT !.rounds = rs, !.retained = n]
  <2> DEFINE own == IF ctx.syncing THEN Done(opened, <<>>) ELSE SignPrepares(Done(opened, <<>>), m, ctx)
  <2> DEFINE chosen == {e \in own.s.prepares : Identity(e.msg) = Identity(m)}
  <2> DEFINE cached == SetToSeq(chosen)
  <2>1. Preprepare(s, m, signer, ctx) = IF own.err # "Ok" THEN Fail(own.s, own.err) ELSE ReplayPrepares(own, cached, ctx)
    <3>1. opened = [s EXCEPT !.rounds[v] = q, !.retained = @ + 1]
      BY <1>1 DEF Sidecars
    <3> HIDE DEF opened
    <3> QED
      BY <1>7, <3>1 DEF Preprepare
  <2>2. 1 \in 0..MaxRoundBytes /\ n \in Nat /\ n <= MaxRetained
    BY <1>2, <1>7, PbftAssumption DEF Reserve
  <2>3. q \in RoundRecord /\ q.commit = {} /\ q.prepare = {} /\ q.bytes = 1
    <3>1. 1 \in 0..MaxRoundBytes /\ {} \in SUBSET Witnesses /\ FALSE \in BOOLEAN /\ TRUE \in {TRUE}
      BY <2>2
    <3> QED
      BY <1>1, <3>1 DEF RoundRecord
  <2> HIDE DEF q
  <2>4. q \in RoundSlots /\ Open(q) /\ RoundBytes(q) = 1 /\ RoundBytes(s.rounds[v]) = 0
    <3>1. q \in RoundSlots /\ Open(q) /\ RoundBytes(q) = 1
      BY <2>3, RoundFields
    <3>2. RoundBytes(s.rounds[v]) = 0
      BY <1>7 DEF RoundBytes
    <3> QED
      BY <3>1, <3>2
  <2>5. rs \in [Views -> RoundSlots] /\ rs[v] = q /\ \A u \in Views : u # v => rs[u] = s.rounds[u]
    BY <1>1, <1>2, <2>4
  <2>6. n = s.retained + RoundBytes(q) - RoundBytes(s.rounds[v])
    BY <1>2, <2>4
  <2> HIDE DEF rs, n
  <2>7. /\ opened \in Sidecars /\ opened.rounds = rs /\ opened.completed = s.completed /\ opened.prepares = s.prepares
        /\ opened.commits = s.commits /\ opened.retained = n
    BY <1>1, <2>2, <2>5 DEF Sidecars, RoundSlots
  <2> HIDE DEF opened
  <2>8. SidecarSound(opened)
    <3>1. q.commit \subseteq q.prepare
      BY <2>3
    <3> HIDE DEF v
    <3>2. s.completed[v] = -1
      BY DEF v
    <3> QED
      BY <1>1, <2>2, <2>4, <2>5, <2>6, <2>7, <3>1, <3>2, RoundReplaced
  <2>9. own \in Outcomes(s.completed, v)
    <3>1. Done(opened, <<>>) \in Outcomes(s.completed, v)
      BY <1>3, <2>7, <2>8, PlainOutcome
    <3>2. SignPrepares(Done(opened, <<>>), m, ctx) \in Outcomes(s.completed, v)
      BY <1>2, <3>1, SignPreparesOk
    <3> QED
      BY <3>1, <3>2
  <2> HIDE DEF own
  <2>10. CASE own.err # "Ok"
    BY <2>1, <2>9, <2>10, FailedOutcome
  <2>11. CASE own.err = "Ok"
    <3>1. SidecarSound(own.s) /\ own.s \in Sidecars
      BY <2>9, OutcomeFields
    <3>2. IsFiniteSet(own.s.prepares) /\ own.s.prepares \in SUBSET CachedVote
      BY <3>1, SidecarFields DEF SidecarSound, Budgeted
    <3>3. chosen \in SUBSET own.s.prepares /\ \A e \in chosen : e.msg.view = v
      BY DEF Identity
    <3>4. IsFiniteSet(chosen) /\ chosen \in SUBSET CachedVote
      BY <3>2, <3>3, FS_Subset
    <3> HIDE DEF chosen
    <3>5. cached \in Seq(chosen)
      BY <3>4, SetToSeqIs
    <3>6. cached \in Seq(CachedVote) /\ \A i \in DOMAIN cached : cached[i].msg.view = v
      <4> HIDE DEF cached
      <4>1. \A i \in DOMAIN cached : cached[i] \in chosen
        BY <3>5
      <4>2. cached \in Seq(CachedVote)
        BY <3>4, <3>5
      <4> QED
        BY <3>3, <4>1, <4>2
    <3> HIDE DEF cached
    <3>7. ReplayPrepares(own, cached, ctx) \in Outcomes(s.completed, v)
      BY <1>1, <1>2, <2>9, <3>6, ReplayPreparesOk
    <3> QED
      BY <2>1, <2>11, <3>7
  <2> QED
    BY <2>10, <2>11
<1> QED
    BY <1>5, <1>6, <1>7

\* Every message ends in an outcome.
LEMMA DispatchOk ==
    ASSUME pbNow \in 0..MaxTime, committee \subseteq Witnesses, NEW s, SidecarSound(s), NEW m \in PbftMsg, NEW ctx \in Contexts,
           NEW signer
    PROVE  Dispatch(s, m, signer, ctx) \in Outcomes(s.completed, m.view)
<1>1. Done(s, <<>>) \in Outcomes(s.completed, m.view)
  <2>1. "Ok" \in Errors
    BY DEF Errors
  <2> QED
    BY <2>1, PlainOutcome
<1>2. CASE s.completed[m.view] # -1
    BY <1>1, <1>2 DEF Dispatch
<1>3. CASE s.completed[m.view] = -1
  <2>1. m.type \in {"Preprepare", "Prepare", "Commit", "Request"}
    BY DEF PbftMsg
  <2>2. CASE m.type = "Preprepare"
    <3>1. Dispatch(s, m, signer, ctx) = Preprepare(s, m, signer, ctx)
      BY <1>3, <2>2 DEF Dispatch
    <3> QED
      BY <1>3, <3>1, PreprepareOk
  <2>3. CASE m.type = "Prepare"
    <3>1. Dispatch(s, m, signer, ctx) = PrepareVote(s, m, ctx)
      BY <1>3, <2>3 DEF Dispatch
    <3> QED
      BY <3>1, PrepareVoteOk
  <2>4. CASE m.type = "Commit"
    <3>1. Dispatch(s, m, signer, ctx) = CommitVote(s, m, ctx)
      BY <1>3, <2>4 DEF Dispatch
    <3> QED
      BY <3>1, CommitVoteOk
  <2>5. CASE m.type = "Request"
    <3>1. Dispatch(s, m, signer, ctx) = Done(s, <<>>)
      BY <1>3, <2>5 DEF Dispatch
    <3> QED
      BY <1>1, <3>1
  <2> QED
    BY <2>1, <2>2, <2>3, <2>4, <2>5
<1> QED
    BY <1>2, <1>3

\* What is expired gives back its bytes, and a view is completed until its time has passed.
ForgottenViews(c) == [v \in Views |-> IF pbNow - c[v] > VoteTtl THEN -1 ELSE c[v]]
\* An expired sidecar is sound.
LEMMA ExpireOk ==
    ASSUME pbNow \in 0..MaxTime, NEW s, SidecarSound(s)
    PROVE  SidecarSound(Expire(s)) /\ Expire(s).completed = ForgottenViews(s.completed)
<1> DEFINE old(v) == Open(s.rounds[v]) /\ pbNow - s.rounds[v].at > RoundTimeout
<1> DEFINE kept == [v \in Views |-> IF old(v) THEN NoRound ELSE s.rounds[v]]
<1> DEFINE gone == [v \in Views |-> IF old(v) THEN s.rounds[v] ELSE NoRound]
<1> DEFINE pre == {e \in s.prepares : pbNow - e.at <= VoteTtl}
<1> DEFINE com == {e \in s.commits : pbNow - e.at <= VoteTtl}
<1> DEFINE n == s.retained - RoundsBytes(gone) - Cardinality(s.prepares \ pre) - Cardinality(s.commits \ com)
<1> DEFINE c == ForgottenViews(s.completed)
<1> DEFINE t == [s EXCEPT !.rounds = kept, !.completed = c, !.prepares = pre, !.commits = com, !.retained = n]
<1>1. s \in Sidecars /\ RoundsSound(s) /\ Budgeted(s)
    BY DEF SidecarSound
<1>2. /\ s.rounds \in [Views -> RoundSlots] /\ s.completed \in [Views -> -1..MaxTime] /\ s.retained \in Nat
      /\ s.prepares \in SUBSET CachedVote /\ s.commits \in SUBSET CachedVote
    BY <1>1, SidecarFields
<1>3. t = Expire(s)
    BY <1>1 DEF Expire, ForgottenViews, Sidecars
<1>4. kept \in [Views -> RoundSlots] /\ gone \in [Views -> RoundSlots]
    BY <1>2, RoundFields
<1>5. \A v \in Views : RoundBytes(s.rounds[v]) = RoundBytes(kept[v]) + RoundBytes(gone[v])
  <2> SUFFICES ASSUME NEW v \in Views PROVE RoundBytes(s.rounds[v]) = RoundBytes(kept[v]) + RoundBytes(gone[v])
    OBVIOUS
  <2>1. RoundBytes(NoRound) = 0 /\ RoundBytes(s.rounds[v]) \in Nat
    BY <1>2, RoundFields
  <2>2. (kept[v] = NoRound /\ gone[v] = s.rounds[v]) \/ (kept[v] = s.rounds[v] /\ gone[v] = NoRound)
    OBVIOUS
  <2> QED
    BY <2>1, <2>2
<1>6. \A v \in Views : kept[v] = s.rounds[v] \/ kept[v] = NoRound
    OBVIOUS
<1>7. c \in [Views -> -1..MaxTime] /\ \A v \in Views : s.completed[v] = -1 => c[v] = -1
    BY <1>2, PbftAssumption DEF ForgottenViews
<1>8. pre \in SUBSET s.prepares /\ com \in SUBSET s.commits
    OBVIOUS
<1> HIDE DEF kept, gone, pre, com, c
<1>9. RoundsBytes(s.rounds) = RoundsBytes(kept) + RoundsBytes(gone)
  <2> DEFINE f == [v \in Views |-> RoundBytes(kept[v])]
  <2> DEFINE g == [v \in Views |-> RoundBytes(gone[v])]
  <2> DEFINE h == [v \in Views |-> RoundBytes(s.rounds[v])]
  <2>1. f \in [Views -> Nat] /\ g \in [Views -> Nat] /\ h \in [Views -> Nat]
    BY <1>2, <1>4, BytesAre
  <2>2. f \in [Views -> Int] /\ g \in [Views -> Int] /\ h \in [Views -> Int]
    BY <2>1
  <2>3. \A v \in Views : h[v] = f[v] + g[v]
    BY <1>5
  <2> HIDE DEF f, g, h
  <2>4. SumFunction(h) = SumFunction(f) + SumFunction(g)
    <3>1. IsFiniteSet(Views)
      BY PbftAssumption
    <3> QED
      BY ONLY <2>2, <2>3, <3>1, SumOfSums
  <2> QED
    BY <2>4 DEF f, g, h, RoundsBytes
<1>10. RoundsBytes(kept) \in Nat /\ RoundsBytes(gone) \in Nat /\ RoundsBytes(s.rounds) \in Nat
    BY <1>2, <1>4, BytesAre
<1>11. /\ IsFiniteSet(pre) /\ Cardinality(pre) \in Nat /\ Cardinality(s.prepares) \in Nat
       /\ Cardinality(s.prepares \ pre) = Cardinality(s.prepares) - Cardinality(pre)
    BY <1>1, <1>8, VotesTaken DEF Budgeted
<1>12. /\ IsFiniteSet(com) /\ Cardinality(com) \in Nat /\ Cardinality(s.commits) \in Nat
       /\ Cardinality(s.commits \ com) = Cardinality(s.commits) - Cardinality(com)
    BY <1>1, <1>8, VotesTaken DEF Budgeted
<1>13. /\ n \in Nat /\ n <= MaxRetained /\ n = Cardinality(pre) + Cardinality(com) + RoundsBytes(kept)
  <2>1. Cardinality(pre) <= Cardinality(s.prepares) /\ Cardinality(com) <= Cardinality(s.commits)
    BY <1>1, <1>8, FS_Subset DEF Budgeted
  <2>2. s.retained = Cardinality(s.prepares) + Cardinality(s.commits) + RoundsBytes(s.rounds) /\ s.retained <= MaxRetained
    BY <1>1 DEF Budgeted
  <2>3. n = Cardinality(pre) + Cardinality(com) + RoundsBytes(kept)
    BY <1>9, <1>10, <1>11, <1>12, <2>2
  <2>4. n <= s.retained
    BY <1>9, <1>10, <1>11, <1>12, <2>1, <2>2, <2>3
  <2> HIDE DEF n
  <2> QED
    BY <1>2, <1>10, <1>11, <1>12, <2>2, <2>3, <2>4, PbftAssumption
<1> HIDE DEF n
<1>14. t \in Sidecars /\ t.rounds = kept /\ t.completed = c /\ t.prepares = pre /\ t.commits = com /\ t.retained = n
  <2>1. pre \in SUBSET CachedVote /\ com \in SUBSET CachedVote
    BY <1>2, <1>8
  <2> QED
    BY <1>1, <1>4, <1>7, <1>13, <2>1 DEF Sidecars, RoundSlots
<1> HIDE DEF t
<1>15. RoundsSound(t)
  <2>1. ASSUME NEW v \in Views, Open(t.rounds[v]) PROVE t.rounds[v].commit \subseteq t.rounds[v].prepare /\ t.completed[v] = -1
    <3>1. ~Open(NoRound)
      BY RoundFields
    <3>2. t.rounds[v] = s.rounds[v]
      BY <1>6, <1>14, <2>1, <3>1
    <3> QED
      BY <1>1, <1>7, <1>14, <2>1, <3>2 DEF RoundsSound
  <2> QED
    BY <2>1 DEF RoundsSound
<1>16. Budgeted(t)
    BY <1>11, <1>12, <1>13, <1>14 DEF Budgeted
<1> QED
    BY <1>3, <1>14, <1>15, <1>16 DEF SidecarSound, c

\* The certificates among the effects.
LEMMA CertificatesAre ==
    ASSUME NEW out \in Seq(Effects), NEW v
    PROVE  /\ NoCert(out) => Certificates(out) = <<>>
           /\ OneCert(out, v) =>
                \/ Certificates(out) = <<>>
                \/ \E x \in CertRecords : BackedCert(x) /\ x.view = v /\ x.at = pbNow /\ Certificates(out) = <<x>>
<1> DEFINE K == {i \in DOMAIN out : out[i].kind = "Commit"}
<1> DEFINE cs == Sublist(out, K)
<1>1. K \in SUBSET DOMAIN out
    OBVIOUS
<1>2. Certificates(out) = cs
    BY DEF Certificates
<1>3. \A i \in K : i \in DOMAIN out /\ out[i].kind = "Commit" /\ out[i] \in CertRecords
  <2>1. \A e \in Effects : e.kind = "Commit" => e \in CertRecords
    BY DEF Effects, CertRecords
  <2>2. \A i \in K : i \in DOMAIN out /\ out[i].kind = "Commit" /\ out[i] \in Effects
    OBVIOUS
  <2> QED
    BY <2>1, <2>2
<1>4. NoCert(out) => K = {}
    BY DEF NoCert
<1>5. OneCert(out, v) => \A i, j \in K : i = j
    BY DEF OneCert
<1>6. OneCert(out, v) => \A i \in K : BackedCert(out[i]) /\ out[i].view = v /\ out[i].at = pbNow
    BY DEF OneCert
<1> HIDE DEF K
<1>7. cs \in Seq(Effects) /\ Len(cs) = Cardinality(K)
    BY <1>1, SublistType
<1>8. \A n \in DOMAIN cs : \E k \in K : cs[n] = out[k]
    BY <1>1, SublistHas
<1> HIDE DEF cs
<1>9. K = {} => cs = <<>>
    BY <1>7, FS_EmptySet
<1>10. ASSUME OneCert(out, v), NEW k \in K
       PROVE  \E x \in CertRecords : BackedCert(x) /\ x.view = v /\ x.at = pbNow /\ cs = <<x>>
  <2>1. K = {k}
    BY <1>5, <1>10
  <2>2. Cardinality(K) = 1
    BY <2>1, FS_Singleton
  <2>3. cs = <<cs[1]>> /\ 1 \in DOMAIN cs
    BY <1>7, <2>2
  <2>4. cs[1] = out[k]
    BY <1>8, <2>1, <2>3
  <2>5. cs = <<out[k]>>
    BY <2>3, <2>4
  <2> QED
    BY <1>3, <1>6, <1>10, <2>5
<1> QED
    BY <1>2, <1>4, <1>9, <1>10

\* A step of the sidecar, whatever the message: it ends in an outcome of the expired sidecar,
\* and the certificates among its effects are persisted.
LEMMA PbftStepOk ==
    ASSUME PbftInv, NEW v \in Views, NEW r \in Outcomes(Expire(sidecar).completed, v),
           sidecar' = r.s, PersistCommit(r.out), UNCHANGED <<pbNow, committee, expected>>
    PROVE  PbftInv'
<1> DEFINE c == ForgottenViews(sidecar.completed)
<1>1. pbNow \in 0..MaxTime /\ committee \subseteq Witnesses /\ latest \in Views \cup {0} /\ results \in Seq(CertRecords)
    BY DEF PbftInv
<1>2. SidecarSound(sidecar) /\ PbftCertificate /\ ResultsDated
    BY DEF PbftInv
<1>3. Expire(sidecar).completed = c
    BY <1>1, <1>2, ExpireOk
<1>4. SidecarSound(r.s) /\ Certified(r, c, v) /\ r.out \in Seq(Effects)
    BY <1>3, OutcomeFields
<1>5. sidecar.completed \in [Views -> -1..MaxTime]
    BY <1>2, SidecarFields DEF SidecarSound
<1>6. \A i \in DOMAIN results : results[i] \in CertRecords
    BY <1>1
<1>7. VoteTtl \in Nat
    BY PbftAssumption
<1>8. \A x \in CertRecords : x.view \in Views /\ x.at \in 0..MaxTime
    BY DEF CertRecords
<1>9. \A x \in CertRecords : Dated(sidecar.completed, x) => Dated(c, x)
  <2> SUFFICES ASSUME NEW x \in CertRecords, Dated(sidecar.completed, x) PROVE Dated(c, x)
    OBVIOUS
  <2>1. x.view \in Views /\ x.at \in Nat /\ pbNow \in Nat /\ sidecar.completed[x.view] \in Int
    BY <1>1, <1>5, <1>8, PbftAssumption
  <2>2. c[x.view] = IF pbNow - sidecar.completed[x.view] > VoteTtl THEN -1 ELSE sidecar.completed[x.view]
    BY <2>1 DEF ForgottenViews
  <2> HIDE DEF c
  <2> QED
    BY <1>7, <2>1, <2>2 DEF Dated
<1>10. \A i \in DOMAIN results : Dated(c, results[i])
    BY <1>2, <1>6, <1>9 DEF ResultsDated
<1>11. c \in [Views -> -1..MaxTime]
  <2>1. -1 \in -1..MaxTime
    BY PbftAssumption
  <2> QED
    BY <1>5, <2>1 DEF ForgottenViews
<1> HIDE DEF c
<1> DEFINE cs == Certificates(r.out)
<1>12. results' = results \o cs /\ latest' = IF cs # <<>> /\ cs[1].view > latest THEN cs[1].view ELSE latest
    BY DEF PersistCommit
<1>13. NoCert(r.out) => cs = <<>>
    BY <1>4, CertificatesAre
<1>14. OneCert(r.out, v) => \/ cs = <<>>
                            \/ \E x \in CertRecords : BackedCert(x) /\ x.view = v /\ x.at = pbNow /\ cs = <<x>>
    BY <1>4, CertificatesAre
<1> HIDE DEF cs
<1>15. pbNow' = pbNow /\ committee' = committee /\ SidecarSound(sidecar')
    BY <1>4
<1>16. \A i \in DOMAIN results : results[i].view \in Views /\ results[i].at \in Nat /\ results[i].at \in 0..MaxTime
  <2>1. \A x \in 0..MaxTime : x \in Nat
    BY PbftAssumption
  <2> QED
    BY <1>6, <1>8, <2>1
<1> DEFINE d == sidecar'.completed
<1>17. \/ d = c /\ cs = <<>>
       \/ c[v] = -1 /\ d = CompletedNow(c, v) /\ cs = <<>>
       \/ c[v] = -1 /\ d = CompletedNow(c, v) /\ \E x \in CertRecords : BackedCert(x) /\ x.view = v /\ x.at = pbNow /\ cs = <<x>>
    BY <1>4, <1>13, <1>14 DEF Certified
<1> HIDE DEF d
<1>18. d = c \/ (c[v] = -1 /\ d = CompletedNow(c, v)) => \A i \in DOMAIN results : Dated(d, results[i])
  <2>1. CASE d = c
    BY <1>10, <2>1
  <2>2. CASE c[v] = -1 /\ d = CompletedNow(c, v)
    <3> SUFFICES ASSUME NEW i \in DOMAIN results PROVE Dated(d, results[i])
      BY <2>2
    <3> DEFINE x == results[i]
    <3>1. Dated(c, x) /\ x.view \in Views /\ x.at \in Nat /\ pbNow \in Nat /\ pbNow # -1
      BY <1>1, <1>10, <1>16, PbftAssumption
    <3> HIDE DEF x
    <3>2. CASE x.view = v
      <4>1. pbNow - x.at > VoteTtl
        BY <2>2, <3>1, <3>2 DEF Dated
      <4>2. d[x.view] = pbNow /\ x.at <= pbNow
        BY <1>7, <1>11, <2>2, <3>1, <3>2, <4>1 DEF CompletedNow
      <4> QED
        BY <3>1, <4>2 DEF Dated, x
    <3>3. CASE x.view # v
      <4>1. d[x.view] = c[x.view]
        BY <1>11, <2>2, <3>1, <3>3 DEF CompletedNow
      <4>2. Dated(d, x)
        BY <3>1, <4>1 DEF Dated
      <4> QED
        BY <4>2 DEF x
    <3> QED
      BY <3>2, <3>3
  <2> QED
    BY <2>1, <2>2
<1>19. CASE cs = <<>>
  <2>1. results' = results /\ latest' = latest
    <3>1. results \o <<>> = results
      BY <1>1
    <3> QED
      BY <1>12, <1>19, <3>1
  <2>2. PbftCertificate'
    BY <1>2, <2>1 DEF PbftCertificate, QuorumOf
  <2>3. ResultsDated'
    <3>1. \A i \in DOMAIN results : Dated(d, results[i])
      BY <1>17, <1>18
    <3> QED
      BY <1>15, <2>1, <3>1 DEF ResultsDated, Dated, d
  <2> QED
    BY <1>1, <1>15, <2>1, <2>2, <2>3 DEF PbftInv
<1>20. ASSUME NEW x \in CertRecords, BackedCert(x), x.view = v, x.at = pbNow, cs = <<x>>, c[v] = -1, d = CompletedNow(c, v)
       PROVE  PbftInv'
  <2>1. results' = results \o <<x>>
    BY <1>12, <1>20
  <2>2. /\ results' \in Seq(CertRecords) /\ Len(results) \in Nat /\ DOMAIN results = 1..Len(results)
        /\ DOMAIN results' = 1..(Len(results) + 1) /\ results'[Len(results) + 1] = x
        /\ \A i \in DOMAIN results : results'[i] = results[i]
    BY <1>1, <2>1
  <2>3. \A i \in DOMAIN results' : (i \in DOMAIN results /\ results'[i] = results[i]) \/ (i = Len(results) + 1 /\ results'[i] = x)
    BY <2>2
  <2>4. latest' \in Views \cup {0}
    <3>1. cs[1] = x
      BY <1>20
    <3> QED
      BY <1>1, <1>12, <1>20, <3>1
  <2>5. \A i \in DOMAIN results : Dated(d, results[i])
    BY <1>18, <1>20
  <2>6. Dated(d, x)
    <3>1. d[v] = pbNow /\ pbNow \in Nat /\ pbNow # -1
      BY <1>1, <1>11, <1>20, PbftAssumption DEF CompletedNow
    <3> QED
      BY <1>20, <3>1 DEF Dated
  <2>7. ResultsDated'
    <3>1. \A i \in DOMAIN results' : Dated(d, results'[i])
      BY <2>3, <2>5, <2>6
    <3> QED
      BY <1>15, <3>1 DEF ResultsDated, Dated, d
  <2>8. ASSUME NEW i \in DOMAIN results'
        PROVE  results'[i].signers \subseteq results'[i].prepared
               /\ Cardinality(results'[i].signers) >= QuorumOf(results'[i].committee)
    BY <1>2, <1>20, <2>3 DEF PbftCertificate, BackedCert
  <2>9. ASSUME NEW i \in DOMAIN results', NEW j \in DOMAIN results', i < j, results'[i].view = results'[j].view
        PROVE  results'[j].at - results'[i].at > VoteTtl
    <3>1. i \in DOMAIN results /\ results'[i] = results[i]
      BY <2>2, <2>3, <2>9
    <3>2. CASE j \in DOMAIN results /\ results'[j] = results[j]
      BY <1>2, <2>9, <3>1, <3>2 DEF PbftCertificate
    <3>3. CASE results'[j] = x
      <4>1. results[i].view = v /\ Dated(c, results[i])
        BY <1>10, <1>20, <2>9, <3>1, <3>3
      <4> QED
        BY <1>20, <3>1, <3>3, <4>1 DEF Dated
    <3> QED
      BY <2>3, <3>2, <3>3
  <2>10. PbftCertificate'
    BY <2>8, <2>9 DEF PbftCertificate, QuorumOf
  <2> QED
    BY <1>1, <1>15, <2>2, <2>4, <2>7, <2>10 DEF PbftInv
<1> QED
    BY <1>17, <1>19, <1>20

PbftSpec == PbftInit /\ [][PbftNext]_pbftVars

\* The invariant holds of the sidecar that starts.
LEMMA PbftInitInv == PbftInit => PbftInv
<1> SUFFICES ASSUME PbftInit PROVE PbftInv
    OBVIOUS
<1> DEFINE rounds == [v \in Views |-> NoRound]
<1> DEFINE c == [v \in Views |-> -1]
<1>1. /\ pbNow = 0 /\ latest = 0 /\ results = <<>> /\ committee = Witnesses
      /\ sidecar = [rounds |-> rounds, completed |-> c, prepares |-> {}, commits |-> {}, retained |-> 0]
    BY DEF PbftInit
<1>2. rounds \in [Views -> RoundSlots] /\ c \in [Views -> -1..MaxTime] /\ \A v \in Views : rounds[v] = NoRound
  <2>1. -1 \in -1..MaxTime /\ NoRound \in RoundSlots
    BY PbftAssumption, RoundFields
  <2> QED
    BY <2>1
<1>3. RoundsBytes(rounds) = 0
  <2> DEFINE f == [v \in Views |-> RoundBytes(rounds[v])]
  <2>1. f \in [Views -> Int] /\ \A v \in Views : f[v] = 0
    BY <1>2, RoundFields
  <2>2. IsFiniteSet(Views)
    BY PbftAssumption
  <2> HIDE DEF f
  <2>3. SumFunction(f) = 0
    BY ONLY <2>1, <2>2, SumOfZeros
  <2> QED
    BY <2>3 DEF RoundsBytes, f
<1> HIDE DEF rounds, c
<1>4. /\ sidecar \in Sidecars /\ sidecar.rounds = rounds /\ sidecar.prepares = {} /\ sidecar.commits = {} /\ sidecar.retained = 0
  <2>1. {} \in SUBSET CachedVote /\ 0 \in Nat
    OBVIOUS
  <2> QED
    BY <1>1, <1>2, <2>1 DEF Sidecars, RoundSlots
<1>5. RoundsSound(sidecar)
  <2>1. ~Open(NoRound)
    BY RoundFields
  <2> QED
    BY <1>2, <1>4, <2>1 DEF RoundsSound
<1>6. Budgeted(sidecar)
  <2>1. IsFiniteSet({}) /\ Cardinality({}) = 0
    BY FS_EmptySet
  <2> QED
    BY <1>3, <1>4, <2>1, PbftAssumption DEF Budgeted
<1>7. results \in Seq(CertRecords) /\ PbftCertificate /\ ResultsDated
    BY <1>1 DEF PbftCertificate, ResultsDated
<1>8. pbNow \in 0..MaxTime
    BY <1>1, PbftAssumption
<1> QED
    BY <1>1, <1>4, <1>5, <1>6, <1>7, <1>8 DEF PbftInv, SidecarSound

\* The expired sidecar is sound, so whatever it answers with is an outcome of it.
LEMMA PbftStepInv == PbftInv /\ [PbftNext]_pbftVars => PbftInv'
<1> SUFFICES ASSUME PbftInv, [PbftNext]_pbftVars PROVE PbftInv'
    OBVIOUS
<1> DEFINE s == Expire(sidecar)
<1>1. pbNow \in 0..MaxTime /\ committee \subseteq Witnesses /\ SidecarSound(sidecar)
    BY DEF PbftInv
<1>2. SidecarSound(s)
    BY <1>1, ExpireOk
<1>3. \A e \in Errors, v \in Views : Fail(s, e) \in Outcomes(s.completed, v)
    BY <1>2, PlainOutcome
<1>4. "NonWitness" \in Errors /\ "LocalPreprepareOnly" \in Errors
    BY DEF Errors
<1> HIDE DEF s
<1>5. ASSUME NEW m \in PbftMsg, NEW ctx \in Contexts, PbftHandle(m, ctx) PROVE PbftInv'
  <2> DEFINE r == IF m.signer \notin committee THEN Fail(s, "NonWitness") ELSE Dispatch(s, m, m.signer, ctx)
  <2>1. sidecar' = r.s /\ PersistCommit(r.out) /\ UNCHANGED <<pbNow, committee, expected>>
    BY <1>5 DEF PbftHandle, s
  <2>2. m.view \in Views
    BY DEF PbftMsg
  <2>3. r \in Outcomes(s.completed, m.view)
    <3>1. Dispatch(s, m, m.signer, ctx) \in Outcomes(s.completed, m.view)
      BY <1>1, <1>2, DispatchOk
    <3> QED
      BY <1>3, <1>4, <2>2, <3>1
  <2> HIDE DEF r
  <2> QED
    BY <2>1, <2>2, <2>3, PbftStepOk DEF s
<1>6. ASSUME NEW type \in {"Preprepare", "Prepare"}, NEW v \in Views, NEW d \in Datas, NEW ctx \in Contexts,
             PbftLocalPreprepare([type |-> type, view |-> v, data |-> d, signer |-> Proposer], ctx)
      PROVE  PbftInv'
  <2> DEFINE m == [type |-> type, view |-> v, data |-> d, signer |-> Proposer]
  <2>1. m \in PbftMsg /\ m.view = v
    BY PbftAssumption DEF PbftMsg
  <2>2. PbftLocalPreprepare(m, ctx)
    BY <1>6
  <2> HIDE DEF m
  <2> DEFINE r == IF m.type # "Preprepare" THEN Fail(s, "LocalPreprepareOnly") ELSE Dispatch(s, m, "local", ctx)
  <2>3. sidecar' = r.s /\ PersistCommit(r.out) /\ UNCHANGED <<pbNow, committee, expected>>
    BY <2>2 DEF PbftLocalPreprepare, s
  <2>4. r \in Outcomes(s.completed, v)
    <3>1. Dispatch(s, m, "local", ctx) \in Outcomes(s.completed, v)
      BY <1>1, <1>2, <2>1, DispatchOk
    <3> QED
      BY <1>3, <1>4, <3>1
  <2> HIDE DEF r
  <2> QED
    BY <2>3, <2>4, PbftStepOk DEF s
<1>7. CASE PbftTick
  <2>1. /\ pbNow < MaxTime /\ pbNow' = pbNow + 1 /\ committee' = committee /\ sidecar' = sidecar /\ results' = results /\ latest' = latest
    BY <1>7 DEF PbftTick
  <2>2. pbNow' \in 0..MaxTime
    BY <1>1, <2>1, PbftAssumption
  <2>3. PbftCertificate'
    BY <2>1 DEF PbftInv, PbftCertificate, QuorumOf
  <2>4. ResultsDated'
    <3> SUFFICES ASSUME NEW i \in DOMAIN results PROVE Dated(sidecar.completed, results[i])'
      BY <2>1 DEF ResultsDated
    <3>1. results[i] \in CertRecords /\ Dated(sidecar.completed, results[i])
      BY DEF PbftInv, ResultsDated
    <3>2. results[i].at \in 0..MaxTime
      BY <3>1 DEF CertRecords
    <3>3. results[i].at \in Nat /\ pbNow \in Nat /\ VoteTtl \in Nat
      BY <1>1, <3>2, PbftAssumption
    <3>4. results'[i] = results[i] /\ sidecar'.completed = sidecar.completed
      BY <2>1
    <3> QED
      BY <2>1, <3>1, <3>3, <3>4 DEF Dated
  <2> QED
    BY <2>1, <2>2, <2>3, <2>4 DEF PbftInv
<1>8. CASE PbftMaintenance
  <2>1. committee' = NextCommittee /\ pbNow' = pbNow /\ sidecar' = sidecar /\ results' = results /\ latest' = latest
    BY <1>8 DEF PbftMaintenance
  <2>2. committee' \subseteq Witnesses
    BY <2>1, PbftAssumption
  <2>3. PbftCertificate' /\ ResultsDated'
    BY <2>1 DEF PbftInv, PbftCertificate, QuorumOf, ResultsDated, Dated
  <2> QED
    BY <2>1, <2>2, <2>3 DEF PbftInv
<1>9. CASE UNCHANGED pbftVars
  <2>1. committee' = committee /\ pbNow' = pbNow /\ sidecar' = sidecar /\ results' = results /\ latest' = latest
    BY <1>9 DEF pbftVars
  <2>2. PbftCertificate' /\ ResultsDated'
    BY <2>1 DEF PbftInv, PbftCertificate, QuorumOf, ResultsDated, Dated
  <2> QED
    BY <2>1, <2>2 DEF PbftInv
<1> QED
    BY <1>5, <1>6, <1>7, <1>8, <1>9 DEF PbftNext

\* The sidecar's invariant: the byte budget is exact, an open round is not completed, only
\* witnesses that prepared have committed, and a view that may be voted again has no recent
\* certificate (PbftSidecar of pbft.rs), over every handler, expiry and change of committee.
THEOREM PbftInvariant == PbftSpec => []PbftInv
BY PbftInitInv, PbftStepInv, PTL DEF PbftSpec

\* The type invariant of the sidecar.
THEOREM PbftTypes == PbftSpec => []PbftTypeOK
<1>1. PbftInv => PbftTypeOK
  <2> SUFFICES ASSUME PbftInv PROVE PbftTypeOK
    OBVIOUS
  <2>1. sidecar \in Sidecars /\ sidecar.retained <= MaxRetained
    BY DEF PbftInv, SidecarSound, Budgeted
  <2>2. /\ sidecar.rounds \in [Views -> RoundSlots] /\ sidecar.completed \in [Views -> -1..MaxTime]
        /\ sidecar.prepares \in SUBSET CachedVote /\ sidecar.commits \in SUBSET CachedVote /\ sidecar.retained \in Nat
    BY <2>1, SidecarFields
  <2>3. sidecar.retained \in 0..MaxRetained
    BY <2>1, <2>2, PbftAssumption
  <2> QED
    BY <2>2, <2>3 DEF PbftInv, PbftTypeOK, RoundSlots
<1> QED
    BY <1>1, PbftInvariant, PTL

\* The retained bytes are what the open rounds and the cached votes hold, and every persisted
\* certificate is backed by a quorum that prepared and apart from the one before it of its view
\* (expire, cache_pending, commit and persist_commit of pbft.rs).
THEOREM PbftIsSound == PbftSpec => []PbftSound
<1>1. PbftInv => PbftSound
    BY DEF PbftInv, SidecarSound, Budgeted, PbftSound, PbftBytesExact
<1> QED
    BY <1>1, PbftInvariant, PTL

-----------------------------------------------------------------------------
(* Rewards.  First what divisions drop. *)

\* A quotient is the whole part.
LEMMA Quotient ==
    ASSUME NEW a \in Nat, NEW t \in Nat \ {0}
    PROVE  a \div t \in Nat /\ (a \div t) * t <= a /\ a < (a \div t) * t + t
OBVIOUS

\* Products keep the order.
LEMMA Products ==
    ASSUME NEW x \in Nat, NEW y \in Nat, NEW t \in Nat, x <= y
    PROVE  x * t <= y * t /\ x * t \in Nat /\ y * t \in Nat
OBVIOUS

\* A share that is scaled before it is divided is more than the one that is scaled after it,
\* by less than one unit.
LEMMA ScaledQuotient ==
    ASSUME NEW a \in Nat, NEW t \in Nat \ {0}, NEW k \in Nat \ {0}
    PROVE  /\ a \div t \in Nat /\ (a * k) \div t \in Nat
           /\ (a \div t) * k <= (a * k) \div t /\ (a * k) \div t <= (a \div t + 1) * k
<1> DEFINE q == a \div t
<1> DEFINE x == (a * k) \div t
<1>1. q \in Nat /\ q * t <= a /\ a < q * t + t
    BY Quotient
<1>2. a * k \in Nat
    OBVIOUS
<1>3. x \in Nat /\ x * t <= a * k /\ a * k < x * t + t
    BY <1>2, Quotient
<1> HIDE DEF q, x
<1>4. (q * k) * t = (q * t) * k /\ q * t \in Nat /\ q * k \in Nat
    BY <1>1
<1>5. (q * t) * k <= a * k
    BY <1>1, <1>2, <1>4, Products
<1>6. ((q + 1) * k) * t = (q * t + t) * k /\ (q + 1) * k \in Nat /\ q * t + t \in Nat /\ q + 1 \in Nat
    BY <1>1
<1>7. a * k <= (q * t + t) * k
    BY <1>1, <1>2, <1>6, Products
<1>8. q * k <= x
  <2> SUFFICES ASSUME x + 1 <= q * k PROVE FALSE
    BY <1>3, <1>4
  <2>1. (x + 1) * t <= (q * k) * t
    BY <1>3, <1>4, Products
  <2>2. (x + 1) * t = x * t + t /\ x * t \in Nat
    BY <1>3
  <2> QED
    BY <1>2, <1>3, <1>4, <1>5, <2>1, <2>2
<1>9. x <= (q + 1) * k
  <2> SUFFICES ASSUME (q + 1) * k + 1 <= x PROVE FALSE
    BY <1>3, <1>6
  <2> DEFINE z == (q + 1) * k
  <2>1. z \in Nat /\ z + 1 <= x /\ a * k <= z * t
    BY <1>6, <1>7
  <2> HIDE DEF z
  <2>2. (z + 1) * t <= x * t
    BY <1>3, <2>1, Products
  <2>3. (z + 1) * t = z * t + t /\ z * t \in Nat /\ x * t \in Nat
    BY <1>3, <2>1
  <2> QED
    BY <1>2, <1>3, <2>1, <2>2, <2>3
<1> QED
    BY <1>1, <1>3, <1>8, <1>9 DEF q, x

\* And so is a sum of such shares, by less than a unit for each.
LEMMA SumBetween ==
    ASSUME NEW S, IsFiniteSet(S), NEW f \in [S -> Nat], NEW g \in [S -> Nat], NEW k \in Nat,
           \A x \in S : f[x] * k <= g[x] /\ g[x] <= (f[x] + 1) * k
    PROVE  SumFunction(f) * k <= SumFunction(g) /\ SumFunction(g) <= (SumFunction(f) + Cardinality(S)) * k
<1>0. f \in [S -> Int] /\ g \in [S -> Int] /\ DOMAIN f = S /\ DOMAIN g = S
    OBVIOUS
<1>1. PICK it : Sums(f, it) /\ SumFunction(f) = it[S]
    BY <1>0, SumFunctionIs
<1>2. PICK jt : Sums(g, jt) /\ SumFunction(g) = jt[S]
    BY <1>0, SumFunctionIs
<1> DEFINE P == {T \in SUBSET S : /\ it[T] \in Nat /\ jt[T] \in Nat
                                  /\ it[T] * k <= jt[T] /\ jt[T] <= (it[T] + Cardinality(T)) * k}
<1>3. {} \in P
  <2>1. it[{}] = 0 /\ jt[{}] = 0 /\ Cardinality({}) = 0
    BY <1>0, <1>1, <1>2, FS_EmptySet DEF Sums
  <2> QED
    BY <2>1
<1>4. ASSUME NEW T \in SUBSET S, NEW x \in T, T \ {x} \in P PROVE T \in P
  <2> DEFINE U == T \ {x}
  <2>1. it[T] = it[U] + f[x] /\ jt[T] = jt[U] + g[x]
    BY <1>0, <1>1, <1>2 DEF Sums
  <2>2. it[U] \in Nat /\ jt[U] \in Nat /\ it[U] * k <= jt[U] /\ jt[U] <= (it[U] + Cardinality(U)) * k
    BY <1>4
  <2>3. f[x] \in Nat /\ g[x] \in Nat /\ f[x] * k <= g[x] /\ g[x] <= (f[x] + 1) * k
    OBVIOUS
  <2>4. Cardinality(T) = Cardinality(U) + 1 /\ Cardinality(U) \in Nat
    <3>1. IsFiniteSet(T) /\ IsFiniteSet(U)
      BY FS_Subset
    <3>2. Cardinality(T) \in Nat /\ Cardinality(U) = Cardinality(T) - 1
      BY <3>1, FS_RemoveElement, FS_CardinalityType
    <3>3. Cardinality(U) \in Nat
      BY <3>1, FS_CardinalityType
    <3> QED
      BY <3>2, <3>3
  <2> DEFINE i == it[U]
  <2> DEFINE j == jt[U]
  <2> DEFINE c == Cardinality(U)
  <2> DEFINE a == f[x]
  <2> DEFINE b == g[x]
  <2>5. /\ i \in Nat /\ j \in Nat /\ c \in Nat /\ a \in Nat /\ b \in Nat
        /\ i * k <= j /\ j <= (i + c) * k /\ a * k <= b /\ b <= (a + 1) * k
        /\ it[T] = i + a /\ jt[T] = j + b /\ Cardinality(T) = c + 1
    BY <2>1, <2>2, <2>3, <2>4
  <2> HIDE DEF i, j, c, a, b
  <2>6. /\ (i + a) * k = i * k + a * k /\ (i + a + (c + 1)) * k = (i + c) * k + (a + 1) * k
        /\ i * k \in Nat /\ a * k \in Nat /\ (i + c) * k \in Nat /\ (a + 1) * k \in Nat
    BY <2>5
  <2>7. (i + a) * k <= j + b /\ j + b <= (i + a + (c + 1)) * k
    BY <2>5, <2>6
  <2>8. i + a \in Nat /\ j + b \in Nat
    BY <2>5
  <2>9. it[T] \in Nat /\ jt[T] \in Nat /\ it[T] * k <= jt[T] /\ jt[T] <= (it[T] + Cardinality(T)) * k
    BY ONLY <2>5, <2>7, <2>8
  <2> QED
    BY <2>9
<1> HIDE DEF P
<1>5. SUBSET S \subseteq P
    BY <1>3, <1>4, SubsetInduction
<1> QED
    BY <1>1, <1>2, <1>5 DEF P

-----------------------------------------------------------------------------
(* What a voter is owed as a function of the state it is read from: first as the  *)
(* code computes it, then as it is when the new algorithm never takes effect.     *)

\* LegacyCycleReward of a cycle's pots p and votes n.
LegacyFrom(p, n, ballot) ==
    SumFunction([r \in Reps |-> IF p[r] <= 0 \/ n[r] <= 0 THEN 0 ELSE (ballot[r] * p[r]) \div n[r]])
\* RewardAcross of the pots p, the votes n and the indices w.
AcrossTo(p, n, w, begin, oldEnd, end, ballot) ==
    LET at(c, r) == IF c < 0 THEN 0 ELSE w[c][r]
    IN IF begin >= end THEN 0
       ELSE SumFunction([c \in begin..oldEnd - 1 |-> LegacyFrom(p[c], n[c], ballot)])
            + (IF oldEnd < end THEN SumFunction([r \in Reps |-> RewardVi(at(oldEnd - 1, r), at(end - 1, r), ballot[r])]) ELSE 0)
AcrossVi(p, n, w, begin, end, ballot) == AcrossTo(p, n, w, begin, Min({end, EffectiveCycle}), end, ballot)
\* Owed of the whole state.
OwedVi(d, y, p, n, w, s, sh, h) ==
    LET again == s.begin + 1 = s.end /\ s.begin < y
        first == IF again /\ sh[s.begin] # NoBallot THEN AcrossVi(p, n, w, s.begin, s.end, sh[s.begin]) ELSE 0
        from == IF again THEN s.begin + 1 ELSE s.begin
    IN IF ~d \/ s.begin > y THEN 0
       ELSE first + (IF h # NoVotes /\ from < y THEN AcrossVi(p, n, w, from, y, h) ELSE 0)
\* The same without the indices.
AcrossFrom(p, n, begin, end, ballot) ==
    IF begin >= end THEN 0 ELSE SumFunction([c \in begin..end - 1 |-> LegacyFrom(p[c], n[c], ballot)])
OwedBy(d, y, p, n, s, sh, h) ==
    IF ~d \/ s.begin >= y THEN 0
    ELSE IF s.end = s.begin + 1 THEN LegacyFrom(p[s.begin], n[s.begin], sh[s.begin]) + AcrossFrom(p, n, s.begin + 1, y, h)
    ELSE AcrossFrom(p, n, s.begin, y, h)

PerRep == [Reps -> Nat]
PerCycle == [Cycles -> PerRep]

\* What is owed is read from these parts of the state (query_reward).
LEMMA OwedIs == \A v : Owed(v) = OwedVi(delegating, cyc, pot, count, vi, span[v], shot[v], held[v])
BY DEF Owed, OwedVi, RewardAcross, AcrossVi, AcrossTo, LegacyCycleReward, LegacyFrom, ViAt

\* A cycle pays naturals.
LEMMA LegacyType ==
    ASSUME NEW p \in PerRep, NEW n \in PerRep, NEW x \in PerRep
    PROVE  /\ LegacyFrom(p, n, x) \in Nat
           /\ (\A r \in Reps : x[r] = 0 \/ p[r] = 0 \/ n[r] = 0) => LegacyFrom(p, n, x) = 0
<1> DEFINE f == [r \in Reps |-> IF p[r] <= 0 \/ n[r] <= 0 THEN 0 ELSE (x[r] * p[r]) \div n[r]]
<1>1. ASSUME NEW r \in Reps PROVE f[r] \in Nat /\ (x[r] = 0 \/ p[r] = 0 \/ n[r] = 0 => f[r] = 0)
  <2>1. p[r] \in Nat /\ n[r] \in Nat /\ x[r] \in Nat
    BY DEF PerRep
  <2>2. CASE p[r] <= 0 \/ n[r] <= 0
    BY <2>2
  <2>3. CASE ~(p[r] <= 0 \/ n[r] <= 0)
    <3> DEFINE a == x[r] * p[r]
    <3>1. a \in Nat /\ n[r] \in Nat \ {0} /\ p[r] # 0 /\ (x[r] = 0 => a = 0)
      BY <2>1, <2>3
    <3>2. f[r] = a \div n[r]
      BY <2>3
    <3> HIDE DEF a
    <3>3. a \div n[r] \in Nat /\ (a = 0 => a \div n[r] = 0)
      BY <3>1, Quotient
    <3> QED
      BY <3>1, <3>2, <3>3
  <2> QED
    BY <2>2, <2>3
<1>2. f \in [Reps -> Nat] /\ f \in [Reps -> Int] /\ IsFiniteSet(Reps)
    BY <1>1, RewardsAssumption
<1>3. LegacyFrom(p, n, x) = SumFunction(f)
    BY DEF LegacyFrom
<1> HIDE DEF f
<1> QED
    BY <1>1, <1>2, <1>3, SumOfNaturals, SumOfZeros

\* And so do several.
LEMMA AcrossType ==
    ASSUME NEW p \in PerCycle, NEW n \in PerCycle, NEW x \in PerRep, NEW b \in Nat, NEW e \in 0..MaxCycle + 1
    PROVE  /\ \A c \in b..e - 1 : LegacyFrom(p[c], n[c], x) \in Nat
           /\ b..e - 1 \subseteq Cycles /\ IsFiniteSet(b..e - 1)
           /\ AcrossFrom(p, n, b, e, x) \in Nat
           /\ x = NoVotes => AcrossFrom(p, n, b, e, x) = 0
<1> DEFINE f == [c \in b..e - 1 |-> LegacyFrom(p[c], n[c], x)]
<1>1. MaxCycle \in Nat /\ b..e - 1 \subseteq Cycles /\ e - 1 \in Int /\ b \in Int
    BY RewardsAssumption DEF Cycles
<1>2. IsFiniteSet(b..e - 1)
    BY <1>1, FS_Interval
<1>3. ASSUME NEW c \in b..e - 1 PROVE f[c] \in Nat /\ (x = NoVotes => f[c] = 0)
  <2>1. p[c] \in PerRep /\ n[c] \in PerRep
    BY <1>1 DEF PerCycle
  <2>2. x = NoVotes => \A r \in Reps : x[r] = 0
    BY DEF NoVotes
  <2> QED
    BY <2>1, <2>2, LegacyType
<1>4. f \in [b..e - 1 -> Nat] /\ f \in [b..e - 1 -> Int]
    BY <1>3
<1>5. AcrossFrom(p, n, b, e, x) = IF b >= e THEN 0 ELSE SumFunction(f)
    BY DEF AcrossFrom
<1> HIDE DEF f
<1>6. SumFunction(f) \in Nat /\ (x = NoVotes => SumFunction(f) = 0)
    BY <1>2, <1>3, <1>4, SumOfNaturals, SumOfZeros
<1>7. AcrossFrom(p, n, b, e, x) \in Nat /\ (x = NoVotes => AcrossFrom(p, n, b, e, x) = 0)
    BY <1>5, <1>6
<1> QED
    BY <1>1, <1>2, <1>3, <1>7 DEF f

\* Without the new algorithm the indices are never read.
LEMMA AcrossIs ==
    ASSUME EffectiveCycle = Never,
           NEW p \in PerCycle, NEW n \in PerCycle, NEW w, NEW x \in PerRep, NEW b \in Nat, NEW e \in 0..MaxCycle + 1
    PROVE  AcrossVi(p, n, w, b, e, x) = AcrossFrom(p, n, b, e, x)
<1>1. MaxCycle \in Nat /\ e \in Nat
    BY RewardsAssumption
<1>2. Min({e, EffectiveCycle}) = e
    BY <1>1 DEF Min, Never
<1> DEFINE f == [c \in b..e - 1 |-> LegacyFrom(p[c], n[c], x)]
<1>3. AcrossVi(p, n, w, b, e, x) = IF b >= e THEN 0 ELSE SumFunction(f) + 0
  <2>1. AcrossVi(p, n, w, b, e, x) = AcrossTo(p, n, w, b, e, e, x)
    BY <1>2 DEF AcrossVi
  <2> QED
    BY <1>1, <2>1 DEF AcrossTo
<1>4. f \in [b..e - 1 -> Nat] /\ IsFiniteSet(b..e - 1)
  <2>1. (\A c \in b..e - 1 : LegacyFrom(p[c], n[c], x) \in Nat) /\ IsFiniteSet(b..e - 1)
    BY AcrossType
  <2> QED
    BY <2>1
<1>5. AcrossFrom(p, n, b, e, x) = IF b >= e THEN 0 ELSE SumFunction(f)
    BY DEF AcrossFrom
<1> HIDE DEF f
<1>6. SumFunction(f) \in Nat
    BY <1>4, SumOfNaturals
<1> QED
    BY <1>3, <1>5, <1>6

\* One more cycle.
LEMMA AcrossGrows ==
    ASSUME NEW p \in PerCycle, NEW n \in PerCycle, NEW x \in PerRep, NEW b \in Nat, NEW e \in Cycles, b <= e
    PROVE  AcrossFrom(p, n, b, e + 1, x) = AcrossFrom(p, n, b, e, x) + LegacyFrom(p[e], n[e], x)
<1>1. MaxCycle \in Nat /\ e \in Nat /\ e \in 0..MaxCycle + 1 /\ e + 1 \in 0..MaxCycle + 1 /\ (e + 1) - 1 = e
    BY RewardsAssumption DEF Cycles
<1> DEFINE f == [c \in b..e |-> LegacyFrom(p[c], n[c], x)]
<1> DEFINE g == [c \in b..e - 1 |-> LegacyFrom(p[c], n[c], x)]
<1>2. f \in [b..e -> Nat] /\ IsFiniteSet(b..e) /\ f \in [b..e -> Int]
  <2> DEFINE k == e + 1
  <2>1. k \in 0..MaxCycle + 1 /\ k - 1 = e
    BY <1>1
  <2> HIDE DEF k
  <2>2. (\A c \in b..k - 1 : LegacyFrom(p[c], n[c], x) \in Nat) /\ IsFiniteSet(b..k - 1)
    BY <2>1, AcrossType
  <2>3. f \in [b..e -> Nat] /\ IsFiniteSet(b..e)
    BY <2>1, <2>2
  <2> QED
    BY <2>3
<1>3. (b..e) \ {e} = b..e - 1 /\ e \in b..e
    BY <1>1
<1>4. Restrict(f, b..e - 1) = g
  <2>1. b..e - 1 \subseteq b..e
    BY <1>3
  <2> QED
    BY <2>1 DEF Restrict
<1>5. f[e] = LegacyFrom(p[e], n[e], x)
    BY <1>3
<1>6. AcrossFrom(p, n, b, e + 1, x) = SumFunction(f)
    BY <1>1 DEF AcrossFrom
<1>7. AcrossFrom(p, n, b, e, x) = IF b >= e THEN 0 ELSE SumFunction(g)
    BY DEF AcrossFrom
<1>8. b >= e => SumFunction(g) = 0
  <2> HAVE b >= e
  <2>1. b..e - 1 = {} /\ IsFiniteSet({})
    BY <1>1, FS_EmptySet
  <2>2. g \in [{} -> Int]
    BY <2>1
  <2> HIDE DEF g
  <2> QED
    BY <2>1, <2>2, SumOfZeros
<1>9. SumFunction(f) = SumFunction(Restrict(f, (b..e) \ {e})) + f[e]
  <2> HIDE DEF f
  <2> QED
    BY <1>2, <1>3, SumWithout
<1> HIDE DEF f, g
<1> QED
    BY <1>3, <1>4, <1>5, <1>6, <1>7, <1>8, <1>9

\* Only the cycles paid for are read.
LEMMA AcrossSame ==
    ASSUME NEW p \in PerCycle, NEW n \in PerCycle, NEW q \in PerCycle, NEW m \in PerCycle,
           NEW x, NEW b \in Nat, NEW e \in Nat,
           \A c \in b..e - 1 : p[c] = q[c] /\ n[c] = m[c]
    PROVE  AcrossFrom(p, n, b, e, x) = AcrossFrom(q, m, b, e, x)
<1>1. [c \in b..e - 1 |-> LegacyFrom(p[c], n[c], x)] = [c \in b..e - 1 |-> LegacyFrom(q[c], m[c], x)]
    OBVIOUS
<1> QED
    BY <1>1 DEF AcrossFrom

-----------------------------------------------------------------------------
(* What is owed, without the indices. *)
SpanType == [begin : Nat, end : Nat]
ShotType == [Cycles -> PerRep \cup {NoBallot}]

\* A ballot is not the absent one: there is a representative.
LEMMA BallotIsOne == \A x \in PerRep : x # NoBallot
<1> TAKE x \in PerRep
<1>1. DOMAIN x = Reps /\ DOMAIN NoBallot = {}
    BY DEF PerRep, NoBallot
<1> QED
    BY <1>1, RewardsAssumption

\* No votes are a ballot too.
LEMMA NoVotesType == NoVotes \in PerRep
BY DEF NoVotes, PerRep

\* A span and the snapshot it tells of.
SpanSound(s, sh) ==
    /\ s \in SpanType /\ sh \in ShotType /\ s.end <= s.begin + 1
    /\ s.end = s.begin + 1 => s.begin \in Cycles /\ sh[s.begin] # NoBallot

\* The snapshot that a span tells of is there.
LEMMA SnapshotType ==
    ASSUME NEW s, NEW sh, SpanSound(s, sh), s.end = s.begin + 1
    PROVE  s.begin \in Cycles /\ sh[s.begin] \in PerRep
BY DEF SpanSound, ShotType

\* Without the new algorithm the indices have no part in what is owed.
LEMMA OwedPlain ==
    ASSUME EffectiveCycle = Never, NEW d, NEW y \in Cycles, NEW p \in PerCycle, NEW n \in PerCycle, NEW w,
           NEW s, NEW sh, SpanSound(s, sh), NEW h \in PerRep
    PROVE  OwedVi(d, y, p, n, w, s, sh, h) = OwedBy(d, y, p, n, s, sh, h)
<1>1. MaxCycle \in Nat /\ y \in Nat /\ s.begin \in Nat /\ s.end \in Nat /\ y \in 0..MaxCycle + 1 /\ s.end <= s.begin + 1
    BY RewardsAssumption DEF Cycles, SpanSound, SpanType
<1> DEFINE b == s.begin
<1>2. CASE ~d \/ b > y
    BY <1>1, <1>2 DEF OwedVi, OwedBy
<1>3. CASE d /\ b <= y /\ s.end = b + 1 /\ b < y
  <2> DEFINE x == sh[b]
  <2>1. b \in Cycles /\ x \in PerRep /\ x # NoBallot
    BY <1>3, SnapshotType, BallotIsOne
  <2>2. b + 1 \in Nat /\ b + 1 \in 0..MaxCycle + 1 /\ p[b] \in PerRep /\ n[b] \in PerRep
    BY <1>1, <1>3, <2>1 DEF Cycles, PerCycle
  <2>3. OwedVi(d, y, p, n, w, s, sh, h)
        = AcrossVi(p, n, w, b, b + 1, x) + (IF h # NoVotes /\ b + 1 < y THEN AcrossVi(p, n, w, b + 1, y, h) ELSE 0)
    BY <1>1, <1>3, <2>1 DEF OwedVi
  <2>4. OwedBy(d, y, p, n, s, sh, h) = LegacyFrom(p[b], n[b], x) + AcrossFrom(p, n, b + 1, y, h)
    BY <1>1, <1>3 DEF OwedBy
  <2> HIDE DEF x
  <2>5. AcrossVi(p, n, w, b, b + 1, x) = LegacyFrom(p[b], n[b], x)
    <3> DEFINE e == b + 1
    <3>1. e \in 0..MaxCycle + 1 /\ e = b + 1
      BY <2>2
    <3> HIDE DEF e
    <3>2. AcrossVi(p, n, w, b, e, x) = AcrossFrom(p, n, b, e, x)
      BY <1>1, <2>1, <3>1, AcrossIs
    <3>3. AcrossFrom(p, n, b, b + 1, x) = AcrossFrom(p, n, b, b, x) + LegacyFrom(p[b], n[b], x)
      BY <1>1, <2>1, AcrossGrows
    <3>4. AcrossFrom(p, n, b, b, x) = 0
      BY <1>1 DEF AcrossFrom
    <3>5. LegacyFrom(p[b], n[b], x) \in Nat
      BY <2>1, <2>2, LegacyType
    <3> QED
      BY <3>1, <3>2, <3>3, <3>4, <3>5
  <2>6. (IF h # NoVotes /\ b + 1 < y THEN AcrossVi(p, n, w, b + 1, y, h) ELSE 0) = AcrossFrom(p, n, b + 1, y, h)
    <3> DEFINE e == b + 1
    <3>1. e \in Nat
      BY <2>2
    <3> HIDE DEF e
    <3>2. AcrossVi(p, n, w, e, y, h) = AcrossFrom(p, n, e, y, h)
      BY <1>1, <3>1, AcrossIs
    <3>3. h = NoVotes => AcrossFrom(p, n, e, y, h) = 0
      BY <1>1, <3>1, AcrossType
    <3>4. ~(e < y) => AcrossFrom(p, n, e, y, h) = 0
      BY <1>1, <3>1 DEF AcrossFrom
    <3>5. (IF h # NoVotes /\ e < y THEN AcrossVi(p, n, w, e, y, h) ELSE 0) = AcrossFrom(p, n, e, y, h)
      BY <3>2, <3>3, <3>4
    <3> QED
      BY <3>5 DEF e
  <2> QED
    BY <2>3, <2>4, <2>5, <2>6
<1>4. CASE d /\ b <= y /\ ~(s.end = b + 1 /\ b < y)
  <2>1. OwedVi(d, y, p, n, w, s, sh, h) = 0 + (IF h # NoVotes /\ b < y THEN AcrossVi(p, n, w, b, y, h) ELSE 0)
    BY <1>1, <1>4 DEF OwedVi
  <2>2. OwedBy(d, y, p, n, s, sh, h) = AcrossFrom(p, n, b, y, h)
    BY <1>1, <1>4 DEF OwedBy, AcrossFrom
  <2>0. b \in Nat /\ y \in 0..MaxCycle + 1 /\ y \in Nat
    BY <1>1
  <2> HIDE DEF b
  <2>3. AcrossVi(p, n, w, b, y, h) = AcrossFrom(p, n, b, y, h)
    BY <2>0, AcrossIs
  <2>4. h = NoVotes => AcrossFrom(p, n, b, y, h) = 0
    BY <2>0, AcrossType
  <2>5. ~(b < y) => AcrossFrom(p, n, b, y, h) = 0
    BY <2>0 DEF AcrossFrom
  <2>6. AcrossFrom(p, n, b, y, h) \in Nat
    BY <2>0, AcrossType
  <2> QED
    BY <2>1, <2>2, <2>3, <2>4, <2>5, <2>6
<1> QED
    BY <1>1, <1>2, <1>3, <1>4

\* What is owed is a natural number.
LEMMA OwedType ==
    ASSUME NEW d, NEW y \in Cycles, NEW p \in PerCycle, NEW n \in PerCycle,
           NEW s, NEW sh, SpanSound(s, sh), NEW h \in PerRep
    PROVE  OwedBy(d, y, p, n, s, sh, h) \in Nat
<1> DEFINE b == s.begin
<1> DEFINE e == b + 1
<1>1. MaxCycle \in Nat /\ b \in Nat /\ e \in Nat /\ y \in 0..MaxCycle + 1
    BY RewardsAssumption DEF Cycles, SpanSound, SpanType
<1>2. s.end = b + 1 => LegacyFrom(p[b], n[b], sh[b]) \in Nat
  <2> HAVE s.end = b + 1
  <2>1. b \in Cycles /\ sh[b] \in PerRep
    BY SnapshotType
  <2>2. p[b] \in PerRep /\ n[b] \in PerRep
    BY <2>1 DEF PerCycle
  <2> QED
    BY <2>1, <2>2, LegacyType
<1>3. AcrossFrom(p, n, b, y, h) \in Nat
  <2> HIDE DEF b
  <2> QED
    BY <1>1, AcrossType
<1>4. AcrossFrom(p, n, e, y, h) \in Nat
  <2> HIDE DEF e
  <2> QED
    BY <1>1, AcrossType
<1> QED
    BY <1>2, <1>3, <1>4 DEF OwedBy

\* What is paid into the current cycle is owed to nobody yet.
LEMMA OwedStays ==
    ASSUME NEW d, NEW y \in Cycles, NEW p \in PerCycle, NEW n \in PerCycle, NEW q \in PerCycle, NEW m \in PerCycle,
           \A c \in 0..y - 1 : p[c] = q[c] /\ n[c] = m[c],
           NEW s, NEW sh, SpanSound(s, sh), NEW h
    PROVE  OwedBy(d, y, p, n, s, sh, h) = OwedBy(d, y, q, m, s, sh, h)
<1> DEFINE b == s.begin
<1> DEFINE e == b + 1
<1>1. y \in Nat /\ b \in Nat /\ e \in Nat
    BY RewardsAssumption DEF Cycles, SpanSound, SpanType
<1>2. b < y => b \in 0..y - 1
    BY <1>1
<1>3. AcrossFrom(p, n, b, y, h) = AcrossFrom(q, m, b, y, h)
  <2> HIDE DEF b
  <2>1. \A c \in b..y - 1 : p[c] = q[c] /\ n[c] = m[c]
    BY <1>1
  <2> QED
    BY <1>1, <2>1, AcrossSame
<1>4. AcrossFrom(p, n, e, y, h) = AcrossFrom(q, m, e, y, h)
  <2> HIDE DEF e
  <2>1. \A c \in e..y - 1 : p[c] = q[c] /\ n[c] = m[c]
    BY <1>1
  <2> QED
    BY <1>1, <2>1, AcrossSame
<1> QED
    BY <1>1, <1>2, <1>3, <1>4 DEF OwedBy

\* The votes that a cycle y pays an elector for.
PaidFor(y, s, sh, h) ==
    IF s.begin > y THEN NoVotes ELSE IF s.begin = y /\ s.end = y + 1 THEN sh[y] ELSE h

\* The votes paid for are a ballot.
LEMMA PaidForType ==
    ASSUME NEW y \in Cycles, NEW s, NEW sh, SpanSound(s, sh), NEW h \in PerRep
    PROVE  PaidFor(y, s, sh, h) \in PerRep
BY SnapshotType, NoVotesType DEF PaidFor

\* The cycle ends: what it pays for those votes is owed from then on.
Grown(d, y, p, n, s, sh, h) ==
    OwedBy(d, y + 1, p, n, s, sh, h)
    = OwedBy(d, y, p, n, s, sh, h) + LegacyFrom(p[y], n[y], PaidFor(y, s, sh, h))
LEMMA OwedGrows ==
    ASSUME NEW d \in BOOLEAN, d, NEW y \in Cycles, y + 1 \in Cycles, NEW p \in PerCycle, NEW n \in PerCycle,
           NEW s, NEW sh, SpanSound(s, sh), NEW h \in PerRep
    PROVE  Grown(d, y, p, n, s, sh, h)
<1> DEFINE b == s.begin
<1> DEFINE e == b + 1
<1> DEFINE old == OwedBy(d, y, p, n, s, sh, h)
<1> DEFINE new == OwedBy(d, y + 1, p, n, s, sh, h)
<1> DEFINE votes == PaidFor(y, s, sh, h)
<1> SUFFICES new = old + LegacyFrom(p[y], n[y], votes)
    BY DEF Grown
<1>1. y \in Nat /\ b \in Nat /\ e \in Nat /\ s.end \in Nat
    BY RewardsAssumption DEF Cycles, SpanSound, SpanType
<1>2. p[y] \in PerRep /\ n[y] \in PerRep
    BY DEF PerCycle
<1>3. LegacyFrom(p[y], n[y], h) \in Nat /\ LegacyFrom(p[y], n[y], NoVotes) = 0
    BY <1>2, LegacyType, NoVotesType DEF NoVotes
<1>4. b <= y => AcrossFrom(p, n, b, y + 1, h) = AcrossFrom(p, n, b, y, h) + LegacyFrom(p[y], n[y], h)
  <2> HIDE DEF b
  <2> QED
    BY <1>1, AcrossGrows
<1>5. e <= y => AcrossFrom(p, n, e, y + 1, h) = AcrossFrom(p, n, e, y, h) + LegacyFrom(p[y], n[y], h)
  <2> HIDE DEF e
  <2> QED
    BY <1>1, AcrossGrows
<1>6. CASE b > y
    BY <1>1, <1>3, <1>6 DEF OwedBy, PaidFor
<1>7. CASE b = y /\ s.end = y + 1
  <2>1. sh[y] \in PerRep
    BY <1>7, SnapshotType
  <2>2. LegacyFrom(p[y], n[y], sh[y]) \in Nat
    BY <1>2, <2>1, LegacyType
  <2>3. AcrossFrom(p, n, y + 1, y + 1, h) = 0
    BY <1>1 DEF AcrossFrom
  <2>4. new = LegacyFrom(p[y], n[y], sh[y]) + 0 /\ old = 0
    BY <1>1, <1>7, <2>3 DEF OwedBy
  <2>5. votes = sh[y]
    BY <1>1, <1>7 DEF PaidFor
  <2> HIDE DEF new, old, votes
  <2> QED
    BY ONLY <2>2, <2>4, <2>5
<1>8. CASE b = y /\ s.end # y + 1
  <2>1. AcrossFrom(p, n, b, y, h) = 0
    BY <1>1, <1>8 DEF AcrossFrom
  <2> QED
    BY <1>1, <1>3, <1>4, <1>8, <2>1 DEF OwedBy, PaidFor
<1>9. CASE b < y /\ s.end = b + 1
  <2> DEFINE L == LegacyFrom(p[b], n[b], sh[b])
  <2>1. L \in Nat
    <3>1. b \in Cycles /\ sh[b] \in PerRep
      BY <1>9, SnapshotType
    <3>2. p[b] \in PerRep /\ n[b] \in PerRep
      BY <3>1 DEF PerCycle
    <3> QED
      BY <3>1, <3>2, LegacyType
  <2>2. AcrossFrom(p, n, e, y, h) \in Nat
    <3>1. y \in 0..MaxCycle + 1
      BY <1>1, RewardsAssumption DEF Cycles
    <3> HIDE DEF e
    <3> QED
      BY <1>1, <3>1, AcrossType
  <2>3. new = L + AcrossFrom(p, n, e, y + 1, h) /\ old = L + AcrossFrom(p, n, e, y, h)
    BY <1>1, <1>9 DEF OwedBy
  <2>4. e <= y /\ votes = h
    BY <1>1, <1>9 DEF PaidFor
  <2> HIDE DEF L, e, new, old, votes
  <2>5. AcrossFrom(p, n, e, y + 1, h) = AcrossFrom(p, n, e, y, h) + LegacyFrom(p[y], n[y], h)
    BY <1>5, <2>4
  <2>6. new = old + LegacyFrom(p[y], n[y], h)
    BY ONLY <1>3, <2>1, <2>2, <2>3, <2>5
  <2> QED
    BY ONLY <2>4, <2>6
<1>10. CASE b < y /\ s.end # b + 1
  <2>1. new = AcrossFrom(p, n, b, y + 1, h) /\ old = AcrossFrom(p, n, b, y, h)
    BY <1>1, <1>10 DEF OwedBy
  <2>2. b <= y /\ votes = h
    BY <1>1, <1>10 DEF PaidFor
  <2> QED
    BY <1>4, <2>1, <2>2
<1> HIDE DEF new, old, votes
<1>11. b > y \/ (b = y /\ s.end = y + 1) \/ (b = y /\ s.end # y + 1) \/ (b < y /\ s.end = b + 1) \/ (b < y /\ s.end # b + 1)
    BY <1>1
<1> QED
    BY <1>6, <1>7, <1>8, <1>9, <1>10, <1>11

\* The exact share of a cycle, times Scale.
ShareFrom(p, t, x) ==
    SumFunction([r \in Reps |-> IF t[r] = 0 THEN 0 ELSE (x[r] * p[r] * Scale) \div t[r]])

\* What a cycle pays is that share, less what the divisions drop.
LEMMA ShareBounds ==
    ASSUME NEW p \in PerRep, NEW t \in PerRep, NEW x \in PerRep
    PROVE  /\ ShareFrom(p, t, x) \in Nat
           /\ LegacyFrom(p, t, x) * Scale <= ShareFrom(p, t, x)
           /\ ShareFrom(p, t, x) <= (LegacyFrom(p, t, x) + Cardinality(Reps)) * Scale
<1> DEFINE f == [r \in Reps |-> IF p[r] <= 0 \/ t[r] <= 0 THEN 0 ELSE (x[r] * p[r]) \div t[r]]
<1> DEFINE g == [r \in Reps |-> IF t[r] = 0 THEN 0 ELSE (x[r] * p[r] * Scale) \div t[r]]
<1>0. Scale \in Nat \ {0} /\ IsFiniteSet(Reps)
    BY RewardsAssumption
<1>1. ASSUME NEW r \in Reps
      PROVE  f[r] \in Nat /\ g[r] \in Nat /\ f[r] * Scale <= g[r] /\ g[r] <= (f[r] + 1) * Scale
  <2>1. p[r] \in Nat /\ t[r] \in Nat /\ x[r] \in Nat
    BY DEF PerRep
  <2>2. CASE t[r] = 0
    BY <1>0, <2>1, <2>2
  <2>3. CASE t[r] # 0 /\ p[r] = 0
    <3> DEFINE T == t[r]
    <3>1. f[r] = 0 /\ g[r] = (x[r] * 0 * Scale) \div T /\ T \in Nat \ {0} /\ x[r] \in Nat
      BY <2>1, <2>3
    <3>2. x[r] * 0 * Scale = 0
      BY <1>0, <2>1
    <3>3. 0 \div T = 0
      <4> HIDE DEF T
      <4> QED
        BY <3>1
    <3>4. g[r] = 0
      BY <3>1, <3>2, <3>3
    <3>5. 0 * Scale = 0 /\ (0 + 1) * Scale = Scale /\ 0 <= Scale
      BY <1>0
    <3>6. f[r] = 0
      BY <3>1
    <3> HIDE DEF f, g
    <3> QED
      BY <3>4, <3>5, <3>6
  <2>4. CASE t[r] # 0 /\ p[r] # 0
    <3> DEFINE a == x[r] * p[r]
    <3> DEFINE T == t[r]
    <3>1. f[r] = a \div T /\ g[r] = (a * Scale) \div T /\ a \in Nat /\ T \in Nat \ {0}
      BY <2>1, <2>4
    <3> HIDE DEF a, T, f, g
    <3> QED
      BY <1>0, <3>1, ScaledQuotient
  <2> QED
    BY <2>1, <2>2, <2>3, <2>4
<1>2. f \in [Reps -> Nat] /\ g \in [Reps -> Nat]
    BY <1>1
<1>3. LegacyFrom(p, t, x) = SumFunction(f) /\ ShareFrom(p, t, x) = SumFunction(g)
    BY DEF LegacyFrom, ShareFrom
<1> HIDE DEF f, g
<1> DEFINE k == Scale
<1>4. k \in Nat /\ \A r \in Reps : f[r] * k <= g[r] /\ g[r] <= (f[r] + 1) * k
    BY <1>0, <1>1
<1> HIDE DEF k
<1>5. SumFunction(f) * k <= SumFunction(g) /\ SumFunction(g) <= (SumFunction(f) + Cardinality(Reps)) * k
    BY <1>0, <1>2, <1>4, SumBetween
<1>6. SumFunction(g) \in Nat
    BY <1>0, <1>2, SumOfNaturals
<1> QED
    BY <1>3, <1>5, <1>6 DEF k

-----------------------------------------------------------------------------
(* The invariant.  A span never runs ahead of the cycle, a snapshot of the cycle is  *)
(* the span's, and the votes that count in the cycle are those it will pay for.      *)
SpanFits(d, y, s, sh) ==
    /\ SpanSound(s, sh) /\ s.begin <= y + 1 /\ s.end <= y + 1
    /\ \A c \in y..MaxCycle : sh[c] # NoBallot => c = y /\ s.begin = y /\ s.end = y + 1
    /\ ~d => s = [begin |-> 0, end |-> 0]
CountFits(y, s, sh, h, k) == y > 0 => k = PaidFor(y, s, sh, h)

RewardShape ==
    /\ delegating \in BOOLEAN /\ cyc \in Cycles /\ (delegating \/ cyc = 0)
    /\ tally \in PerRep /\ pot \in PerCycle /\ count \in PerCycle
    /\ held \in [Electors -> PerRep] /\ row \in [Electors -> PerRep \cup {NoBallot}]
    /\ span \in [Electors -> SpanType] /\ shot \in [Electors -> ShotType]
    /\ rate \in [next : [Reps -> 0..100], now : [Reps -> 0..100]]
    /\ allowance \in [Reps \cup Electors -> Nat] /\ banked \in [Electors -> Nat] /\ earned \in [Electors -> Nat]
\* The witness rows hold the votes that count, and the cycle has recorded them.
Tallied ==
    /\ \A r \in Reps : tally[r] = SumFunction([v \in Electors |-> Counting(v)[r]])
    /\ (cyc > 0 => count[cyc] = tally) /\ count[0] = NoVotes
Standing(v) ==
    /\ SpanFits(delegating, cyc, span[v], shot[v])
    /\ CountFits(cyc, span[v], shot[v], held[v], Counting(v))
\* RewardsExact of one elector, from what it is owed.
ExactFrom(got, e, y) == got * Scale <= e /\ e <= (got + Cardinality(Reps) * y) * Scale
Exact(v) ==
    ExactFrom(allowance[v] + banked[v] + OwedBy(delegating, cyc, pot, count, span[v], shot[v], held[v]), earned[v], cyc)
RewardInv == RewardShape /\ Tallied /\ \A v \in Electors : Standing(v) /\ Exact(v)

\* withdraw_reward of the state it reads.
WithdrawalOf(d, y, s, sh, h) ==
    IF ~d \/ s.begin > y \/ (s.begin = y /\ sh[y] # NoBallot) THEN [span |-> s, shot |-> sh]
    ELSE IF h = NoVotes THEN [span |-> [s EXCEPT !.begin = y + 1], shot |-> sh]
    ELSE [span |-> [begin |-> y, end |-> y + 1], shot |-> [sh EXCEPT ![y] = h]]

\* What withdraw_reward leaves is read from these parts of the state.
LEMMA WithdrawalIs == \A v : Withdrawal(v) = WithdrawalOf(delegating, cyc, span[v], shot[v], held[v])
BY DEF Withdrawal, WithdrawalOf

\* Whatever the votes are from then on, nothing is owed after it, and the cycle pays for the
\* votes that count in it.
LEMMA Withdrawn ==
    ASSUME NEW d \in BOOLEAN, NEW y \in Cycles, d \/ y = 0, NEW s, NEW sh, SpanFits(d, y, s, sh),
           NEW h \in PerRep, NEW k, CountFits(y, s, sh, h, k),
           NEW z, z = WithdrawalOf(d, y, s, sh, h)
    PROVE  /\ SpanFits(d, y, z.span, z.shot)
           /\ \A g : CountFits(y, z.span, z.shot, g, k)
           /\ \A p, n, g : OwedBy(d, y, p, n, z.span, z.shot, g) = 0
<1>1. /\ y \in Nat /\ s \in SpanType /\ sh \in ShotType /\ s.begin \in Nat /\ s.end \in Nat /\ s.end <= s.begin + 1
      /\ s.begin <= y + 1 /\ s.end <= y + 1 /\ MaxCycle \in Nat /\ y <= MaxCycle
      /\ (s.end = s.begin + 1 => s.begin \in Cycles /\ sh[s.begin] # NoBallot)
    BY RewardsAssumption DEF SpanFits, SpanSound, SpanType, Cycles
<1>2. \A c \in y..MaxCycle : sh[c] # NoBallot => c = y /\ s.begin = y /\ s.end = y + 1
    BY DEF SpanFits
<1>3. y \in y..MaxCycle
    BY <1>1
<1>4. CASE ~d
  <2>1. z.span = s /\ z.shot = sh /\ y = 0
    BY <1>4 DEF WithdrawalOf
  <2> QED
    BY <1>4, <2>1 DEF CountFits, OwedBy
<1>5. CASE d /\ s.begin > y
  <2>1. z.span = s /\ z.shot = sh
    BY <1>5 DEF WithdrawalOf
  <2>2. \A g : PaidFor(y, s, sh, g) = NoVotes
    BY <1>1, <1>5 DEF PaidFor
  <2>3. \A g : CountFits(y, s, sh, g, k)
    BY <2>2 DEF CountFits
  <2>4. \A p, n, g : OwedBy(d, y, p, n, s, sh, g) = 0
    BY <1>1, <1>5 DEF OwedBy
  <2> QED
    BY <2>1, <2>3, <2>4
<1>6. CASE d /\ s.begin = y /\ sh[y] # NoBallot
  <2>1. z.span = s /\ z.shot = sh
    BY <1>6 DEF WithdrawalOf
  <2>2. s.end = y + 1
    BY <1>2, <1>3, <1>6
  <2>3. \A g : PaidFor(y, s, sh, g) = sh[y]
    BY <1>1, <1>6, <2>2 DEF PaidFor
  <2>4. \A g : CountFits(y, s, sh, g, k)
    BY <2>3 DEF CountFits
  <2>5. \A p, n, g : OwedBy(d, y, p, n, s, sh, g) = 0
    BY <1>1, <1>6 DEF OwedBy
  <2> QED
    BY <2>1, <2>4, <2>5
<1>7. CASE d /\ s.begin <= y /\ ~(s.begin = y /\ sh[y] # NoBallot)
  <2>1. \A c \in y..MaxCycle : sh[c] = NoBallot
    BY <1>2, <1>7
  <2>2. PaidFor(y, s, sh, h) = h
    BY <1>1, <1>7 DEF PaidFor
  <2>3. y > 0 => k = h
    BY <2>2 DEF CountFits
  <2>4. CASE h = NoVotes
    <3> DEFINE t == [s EXCEPT !.begin = y + 1]
    <3>1. z.span = t /\ z.shot = sh
      BY <1>1, <1>7, <2>4 DEF WithdrawalOf
    <3>2. t \in SpanType /\ t.begin = y + 1 /\ t.end = s.end
      BY <1>1 DEF SpanType
    <3> HIDE DEF t
    <3>3. SpanSound(t, sh)
      BY <1>1, <3>2 DEF SpanSound
    <3>4. SpanFits(d, y, t, sh)
      BY <1>1, <1>7, <2>1, <3>2, <3>3 DEF SpanFits
    <3>5. \A g : CountFits(y, t, sh, g, k)
      BY <1>1, <2>3, <2>4, <3>2 DEF CountFits, PaidFor
    <3>6. \A p, n, g : OwedBy(d, y, p, n, t, sh, g) = 0
      BY <1>1, <3>2 DEF OwedBy
    <3> QED
      BY <3>1, <3>4, <3>5, <3>6
  <2>5. CASE h # NoVotes
    <3> DEFINE t == [begin |-> y, end |-> y + 1]
    <3> DEFINE ts == [sh EXCEPT ![y] = h]
    <3>1. z.span = t /\ z.shot = ts
      BY <1>1, <1>7, <2>5 DEF WithdrawalOf
    <3>2. t \in SpanType /\ t.begin = y /\ t.end = y + 1
      BY <1>1 DEF SpanType
    <3>3. ts \in ShotType /\ ts[y] = h /\ \A c \in Cycles : c # y => ts[c] = sh[c]
      BY <1>1 DEF ShotType
    <3>4. h # NoBallot
      BY BallotIsOne
    <3> HIDE DEF t, ts
    <3>5. SpanSound(t, ts)
      BY <1>1, <3>2, <3>3, <3>4 DEF SpanSound
    <3>6. \A c \in y..MaxCycle : ts[c] # NoBallot => c = y /\ t.begin = y /\ t.end = y + 1
      <4> TAKE c \in y..MaxCycle
      <4>1. c \in Cycles /\ sh[c] = NoBallot
        BY <1>1, <2>1 DEF Cycles
      <4> QED
        BY <3>2, <3>3, <4>1
    <3>7. SpanFits(d, y, t, ts)
      BY <1>1, <1>7, <3>2, <3>5, <3>6 DEF SpanFits
    <3>8. \A g : CountFits(y, t, ts, g, k)
      BY <1>1, <2>3, <3>2, <3>3 DEF CountFits, PaidFor
    <3>9. \A p, n, g : OwedBy(d, y, p, n, t, ts, g) = 0
      BY <1>1, <3>2 DEF OwedBy
    <3> QED
      BY <3>1, <3>7, <3>8, <3>9
  <2> QED
    BY <2>4, <2>5
<1> QED
    BY <1>1, <1>4, <1>5, <1>6, <1>7

\* The next cycle starts with the votes held.
LEMMA NextCycle ==
    ASSUME NEW y \in Cycles, NEW s, NEW sh, SpanFits(TRUE, y, s, sh), NEW h
    PROVE  SpanFits(TRUE, y + 1, s, sh) /\ CountFits(y + 1, s, sh, h, h)
<1>1. y \in Nat /\ s.begin \in Nat /\ s.end \in Nat /\ MaxCycle \in Nat /\ s.begin <= y + 1 /\ s.end <= y + 1
    BY RewardsAssumption DEF SpanFits, SpanSound, SpanType, Cycles
<1>2. ASSUME NEW c \in y + 1..MaxCycle PROVE sh[c] = NoBallot
  <2>1. c \in y..MaxCycle /\ c # y
    BY <1>1
  <2> QED
    BY <2>1 DEF SpanFits
<1>3. SpanFits(TRUE, y + 1, s, sh)
    BY <1>1, <1>2 DEF SpanFits
<1>4. PaidFor(y + 1, s, sh, h) = h
    BY <1>1 DEF PaidFor
<1> QED
    BY <1>3, <1>4 DEF CountFits

\* The votes that count are a ballot.
LEMMA CountingType ==
    ASSUME RewardShape, NEW v \in Electors
    PROVE  Counting(v) \in PerRep
BY DEF RewardShape, Counting

-----------------------------------------------------------------------------
(* The invariant says what the run's property says. *)
LEMMA StandingSound ==
    ASSUME RewardShape, NEW v \in Electors, Standing(v)
    PROVE  /\ SpanSound(span[v], shot[v])
           /\ OwedBy(delegating, cyc, pot, count, span[v], shot[v], held[v]) \in Nat
<1>1. SpanSound(span[v], shot[v])
    BY DEF Standing, SpanFits
<1>2. cyc \in Cycles /\ pot \in PerCycle /\ count \in PerCycle /\ held[v] \in PerRep
    BY DEF RewardShape
<1> QED
    BY <1>1, <1>2, OwedType

\* In a state of the invariant, what query_reward computes is what the legacy cycles come to.
LEMMA OwedInvariantly ==
    ASSUME EffectiveCycle = Never, RewardShape, NEW v \in Electors, Standing(v)
    PROVE  Owed(v) = OwedBy(delegating, cyc, pot, count, span[v], shot[v], held[v])
<1>1. SpanSound(span[v], shot[v])
    BY StandingSound
<1>2. cyc \in Cycles /\ pot \in PerCycle /\ count \in PerCycle /\ held[v] \in PerRep
    BY DEF RewardShape
<1>3. Owed(v) = OwedVi(delegating, cyc, pot, count, vi, span[v], shot[v], held[v])
    BY OwedIs
<1> QED
    BY <1>1, <1>2, <1>3, OwedPlain

\* The invariant implies the property and the types.
LEMMA RewardInvSuffices ==
    ASSUME EffectiveCycle = Never, RewardInv
    PROVE  RewardsExact /\ RewardTypeOK
<1>1. RewardShape /\ \A v \in Electors : Standing(v) /\ Exact(v)
    BY DEF RewardInv
<1>2. RewardsExact
  <2> SUFFICES ASSUME NEW v \in Electors PROVE ExactFrom(allowance[v] + banked[v] + Owed(v), earned[v], cyc)
    BY DEF RewardsExact, ExactFrom
  <2>1. Owed(v) = OwedBy(delegating, cyc, pot, count, span[v], shot[v], held[v])
    BY <1>1, OwedInvariantly
  <2> QED
    BY <1>1, <2>1 DEF Exact
<1>3. \A v \in Electors : span[v].begin \in 0..cyc + 1 /\ span[v].end \in 0..cyc + 1
  <2> TAKE v \in Electors
  <2>1. cyc \in Nat /\ span[v] \in SpanType /\ SpanFits(delegating, cyc, span[v], shot[v])
    BY <1>1 DEF RewardShape, Cycles, Standing
  <2> QED
    BY <2>1 DEF SpanFits, SpanType
<1> QED
    BY <1>1, <1>2, <1>3 DEF RewardShape, RewardTypeOK

-----------------------------------------------------------------------------
(* What the payments of a block come to. *)
LEMMA StandbyType ==
    ASSUME NEW t \in PerRep, NEW r \in Reps
    PROVE  Standby(t)[r] \in Nat
<1> DEFINE sum == SumFunction(t)
<1>1. t \in [Reps -> Nat] /\ IsFiniteSet(Reps) /\ StandbyPay \in Nat /\ t[r] \in Nat
    BY RewardsAssumption DEF PerRep
<1>2. sum \in Nat
    BY <1>1, SumOfNaturals
<1>3. Standby(t)[r] = IF sum < 1 THEN 0 ELSE (t[r] * StandbyPay) \div sum
    BY DEF Standby
<1> HIDE DEF sum
<1> DEFINE a == t[r] * StandbyPay
<1>4. a \in Nat
    BY <1>1
<1> HIDE DEF a
<1>5. sum >= 1 => a \div sum \in Nat
    BY <1>2, <1>4, Quotient
<1> QED
    BY <1>2, <1>3, <1>5 DEF a

\* A brokerage is no more than what it is taken from.
LEMMA BrokerageBounds ==
    ASSUME RewardShape, NEW r \in Reps, NEW g \in Nat
    PROVE  Brokerage(r, g) \in Nat /\ Brokerage(r, g) <= g
<1> DEFINE q == rate.now[r]
<1>1. q \in 0..100
    BY DEF RewardShape
<1>2. Brokerage(r, g) = (g * q) \div 100
    BY DEF Brokerage
<1> HIDE DEF q
<1> DEFINE a == g * q
<1>3. a \in Nat /\ a <= g * 100
  <2>1. g * q <= g * 100
    BY <1>1
  <2> QED
    BY <1>1, <2>1
<1> HIDE DEF a
<1>4. a \div 100 \in Nat /\ (a \div 100) * 100 <= a
    BY <1>3, Quotient
<1> QED
    BY <1>2, <1>3, <1>4 DEF a

\* The brokerages of a block's payments come to no more than the payments (pay_reward).
LEMMA PaymentsBound ==
    ASSUME RewardShape, NEW r \in Reps, NEW who \in Reps, NEW fee \in Fees
    PROVE  LET due == Payments(r, who, fee)
           IN /\ SumFunction(due) \in Nat /\ SumFunction(Cuts(r, due)) \in Nat
              /\ SumFunction(Cuts(r, due)) <= SumFunction(due)
<1> DEFINE due == Payments(r, who, fee)
           cuts == Cuts(r, due)
           K == {"standby", "block", "fee"}
           rest == [kind \in K |-> due[kind] - cuts[kind]]
<1>1. fee \in Nat /\ BlockPay \in Nat /\ tally \in PerRep
    BY RewardsAssumption DEF RewardShape
<1>2. Standby(tally)[r] \in Nat
    BY <1>1, StandbyType
<1>3. DOMAIN due = K /\ due["standby"] \in Nat /\ due["block"] \in Nat /\ due["fee"] \in Nat
    BY <1>1, <1>2 DEF Payments
<1>4. due = [kind \in K |-> due[kind]]
    BY DEF Payments
<1> HIDE DEF due
<1>5. \A kind \in K : due[kind] \in Nat
    BY <1>3
<1>6. due \in [K -> Nat]
    BY <1>4, <1>5
<1>7. cuts = [kind \in K |-> Brokerage(r, due[kind])]
    BY <1>3 DEF Cuts
<1>8. \A kind \in K : cuts[kind] \in Nat /\ cuts[kind] <= due[kind]
    BY <1>5, <1>7, BrokerageBounds
<1>9. cuts \in [K -> Nat]
    BY <1>7, <1>8
<1> HIDE DEF cuts
<1>10. rest \in [K -> Nat] /\ \A kind \in K : due[kind] = cuts[kind] + rest[kind]
    BY <1>5, <1>8
<1> HIDE DEF rest
<1>11. IsFiniteSet(K)
  <2>1. IsFiniteSet({"standby"})
    BY FS_Singleton
  <2>2. IsFiniteSet({"standby"} \cup {"block"})
    BY <2>1, FS_AddElement
  <2>3. IsFiniteSet(({"standby"} \cup {"block"}) \cup {"fee"})
    BY <2>2, FS_AddElement
  <2>4. K = ({"standby"} \cup {"block"}) \cup {"fee"}
    OBVIOUS
  <2> QED
    BY <2>3, <2>4
<1> HIDE DEF K
<1>12. due \in [K -> Int] /\ cuts \in [K -> Int] /\ rest \in [K -> Int]
    BY <1>6, <1>9, <1>10
<1>13. SumFunction(due) = SumFunction(cuts) + SumFunction(rest)
    BY <1>10, <1>11, <1>12, SumOfSums
<1>14. SumFunction(due) \in Nat /\ SumFunction(cuts) \in Nat /\ SumFunction(rest) \in Nat
    BY <1>6, <1>9, <1>10, <1>11, SumOfNaturals
<1>15. SumFunction(cuts) <= SumFunction(due)
    BY <1>13, <1>14
<1> QED
    BY <1>14, <1>15 DEF due, cuts

-----------------------------------------------------------------------------
(* One step per action. *)
LEMMA RewardInitStep == RewardInit => RewardInv
<1> SUFFICES ASSUME RewardInit PROVE RewardInv
    OBVIOUS
<1>0. MaxCycle \in Nat /\ 0 \in Cycles /\ IsFiniteSet(Electors) /\ IsFiniteSet(Reps) /\ GenesisDelegation \subseteq BOOLEAN
    BY RewardsAssumption DEF Cycles
<1>1. NoVotes \in PerRep
    BY NoVotesType
<1>2. RewardShape
  <2>1. delegating \in BOOLEAN /\ cyc \in Cycles /\ cyc = 0
    BY <1>0 DEF RewardInit
  <2>2. tally \in PerRep /\ pot \in PerCycle /\ count \in PerCycle
    BY <1>1 DEF RewardInit, PerCycle
  <2>3. held \in [Electors -> PerRep] /\ row \in [Electors -> PerRep \cup {NoBallot}]
    BY <1>1 DEF RewardInit
  <2>4. span \in [Electors -> SpanType]
    BY DEF RewardInit, SpanType
  <2>5. shot \in [Electors -> ShotType]
    BY DEF RewardInit, ShotType
  <2>6. rate \in [next : [Reps -> 0..100], now : [Reps -> 0..100]]
    BY DEF RewardInit, Default
  <2>7. allowance \in [Reps \cup Electors -> Nat] /\ banked \in [Electors -> Nat] /\ earned \in [Electors -> Nat]
    BY DEF RewardInit
  <2> QED
    BY <2>1, <2>2, <2>3, <2>4, <2>5, <2>6, <2>7 DEF RewardShape
<1>3. \A v \in Electors : Counting(v) = NoVotes
    BY DEF RewardInit, Counting
<1>4. Tallied
  <2>1. ASSUME NEW r \in Reps PROVE tally[r] = SumFunction([v \in Electors |-> Counting(v)[r]])
    <3> DEFINE f == [v \in Electors |-> Counting(v)[r]]
    <3>1. \A v \in Electors : f[v] = 0
      BY <1>3 DEF NoVotes
    <3>2. f \in [Electors -> Int]
      BY <3>1
    <3> HIDE DEF f
    <3>3. SumFunction(f) = 0
      BY <1>0, <3>1, <3>2, SumOfZeros
    <3>4. tally[r] = 0
      BY DEF RewardInit, NoVotes
    <3> QED
      BY <3>3, <3>4 DEF f
  <2>2. cyc = 0 /\ count[0] = NoVotes
    BY <1>0 DEF RewardInit
  <2> QED
    BY <2>1, <2>2 DEF Tallied
<1>5. ASSUME NEW v \in Electors PROVE Standing(v) /\ Exact(v)
  <2> DEFINE s == span[v]
  <2>1. s = [begin |-> 0, end |-> 0] /\ shot[v] = [c \in Cycles |-> NoBallot] /\ cyc = 0
    BY DEF RewardInit
  <2>2. s \in SpanType /\ s.begin = 0 /\ s.end = 0 /\ shot[v] \in ShotType
    BY <2>1 DEF SpanType, ShotType
  <2>3. \A c \in 0..MaxCycle : shot[v][c] = NoBallot
    BY <2>1 DEF Cycles
  <2>4. SpanFits(delegating, cyc, s, shot[v])
    BY <2>1, <2>2, <2>3 DEF SpanFits, SpanSound
  <2>5. CountFits(cyc, s, shot[v], held[v], Counting(v))
    BY <2>1 DEF CountFits
  <2>6. OwedBy(delegating, cyc, pot, count, s, shot[v], held[v]) = 0
    BY <2>1, <2>2 DEF OwedBy
  <2>7. allowance[v] = 0 /\ banked[v] = 0 /\ earned[v] = 0
    BY DEF RewardInit
  <2>8. Scale \in Nat /\ Cardinality(Reps) \in Nat
    BY <1>0, RewardsAssumption, FS_CardinalityType
  <2>9. ExactFrom(0, 0, 0)
    BY <2>8 DEF ExactFrom
  <2>10. Exact(v)
    BY <2>1, <2>6, <2>7, <2>9 DEF Exact
  <2> QED
    BY <2>4, <2>5, <2>10 DEF Standing
<1> QED
    BY <1>2, <1>4, <1>5 DEF RewardInv

\* A step that leaves the votes, the spans and the cycle keeps where the electors stand.
LEMMA SameStanding ==
    ASSUME RewardInv, UNCHANGED <<delegating, cyc, tally, held, row, span, shot, count>>
    PROVE  Tallied' /\ \A v \in Electors : Standing(v)'
<1>1. \A v : Counting(v)' = Counting(v)
    BY DEF Counting
<1>2. \A v \in Electors : Standing(v)'
    BY <1>1 DEF RewardInv, Standing
<1>3. ASSUME NEW r \in Reps PROVE tally'[r] = SumFunction([v \in Electors |-> Counting(v)'[r]])
  <2>1. [v \in Electors |-> Counting(v)'[r]] = [v \in Electors |-> Counting(v)[r]]
    BY <1>1
  <2> QED
    BY <2>1 DEF RewardInv, Tallied
<1> QED
    BY <1>2, <1>3 DEF RewardInv, Tallied

\* pay_reward: only the pot of the current cycle and the representatives' allowances grow.
LEMMA PayStep ==
    ASSUME RewardInv, NEW who \in Reps, NEW fee \in Fees, PayReward(who, fee)
    PROVE  RewardInv'
<1>0. RewardShape /\ Electors \cap Reps = {} /\ fee \in Nat /\ BlockPay \in Nat
    BY RewardsAssumption DEF RewardInv
<1>1. UNCHANGED <<delegating, cyc, tally, held, row, span, shot, count, vi, rate, banked, earned>>
    BY DEF PayReward
<1>2. Tallied' /\ \A v \in Electors : Standing(v)'
    BY <1>1, SameStanding
<1> DEFINE gross(r) == SumFunction(Payments(r, who, fee))
<1> DEFINE cut(r) == SumFunction(Cuts(r, Payments(r, who, fee)))
<1>3. \A r \in Reps : gross(r) \in Nat /\ cut(r) \in Nat /\ cut(r) <= gross(r)
    BY <1>0, PaymentsBound
<1>4. IF delegating
      THEN /\ pot' = [pot EXCEPT ![cyc] = [r \in Reps |-> pot[cyc][r] + gross(r) - cut(r)]]
           /\ allowance' = [a \in DOMAIN allowance |-> allowance[a] + (IF a \in Reps THEN cut(a) ELSE 0)]
      ELSE allowance' = [allowance EXCEPT ![who] = @ + BlockPay + fee] /\ pot' = pot
    BY DEF PayReward
<1> HIDE DEF gross, cut
<1>5. pot' \in PerCycle /\ \A c \in 0..cyc - 1 : pot'[c] = pot[c]
  <2>1. CASE ~delegating
    BY <1>0, <1>4, <2>1 DEF RewardShape
  <2>2. CASE delegating
    <3> DEFINE new == [r \in Reps |-> pot[cyc][r] + gross(r) - cut(r)]
    <3>1. cyc \in Cycles /\ pot \in [Cycles -> PerRep] /\ pot[cyc] \in [Reps -> Nat]
      BY <1>0 DEF RewardShape, PerCycle, PerRep
    <3>2. \A r \in Reps : pot[cyc][r] + gross(r) - cut(r) \in Nat
      BY <1>3, <3>1
    <3>3. new \in PerRep
      BY <3>2 DEF PerRep
    <3>4. pot' = [pot EXCEPT ![cyc] = new]
      BY <1>4, <2>2
    <3> HIDE DEF new
    <3>5. pot' \in PerCycle
      BY <3>1, <3>3, <3>4 DEF PerCycle
    <3>6. \A c \in 0..cyc - 1 : c # cyc /\ c \in Cycles
      BY <3>1, RewardsAssumption DEF Cycles
    <3> QED
      BY <3>1, <3>4, <3>5, <3>6
  <2> QED
    BY <2>1, <2>2
<1>6. allowance' \in [Reps \cup Electors -> Nat] /\ \A v \in Electors : allowance'[v] = allowance[v]
  <2>1. allowance \in [Reps \cup Electors -> Nat]
    BY <1>0 DEF RewardShape
  <2>2. CASE ~delegating
    <3>1. allowance' = [allowance EXCEPT ![who] = @ + BlockPay + fee]
      BY <1>4, <2>2
    <3>2. allowance[who] + BlockPay + fee \in Nat
      BY <1>0, <2>1
    <3> QED
      BY <1>0, <2>1, <3>1, <3>2
  <2>3. CASE delegating
    <3>1. allowance' = [a \in Reps \cup Electors |-> allowance[a] + (IF a \in Reps THEN cut(a) ELSE 0)]
      BY <1>4, <2>1, <2>3
    <3>2. \A a \in Reps \cup Electors : allowance[a] + (IF a \in Reps THEN cut(a) ELSE 0) \in Nat
      BY <1>3, <2>1
    <3>3. \A v \in Electors : allowance[v] + (IF v \in Reps THEN cut(v) ELSE 0) = allowance[v]
      BY <1>0, <2>1
    <3> QED
      BY <3>1, <3>2, <3>3
  <2> QED
    BY <2>2, <2>3
<1>7. RewardShape'
    BY <1>0, <1>1, <1>5, <1>6 DEF RewardShape
<1>8. ASSUME NEW v \in Electors PROVE Exact(v)'
  <2>1. SpanSound(span[v], shot[v]) /\ Exact(v)
    BY <1>0, StandingSound DEF RewardInv
  <2>2. cyc \in Cycles /\ pot \in PerCycle /\ count \in PerCycle
    BY <1>0 DEF RewardShape
  <2> DEFINE q == pot'
  <2>3. q \in PerCycle /\ \A c \in 0..cyc - 1 : pot[c] = q[c] /\ count[c] = count[c]
    BY <1>5
  <2> HIDE DEF q
  <2>4. OwedBy(delegating, cyc, pot, count, span[v], shot[v], held[v]) = OwedBy(delegating, cyc, q, count, span[v], shot[v], held[v])
    BY <2>1, <2>2, <2>3, OwedStays
  <2> QED
    BY <1>1, <1>6, <2>1, <2>4 DEF Exact, q
<1> QED
    BY <1>2, <1>7, <1>8 DEF RewardInv

\* UpdateBrokerage: a percentage stays one.
LEMMA BrokerageStep ==
    ASSUME RewardInv, NEW r \in Reps, NEW percent \in Rates, UpdateBrokerage(r, percent)
    PROVE  RewardInv'
<1>1. RewardShape /\ percent \in 0..100
    BY RewardsAssumption DEF RewardInv
<1>2. UNCHANGED <<delegating, cyc, tally, held, row, span, shot, pot, count, vi, allowance, banked, earned, acts>>
    BY DEF UpdateBrokerage
<1>3. Tallied' /\ \A v \in Electors : Standing(v)'
    BY <1>2, SameStanding
<1>4. rate' \in [next : [Reps -> 0..100], now : [Reps -> 0..100]]
    BY <1>1 DEF UpdateBrokerage, RewardShape
<1>5. RewardShape'
    BY <1>1, <1>2, <1>4 DEF RewardShape
<1>6. \A v \in Electors : Exact(v)'
    BY <1>2 DEF RewardInv, Exact
<1> QED
    BY <1>3, <1>5, <1>6 DEF RewardInv

\* The proposal takes effect in cycle 0, in which nothing is owed yet.
LEMMA DelegationStep ==
    ASSUME RewardInv, ChangeDelegation
    PROVE  RewardInv'
<1>0. RewardShape /\ Tallied /\ \A v \in Electors : Standing(v) /\ Exact(v)
    BY DEF RewardInv
<1>1. /\ ~delegating /\ delegating' = TRUE /\ cyc = 0
      /\ UNCHANGED <<cyc, tally, held, row, span, shot, pot, count, vi, rate, allowance, banked, earned, acts>>
    BY <1>0 DEF ChangeDelegation, RewardShape
<1>2. RewardShape'
    BY <1>0, <1>1 DEF RewardShape
<1>3. \A v : Counting(v)' = Counting(v)
    BY <1>1 DEF Counting
<1>4. Tallied'
  <2>1. ASSUME NEW r \in Reps PROVE tally'[r] = SumFunction([v \in Electors |-> Counting(v)'[r]])
    <3>1. [v \in Electors |-> Counting(v)'[r]] = [v \in Electors |-> Counting(v)[r]]
      BY <1>3
    <3> QED
      BY <1>0, <1>1, <3>1 DEF Tallied
  <2> QED
    BY <1>0, <1>1, <2>1 DEF Tallied
<1>5. ASSUME NEW v \in Electors PROVE Standing(v)' /\ Exact(v)'
  <2>1. SpanFits(delegating, cyc, span[v], shot[v]) /\ span[v] = [begin |-> 0, end |-> 0]
    BY <1>0, <1>1 DEF Standing, SpanFits
  <2>2. SpanFits(delegating', cyc', span'[v], shot'[v])
    BY <1>1, <2>1 DEF SpanFits
  <2>3. CountFits(cyc', span'[v], shot'[v], held'[v], Counting(v)')
    BY <1>1 DEF CountFits
  <2>4. OwedBy(delegating, cyc, pot, count, span[v], shot[v], held[v]) = 0
    BY <1>1 DEF OwedBy
  <2>5. OwedBy(delegating', cyc', pot', count', span'[v], shot'[v], held'[v]) = 0
    BY <1>1, <2>1 DEF OwedBy
  <2>6. Exact(v)'
    BY <1>0, <1>1, <2>4, <2>5 DEF Exact
  <2> QED
    BY <2>2, <2>3, <2>6 DEF Standing
<1> QED
    BY <1>2, <1>4, <1>5 DEF RewardInv

\* A reward is withdrawn, and the votes that count stay the same.
LEMMA WithdrawStands ==
    ASSUME EffectiveCycle = Never, RewardInv, NEW v \in Electors, WithdrawReward(v),
           UNCHANGED <<delegating, cyc, tally, pot, count>>,
           held' \in [Electors -> PerRep], \A w \in Electors : w # v => held'[w] = held[w],
           \A w \in Electors : Counting(w)' = Counting(w)
    PROVE  /\ span' \in [Electors -> SpanType] /\ shot' \in [Electors -> ShotType]
           /\ Tallied' /\ \A w \in Electors : Standing(w)'
           /\ OwedBy(delegating', cyc', pot', count', span'[v], shot'[v], held'[v]) = 0
           /\ \A w \in Electors : w # v => span'[w] = span[w] /\ shot'[w] = shot[w]
<1>0. RewardShape /\ Tallied /\ \A w \in Electors : Standing(w)
    BY DEF RewardInv
<1> DEFINE z == Withdrawal(v)
<1>1. /\ span \in [Electors -> SpanType] /\ shot \in [Electors -> ShotType] /\ held[v] \in PerRep
      /\ delegating \in BOOLEAN /\ cyc \in Cycles /\ (delegating \/ cyc = 0)
    BY <1>0 DEF RewardShape
<1>2. span' = [span EXCEPT ![v] = z.span] /\ shot' = [shot EXCEPT ![v] = z.shot]
    BY DEF WithdrawReward
<1>3. z = WithdrawalOf(delegating, cyc, span[v], shot[v], held[v])
    BY WithdrawalIs
<1>4. SpanFits(delegating, cyc, span[v], shot[v]) /\ CountFits(cyc, span[v], shot[v], held[v], Counting(v))
    BY <1>0 DEF Standing
<1> HIDE DEF z
<1>5. /\ SpanFits(delegating, cyc, z.span, z.shot)
      /\ \A g : CountFits(cyc, z.span, z.shot, g, Counting(v))
      /\ \A p, n, g : OwedBy(delegating, cyc, p, n, z.span, z.shot, g) = 0
  <2> DEFINE k == Counting(v)
             s == span[v]
             sh == shot[v]
             h == held[v]
             d == delegating
             y == cyc
  <2>1. /\ d \in BOOLEAN /\ y \in Cycles /\ (d \/ y = 0) /\ SpanFits(d, y, s, sh) /\ h \in PerRep /\ CountFits(y, s, sh, h, k)
        /\ z = WithdrawalOf(d, y, s, sh, h)
    BY <1>1, <1>3, <1>4
  <2> HIDE DEF k, s, sh, h, d, y
  <2>2. /\ SpanFits(d, y, z.span, z.shot)
        /\ \A g : CountFits(y, z.span, z.shot, g, k)
        /\ \A p, n, g : OwedBy(d, y, p, n, z.span, z.shot, g) = 0
    BY ONLY <2>1, Withdrawn
  <2> QED
    BY <2>2 DEF k, d, y
<1>6. z.span \in SpanType /\ z.shot \in ShotType
    BY <1>5 DEF SpanFits, SpanSound
<1>7. /\ span' \in [Electors -> SpanType] /\ shot' \in [Electors -> ShotType]
      /\ span'[v] = z.span /\ shot'[v] = z.shot
      /\ \A w \in Electors : w # v => span'[w] = span[w] /\ shot'[w] = shot[w]
    BY <1>1, <1>2, <1>6
<1>8. ASSUME NEW w \in Electors PROVE Standing(w)'
  <2>1. CASE w = v
    BY <1>5, <1>7, <2>1 DEF Standing
  <2>2. CASE w # v
    <3>1. Standing(w)
      BY <1>0
    <3>2. span'[w] = span[w] /\ shot'[w] = shot[w] /\ held'[w] = held[w] /\ Counting(w)' = Counting(w)
      BY <1>7, <2>2
    <3> QED
      BY <3>1, <3>2 DEF Standing
  <2> QED
    BY <2>1, <2>2
<1>9. Tallied'
  <2>1. ASSUME NEW r \in Reps PROVE tally'[r] = SumFunction([w \in Electors |-> Counting(w)'[r]])
    <3>1. [w \in Electors |-> Counting(w)'[r]] = [w \in Electors |-> Counting(w)[r]]
      OBVIOUS
    <3> QED
      BY <1>0, <3>1 DEF Tallied
  <2> QED
    BY <1>0, <2>1 DEF Tallied
<1>10. OwedBy(delegating', cyc', pot', count', span'[v], shot'[v], held'[v]) = 0
    BY <1>5, <1>7
<1> QED
    BY <1>7, <1>8, <1>9, <1>10

\* A ballot: what was owed moves to the allowance, and the votes that count stay the same.
LEMMA VoteStep ==
    ASSUME EffectiveCycle = Never, RewardInv, NEW v \in Electors, NEW b \in Ballots, ChangeVotes(v, b)
    PROVE  RewardInv'
<1>0. RewardShape /\ b \in PerRep /\ Standing(v) /\ Exact(v)
    BY RewardsAssumption DEF RewardInv, PerRep
<1>1. /\ WithdrawReward(v) /\ allowance' = [allowance EXCEPT ![v] = @ + Owed(v)]
      /\ row' = [row EXCEPT ![v] = Counting(v)] /\ held' = [held EXCEPT ![v] = b]
      /\ UNCHANGED <<delegating, cyc, tally, pot, count, vi, rate, banked, earned>>
    BY DEF ChangeVotes
<1>2. Counting(v) \in PerRep
    BY <1>0, CountingType
<1>3. held \in [Electors -> PerRep] /\ row \in [Electors -> PerRep \cup {NoBallot}] /\ allowance \in [Reps \cup Electors -> Nat]
    BY <1>0 DEF RewardShape
<1>4. held' \in [Electors -> PerRep] /\ \A w \in Electors : w # v => held'[w] = held[w]
    BY <1>0, <1>1, <1>3
<1>5. row' \in [Electors -> PerRep \cup {NoBallot}] /\ row'[v] = Counting(v) /\ \A w \in Electors : w # v => row'[w] = row[w]
    BY <1>1, <1>2, <1>3
<1>6. ASSUME NEW w \in Electors PROVE Counting(w)' = Counting(w)
  <2>1. CASE w = v
    <3>1. row'[v] # NoBallot
      BY <1>2, <1>5, BallotIsOne
    <3>2. Counting(v)' = row'[v]
      BY <3>1 DEF Counting
    <3> QED
      BY <1>5, <2>1, <3>2
  <2>2. CASE w # v
    BY <1>4, <1>5, <2>2 DEF Counting
  <2> QED
    BY <2>1, <2>2
<1>7. /\ span' \in [Electors -> SpanType] /\ shot' \in [Electors -> ShotType]
      /\ Tallied' /\ \A w \in Electors : Standing(w)'
      /\ OwedBy(delegating', cyc', pot', count', span'[v], shot'[v], held'[v]) = 0
      /\ \A w \in Electors : w # v => span'[w] = span[w] /\ shot'[w] = shot[w]
    BY <1>1, <1>4, <1>6, WithdrawStands
<1> DEFINE o == OwedBy(delegating, cyc, pot, count, span[v], shot[v], held[v])
<1>8. Owed(v) = o /\ o \in Nat
    BY <1>0, OwedInvariantly, StandingSound
<1>9. /\ allowance' \in [Reps \cup Electors -> Nat] /\ allowance'[v] = allowance[v] + o
      /\ \A w \in Electors : w # v => allowance'[w] = allowance[w]
  <2> HIDE DEF o
  <2>1. allowance[v] + o \in Nat
    BY <1>3, <1>8
  <2> QED
    BY <1>1, <1>3, <1>8, <2>1
<1>10. RewardShape'
    BY <1>0, <1>1, <1>4, <1>5, <1>7, <1>9 DEF RewardShape
<1>11. Exact(v)'
  <2>1. ExactFrom(allowance[v] + banked[v] + o, earned[v], cyc)
    BY <1>0 DEF Exact
  <2>2. banked[v] \in Nat /\ allowance[v] \in Nat
    BY <1>0 DEF RewardShape
  <2> HIDE DEF o
  <2>3. (allowance[v] + o) + banked[v] + 0 = allowance[v] + banked[v] + o
    BY <1>8, <2>2
  <2> QED
    BY <1>1, <1>7, <1>9, <2>1, <2>3 DEF Exact
<1>12. ASSUME NEW w \in Electors, w # v PROVE Exact(w)'
  <2>1. Exact(w)
    BY DEF RewardInv
  <2>2. span'[w] = span[w] /\ shot'[w] = shot[w] /\ held'[w] = held[w] /\ allowance'[w] = allowance[w]
    BY <1>4, <1>7, <1>9, <1>12
  <2> QED
    BY <1>1, <2>1, <2>2 DEF Exact
<1> QED
    BY <1>7, <1>10, <1>11, <1>12 DEF RewardInv

\* WithdrawBalance: the allowance and what was owed move to the balance.
LEMMA WithdrawStep ==
    ASSUME EffectiveCycle = Never, RewardInv, NEW v \in Electors, WithdrawAllowance(v)
    PROVE  RewardInv'
<1>0. RewardShape /\ Standing(v) /\ Exact(v)
    BY DEF RewardInv
<1>1. /\ WithdrawReward(v) /\ banked' = [banked EXCEPT ![v] = @ + allowance[v] + Owed(v)]
      /\ allowance' = [allowance EXCEPT ![v] = 0]
      /\ UNCHANGED <<delegating, cyc, tally, held, row, pot, count, vi, rate, earned>>
    BY DEF WithdrawAllowance
<1>3. held \in [Electors -> PerRep] /\ banked \in [Electors -> Nat] /\ allowance \in [Reps \cup Electors -> Nat]
    BY <1>0 DEF RewardShape
<1>4. held' \in [Electors -> PerRep] /\ \A w \in Electors : w # v => held'[w] = held[w]
    BY <1>1, <1>3
<1>6. \A w \in Electors : Counting(w)' = Counting(w)
    BY <1>1 DEF Counting
<1>7. /\ span' \in [Electors -> SpanType] /\ shot' \in [Electors -> ShotType]
      /\ Tallied' /\ \A w \in Electors : Standing(w)'
      /\ OwedBy(delegating', cyc', pot', count', span'[v], shot'[v], held'[v]) = 0
      /\ \A w \in Electors : w # v => span'[w] = span[w] /\ shot'[w] = shot[w]
    BY <1>1, <1>4, <1>6, WithdrawStands
<1> DEFINE o == OwedBy(delegating, cyc, pot, count, span[v], shot[v], held[v])
<1>8. Owed(v) = o /\ o \in Nat
    BY <1>0, OwedInvariantly, StandingSound
<1>9. /\ allowance' \in [Reps \cup Electors -> Nat] /\ banked' \in [Electors -> Nat]
      /\ allowance'[v] = 0 /\ banked'[v] = banked[v] + allowance[v] + o
      /\ \A w \in Electors : w # v => allowance'[w] = allowance[w] /\ banked'[w] = banked[w]
  <2> HIDE DEF o
  <2>1. banked[v] + allowance[v] + o \in Nat
    BY <1>3, <1>8
  <2> QED
    BY <1>1, <1>3, <1>8, <2>1
<1>10. RewardShape'
    BY <1>0, <1>1, <1>7, <1>9 DEF RewardShape
<1>11. Exact(v)'
  <2>1. ExactFrom(allowance[v] + banked[v] + o, earned[v], cyc)
    BY <1>0 DEF Exact
  <2>2. banked[v] \in Nat /\ allowance[v] \in Nat
    BY <1>3
  <2> HIDE DEF o
  <2>3. 0 + (banked[v] + allowance[v] + o) + 0 = allowance[v] + banked[v] + o
    BY <1>8, <2>2
  <2> QED
    BY <1>1, <1>7, <1>9, <2>1, <2>3 DEF Exact
<1>12. ASSUME NEW w \in Electors, w # v PROVE Exact(w)'
  <2>1. Exact(w)
    BY DEF RewardInv
  <2>2. span'[w] = span[w] /\ shot'[w] = shot[w] /\ held'[w] = held[w] /\ allowance'[w] = allowance[w] /\ banked'[w] = banked[w]
    BY <1>4, <1>7, <1>9, <1>12
  <2> QED
    BY <1>1, <2>1, <2>2 DEF Exact
<1> QED
    BY <1>7, <1>10, <1>11, <1>12 DEF RewardInv

\* Maintenance moves a ballot's votes from what it replaced to itself, so that afterwards the
\* witness rows hold what the electors hold.
LEMMA RecountIs ==
    ASSUME RewardShape, Tallied
    PROVE  Recounted \in PerRep /\ \A r \in Reps : Recounted[r] = SumFunction([v \in Electors |-> held[v][r]])
<1>1. ASSUME NEW r \in Reps
      PROVE  /\ Recounted[r] = SumFunction([v \in Electors |-> held[v][r]])
             /\ SumFunction([v \in Electors |-> held[v][r]]) \in Nat
  <2> DEFINE f == [v \in Electors |-> Counting(v)[r]]
             g == [v \in Electors |-> held[v][r] - Counting(v)[r]]
             h == [v \in Electors |-> held[v][r]]
  <2>1. \A v \in Electors : held[v] \in PerRep /\ Counting(v) \in PerRep
    BY CountingType DEF RewardShape
  <2>2. \A v \in Electors : held[v][r] \in Nat /\ Counting(v)[r] \in Nat
    BY <2>1 DEF PerRep
  <2>3. f \in [Electors -> Int] /\ g \in [Electors -> Int] /\ h \in [Electors -> Int] /\ h \in [Electors -> Nat]
    BY <2>2
  <2>4. \A v \in Electors : h[v] = f[v] + g[v]
    BY <2>2
  <2>5. Recounted[r] = tally[r] + SumFunction(g) /\ tally[r] = SumFunction(f)
    BY DEF Recounted, Tallied
  <2>6. IsFiniteSet(Electors)
    BY RewardsAssumption
  <2> HIDE DEF f, g, h
  <2>7. SumFunction(h) = SumFunction(f) + SumFunction(g)
    BY <2>3, <2>4, <2>6, SumOfSums
  <2>8. SumFunction(h) \in Nat
    BY <2>3, <2>6, SumOfNaturals
  <2>9. Recounted[r] = SumFunction(h)
    BY <2>5, <2>7
  <2> QED
    BY <2>8, <2>9 DEF h
<1>2. Recounted = [r \in Reps |-> Recounted[r]]
    BY DEF Recounted
<1>3. \A r \in Reps : Recounted[r] \in Nat
    BY <1>1
<1> QED
    BY <1>1, <1>2, <1>3 DEF PerRep

\* A cycle is added to what is owed and to what was earned.
LEMMA ExactGrows ==
    ASSUME NEW got \in Nat, NEW e \in Nat, NEW y \in Nat, ExactFrom(got, e, y),
           NEW l \in Nat, NEW share \in Nat, l * Scale <= share, share <= (l + Cardinality(Reps)) * Scale
    PROVE  ExactFrom(got + l, e + share, y + 1)
<1> DEFINE k == Scale
           n == Cardinality(Reps)
<1>1. k \in Nat /\ n \in Nat
    BY RewardsAssumption, FS_CardinalityType
<1>2. got * k <= e /\ e <= (got + n * y) * k /\ l * k <= share /\ share <= (l + n) * k
    BY DEF ExactFrom
<1> HIDE DEF k, n
<1>3. (got + l) * k = got * k + l * k
    BY <1>1
<1>4. (got + l + n * (y + 1)) * k = (got + n * y) * k + (l + n) * k
  <2> DEFINE m == n * y
  <2>1. n * (y + 1) = m + n /\ m \in Nat
    BY <1>1
  <2> HIDE DEF m
  <2>2. (got + l + (m + n)) * k = (got + m) * k + (l + n) * k
    BY <1>1, <2>1
  <2> QED
    BY <2>1, <2>2 DEF m
<1> DEFINE a == got * k
           b == (got + n * y) * k
           c == l * k
           d == (l + n) * k
<1>5. a \in Int /\ b \in Int /\ c \in Int /\ d \in Int
  <2>1. n * y \in Nat
    BY <1>1
  <2> QED
    BY <1>1, <2>1
<1>6. a <= e /\ e <= b /\ c <= share /\ share <= d
    BY <1>2
<1>7. (got + l) * k = a + c /\ (got + l + n * (y + 1)) * k = b + d
    BY <1>3, <1>4
<1> HIDE DEF a, b, c, d
<1>8. (got + l) * k <= e + share /\ e + share <= (got + l + n * (y + 1)) * k
    BY ONLY <1>5, <1>6, <1>7, e \in Nat, share \in Nat
<1> QED
    BY <1>8 DEF ExactFrom, k, n

\* Maintenance: what each elector is owed grows by what the cycle pays for the votes that counted in it.
LEMMA MaintenanceStep ==
    ASSUME EffectiveCycle = Never, RewardInv, RewardMaintenance
    PROVE  RewardInv'
<1>0. RewardShape /\ Tallied /\ \A v \in Electors : Standing(v) /\ Exact(v)
    BY DEF RewardInv
<1>1. /\ cyc < MaxCycle /\ tally' = Recounted /\ row' = [v \in Electors |-> NoBallot]
      /\ earned' = [v \in Electors |-> earned[v] + Share(v)]
      /\ UNCHANGED <<delegating, held, span, shot, pot, banked>>
    BY DEF RewardMaintenance
<1>2. Recounted \in PerRep /\ \A r \in Reps : Recounted[r] = SumFunction([v \in Electors |-> held[v][r]])
    BY <1>0, RecountIs
<1>3. cyc \in Nat /\ MaxCycle \in Nat /\ cyc \in Cycles /\ cyc + 1 \in Cycles /\ 0 \in Cycles
    BY <1>0, <1>1, RewardsAssumption DEF RewardShape, Cycles
<1>4. \A v \in Electors : Counting(v)' = held[v]
    BY <1>1 DEF Counting
<1>5. \A r \in Reps : tally'[r] = SumFunction([v \in Electors |-> Counting(v)'[r]])
  <2> TAKE r \in Reps
  <2>1. [v \in Electors |-> Counting(v)'[r]] = [v \in Electors |-> held[v][r]]
    BY <1>4
  <2> QED
    BY <1>1, <1>2, <2>1
<1>6. row' \in [Electors -> PerRep \cup {NoBallot}]
    BY <1>1
<1>7. CASE ~delegating
  <2>1. /\ allowance' = [a \in DOMAIN allowance |-> allowance[a] + (IF a \in Reps THEN Standby(Recounted)[a] ELSE 0)]
        /\ UNCHANGED <<cyc, count, rate>> /\ cyc = 0
    BY <1>0, <1>7 DEF RewardMaintenance, RewardShape
  <2>2. Electors \cap Reps = {} /\ allowance \in [Reps \cup Electors -> Nat] /\ earned \in [Electors -> Nat]
    BY <1>0, RewardsAssumption DEF RewardShape
  <2>3. \A r \in Reps : Standby(Recounted)[r] \in Nat
    <3> DEFINE t == Recounted
    <3>1. t \in PerRep
      BY <1>2
    <3> HIDE DEF t
    <3>2. \A r \in Reps : Standby(t)[r] \in Nat
      BY <3>1, StandbyType
    <3> QED
      BY <3>2 DEF t
  <2>4. allowance' \in [Reps \cup Electors -> Nat] /\ \A v \in Electors : allowance'[v] = allowance[v]
    <3> DEFINE more(a) == Standby(Recounted)[a]
    <3>1. \A r \in Reps : more(r) \in Nat
      BY <2>3
    <3>2. allowance' = [a \in Reps \cup Electors |-> allowance[a] + (IF a \in Reps THEN more(a) ELSE 0)]
      BY <2>1, <2>2
    <3> HIDE DEF more
    <3> QED
      BY <2>2, <3>1, <3>2
  <2>5. earned' = earned
    <3>1. \A v \in Electors : earned[v] + Share(v) = earned[v]
      BY <1>7, <2>2 DEF Share
    <3> QED
      BY <1>1, <2>2, <3>1
  <2>6. RewardShape'
    BY <1>0, <1>1, <1>2, <1>6, <2>1, <2>4, <2>5 DEF RewardShape
  <2>7. Tallied'
    BY <1>0, <1>5, <2>1 DEF Tallied
  <2>8. ASSUME NEW v \in Electors PROVE Standing(v)' /\ Exact(v)'
    <3>1. Standing(v) /\ Exact(v)
      BY <1>0
    <3>2. Standing(v)'
      BY <1>1, <2>1, <3>1 DEF Standing, CountFits
    <3>3. Exact(v)'
      BY <1>1, <2>1, <2>4, <2>5, <3>1 DEF Exact
    <3> QED
      BY <3>2, <3>3
  <2> QED
    BY <2>6, <2>7, <2>8 DEF RewardInv
<1>8. CASE delegating
  <2>1. /\ cyc' = cyc + 1 /\ count' = [count EXCEPT ![cyc + 1] = Recounted]
        /\ rate' = [rate EXCEPT !.now = rate.next] /\ UNCHANGED allowance
    BY <1>8 DEF RewardMaintenance
  <2>2. count \in [Cycles -> PerRep]
    BY <1>0 DEF RewardShape, PerCycle
  <2>3. count' \in PerCycle /\ count'[cyc + 1] = Recounted /\ \A c \in 0..cyc : count'[c] = count[c]
    <3>1. \A c \in 0..cyc : c \in Cycles /\ c # cyc + 1
      BY <1>3 DEF Cycles
    <3> DEFINE t == Recounted
    <3>2. count' = [count EXCEPT ![cyc + 1] = t] /\ t \in PerRep
      BY <1>2, <2>1
    <3> HIDE DEF t
    <3>3. count' \in PerCycle /\ count'[cyc + 1] = t /\ \A c \in 0..cyc : count'[c] = count[c]
      BY <1>3, <2>2, <3>1, <3>2 DEF PerCycle
    <3> QED
      BY <3>3 DEF t
  <2>4. rate' \in [next : [Reps -> 0..100], now : [Reps -> 0..100]]
    BY <1>0, <2>1 DEF RewardShape
  <2>5. Tallied'
    <3>1. count'[0] = NoVotes
      BY <1>0, <1>3, <2>3 DEF Tallied
    <3>2. count'[cyc'] = tally'
      BY <1>1, <2>1, <2>3
    <3> QED
      BY <1>5, <3>1, <3>2 DEF Tallied
  <2>6. ASSUME NEW v \in Electors PROVE Share(v) \in Nat /\ Standing(v)' /\ Exact(v)'
    <3> DEFINE s == span[v]
               sh == shot[v]
               h == held[v]
               k == Counting(v)
               old == OwedBy(delegating, cyc, pot, count, s, sh, h)
               new == OwedBy(delegating, cyc + 1, pot, count', s, sh, h)
               l == LegacyFrom(pot[cyc], count[cyc], PaidFor(cyc, s, sh, h))
    <3>1. /\ SpanFits(TRUE, cyc, s, sh) /\ SpanSound(s, sh) /\ CountFits(cyc, s, sh, h, k)
          /\ delegating = TRUE /\ delegating' = TRUE
      <4>1. delegating = TRUE
        BY <1>0, <1>8 DEF RewardShape
      <4> QED
        BY <1>0, <1>1, <4>1 DEF Standing, SpanFits
    <3>2. h \in PerRep /\ k \in PerRep /\ pot \in PerCycle /\ count \in PerCycle /\ pot[cyc] \in PerRep /\ count[cyc] \in PerRep
      BY <1>0, CountingType DEF RewardShape, PerCycle
    <3>3. Standing(v)'
      <4>1. SpanFits(TRUE, cyc + 1, s, sh) /\ CountFits(cyc + 1, s, sh, h, h)
        <5> HIDE DEF s, sh, h
        <5> QED
          BY <1>3, <3>1, NextCycle
      <4>2. span'[v] = s /\ shot'[v] = sh /\ held'[v] = h /\ Counting(v)' = h
        BY <1>1, <1>4
      <4> QED
        BY <2>1, <3>1, <4>1, <4>2 DEF Standing
    <3>4. new = old + l
      <4> DEFINE y == cyc + 1
                 m == count'
                 d == delegating
      <4>0. d \in BOOLEAN /\ d
        BY <3>1
      <4>1. OwedBy(d, y, pot, count, s, sh, h) = old + l
        <5>1. cyc \in Cycles /\ cyc + 1 \in Cycles /\ h \in PerRep /\ pot \in PerCycle /\ count \in PerCycle /\ SpanSound(s, sh)
          BY <1>3, <3>1, <3>2
        <5> HIDE DEF s, sh, h, d
        <5>2. Grown(d, cyc, pot, count, s, sh, h)
          BY ONLY <4>0, <5>1, OwedGrows
        <5> QED
          BY <5>2 DEF Grown, old, l, s, sh, h, d
      <4>2. y \in Cycles /\ m \in PerCycle /\ \A c \in 0..y - 1 : pot[c] = pot[c] /\ count[c] = m[c]
        BY <1>3, <2>3
      <4>3. OwedBy(d, y, pot, count, s, sh, h) = OwedBy(d, y, pot, m, s, sh, h)
        <5>1. pot \in PerCycle /\ count \in PerCycle /\ SpanSound(s, sh)
          BY <3>1, <3>2
        <5> HIDE DEF s, sh, h, y, m, d
        <5> QED
          BY ONLY <4>2, <5>1, OwedStays
      <4> QED
        BY <4>1, <4>3
    <3>5. old \in Nat /\ Exact(v) /\ allowance[v] \in Nat /\ banked[v] \in Nat /\ earned[v] \in Nat
      <4>1. OwedBy(delegating, cyc, pot, count, span[v], shot[v], held[v]) \in Nat
        BY <1>0, StandingSound
      <4>2. allowance[v] \in Nat /\ banked[v] \in Nat /\ earned[v] \in Nat
        BY <1>0 DEF RewardShape
      <4> QED
        BY <1>0, <3>1, <4>1, <4>2
    <3> DEFINE got == allowance[v] + banked[v] + old
    <3>6. ExactFrom(got, earned[v], cyc)
      BY <3>1, <3>5 DEF Exact
    <3>7. l \in Nat /\ Share(v) \in Nat /\ l * Scale <= Share(v) /\ Share(v) <= (l + Cardinality(Reps)) * Scale
      <4>1. PaidFor(cyc, s, sh, h) \in PerRep
        <5> HIDE DEF s, sh, h
        <5> QED
          BY <1>3, <3>1, <3>2, PaidForType
      <4>2. CASE cyc = 0
        <5>1. Share(v) = 0
          BY <4>2 DEF Share
        <5>2. l = 0
          <6>1. \A r \in Reps : count[cyc][r] = 0
            BY <1>0, <4>2 DEF Tallied, NoVotes
          <6> DEFINE x == PaidFor(cyc, s, sh, h)
          <6> HIDE DEF x
          <6>2. LegacyFrom(pot[cyc], count[cyc], x) = 0
            BY <3>2, <4>1, <6>1, LegacyType DEF x
          <6> QED
            BY <6>2 DEF x
        <5>3. Scale \in Nat /\ Cardinality(Reps) \in Nat
          BY RewardsAssumption, FS_CardinalityType
        <5> HIDE DEF l
        <5> QED
          BY <5>1, <5>2, <5>3
      <4>3. CASE cyc > 0
        <5>1. PaidFor(cyc, s, sh, h) = k
          BY <3>1, <4>3 DEF CountFits
        <5>2. count[cyc] = tally
          BY <1>0, <4>3 DEF Tallied
        <5>3. Share(v) = ShareFrom(pot[cyc], tally, k)
          BY <1>3, <1>8, <4>3 DEF Share, ShareFrom
        <5> DEFINE p == pot[cyc]
        <5>4. p \in PerRep /\ tally \in PerRep /\ k \in PerRep
          BY <3>2, <5>2
        <5>5. l = LegacyFrom(p, tally, k) /\ Share(v) = ShareFrom(p, tally, k)
          BY <5>1, <5>2, <5>3
        <5> HIDE DEF p, k, l
        <5>6. /\ ShareFrom(p, tally, k) \in Nat
              /\ LegacyFrom(p, tally, k) * Scale <= ShareFrom(p, tally, k)
              /\ ShareFrom(p, tally, k) <= (LegacyFrom(p, tally, k) + Cardinality(Reps)) * Scale
          BY <5>4, ShareBounds
        <5>7. LegacyFrom(p, tally, k) \in Nat
          BY <5>4, LegacyType
        <5> QED
          BY <5>5, <5>6, <5>7
      <4> QED
        BY <1>3, <4>2, <4>3
    <3> HIDE DEF l, old, new
    <3>8. got \in Nat
      BY <3>5
    <3> DEFINE share == Share(v)
               e == earned[v]
    <3>9. /\ share \in Nat /\ l \in Nat /\ e \in Nat /\ l * Scale <= share /\ share <= (l + Cardinality(Reps)) * Scale
          /\ ExactFrom(got, e, cyc)
      BY <3>5, <3>6, <3>7
    <3> HIDE DEF share, got, e
    <3>10. ExactFrom(got + l, e + share, cyc + 1)
      BY <1>3, <3>8, <3>9, ExactGrows
    <3>11. allowance[v] + banked[v] + new = got + l
      BY <3>4, <3>5, <3>9 DEF got
    <3>12. allowance'[v] = allowance[v] /\ banked'[v] = banked[v] /\ earned'[v] = e + share
      BY <1>1, <2>1 DEF e, share
    <3>13. new = OwedBy(delegating', cyc', pot', count', span'[v], shot'[v], held'[v])
      BY <1>1, <2>1, <3>1 DEF new
    <3>14. Exact(v)'
      BY <2>1, <3>10, <3>11, <3>12, <3>13 DEF Exact
    <3> QED
      BY <3>3, <3>7, <3>14
  <2>7. earned' \in [Electors -> Nat]
    <3>1. \A v \in Electors : earned[v] \in Nat
      BY <1>0 DEF RewardShape
    <3>2. \A v \in Electors : earned[v] + Share(v) \in Nat
      BY <2>6, <3>1
    <3> QED
      BY <1>1, <3>2
  <2>8. RewardShape'
    BY <1>0, <1>1, <1>2, <1>3, <1>6, <1>8, <2>1, <2>3, <2>4, <2>7 DEF RewardShape
  <2> QED
    BY <2>5, <2>6, <2>8 DEF RewardInv
<1> QED
    BY <1>7, <1>8

RewardSpec == RewardInit /\ [][RewardNext]_rewardVars

\* Every step keeps the invariant.
LEMMA RewardStep ==
    ASSUME EffectiveCycle = Never, RewardInv, [RewardNext]_rewardVars
    PROVE  RewardInv'
<1>1. CASE UNCHANGED rewardVars
  <2>1. UNCHANGED <<delegating, cyc, tally, held, row, span, shot, pot, count, vi, rate, allowance, banked, earned, acts>>
    BY <1>1 DEF rewardVars
  <2>2. Tallied' /\ \A v \in Electors : Standing(v)'
    BY <2>1, SameStanding
  <2>3. RewardShape' /\ \A v \in Electors : Exact(v)'
    BY <2>1 DEF RewardInv, RewardShape, Exact
  <2> QED
    BY <2>2, <2>3 DEF RewardInv
<1>2. CASE RewardNext
    BY <1>2, PayStep, MaintenanceStep, DelegationStep, WithdrawStep, VoteStep, BrokerageStep DEF RewardNext
<1> QED
    BY <1>1, <1>2

(* The invariant of the rewards holds in every reachable state where the new algorithm *)
(* never takes effect (NEW_REWARD_ALGORITHM_EFFECTIVE_CYCLE at its default).            *)
THEOREM RewardInvariant == EffectiveCycle = Never => (RewardSpec => []RewardInv)
<1> SUFFICES ASSUME EffectiveCycle = Never PROVE RewardSpec => []RewardInv
    OBVIOUS
<1>1. RewardInit => RewardInv
    BY RewardInitStep
<1>2. RewardInv /\ [RewardNext]_rewardVars => RewardInv'
    BY RewardStep
<1> QED
    BY <1>1, <1>2, PTL DEF RewardSpec

(* Where the new reward algorithm never takes effect, every state of the rewards has its *)
(* type: allowances stay natural numbers, and no span runs ahead of the cycle.            *)
THEOREM RewardTypes == EffectiveCycle = Never => (RewardSpec => []RewardTypeOK)
<1> SUFFICES ASSUME EffectiveCycle = Never PROVE RewardSpec => []RewardTypeOK
    OBVIOUS
<1>1. RewardInv => RewardTypeOK
    BY RewardInvSuffices
<1>2. RewardSpec => []RewardInv
    BY RewardInvariant
<1> QED
    BY <1>1, <1>2, PTL

(* Where the new reward algorithm never takes effect, whatever the order of blocks,       *)
(* ballots, withdrawals and cycles, what an elector has been paid and what it may still   *)
(* withdraw is its exact share of the completed cycles, less what the divisions drop, for *)
(* any number of representatives, electors and cycles (withdraw_reward, query_reward,     *)
(* reward_across_cycles, do_maintenance).                                                 *)
THEOREM RewardsArePaid == EffectiveCycle = Never => (RewardSpec => []RewardsExact)
<1> SUFFICES ASSUME EffectiveCycle = Never PROVE RewardSpec => []RewardsExact
    OBVIOUS
<1>1. RewardInv => RewardsExact
    BY RewardInvSuffices
<1>2. RewardSpec => []RewardInv
    BY RewardInvariant
<1> QED
    BY <1>1, <1>2, PTL
=============================================================================
