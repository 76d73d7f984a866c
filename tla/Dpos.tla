--------------------------------- MODULE Dpos ---------------------------------
(***************************************************************************)
(* Delegated proof of stake (tron-consensus/src): the slot schedule, the    *)
(* guard and plan of block production, and what one block does to the       *)
(* consensus state: production statistics, filled slots, maintenance with   *)
(* its vote count, fork statistics and the solidified block.                *)
(*                                                                         *)
(* Times are in block intervals since genesis, so a time is an absolute     *)
(* slot.  Votes weigh one each.  The rewards of the same hooks are in       *)
(* Rewards.tla.                                                             *)
(***************************************************************************)
EXTENDS Integers, Sequences, FiniteSets, FiniteSetsExt, SequencesExt

CONSTANTS Candidates,   \* witnesses, as integers: the greater one wins a tie
          Voters,
          MaxActive,    \* MAX_ACTIVE_WITNESSES
          LocalWitnesses, \* the witnesses whose key this node holds
          SkipSlots,    \* MAINTENANCE_SKIP_SLOTS
          Epoch,        \* MAINTENANCE_TIME_INTERVAL
          RingSize,     \* BLOCK_FILLED_SLOTS (128)
          QuietSlots,   \* slots without production after a duplicate (27)
          SeenCapacity, \* SEEN_CAPACITY
          MinParticipation, \* the percentage of filled slots production needs
          Versions,     \* the scheduled fork versions
          ForkRate,     \* percent of the witnesses a version needs
          MaxBlocks, MaxClock, MaxVoteChanges \* bounds of the model

ASSUME DposAssumption ==
    /\ IsFiniteSet(Candidates) /\ Candidates # {} /\ IsFiniteSet(Voters)
    /\ Candidates \subseteq Nat \ {0} /\ Versions \subseteq Nat \ {0} /\ LocalWitnesses \subseteq Candidates
    /\ {MaxActive, Epoch, RingSize} \subseteq Nat \ {0}
    /\ {SkipSlots, QuietSlots, SeenCapacity, MinParticipation, ForkRate, MaxBlocks, MaxClock, MaxVoteChanges} \subseteq Nat

VARIABLES dclock,  \* the wall clock
          dhead,   \* [num, time, maintenance] of the head block
          active,  \* the active witnesses, in schedule order
          wit,     \* Witness rows: votes, produced, missed, latest slot and block
          ballots, \* the vote in each voter's account
          rows,    \* Votes rows not counted yet: [old, new]
          ring,    \* BLOCK_FILLED_SLOTS and its index
          dynamic, \* next maintenance, solidified block, version
          stats,   \* FORK_VERSION stats of each scheduled version
          guard,   \* ProductionGuard: duplicate window, own block, seen blocks
          changes  \* votes cast so far
dposVars == <<dclock, dhead, active, wit, ballots, rows, ring, dynamic, stats, guard, changes>>

NoVote == 0
NoRow == [old |-> -1, new |-> -1]

\* sort_witnesses: by votes, then by address, both descending.
Above(ws, a, b) == ws[a].votes > ws[b].votes \/ (ws[a].votes = ws[b].votes /\ a > b)
Rank(ws, c) == Cardinality({d \in Candidates : Above(ws, d, c)}) + 1
Ranked(ws) == [i \in 1..Cardinality(Candidates) |-> CHOOSE c \in Candidates : Rank(ws, c) = i]
TakeActive(ws) == SubSeq(Ranked(ws), 1, Min({MaxActive, Cardinality(Candidates)}))

FreshWitness == [votes |-> 0, produced |-> 0, missed |-> 0, slot |-> 0, block |-> 0]
DposInit ==
    /\ dclock = 0 /\ dhead = [num |-> 0, time |-> 0, maintenance |-> FALSE]
    /\ wit = [c \in Candidates |-> FreshWitness] /\ active = TakeActive(wit)
    /\ ballots = [v \in Voters |-> NoVote] /\ rows = [v \in Voters |-> NoRow] /\ changes = 0
    /\ ring = [slots |-> [i \in 0..RingSize - 1 |-> TRUE], index |-> 0]
    /\ dynamic = [next |-> Epoch, solid |-> 0, version |-> 0]
    /\ stats = [u \in Versions |-> <<>>]
    /\ guard = [until |-> -1, own |-> 0, height |-> 0, seen |-> {}]

-----------------------------------------------------------------------------
(* DposSlot: slot numbers count from the head, SkipSlots later after a        *)
(* maintenance block; slot 0 is "not yet".                                     *)
TimeOf(slot) ==
    IF dhead.num = 0 THEN slot
    ELSE dhead.time + slot + (IF dhead.maintenance THEN SkipSlots ELSE 0)
SlotAt(time) == IF time < TimeOf(1) THEN 0 ELSE time - TimeOf(1) + 1
ScheduledWitness(slot) == active[((dhead.time + slot) % Len(active)) + 1]

\* The percentage of filled slots.
Participation == (100 * Cardinality({i \in 0..RingSize - 1 : ring.slots[i]})) \div RingSize

\* ProductionGuard::state, then ::plan.
MayProduce(synced, master) ==
    /\ dclock >= dhead.time /\ synced /\ master /\ dclock > guard.until
    /\ Participation >= MinParticipation
Plan(now) == [slot |-> SlotAt(now), time |-> TimeOf(SlotAt(now))]

\* account_production with the range of missed slots closed: the filled slot is missed too.
AccountInclusive(ws, previous, current, producer, number) ==
    LET missedBy(c) == {s \in previous + 1..current : active[(s % Len(active)) + 1] = c}
        charged(c) == [ws[c] EXCEPT !.missed = @ + Cardinality(missedBy(c))]
        filled(r) == [r EXCEPT !.produced = @ + 1, !.slot = current, !.block = number]
    IN  [c \in Candidates |-> IF c = producer THEN filled(charged(c)) ELSE charged(c)]
\* account_production: absolute slots between the two blocks are charged as missed.
Account(ws, previous, current, producer, number) ==
    LET missedBy(c) == {s \in previous + 1..current - 1 : active[(s % Len(active)) + 1] = c}
        charged(c) == IF missedBy(c) = {} THEN ws[c]
                      ELSE [ws[c] EXCEPT !.missed = @ + Cardinality(missedBy(c)), !.slot = Max(missedBy(c))]
        filled(r) == [r EXCEPT !.produced = @ + 1, !.slot = current, !.block = number]
    IN  [c \in Candidates |-> IF c = producer THEN filled(charged(c)) ELSE charged(c)]

\* apply_filled_slot, once per slot; a gap as long as the ring empties it.
Filled(elapsed) ==
    LET gap == IF elapsed >= RingSize THEN elapsed ELSE elapsed - 1
        last == (ring.index + gap) % RingSize
        emptied == IF elapsed >= RingSize THEN 0..RingSize - 1
                   ELSE {(ring.index + k) % RingSize : k \in 0..gap - 1}
    IN  [slots |-> [[i \in 0..RingSize - 1 |-> i \notin emptied /\ ring.slots[i]] EXCEPT ![last] = TRUE],
         index |-> (last + 1) % RingSize]

-----------------------------------------------------------------------------
\* do_maintenance: count the vote rows, delete them, elect the active witnesses.
Delta(c) ==
    Cardinality({v \in Voters : rows[v].new = c}) - Cardinality({v \in Voters : rows[v].old = c})
HasRows == \E v \in Voters : rows[v] # NoRow
Counted(ws) == [c \in Candidates |-> [ws[c] EXCEPT !.votes = @ + Delta(c)]]

\* advance_maintenance: the first period end after the block.
NextMaintenance(time) == dynamic.next + ((time - dynamic.next) \div Epoch + 1) * Epoch

\* apply_maintenance_block: block 1 moves the time but counts nothing.
Maintain(ws, time, number) ==
    LET due == dynamic.next <= time
        count == due /\ number # 1
        voted == Counted(ws)
    IN  [due |-> due, counted |-> count,
         wit |-> IF count THEN voted ELSE ws,
         active |-> IF count /\ HasRows THEN TakeActive(voted) ELSE active,
         rows |-> IF count THEN [v \in Voters |-> NoRow] ELSE rows,
         next |-> IF due THEN NextMaintenance(time) ELSE dynamic.next]

\* update_solidity: the block that at least 70 percent of the active witnesses built on.
SolidPosition(n) == (n * 3) \div 10
Solid(ws, act, previous) ==
    LET numbers == SortSeq([i \in DOMAIN act |-> ws[act[i]].block], <)
        candidate == numbers[SolidPosition(Len(act)) + 1]
    IN  IF candidate > previous THEN candidate ELSE previous

\* java_fork_pass, past the hard-fork time; update_fork: a block votes for its version,
\* takes its witness's vote for higher ones back, and an activation settles lower ones.
ForkPasses(s) == s # <<>> /\ Len(SelectSeq(s, LAMBDA x : x = 1)) >= (ForkRate * Len(s) + 99) \div 100
UpdateFork(act, producer, v) ==
    LET pos == {i \in DOMAIN act : act[i] = producer}
        slot == CHOOSE i \in pos : TRUE
        own == IF Len(stats[v]) = Len(act) THEN stats[v] ELSE [i \in DOMAIN act |-> 0]
        lowered(u) == IF ~ForkPasses(stats[u]) /\ slot \in DOMAIN stats[u]
                      THEN [stats[u] EXCEPT ![slot] = 0] ELSE stats[u]
        settled(u) == IF ForkPasses(stats[u]) THEN stats[u] ELSE [i \in DOMAIN act |-> 1]
        activates == ForkPasses(own)
        new(u) == IF u > v THEN lowered(u)
                  ELSE IF u = v THEN IF activates THEN own ELSE [own EXCEPT ![slot] = 1]
                  ELSE IF activates THEN settled(u) ELSE stats[u]
    IN  IF pos = {} \/ dynamic.version >= v THEN [stats |-> stats, version |-> dynamic.version]
        ELSE [stats |-> [u \in Versions |-> new(u)],
              version |-> IF activates THEN v ELSE dynamic.version]

\* The consensus hooks of one applied block, in the order apply_block calls them.
ApplyHooks(time, producer, version) ==
    LET number == dhead.num + 1
        accounted == Account(wit, dhead.time, time, producer, number)
        m == Maintain(accounted, time, number)
        f == UpdateFork(m.active, producer, version)
    IN  /\ wit' = m.wit /\ active' = m.active /\ rows' = m.rows
        /\ ring' = Filled(Max({time - dhead.time, 1}))
        /\ stats' = f.stats
        /\ dynamic' = [next |-> m.next, version |-> f.version,
                       solid |-> Solid(m.wit, m.active, dynamic.solid)]
        /\ dhead' = [num |-> number, time |-> time, maintenance |-> m.due]
        /\ UNCHANGED <<ballots, changes>>

-----------------------------------------------------------------------------
(* ProductionGuard: the blocks of this node's own witnesses, and the quiet     *)
(* window after another node signs with one of its keys.                       *)
Arm(g) == IF dclock > g.until THEN [g EXCEPT !.until = dclock + QuietSlots] ELSE g
Prune(g, number) == [g EXCEPT !.height = Max({@, number}),
                              !.seen = {b \in @ : b.time >= dclock - QuietSlots}]
RetainBlock(g, b) ==
    LET p == Prune(g, b.num)
        all == {o \in p.seen : <<o.time, o.wit>> # <<b.time, b.wit>>} \cup {b}
        oldest == CHOOSE o \in all : \A q \in all : <<o.num, o.time, o.wit>> = <<q.num, q.time, q.wit>>
                                                  \/ o.num < q.num \/ (o.num = q.num /\ o.time < q.time)
                                                  \/ (o.num = q.num /\ o.time = q.time /\ o.wit < q.wit)
    IN  [p EXCEPT !.seen = IF Cardinality(all) > SeenCapacity THEN all \ {oldest} ELSE all]

\* valid_structure: a block older than one interval says nothing about a duplicate.
Valid(b) == b.time >= dclock - 1
Produced(g, b) == IF Valid(b) THEN RetainBlock([g EXCEPT !.own = b.id], b) ELSE g
Received(g, b, syncing, handled) ==
    IF ~Valid(b) \/ b.id = g.own \/ syncing \/ b.wit \notin LocalWitnesses THEN g
    ELSE IF ~handled THEN Arm(g)
    ELSE IF g.own > b.id THEN g
    ELSE LET p == Prune(g, b.num)
         IN  IF \E o \in p.seen : o.time = b.time /\ o.wit = b.wit /\ o.id # b.id
             THEN Arm(p) ELSE Arm(RetainBlock(p, b))

Block(time, w, id) == [num |-> dhead.num + 1, time |-> time, wit |-> w, id |-> id]

\* This node produces: state, plan, apply, produced.
Produce(version) ==
    LET p == Plan(dclock)
    IN  /\ dhead.num < MaxBlocks /\ MayProduce(TRUE, TRUE) /\ p.slot > 0
        /\ ScheduledWitness(p.slot) \in LocalWitnesses
        /\ ApplyHooks(p.time, ScheduledWitness(p.slot), version)
        /\ guard' = Produced(guard, Block(p.time, ScheduledWitness(p.slot), 2))
        /\ UNCHANGED dclock

\* A block of a peer: the guard sees it, and it is applied when it is scheduled.
ReceiveBlock(time, w, version, syncing) ==
    LET handled == SlotAt(time) > 0 /\ ScheduledWitness(SlotAt(time)) = w
    IN  /\ dhead.num < MaxBlocks /\ time > dhead.time
        /\ guard' = Received(guard, Block(time, w, 3), syncing, handled)
        /\ IF handled THEN ApplyHooks(time, w, version)
           ELSE UNCHANGED <<dhead, active, wit, ballots, rows, ring, dynamic, stats, changes>>
        /\ UNCHANGED dclock

\* A second vote in a period forgets which votes were counted.
VoteForgetting(v, c) ==
    /\ changes < MaxVoteChanges /\ changes' = changes + 1
    /\ rows' = [rows EXCEPT ![v] = [old |-> ballots[v], new |-> c]]
    /\ ballots' = [ballots EXCEPT ![v] = c]
    /\ UNCHANGED <<dclock, dhead, active, wit, ring, dynamic, stats, guard>>
\* The VoteWitness actuator: the row keeps the votes of the last count as `old'.
Vote(v, c) ==
    /\ changes < MaxVoteChanges /\ changes' = changes + 1
    /\ rows' = [rows EXCEPT ![v] = [old |-> IF @ = NoRow THEN ballots[v] ELSE @.old, new |-> c]]
    /\ ballots' = [ballots EXCEPT ![v] = c]
    /\ UNCHANGED <<dclock, dhead, active, wit, ring, dynamic, stats, guard>>

DposTick ==
    /\ dclock < MaxClock /\ dclock' = dclock + 1
    /\ UNCHANGED <<dhead, active, wit, ballots, rows, ring, dynamic, stats, guard, changes>>

DposNext ==
    \/ \E version \in Versions : Produce(version)
    \/ \E time \in 1..dclock, w \in Candidates, version \in Versions, syncing \in BOOLEAN :
          ReceiveBlock(time, w, version, syncing)
    \/ \E v \in Voters, c \in Candidates : Vote(v, c)
    \/ DposTick

-----------------------------------------------------------------------------
DposTypeOK ==
    /\ dclock \in 0..MaxClock
    /\ dhead.num \in 0..MaxBlocks /\ dhead.time \in 0..MaxClock /\ dhead.maintenance \in BOOLEAN
    /\ active \in Seq(Candidates) /\ Len(active) \in 1..MaxActive
    /\ \A c \in Candidates : wit[c].votes \in Nat /\ wit[c].block <= dhead.num
    /\ ring.index \in 0..RingSize - 1 /\ Participation \in 0..100
    /\ Cardinality(guard.seen) <= SeenCapacity

(* Every absolute slot up to the head is accounted exactly once, as produced   *)
(* or as missed, over gaps, maintenance and changes of the active witnesses;   *)
(* the ring of filled slots shows the head's slot as filled; and the slot a    *)
(* verifier derives from a planned block's time is the planned one, also after *)
(* a maintenance block (account_production, plan, slot).                        *)
SlotsAccounted ==
    /\ dhead.num = SumFunction([c \in Candidates |-> wit[c].produced])
    /\ dhead.time = SumFunction([c \in Candidates |-> wit[c].produced + wit[c].missed])
    /\ dhead.num > 0 => ring.slots[(ring.index + RingSize - 1) % RingSize]
    /\ \A s \in 1..MaxClock : SlotAt(TimeOf(s)) = s

(* No vote is lost or counted twice: a witness's count and the rows not yet    *)
(* counted give exactly the ballots in the voters' accounts, although a voter  *)
(* may change its vote several times in a period and across maintenance.       *)
VotesConserved ==
    \A c \in Candidates : wit[c].votes + Delta(c) = Cardinality({v \in Voters : ballots[v] = c})

=============================================================================
