------------------------------- MODULE Rewards -------------------------------
(***************************************************************************)
(* Block rewards and their voters (tron-consensus/src/rewards.rs and the    *)
(* reward half of maintenance.rs): what a block pays into a representative's *)
(* pot of the current cycle, what maintenance records of a cycle, and how a  *)
(* voter's share of past cycles reaches its allowance when it votes, clears  *)
(* its votes or withdraws.  Amounts are small: the doubles of the code are   *)
(* exact on them, and the sums of BigInt and i64 stay in range.              *)
(***************************************************************************)
EXTENDS Integers, FiniteSets, FiniteSetsExt, Functions

CONSTANTS Reps, Electors, \* representatives, and accounts that vote for them
          Ballots,        \* what an elector may vote: [Reps -> Nat]
          BlockPay, StandbyPay, \* WITNESS_PAY_PER_BLOCK, WITNESS_STANDBY_ALLOWANCE
          Fees,           \* what the fee pool may hold when a block is paid
          Rates,          \* brokerage percentages
          Scale,          \* VI_SCALE
          EffectiveCycle, \* NEW_REWARD_ALGORITHM_EFFECTIVE_CYCLE: 0 or never, by the genesis configuration
          GenesisDelegation, \* the values of CHANGE_DELEGATION in that configuration
          MaxCycle, MaxPaid, MaxBallots \* bounds of the model

Never == MaxCycle + 2 \* i64::MAX

ASSUME RewardsAssumption ==
    /\ IsFiniteSet(Reps) /\ Reps # {} /\ IsFiniteSet(Electors)
    /\ Ballots \subseteq [Reps -> Nat] /\ Electors \cap Reps = {} /\ EffectiveCycle \in {0, Never} /\ GenesisDelegation \subseteq BOOLEAN
    /\ {BlockPay, StandbyPay, MaxCycle, MaxPaid, MaxBallots} \subseteq Nat
    /\ Rates \subseteq 0..100 /\ Fees \subseteq Nat /\ Scale \in Nat \ {0}

VARIABLES delegating, \* CHANGE_DELEGATION
          cyc,        \* CURRENT_CYCLE_NUMBER
          tally,      \* votes of each witness row
          held,       \* the votes in each elector's account
          row,        \* its Votes row: the votes last counted, until maintenance
          span,       \* its begin-cycle and end-cycle
          shot,       \* its account-vote snapshots, by cycle
          pot,        \* "reward" of a cycle and representative
          count,      \* "vote" of a cycle and representative
          vi,         \* "vi" of a cycle and representative
          rate,       \* brokerage: [next: cycle -1, now: the current cycle]
          allowance, banked, \* allowances; what electors have moved to their balance
          earned,     \* history: each elector's exact share of completed cycles, times Scale
          acts        \* blocks paid and ballots cast so far
rewardVars == <<delegating, cyc, tally, held, row, span, shot, pot, count, vi, rate, allowance, banked, earned, acts>>

NoBallot == [r \in {} |-> 0]
NoVotes == [r \in Reps |-> 0]
Default == 20 \* DEFAULT_BROKERAGE
Cycles == 0..MaxCycle

RewardInit ==
    /\ delegating \in GenesisDelegation /\ cyc = 0 /\ tally = NoVotes /\ earned = [v \in Electors |-> 0]
    /\ held = [v \in Electors |-> NoVotes] /\ row = [v \in Electors |-> NoBallot]
    /\ span = [v \in Electors |-> [begin |-> 0, end |-> 0]] /\ shot = [v \in Electors |-> [c \in Cycles |-> NoBallot]]
    /\ pot = [c \in Cycles |-> NoVotes] /\ count = pot /\ vi = pot
    /\ rate = [next |-> [r \in Reps |-> Default], now |-> [r \in Reps |-> Default]]
    /\ allowance = [a \in Reps \cup Electors |-> 0] /\ banked = [v \in Electors |-> 0]
    /\ acts = [paid |-> 0, ballots |-> 0]

-----------------------------------------------------------------------------
\* standby_distribution: nothing without votes, and what the division drops is paid to nobody.
Standby(votes) ==
    LET sum == SumFunction(votes)
    IN [r \in Reps |-> IF sum < 1 THEN 0 ELSE (votes[r] * StandbyPay) \div sum]

\* pay_reward: the brokerage goes to the representative, the rest into the cycle's pot.
Brokerage(r, gross) == (gross * rate.now[r]) \div 100
\* The reward hook of a block: the producer, the standby representatives, the fee pool.
\* Each is a payment of its own, so each brokerage is rounded by itself.
Payments(r, producer, fee) ==
    [standby |-> Standby(tally)[r], block |-> IF r = producer THEN BlockPay ELSE 0, fee |-> IF r = producer THEN fee ELSE 0]
Cuts(r, due) == [kind \in DOMAIN due |-> Brokerage(r, due[kind])]
PayReward(producer, fee) ==
    /\ acts.paid < MaxPaid /\ acts' = [acts EXCEPT !.paid = @ + 1]
    /\ LET due(r) == Payments(r, producer, fee)
           cut(r) == SumFunction(Cuts(r, due(r)))
           gross(r) == SumFunction(due(r))
       IN IF delegating
          THEN /\ pot' = [pot EXCEPT ![cyc] = [r \in Reps |-> @[r] + gross(r) - cut(r)]]
               /\ allowance' = [a \in DOMAIN allowance |-> allowance[a] + (IF a \in Reps THEN cut(a) ELSE 0)]
          ELSE /\ allowance' = [allowance EXCEPT ![producer] = @ + BlockPay + fee]
               /\ UNCHANGED pot
    /\ UNCHANGED <<delegating, cyc, tally, held, row, span, shot, count, vi, rate, banked, earned>>

-----------------------------------------------------------------------------
\* accumulate_reward_vi: over the votes that counted in the cycle that ends.
Accumulated(r) ==
    (IF cyc = 0 THEN 0 ELSE vi[cyc - 1][r]) + (IF pot[cyc][r] = 0 \/ tally[r] = 0 THEN 0 ELSE (pot[cyc][r] * Scale) \div tally[r])
Counting(v) == IF row[v] = NoBallot THEN held[v] ELSE row[v]
Recounted == [r \in Reps |-> tally[r] + SumFunction([v \in Electors |-> held[v][r] - Counting(v)[r]])]
\* The voters' exact shares of the cycle that ends.  Cycle 0 has no recorded votes, so before
\* the new algorithm its pots are paid to nobody.
Share(v) ==
    IF ~delegating \/ (cyc = 0 /\ EffectiveCycle = Never) THEN 0
    ELSE SumFunction([r \in Reps |-> IF tally[r] = 0 THEN 0 ELSE (Counting(v)[r] * pot[cyc][r] * Scale) \div tally[r]])

\* do_maintenance; legacy standby pay only where votes changed and nothing is delegated.
RewardMaintenance ==
    /\ cyc < MaxCycle
    /\ vi' = IF EffectiveCycle = Never THEN vi ELSE [vi EXCEPT ![cyc] = [r \in Reps |-> Accumulated(r)]]
    /\ tally' = Recounted /\ row' = [v \in Electors |-> NoBallot]
    /\ earned' = [v \in Electors |-> earned[v] + Share(v)]
    /\ IF delegating
       THEN /\ cyc' = cyc + 1 /\ count' = [count EXCEPT ![cyc + 1] = Recounted]
            /\ rate' = [rate EXCEPT !.now = rate.next] /\ UNCHANGED allowance
       ELSE /\ \E v \in Electors : row[v] # NoBallot
            /\ allowance' = [a \in DOMAIN allowance |-> allowance[a] + (IF a \in Reps THEN Standby(Recounted)[a] ELSE 0)]
            /\ UNCHANGED <<cyc, count, rate>>
    /\ UNCHANGED <<delegating, held, span, shot, pot, banked, acts>>

-----------------------------------------------------------------------------
LegacyCycleReward(c, ballot) ==
    SumFunction([r \in Reps |-> IF pot[c][r] <= 0 \/ count[c][r] <= 0 THEN 0 ELSE (ballot[r] * pot[c][r]) \div count[c][r]])
ViAt(c, r) == IF c < 0 THEN 0 ELSE vi[c][r]
RewardVi(first, last, votes) == IF last <= first THEN 0 ELSE ((last - first) * votes) \div Scale
\* reward_across_cycles: legacy cycles up to the effective one, the index differences after it.
RewardAcross(begin, end, ballot) ==
    LET oldEnd == Min({end, EffectiveCycle})
    IN IF begin >= end THEN 0
       ELSE SumFunction([c \in begin..oldEnd - 1 |-> LegacyCycleReward(c, ballot)])
            + (IF oldEnd < end THEN SumFunction([r \in Reps |-> RewardVi(ViAt(oldEnd - 1, r), ViAt(end - 1, r), ballot[r])]) ELSE 0)

\* query_reward without the allowance: the snapshot's cycle, then the votes since.
Owed(v) ==
    LET s == span[v] again == s.begin + 1 = s.end /\ s.begin < cyc
        first == IF again /\ shot[v][s.begin] # NoBallot THEN RewardAcross(s.begin, s.end, shot[v][s.begin]) ELSE 0
        from == IF again THEN s.begin + 1 ELSE s.begin
    IN IF ~delegating \/ s.begin > cyc THEN 0
       ELSE first + (IF held[v] # NoVotes /\ from < cyc THEN RewardAcross(from, cyc, held[v]) ELSE 0)

\* The votes are recorded again by every ballot of a cycle.
WithdrawalEach(v) ==
    IF ~delegating \/ span[v].begin > cyc THEN [span |-> span[v], shot |-> shot[v]]
    ELSE IF held[v] = NoVotes THEN [span |-> [span[v] EXCEPT !.begin = cyc + 1], shot |-> shot[v]]
    ELSE [span |-> [begin |-> cyc, end |-> cyc + 1], shot |-> [shot[v] EXCEPT ![cyc] = held[v]]]
\* withdraw_reward: where an elector stands once everything up to the cycle is paid.
Withdrawal(v) ==
    IF ~delegating \/ span[v].begin > cyc \/ (span[v].begin = cyc /\ shot[v][cyc] # NoBallot)
    THEN [span |-> span[v], shot |-> shot[v]]
    ELSE IF held[v] = NoVotes THEN [span |-> [span[v] EXCEPT !.begin = cyc + 1], shot |-> shot[v]]
    ELSE [span |-> [begin |-> cyc, end |-> cyc + 1], shot |-> [shot[v] EXCEPT ![cyc] = held[v]]]
WithdrawReward(v) ==
    /\ span' = [span EXCEPT ![v] = Withdrawal(v).span] /\ shot' = [shot EXCEPT ![v] = Withdrawal(v).shot]

\* VoteWitness, and an unfreeze that clears the votes: the reward first, then the row and the votes.
ChangeVotes(v, ballot) ==
    /\ acts.ballots < MaxBallots /\ acts' = [acts EXCEPT !.ballots = @ + 1]
    /\ WithdrawReward(v) /\ allowance' = [allowance EXCEPT ![v] = @ + Owed(v)]
    /\ row' = [row EXCEPT ![v] = Counting(v)] /\ held' = [held EXCEPT ![v] = ballot]
    /\ UNCHANGED <<delegating, cyc, tally, pot, count, vi, rate, banked, earned>>

\* WithdrawBalance looks at the allowance before the reward is added to it.  Its interval
\* between withdrawals and its refusal of guard representatives only narrow when it is taken.
WithdrawAllowance(v) ==
    /\ allowance[v] > 0 /\ WithdrawReward(v)
    /\ banked' = [banked EXCEPT ![v] = @ + allowance[v] + Owed(v)] /\ allowance' = [allowance EXCEPT ![v] = 0]
    /\ UNCHANGED <<delegating, cyc, tally, held, row, pot, count, vi, rate, earned, acts>>

\* UpdateBrokerage: counts from the next cycle on.
UpdateBrokerage(r, percent) ==
    /\ rate.next[r] # percent /\ rate' = [rate EXCEPT !.next[r] = percent]
    /\ UNCHANGED <<delegating, cyc, tally, held, row, span, shot, pot, count, vi, allowance, banked, earned, acts>>

\* The proposal that sets CHANGE_DELEGATION.
ChangeDelegation ==
    /\ ~delegating /\ delegating' = TRUE
    /\ UNCHANGED <<cyc, tally, held, row, span, shot, pot, count, vi, rate, allowance, banked, earned, acts>>

RewardNext ==
    \/ \E r \in Reps, fee \in Fees : PayReward(r, fee)
    \/ RewardMaintenance \/ ChangeDelegation
    \/ \E v \in Electors : WithdrawAllowance(v) \/ \E b \in Ballots : ChangeVotes(v, b)
    \/ \E r \in Reps, percent \in Rates : UpdateBrokerage(r, percent)

-----------------------------------------------------------------------------
RewardTypeOK ==
    /\ cyc \in Cycles /\ delegating \in BOOLEAN /\ allowance \in [Reps \cup Electors -> Nat]
    /\ \A v \in Electors : span[v].begin \in 0..cyc + 1 /\ span[v].end \in 0..cyc + 1

(* While the new reward algorithm never takes effect (the default), whatever the    *)
(* order of ballots, withdrawals and cycles, what an elector has been paid and what  *)
(* it could still withdraw is its exact share of the completed cycles by the votes   *)
(* that counted in each, less what the divisions drop: no cycle is paid twice, none  *)
(* is lost, and none is paid by votes cast later (withdraw_reward, query_reward,     *)
(* legacy_cycle_reward).  With EffectiveCycle = 0 it does not hold:                  *)
(* reward_across_cycles starts every span at the index before cycle 0, so each       *)
(* withdrawal pays the earlier cycles again; the run rewards_vi shows it.            *)
RewardsExact ==
    \A v \in Electors :
        LET got == allowance[v] + banked[v] + Owed(v)
        IN got * Scale <= earned[v] /\ earned[v] <= (got + Cardinality(Reps) * cyc) * Scale
=============================================================================
