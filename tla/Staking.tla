------------------------------- MODULE Staking -------------------------------
(***************************************************************************)
(* The staking actuators (tron-execution/src/resource_actuators.rs): freeze, *)
(* unfreeze, delegate and undelegate TRX for a resource, in their first and  *)
(* second versions, the votes the stake backs, and withdrawals.              *)
(*                                                                         *)
(* An action is an actuator that passes validation and commits; one that is  *)
(* refused or fails rolls its session back and changes nothing.  What an     *)
(* account has used of its resources, and the windows in which that          *)
(* recovers, are left out: they only lower what may be delegated.  Delegation *)
(* is open (ALLOW_DELEGATE_RESOURCE), every receiver exists, and the legacy   *)
(* unfreeze checks what the receiver acquired (before ALLOW_TVM_SOLIDITY_059).*)
(* The allowance does not grow here: withdraw_reward is Rewards.tla's.  The   *)
(* list of unfreezings is a bag: no actuator looks at its order.             *)
(***************************************************************************)
EXTENDS Integers, FiniteSets, Functions, Bags

CONSTANTS Accounts, Kinds,    \* Kinds: some of "bandwidth", "energy", "power"
          Stake, Allowance,   \* what each account starts with
          Trx,                \* TRX_PRECISION
          Amounts,            \* amounts the contracts ask for
          UnfreezeDelay, FrozenTime, LockPeriods, MaxUnfreezing,
          NewReward, DelegateOptimization,   \* ALLOW_NEW_REWARD, ALLOW_DELEGATE_OPTIMIZATION
          MaxStakeOps, MaxStakeTime          \* bounds of the model

ASSUME StakingAssumption ==
    /\ Kinds \subseteq {"bandwidth", "energy", "power"} /\ Trx \in Nat \ {0} /\ Amounts \subseteq Nat \ {0}
    /\ \A a \in Accounts : Stake[a] \in Nat /\ Allowance[a] \in Nat
    /\ {NewReward, DelegateOptimization} \subseteq BOOLEAN /\ {UnfreezeDelay, FrozenTime, MaxUnfreezing} \subseteq Nat
    /\ IsFiniteSet(Accounts) /\ LockPeriods \subseteq Nat

VARIABLES acct,     \* the Account rows
          legacy,   \* DelegatedResource of the first version, by owner and receiver
          granted,  \* DelegatedResource of the second, by owner, receiver and lock
          index1, index2,   \* DelegatedResourceAccountIndex pairs of each version
          weight,   \* TOTAL_*_WEIGHT
          v2Open, newModel, \* UNFREEZE_DELAY_DAYS > 0, ALLOW_NEW_RESOURCE_MODEL
          stakeNow, stakeOps
stakeVars == <<acct, legacy, granted, index1, index2, weight, v2Open, newModel, stakeNow, stakeOps>>

Shared == Kinds \ {"power"}            \* what may be delegated
None == [k \in Kinds |-> 0]
NoGrant == [there |-> FALSE, amount |-> None, expire |-> None]
Pairs == {p \in Accounts \X Accounts : p[1] # p[2]}
StakeInit ==
    /\ acct = [a \in Accounts |->
         [balance |-> Stake[a], allowance |-> Allowance[a], frozen |-> None, expire |-> None, delegated |-> None,
          acquired |-> None, frozen2 |-> None, delegated2 |-> None, acquired2 |-> None, unfrozen |-> EmptyBag, votes |-> 0, oldPower |-> 0]]
    /\ legacy = [p \in Pairs |-> NoGrant] /\ granted = [g \in Pairs \X BOOLEAN |-> NoGrant]
    /\ index1 = {} /\ index2 = {} /\ weight = None /\ v2Open \in BOOLEAN /\ newModel \in BOOLEAN
    /\ stakeNow = 1 /\ stakeOps = 0

-----------------------------------------------------------------------------
Plus(f, k, x) == [f EXCEPT ![k] = @ + x]
WeightBalance(r, k) == r.frozen2[k] + r.delegated2[k]
\* change_weight: the total counts whole TRX of each account's second-version stake.
Reweighed(k, old, new) == [weight EXCEPT ![k] = @ + (new \div Trx) - (old \div Trx)]
\* change_legacy_weight: with the new reward rule likewise, before it whole TRX of each amount.
LegacyWeighed(k, old, new, delta) ==
    [weight EXCEPT ![k] = @ + IF NewReward THEN (new \div Trx) - (old \div Trx)
                              ELSE IF delta >= 0 THEN delta \div Trx ELSE -((-delta) \div Trx)]
\* legacy_vote_power, and what VoteWitness allows under the new model (all_power).
StakeIn(r, k) == r.frozen[k] + r.delegated[k] + r.frozen2[k] + r.delegated2[k]
LegacyPower(r) == SumFunction([k \in Shared |-> StakeIn(r, k)])
Dedicated(r) == IF "power" \in Kinds THEN r.frozen["power"] + r.frozen2["power"] ELSE 0
AllPower(r) ==
    Dedicated(r) + (IF r.oldPower = -1 THEN 0 ELSE IF r.oldPower = 0 THEN LegacyPower(r) ELSE r.oldPower)
Power(r) == IF newModel THEN AllPower(r) ELSE LegacyPower(r)
\* initialize_old_tron_power
Remembered(r) ==
    IF newModel /\ r.oldPower = 0
    THEN [r EXCEPT !.oldPower = IF LegacyPower(r) = 0 THEN -1 ELSE LegacyPower(r)] ELSE r
\* clear_votes; scale_legacy_votes keeps the share of the power that is left.
Unvoted(r) == [r EXCEPT !.votes = 0]
Scaled(r, oldPower) == IF LegacyPower(r) >= r.votes * Trx THEN r ELSE [r EXCEPT !.votes = (@ * LegacyPower(r)) \div oldPower]

\* Unfreezings whose time has come, and what they are worth.
Due(r) == Restrict(r.unfrozen, {u \in DOMAIN r.unfrozen : u.expire <= stakeNow})
Undue(r) == Restrict(r.unfrozen, {u \in DOMAIN r.unfrozen : u.expire > stakeNow})
SumOf(us) == SumFunction([u \in DOMAIN us |-> us[u] * u.amount])
Paid(r) == [r EXCEPT !.balance = @ + SumOf(Due(r)), !.unfrozen = Undue(r)]

Operation == stakeOps < MaxStakeOps /\ stakeOps' = stakeOps + 1
Settled == UNCHANGED <<v2Open, newModel, stakeNow>>
Grants == UNCHANGED <<legacy, granted, index1, index2>>
KindAllowed(k) == k # "power" \/ newModel    \* strict_resource

-----------------------------------------------------------------------------
FreezeBalanceV2(a, k, x) ==
    /\ v2Open /\ x >= Trx /\ x <= acct[a].balance /\ KindAllowed(k) /\ Operation
    /\ LET r == Remembered(acct[a]) IN
        LET s == [r EXCEPT !.frozen2 = Plus(@, k, x), !.balance = @ - x] IN
        acct' = [acct EXCEPT ![a] = s] /\ weight' = Reweighed(k, WeightBalance(r, k), WeightBalance(s, k))
    /\ Grants /\ Settled

\* What is unfrozen waits in the list.
Unfreezing(r, k, x) ==
    [r EXCEPT !.frozen2 = Plus(@, k, -x),
              !.unfrozen = @ (+) SetToBag({[kind |-> k, amount |-> x, expire |-> stakeNow + UnfreezeDelay]})]
\* The votes are left alone when the stake behind them shrinks.
UnfreezeBalanceV2Quiet(a, k, x) ==
    /\ v2Open /\ KindAllowed(k) /\ x <= acct[a].frozen2[k] /\ SumFunction(Undue(acct[a])) < MaxUnfreezing /\ Operation
    /\ LET r == Paid(acct[a]) IN
        LET s == Unfreezing(r, k, x) IN
        acct' = [acct EXCEPT ![a] = s] /\ weight' = Reweighed(k, WeightBalance(r, k), WeightBalance(s, k))
    /\ Grants /\ Settled
UnfreezeBalanceV2(a, k, x) ==
    /\ v2Open /\ KindAllowed(k) /\ x <= acct[a].frozen2[k] /\ SumFunction(Undue(acct[a])) < MaxUnfreezing /\ Operation
    /\ LET r == Remembered(Paid(acct[a])) IN
        LET s == Unfreezing(r, k, x) IN
        /\ acct' = [acct EXCEPT ![a] =
                      IF newModel /\ s.oldPower # -1 THEN [Unvoted(s) EXCEPT !.oldPower = -1]
                      ELSE IF ~newModel THEN Scaled(s, LegacyPower(r))
                      ELSE IF k = "power" THEN Unvoted(s) ELSE s]
        /\ weight' = Reweighed(k, WeightBalance(r, k), WeightBalance(s, k))
    /\ Grants /\ Settled

WithdrawExpireUnfreeze(a) ==
    /\ v2Open /\ DOMAIN Due(acct[a]) # {} /\ Operation
    /\ acct' = [acct EXCEPT ![a] = Paid(@)] /\ UNCHANGED weight /\ Grants /\ Settled

\* What is due is paid, the rest goes back to the stake it came from.
Refrozen(r) ==
    LET of(k) == Restrict(r.unfrozen, {u \in DOMAIN r.unfrozen : u.kind = k})
    IN  [r EXCEPT !.frozen2 = [k \in Kinds |-> r.frozen2[k] + SumOf(of(k))], !.unfrozen = EmptyBag]
CancelAllUnfreezeV2(a) ==
    /\ v2Open /\ DOMAIN acct[a].unfrozen # {} /\ Operation
    /\ LET r == Paid(acct[a]) IN
        LET s == Refrozen(r) IN
        /\ acct' = [acct EXCEPT ![a] = s]
        /\ weight' = [k \in Kinds |-> weight[k] + (WeightBalance(s, k) \div Trx) - (WeightBalance(r, k) \div Trx)]
    /\ Grants /\ Settled

-----------------------------------------------------------------------------
\* unlock_expired: what a lock no longer holds moves to the unlocked record, resource by resource.
Expired(g) == {k \in Shared : g.expire[k] < stakeNow}
Unlocked(p) ==
    LET l == granted[<<p, TRUE>>] u == granted[<<p, FALSE>>] out == Expired(l)
        kept == [l EXCEPT !.amount = [k \in Kinds |-> IF k \in out THEN 0 ELSE l.amount[k]],
                          !.expire = [k \in Kinds |-> IF k \in out THEN 0 ELSE l.expire[k]]]
        freed == [u EXCEPT !.there = TRUE, !.amount = [k \in Kinds |-> u.amount[k] + IF k \in out THEN l.amount[k] ELSE 0]]
    IN IF ~l.there \/ out = {} THEN granted
       ELSE [granted EXCEPT ![<<p, FALSE>>] = freed,
                            ![<<p, TRUE>>] = IF kept.amount = None THEN NoGrant ELSE kept]

Granting(g, k, x, until) ==
    [g EXCEPT !.there = TRUE, !.amount = Plus(@, k, x), !.expire = [g.expire EXCEPT ![k] = until]]
\* The owner's side and the receiver's; a receiver gives back no more than it has.
Lending(r, k, x) == [r EXCEPT !.frozen2 = Plus(@, k, -x), !.delegated2 = Plus(@, k, x)]
Borrowing(r, k, x) == [r EXCEPT !.acquired2 = Plus(@, k, x)]
Returning(r, k, x) == [r EXCEPT !.acquired2 = Plus(@, k, IF r.acquired2[k] < x THEN -r.acquired2[k] ELSE -x)]

DelegateResource(p, k, x, locked, period) ==
    /\ v2Open /\ k \in Shared /\ x >= Trx /\ x <= acct[p[1]].frozen2[k] /\ Operation
    /\ locked => (granted[<<p, TRUE>>].there => period >= granted[<<p, TRUE>>].expire[k] - stakeNow)
    /\ granted' = [Unlocked(p) EXCEPT ![<<p, locked>>] = Granting(@, k, x, IF locked THEN stakeNow + period ELSE 0)]
    /\ acct' = [acct EXCEPT ![p[1]] = Lending(@, k, x), ![p[2]] = Borrowing(@, k, x)]
    /\ index2' = index2 \cup {p} /\ UNCHANGED <<legacy, index1, weight>> /\ Settled

\* Undelegation that counts a lock that still holds.
UnDelegateResourceEarly(p, k, x) ==
    /\ v2Open /\ k \in Shared /\ granted[<<p, TRUE>>].amount[k] + granted[<<p, FALSE>>].amount[k] >= x /\ Operation
    /\ granted' = [granted EXCEPT ![<<p, FALSE>>].amount[k] = @ - x]
    /\ acct' = [acct EXCEPT ![p[1]] = Lending(@, k, -x), ![p[2]] = Returning(@, k, x)]
    /\ index2' = index2 \ {p} /\ UNCHANGED <<legacy, index1, weight>> /\ Settled

\* The unlocked record and what expired of the locked one; the index goes with the last record.
Available(p, k) ==
    granted[<<p, FALSE>>].amount[k] + IF k \in Expired(granted[<<p, TRUE>>]) THEN granted[<<p, TRUE>>].amount[k] ELSE 0
UnDelegateResource(p, k, x) ==
    /\ v2Open /\ k \in Shared /\ Available(p, k) >= x /\ Operation
    /\ LET u == [Unlocked(p)[<<p, FALSE>>] EXCEPT !.amount = Plus(@, k, -x)] IN
        /\ granted' = [Unlocked(p) EXCEPT ![<<p, FALSE>>] = IF u.amount = None THEN NoGrant ELSE [u EXCEPT !.there = TRUE]]
        /\ index2' = IF u.amount = None /\ ~Unlocked(p)[<<p, TRUE>>].there THEN index2 \ {p} ELSE index2
    /\ acct' = [acct EXCEPT ![p[1]] = Lending(@, k, -x), ![p[2]] = Returning(@, k, x)]
    /\ UNCHANGED <<legacy, index1, weight>> /\ Settled

-----------------------------------------------------------------------------
\* The first version, closed to new stake once the second is open.
FreezeBalance(a, k, x) ==
    /\ ~v2Open /\ KindAllowed(k) /\ x >= Trx /\ x <= acct[a].balance /\ Operation
    /\ LET r == Remembered(acct[a]) IN
        LET s == [r EXCEPT !.frozen = Plus(@, k, x), !.expire = [r.expire EXCEPT ![k] = stakeNow + FrozenTime], !.balance = @ - x] IN
        acct' = [acct EXCEPT ![a] = s] /\ weight' = LegacyWeighed(k, r.frozen[k], s.frozen[k], x)
    /\ Grants /\ Settled
Acquiring(r, k, x) == [r EXCEPT !.acquired = Plus(@, k, x)]
FreezeBalanceFor(p, k, x) ==
    /\ ~v2Open /\ k \in Shared /\ x >= Trx /\ x <= acct[p[1]].balance /\ Operation
    /\ LET r == Remembered(acct[p[1]]) IN
        /\ acct' = [acct EXCEPT ![p[1]] = [r EXCEPT !.delegated = Plus(@, k, x), !.balance = @ - x], ![p[2]] = Acquiring(@, k, x)]
        /\ weight' = LegacyWeighed(k, r.frozen[k], r.frozen[k], x)
    /\ legacy' = [legacy EXCEPT ![p] = Granting(@, k, x, stakeNow + FrozenTime)]
    /\ index1' = index1 \cup {p} /\ UNCHANGED <<granted, index2>> /\ Settled
\* Both forget the votes, unless the new model has already set the old power aside.
Forgotten(r, k) ==
    LET s == IF ~newModel \/ r.oldPower # -1 \/ k = "power" THEN Unvoted(r) ELSE r
    IN IF newModel THEN [s EXCEPT !.oldPower = -1] ELSE s
UnfreezeBalance(a, k) ==
    /\ KindAllowed(k) /\ acct[a].frozen[k] > 0 /\ acct[a].expire[k] <= stakeNow /\ Operation
    /\ LET r == Remembered(acct[a]) x == acct[a].frozen[k] IN
        /\ acct' = [acct EXCEPT ![a] = Forgotten([r EXCEPT !.frozen = Plus(@, k, -x), !.expire = [r.expire EXCEPT ![k] = 0], !.balance = @ + x], k)]
        /\ weight' = LegacyWeighed(k, x, 0, -x)
    /\ Grants /\ Settled
\* remove_indexes knows only the keys of the list form, which the optimization replaced.
UnfreezeBalanceOf(p, k) ==
    /\ k \in Shared /\ legacy[p].there /\ legacy[p].expire[k] <= stakeNow
    /\ acct[p[2]].acquired[k] >= legacy[p].amount[k] /\ Operation
    /\ LET r == Remembered(acct[p[1]]) x == legacy[p].amount[k] rest == [legacy[p] EXCEPT !.amount = Plus(@, k, -x)] IN
        /\ acct' = [acct EXCEPT ![p[1]] = Forgotten([r EXCEPT !.delegated = Plus(@, k, -x), !.balance = @ + x], k),
                                ![p[2]] = Acquiring(@, k, -x)]
        /\ weight' = LegacyWeighed(k, x, 0, -x)
        /\ legacy' = [legacy EXCEPT ![p] = IF rest.amount = None THEN NoGrant ELSE rest]
        /\ index1' = IF rest.amount = None /\ ~DelegateOptimization THEN index1 \ {p} ELSE index1
    /\ UNCHANGED <<granted, index2>> /\ Settled

\* VoteWitness: all votes are cast anew, backed by the account's power.
VoteWitness(a, n) ==
    /\ n > 0 /\ n * Trx <= Power(acct[a]) /\ Operation
    /\ acct' = [acct EXCEPT ![a] = [Remembered(acct[a]) EXCEPT !.votes = n]] /\ UNCHANGED weight /\ Grants /\ Settled
\* WithdrawBalance; its interval between withdrawals and its refusal of guard
\* representatives only narrow when it is taken.
WithdrawBalance(a) ==
    /\ acct[a].allowance > 0 /\ Operation
    /\ acct' = [acct EXCEPT ![a] = [acct[a] EXCEPT !.balance = @ + acct[a].allowance, !.allowance = 0]]
    /\ UNCHANGED weight /\ Grants /\ Settled

\* Blocks move the time on; the committee opens the second version and the new model.
StakeTick == stakeNow < MaxStakeTime /\ stakeNow' = stakeNow + 1 /\ UNCHANGED <<acct, weight, v2Open, newModel, stakeOps>> /\ Grants
Activate ==
    /\ \/ ~v2Open /\ v2Open' = TRUE /\ UNCHANGED newModel
       \/ ~newModel /\ newModel' = TRUE /\ UNCHANGED v2Open
    /\ UNCHANGED <<acct, weight, stakeNow, stakeOps>> /\ Grants

StakeNext ==
    \/ \E a \in Accounts, k \in Kinds, x \in Amounts : FreezeBalanceV2(a, k, x) \/ UnfreezeBalanceV2(a, k, x) \/ FreezeBalance(a, k, x)
    \/ \E a \in Accounts : WithdrawExpireUnfreeze(a) \/ CancelAllUnfreezeV2(a) \/ WithdrawBalance(a) \/ \E n \in Amounts : VoteWitness(a, n)
    \/ \E p \in Pairs, k \in Kinds, x \in Amounts :
          \/ \E locked \in BOOLEAN, period \in LockPeriods : DelegateResource(p, k, x, locked, period)
          \/ UnDelegateResource(p, k, x) \/ FreezeBalanceFor(p, k, x)
    \/ \E a \in Accounts, k \in Kinds : UnfreezeBalance(a, k)
    \/ \E p \in Pairs, k \in Kinds : UnfreezeBalanceOf(p, k)
    \/ StakeTick \/ Activate

-----------------------------------------------------------------------------
StakeTypeOK ==
    \A a \in Accounts : LET r == acct[a] IN
        /\ {r.balance, r.allowance, r.votes} \subseteq Nat /\ r.oldPower >= -1 /\ SumFunction(r.unfrozen) <= MaxUnfreezing
        /\ \A k \in Kinds : {r.frozen[k], r.delegated[k], r.acquired[k], r.frozen2[k], r.delegated2[k], r.acquired2[k]} \subseteq Nat

\* What an account holds free, staked, delegated and unfreezing is what it started with.
Worth(r) == r.balance + r.allowance + SumOf(r.unfrozen) + SumFunction([k \in Kinds |-> StakeIn(r, k)])
StakeConserved == \A a \in Accounts : Worth(acct[a]) = Stake[a] + Allowance[a]

\* What is lent between each pair, locked and unlocked, in the second version and in the first.
Lent2 == [p \in Pairs |-> [k \in Kinds |-> granted[<<p, TRUE>>].amount[k] + granted[<<p, FALSE>>].amount[k]]]
Lent1 == [p \in Pairs |-> legacy[p].amount]
LentBy(a, lent, k) == SumFunction([p \in {q \in Pairs : q[1] = a} |-> lent[p][k]])
LentTo(a, lent, k) == SumFunction([p \in {q \in Pairs : q[2] = a} |-> lent[p][k]])

\* What an owner has lent, what a receiver has acquired and the records between them are the
\* same amounts, and a pair is in the index while it has a record.
DelegationsAgree ==
    /\ \A a \in Accounts, k \in Shared :
        /\ acct[a].delegated2[k] = LentBy(a, Lent2, k) /\ acct[a].acquired2[k] = LentTo(a, Lent2, k)
        /\ acct[a].delegated[k] = LentBy(a, Lent1, k) /\ acct[a].acquired[k] = LentTo(a, Lent1, k)
    /\ index2 = {p \in Pairs : granted[<<p, TRUE>>].there \/ granted[<<p, FALSE>>].there}
    /\ DelegateOptimization \/ index1 = {p \in Pairs : legacy[p].there}

(* No sequence of freezes, unfreezes, cancellations, delegations and withdrawals makes *)
(* or loses TRX, and the two sides of every delegation agree with the records and the  *)
(* index between them (the execute_in of every staking actuator, unlock_expired,       *)
(* remove_indexes, remove_v2_indexes).                                                  *)
StakeLedger == StakeConserved /\ DelegationsAgree

(* Votes stay backed: through unfreezing, scaling, delegation and the switch to the new *)
(* resource model an account never keeps more votes than whole TRX of its power         *)
(* (scale_legacy_votes, clear_votes, initialize_old_tron_power).                        *)
VotesBacked == \A a \in Accounts : acct[a].votes * Trx <= Power(acct[a])
=============================================================================
