----------------------------- MODULE ForkSwitch -----------------------------
(***************************************************************************)
(* Fork choice and reorganization of the execution actor: BlockManager     *)
(* (block_manager.rs), the Khaos block graph (khaos.rs), the pending pool  *)
(* (execution/pending.rs), the duplicate cache (cache.rs) and              *)
(* ForkManager::switch (fork_manager.rs), driven the way accept_block of   *)
(* chain_manager.rs drives them.  Whether the checkpoint that ends a       *)
(* request reaches the disk is the subject of ChainManager.                *)
(*                                                                         *)
(* The actor serves one request at a time, but the committed HEAD can be   *)
(* read by other threads between any two checkpoint operations, so a       *)
(* switch takes one step per block rewound or applied.                     *)
(*                                                                         *)
(* A block is a model value with a parent, a set of transactions and a     *)
(* verdict (Bad: header, signature, slot or execution checks refuse it).   *)
(* Runs says which transactions the node admits and executes on which      *)
(* state: reference block, expiration, balances and bandwidth depend on    *)
(* the head and on the transactions already pending on top of it.          *)
(* Capacity eviction of the graph is left out: Blocks is far below         *)
(* KhaosLimits.                                                            *)
(***************************************************************************)
EXTENDS Integers, Sequences, FiniteSets, SequencesExt

CONSTANTS
    Blocks,      \* the blocks peers may deliver, with Genesis
    Genesis,
    Parent,      \* Parent[b] for every b but Genesis
    Height,      \* block numbers
    Bad,         \* blocks that fail validation or execution
    Txs,         \* transactions
    TxOf,        \* the transactions of each block
    Runs,        \* <<t, b, S>>: t executes after block b and the pending effects of S
    MaxPending   \* PendingLimits.maximum

Linkable == Blocks \ {Genesis}

ASSUME TreeAssumption ==
    /\ Genesis \in Blocks /\ Parent \in [Linkable -> Blocks] /\ Height \in [Blocks -> Nat]
    /\ Height[Genesis] = 0 /\ \A b \in Linkable : Height[b] = Height[Parent[b]] + 1
ASSUME PayloadAssumption ==
    /\ Bad \subseteq Linkable /\ TxOf \in [Blocks -> SUBSET Txs] /\ TxOf[Genesis] = {}
    /\ Runs \subseteq Txs \X Blocks \X SUBSET Txs
    /\ MaxPending \in Nat

VARIABLES
    history,   \* the committed checkpoints, oldest first: the canonical chain
    linked,    \* KhaosDatabase.mini_store in insertion order
    alive,     \* linked blocks whose weak parent pointer still resolves
    orphans,   \* KhaosDatabase.mini_unlinked_store
    khead,     \* KhaosDatabase.head
    pool,      \* the transactions queued in PendingPool
    executed,  \* the transactions whose effects the pending session holds
    cache,     \* TransactionCache.entries
    job        \* the fork switch in progress

vars == <<history, linked, alive, orphans, khead, pool, executed, cache, job>>

Tip == Last(history)
Members == ToSet(linked)
ChainTxs(chain) == UNION {TxOf[chain[i]] : i \in DOMAIN chain}

\* The chain from Genesis to b.
PathTo[b \in Blocks] == IF b = Genesis THEN <<Genesis>> ELSE Append(PathTo[Parent[b]], b)

\* The length of the chain two heads have in common.
Fork(p, q) == Cardinality({i \in DOMAIN p : i <= Len(q) /\ SubSeq(p, 1, i) = SubSeq(q, 1, i)})

NoSwitch == [pc |-> "idle", block |-> Genesis, new |-> <<>>, done |-> 0, base |-> 0,
             before |-> <<>>, pool |-> {}, cache |-> {}]
Idle == job.pc = "idle"

Init ==
    /\ history = <<Genesis>> /\ linked = <<Genesis>> /\ alive = {} /\ orphans = {}
    /\ khead = Genesis
    /\ pool = {} /\ executed = {} /\ cache = {}
    /\ job = NoSwitch

-----------------------------------------------------------------------------
(* The transaction processor. *)

\* process_in_session refuses what the cache or the Transaction store below the
\* session already holds.
Duplicate(t, ids, held) == t \in ids \cup held

\* Mutant: only the cache is asked, never the durable store.
ExecutesByCache(b, ids, chain) ==
    b \notin Bad /\ \A t \in TxOf[b] : ~Duplicate(t, ids, {})

\* apply_block_mode: the block passes its checks and all its transactions execute.
Executes(b, ids, chain) ==
    b \notin Bad /\ \A t \in TxOf[b] : ~Duplicate(t, ids, ChainTxs(chain))

\* A pooled transaction is admitted and executes on the chain's state with the
\* effects of S on top.
Goes(t, S, ids, chain) == ~Duplicate(t, ids, ChainTxs(chain)) /\ <<t, Last(chain), S>> \in Runs

\* The orders a set of queued transactions may be replayed in; the queues' own
\* order is one of them.
Orders(ts) == {at \in [ts -> 1 .. Cardinality(ts)] : \A t, u \in ts : at[t] = at[u] => t = u}

\* replay_speculative(strict = false): what does not execute on top of what was kept
\* before it is dropped.
Replays(ts, ids, chain) ==
    {kept \in SUBSET ts : \E at \in Orders(ts) : \A t \in ts :
        t \in kept <=> Goes(t, {u \in kept : at[u] < at[t]}, ids, chain)}

\* replay_speculative(strict = true): the first transaction that does not execute
\* stops the replay; the queues keep all, the session what was replayed so far.
StrictReplays(ts, ids, chain) ==
    {done \in SUBSET ts : \E at \in Orders(ts) : \A t \in ts :
        t \in done <=> \A u \in ts :
            at[u] <= at[t] => Goes(u, {v \in ts : at[v] < at[u]}, ids, chain)}

\* PendingPool::admit of broadcast_raw: executed in a child of the pending session,
\* queued, and entered in the cache.
Broadcast(t) ==
    /\ Idle /\ t \notin pool /\ Cardinality(pool) < MaxPending
    /\ ~Duplicate(t, cache, ChainTxs(history) \cup executed) /\ <<t, Tip, executed>> \in Runs
    /\ pool' = pool \cup {t} /\ executed' = executed \cup {t} /\ cache' = cache \cup {t}
    /\ UNCHANGED <<history, linked, alive, orphans, khead, job>>

\* An entry outlives ttl_millis and goes on the cache's next use.
CacheExpire(t) ==
    /\ Idle /\ t \in cache
    /\ cache' = cache \ {t}
    /\ UNCHANGED <<history, linked, alive, orphans, khead, pool, executed, job>>

-----------------------------------------------------------------------------
(* The Khaos graph. *)

\* KhaosStore::highest_first: of the highest blocks, the first one inserted.
HighestFirst(ls) ==
    LET top == {i \in DOMAIN ls : \A j \in DOMAIN ls : Height[ls[j]] <= Height[ls[i]]}
    IN  ls[CHOOSE i \in top : \A j \in top : i <= j]

\* What is left of the graph, and of the parent pointers, without the blocks of S.
Without(ls, S) ==
    LET kept[i \in 0 .. Len(ls)] ==
            IF i = 0 THEN <<>>
            ELSE IF ls[i] \in S THEN kept[i - 1] ELSE Append(kept[i - 1], ls[i])
    IN  kept[Len(ls)]
AliveWithout(S) == {b \in alive \ S : Parent[b] \notin S}

\* get_branch climbs from both heads along live parent pointers.
BranchResolves(b, ptrs) ==
    LET n == Fork(PathTo[b], history)
    IN  /\ \A i \in n + 1 .. Len(PathTo[b]) : PathTo[b][i] \in ptrs
        /\ \A i \in n + 1 .. Len(history) : history[i] \in ptrs
        /\ Tip \in Members

\* remove_bad_branch walks from b down through every ancestor the graph holds.
BadBranch(b, ls) ==
    {PathTo[b][i] : i \in {i \in DOMAIN PathTo[b] :
        \A j \in i .. Len(PathTo[b]) : PathTo[b][j] \in ToSet(ls) \cup orphans}}

-----------------------------------------------------------------------------
(* accept_block. *)

\* apply_block: a block the graph or the Block store holds is a duplicate, orphans too.
Applies(b) ==
    b \notin Members \cup orphans \cup ToSet(history) /\ Executes(b, cache, history)

\* The parent is the Khaos head: suspend the pool, apply, and replay the pool onto
\* the new block, or put it back strictly when the block is refused.
ApplyDirect(b) ==
    /\ Idle /\ b \in Linkable /\ Parent[b] = khead
    /\ \/ /\ Applies(b)
          /\ history' = Append(history, b)
          /\ linked' = Append(linked, b) /\ alive' = alive \cup {b} /\ khead' = b
          /\ cache' = cache \cup TxOf[b]
          /\ pool' \in Replays(pool, cache', history')
          /\ executed' = pool'
       \/ /\ ~Applies(b)
          /\ executed' \in StrictReplays(pool, cache, history)
          /\ UNCHANGED <<history, linked, alive, khead, pool, cache>>
    /\ UNCHANGED <<orphans, job>>

\* retain_competing_block without a linked parent: kept as an orphan, for good.
RetainOrphan(b) ==
    /\ Idle /\ b \in Linkable \ (Members \cup orphans)
    /\ Parent[b] # khead /\ Parent[b] \notin Members
    /\ orphans' = orphans \cup {b}
    /\ UNCHANGED <<history, linked, alive, khead, pool, executed, cache, job>>

Competes(b) ==
    /\ Idle /\ b \in Linkable \ (Members \cup orphans)
    /\ Parent[b] # khead /\ Parent[b] \in Members

\* Mutant: a block as high as the head becomes the head.
RetainSiblingAsHead(b) ==
    /\ Competes(b) /\ Height[b] <= Height[khead]
    /\ linked' = Append(linked, b) /\ alive' = alive \cup {b}
    /\ khead' = IF Height[b] = Height[khead] THEN b ELSE khead
    /\ UNCHANGED <<history, orphans, pool, executed, cache, job>>

\* A block no higher than the head is only retained.
RetainSibling(b) ==
    /\ Competes(b) /\ Height[b] <= Height[khead]
    /\ linked' = Append(linked, b) /\ alive' = alive \cup {b}
    /\ UNCHANGED <<history, orphans, khead, pool, executed, cache, job>>

\* switch, with no path to a common ancestor: the branch is removed and the head
\* falls back to the highest block left.
RefuseBranch(b) ==
    /\ Competes(b) /\ Height[b] > Height[khead]
    /\ ~BranchResolves(b, alive \cup {b})
    /\ LET S == BadBranch(b, Append(linked, b))
       IN  /\ linked' = Without(linked, S)
           /\ alive' = AliveWithout(S)
           /\ orphans' = orphans \ S
           /\ khead' = HighestFirst(Without(linked, S))
    /\ UNCHANGED <<history, pool, executed, cache, job>>

\* Mutant: the cache keeps the transactions of the branch that is given up.
BeginSwitchCached(b) ==
    /\ Competes(b) /\ Height[b] > Height[khead]
    /\ BranchResolves(b, alive \cup {b})
    /\ linked' = Append(linked, b) /\ alive' = alive \cup {b}
    /\ khead' = Tip
    /\ LET n == Fork(PathTo[b], history)
       IN  job' = [pc |-> IF n = Len(history) THEN "apply" ELSE "rewind", block |-> b,
                   new |-> SubSeq(PathTo[b], n + 1, Len(PathTo[b])), done |-> 0, base |-> n,
                   before |-> history, pool |-> pool, cache |-> cache]
    /\ executed' = {}
    /\ UNCHANGED <<history, orphans, pool, cache>>

\* The higher branch resolves: the pool is suspended, the cache cleared, and the
\* Khaos head set back to the canonical head.
BeginSwitch(b) ==
    /\ Competes(b) /\ Height[b] > Height[khead]
    /\ BranchResolves(b, alive \cup {b})
    /\ linked' = Append(linked, b) /\ alive' = alive \cup {b}
    /\ khead' = Tip
    /\ LET n == Fork(PathTo[b], history)
       IN  job' = [pc |-> IF n = Len(history) THEN "apply" ELSE "rewind", block |-> b,
                   new |-> SubSeq(PathTo[b], n + 1, Len(PathTo[b])), done |-> 0, base |-> n,
                   before |-> history, pool |-> pool, cache |-> cache]
    /\ executed' = {} /\ cache' = {}
    /\ UNCHANGED <<history, orphans, pool>>

-----------------------------------------------------------------------------
(* ForkManager::switch, one block at a time. *)

\* Mutant: the common ancestor is rewound as well.
RewindAncestor ==
    /\ job.pc = "rewind"
    /\ history' = Front(history) /\ khead' = IF khead = Genesis THEN khead ELSE Parent[khead]
    /\ job' = [job EXCEPT !.pc = IF Len(history') < job.base THEN "apply" ELSE "rewind"]
    /\ UNCHANGED <<linked, alive, orphans, pool, executed, cache>>

\* rewind_checkpoint and khaos.pop of the canonical head.
Rewind ==
    /\ job.pc = "rewind"
    /\ history' = Front(history) /\ khead' = Parent[khead]
    /\ job' = [job EXCEPT !.pc = IF Len(history') = job.base THEN "apply" ELSE "rewind"]
    /\ UNCHANGED <<linked, alive, orphans, pool, executed, cache>>

\* Mutant: a block that does not execute is tried again.
ApplyNextRetry ==
    /\ job.pc = "apply" /\ job.done < Len(job.new)
    /\ LET b == job.new[job.done + 1]
       IN  /\ Executes(b, cache, history)
           /\ history' = Append(history, b) /\ khead' = b
           /\ cache' = cache \cup TxOf[b]
           /\ job' = [job EXCEPT !.done = @ + 1]
    /\ UNCHANGED <<linked, alive, orphans, pool, executed>>

\* apply_fork_block of the next block of the new branch.
ApplyNext ==
    /\ job.pc = "apply" /\ job.done < Len(job.new)
    /\ LET b == job.new[job.done + 1]
       IN  \/ /\ Executes(b, cache, history)
              /\ history' = Append(history, b) /\ khead' = b
              /\ cache' = cache \cup TxOf[b]
              /\ job' = [job EXCEPT !.done = @ + 1]
           \/ /\ ~Executes(b, cache, history)
              /\ job' = [job EXCEPT !.pc = "retract"]
              /\ UNCHANGED <<history, khead, cache>>
    /\ UNCHANGED <<linked, alive, orphans, pool, executed>>

Abandoned == ChainTxs(SubSeq(job.before, job.base + 1, Len(job.before)))

\* resume_after_fork, replay_pending(false), finish_fork_requeue: what was pending
\* and what the abandoned blocks held is queued again, as far as it still executes.
FinishSwitch ==
    /\ job.pc = "apply" /\ job.done = Len(job.new)
    /\ pool' \in Replays(pool \cup Abandoned, cache, history)
    /\ executed' = pool'
    /\ job' = NoSwitch
    /\ UNCHANGED <<history, linked, alive, orphans, khead, cache>>

\* restore: the blocks applied so far are rewound, the whole branch leaves the graph.
Retract ==
    /\ job.pc = "retract" /\ job.done > 0
    /\ history' = Front(history) /\ khead' = Parent[khead]
    /\ job' = [job EXCEPT !.done = @ - 1]
    /\ UNCHANGED <<linked, alive, orphans, pool, executed, cache>>

\* Mutant: the blocks already applied are not rewound first.
DropBranchApplied ==
    /\ job.pc = "retract"
    /\ linked' = Without(linked, ToSet(job.new))
    /\ alive' = AliveWithout(ToSet(job.new))
    /\ khead' = job.before[job.base] /\ cache' = {}
    /\ job' = [job EXCEPT !.pc = "reapply"]
    /\ UNCHANGED <<history, orphans, pool, executed>>

\* Mutant: the failed branch stays in the graph.
DropNothing ==
    /\ job.pc = "retract" /\ job.done = 0
    /\ khead' = job.before[job.base] /\ cache' = {}
    /\ job' = [job EXCEPT !.pc = "reapply"]
    /\ UNCHANGED <<history, linked, alive, orphans, pool, executed>>

\* remove_blk of every block of the branch, set_head(ancestor), cache.clear.
DropBranch ==
    /\ job.pc = "retract" /\ job.done = 0
    /\ linked' = Without(linked, ToSet(job.new))
    /\ alive' = AliveWithout(ToSet(job.new))
    /\ khead' = job.before[job.base] /\ cache' = {}
    /\ job' = [job EXCEPT !.pc = "reapply"]
    /\ UNCHANGED <<history, orphans, pool, executed>>

\* The blocks executed before on the same state, so they execute again.
Reapply ==
    /\ job.pc = "reapply" /\ Len(history) < Len(job.before)
    /\ LET b == job.before[Len(history) + 1]
       IN  /\ Executes(b, cache, history)
           /\ history' = Append(history, b) /\ khead' = b
           /\ cache' = cache \cup TxOf[b]
    /\ UNCHANGED <<linked, alive, orphans, pool, executed, job>>

\* Mutant: the pool is put back before the old branch is applied again.
FinishRestoreEarly ==
    /\ job.pc = "reapply"
    /\ khead' = Last(job.before) /\ cache' = job.cache /\ pool' = job.pool
    /\ executed' \in StrictReplays(job.pool, job.cache, history)
    /\ job' = NoSwitch
    /\ UNCHANGED <<history, linked, alive, orphans>>

\* set_head(old_head), the cache and the pool as they were, strict replay.
FinishRestore ==
    /\ job.pc = "reapply" /\ Len(history) = Len(job.before)
    /\ khead' = Last(job.before) /\ cache' = job.cache /\ pool' = job.pool
    /\ executed' \in StrictReplays(job.pool, job.cache, history)
    /\ job' = NoSwitch
    /\ UNCHANGED <<history, linked, alive, orphans>>

-----------------------------------------------------------------------------
Accept(b) ==
    \/ ApplyDirect(b) \/ RetainOrphan(b) \/ RetainSibling(b)
    \/ RefuseBranch(b) \/ BeginSwitch(b)

SwitchStep ==
    \/ Rewind \/ ApplyNext \/ FinishSwitch
    \/ Retract \/ DropBranch \/ Reapply \/ FinishRestore

Next ==
    \/ \E b \in Blocks : Accept(b)
    \/ \E t \in Txs : Broadcast(t) \/ CacheExpire(t)
    \/ SwitchStep

\* The actor thread runs a request it has started to its end.
Spec == Init /\ [][Next]_vars /\ WF_vars(SwitchStep)

-----------------------------------------------------------------------------
TypeOK ==
    /\ history \in Seq(Blocks) /\ history # <<>>
    /\ linked \in Seq(Blocks) /\ alive \subseteq Blocks /\ orphans \subseteq Blocks
    /\ khead \in Blocks
    /\ pool \subseteq Txs /\ executed \subseteq Txs /\ cache \subseteq Txs
    /\ job.pc \in {"idle", "rewind", "apply", "retract", "reapply"}

\* Between requests the head of the block graph, against which the next block is
\* judged, is the head of the committed state it will be executed on.
HeadAgreement == Idle => khead = Tip

\* Whatever instant HEAD is read at, also inside a switch, the committed chain is a
\* path of the block tree from Genesis.
CanonicalPath == history = PathTo[Tip]

\* No transaction takes effect twice: not in two blocks of the canonical chain, and
\* not in the pending session on top of a chain that holds it.
EffectOnce ==
    /\ \A i, j \in DOMAIN history : i # j => TxOf[history[i]] \cap TxOf[history[j]] = {}
    /\ Idle => executed \cap ChainTxs(history) = {}

\* Longest chain: between requests no block retained in the graph is higher than
\* the canonical head, so every higher branch was switched to or removed.
LongestChain == Idle => \A b \in Members : Height[b] <= Height[Tip]

\* A fork switch is all or nothing: it ends on the new branch or on exactly the
\* chain it started from.
SwitchAtomic ==
    [][job.pc # "idle" /\ job'.pc = "idle" => history' \in {job.before, PathTo[job.block]}]_vars

\* "Successful fork replay drops transactions no longer valid on the replacement
\* branch" (pending.rs), and those only: what was pending or in the abandoned blocks
\* is pending again or in the new branch, unless the new head's state, with some of the
\* kept transactions on top, refuses it.  A switch that is undone loses nothing.
SwitchKeepsTransactions ==
    [][job.pc # "idle" /\ job'.pc = "idle" =>
        \A t \in (job.pool \cup ChainTxs(job.before)) \ (pool' \cup ChainTxs(history')) :
            history' # job.before /\ \E S \in SUBSET pool' : <<t, Last(history'), S>> \notin Runs]_vars

\* A switch always ends, on one chain or the other.
SwitchEnds == ~Idle ~> Idle

\* "failed-fork restoration is strict because the original speculative state must be
\* reconstructed exactly" (pending.rs): between requests the pending session holds the
\* effects of every queued transaction.
PoolExecuted == Idle => executed = pool
=============================================================================
