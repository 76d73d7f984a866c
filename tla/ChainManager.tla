---------------------------- MODULE ChainManager ----------------------------
(***************************************************************************)
(* A node from start to stop: RuntimeFactory::prepare (runtime.rs), the    *)
(* execution actor and its CanonicalChainManager (chain_manager.rs), the   *)
(* two-phase checkpoint publication (checkpoint.rs) over the write-ahead   *)
(* log (tron-storage), and the Solidity replica that feeds the actor       *)
(* (solidity_replica.rs).  Crashes and I/O errors may happen between any   *)
(* two durable writes.                                                     *)
(*                                                                         *)
(* Only direct extensions of the head are ever applied here: a replica     *)
(* does not fork, and a full node keeps no block (see RollbackOnFault), so *)
(* a chain is its height and Khaos the height of its head.  What a request *)
(* does to the pending pool is ForkSwitch; here it matters that a full     *)
(* node holds the pending session open.                                    *)
(***************************************************************************)
EXTENDS Integers, FiniteSets

CONSTANTS
    Modes,       \* the deployment modes to consider
    MaxHeight,   \* the trust node's last solid block, the last block peers know
    MaxStack,    \* CheckpointLimits.max_stack
    Txs,         \* transactions
    MaxPending   \* PendingLimits.maximum

ASSUME ModeAssumption == Modes \subseteq {"full", "replica"}
ASSUME SizeAssumption == MaxHeight \in Nat /\ MaxStack \in Nat \ {0} /\ MaxPending \in Nat

None == -1
Heights == None .. MaxHeight

VARIABLES
    mode,      \* DeploymentMode
    healthy,   \* from here on nothing crashes, fails to write or is stopped
    disk,      \* the durable store
    poisoned,  \* RustLog.poisoned: a failed append could not be rolled back
    node,      \* where the process is between start and stop
    head,      \* the last committed checkpoint of the SessionManager
    khaos,     \* the head of the block graph
    job,       \* the checkpoint publication in progress
    task,      \* the replica worker
    api,       \* the block of the cursors the APIs serve
    followed,  \* the last block event subscribers were told of
    pool,      \* the pending transactions
    cache      \* TransactionCache: its ids, and whether last_now is i64::MAX

vars == <<mode, healthy, disk, poisoned, node, head, khaos, job, task, api, followed, pool, cache>>
memory == <<head, khaos, task, api, pool, cache>>

NoJob == [why |-> "none", step |-> "stage"]
Persisting(why) == [why |-> why, step |-> "stage"]
FreshCache == [ids |-> {}, atMax |-> FALSE]

Init ==
    /\ mode \in Modes /\ healthy = FALSE
    /\ disk = [genesis |-> FALSE, current |-> None, staged |-> None, solid |-> None]
    /\ poisoned = FALSE /\ node = "down"
    /\ head = None /\ khaos = None /\ job = NoJob /\ task = "off"
    /\ api = None /\ followed = None /\ pool = {} /\ cache = FreshCache

\* The chain the next start would rebuild: recover_store prefers the staged stack.
Recovered(d) == IF d.staged # None THEN d.staged ELSE d.current

-----------------------------------------------------------------------------
(* Start. *)

\* The store is opened; recover_and_relink finishes an interrupted publication and
\* rebuilds the checkpoint history.
Boot ==
    /\ node = "down"
    /\ disk' = [disk EXCEPT !.current = Recovered(disk), !.staged = None]
    /\ head' = Recovered(disk)
    /\ node' = IF head' = None THEN "genesis" ELSE "reconstruct"
    /\ poisoned' = FALSE
    /\ UNCHANGED <<mode, healthy, khaos, job, task, api, followed, pool, cache>>

\* No checkpoint yet: the genesis rows are written if they are missing, and the
\* genesis checkpoint is recorded and persisted.
InitializeGenesis ==
    /\ node = "genesis" /\ job = NoJob
    /\ disk' = [disk EXCEPT !.genesis = TRUE, !.solid = IF disk.genesis THEN @ ELSE 0]
    /\ head' = 0 /\ job' = Persisting("genesis")
    /\ UNCHANGED <<mode, healthy, poisoned, node, khaos, task, api, followed, pool, cache>>

\* LATEST_BLOCK_HEADER_* as DurableStore::get sees them.  Genesis wrote them; blocks
\* write them to their overlay, and no overlay is flushed to the root.
RootHead == 0

\* CursorSet::reconstruct wants the root's head marker to be the last checkpoint.
\* Then BlockManager::reopen rebuilds Khaos, a full node opens its pending session,
\* and a replica starts its worker.
Reconstruct ==
    /\ node = "reconstruct"
    /\ \/ /\ head = RootHead
          /\ node' = "up" /\ khaos' = head /\ api' = head
          /\ task' = IF mode = "replica" THEN "start" ELSE "off"
       \/ /\ head # RootHead
          /\ node' = "refused" /\ UNCHANGED <<khaos, api, task>>
    /\ UNCHANGED <<mode, healthy, disk, poisoned, head, job, followed, pool, cache>>

-----------------------------------------------------------------------------
(* CheckpointStack::persist. *)

\* A batch commit under an I/O error: the record is rolled back, or the rollback
\* fails too and the record may or may not be on disk.
WriteFails(after) ==
    \/ ~healthy /\ ~poisoned /\ disk' = disk /\ poisoned' \in BOOLEAN
    \/ ~healthy /\ ~poisoned /\ disk' = after /\ poisoned' = TRUE
    \/ poisoned /\ UNCHANGED <<disk, poisoned>>

\* checkpoint_state refuses while a session is active, and the pending session of a
\* full node is closed only for the stop; encode refuses a longer history.
Refused == (mode = "full" /\ job.why = "block") \/ head + 1 > MaxStack

\* Mutant: the batch that ends a publication only removes the staged stack.
WrittenWithoutCurrent ==
    IF job.step = "stage" THEN [disk EXCEPT !.staged = head]
                          ELSE [disk EXCEPT !.staged = None]

\* STAGED and its digest first, then CURRENT in one batch with their removal.
Written ==
    IF job.step = "stage" THEN [disk EXCEPT !.staged = head]
                          ELSE [disk EXCEPT !.current = head, !.staged = None]

\* Leaving the process: everything in memory goes.
Exit ==
    /\ node' = "down" /\ poisoned' = FALSE /\ job' = NoJob
    /\ head' = None /\ khaos' = None /\ task' = "off" /\ api' = None
    /\ pool' = {} /\ cache' = FreshCache

\* What follows a publication: the start goes on, the block's events are due, or
\* the process ends.
Done ==
    \/ /\ job.why = "genesis" /\ node' = "reconstruct" /\ job' = NoJob
       /\ UNCHANGED <<poisoned, memory>>
    \/ /\ job.why = "block" /\ job' = [job EXCEPT !.step = "notify"]
       /\ UNCHANGED <<poisoned, node, memory>>
    \/ job.why = "stop" /\ Exit

\* Mutant: rollback_direct leaves the block in Khaos.
RollbackKeepingBlock ==
    /\ head' = head - 1 /\ job' = NoJob
    /\ task' = IF task = "wait" THEN "fetch" ELSE task
    /\ UNCHANGED <<node, khaos, api, pool, cache>>

\* rollback_direct: the checkpoint is rewound, the block leaves Khaos, the cache and
\* the pool are as before; the worker gets an error and retries.
Rollback ==
    /\ head' = head - 1 /\ khaos' = khaos - 1 /\ job' = NoJob
    /\ task' = IF task = "wait" THEN "fetch" ELSE task
    /\ UNCHANGED <<node, api, pool, cache>>

PersistWrites ==
    /\ job.why # "none" /\ job.step # "notify" /\ ~poisoned
    /\ job.step = "stage" => ~Refused
    /\ disk' = Written
    /\ \/ /\ job.step = "stage" /\ job' = [job EXCEPT !.step = "publish"]
          /\ UNCHANGED <<poisoned, node, memory>>
       \/ job.step = "publish" /\ Done
    /\ UNCHANGED <<mode, healthy, followed>>

\* A start or a stop whose persist fails ends the process.
PersistFails ==
    /\ job.why # "none" /\ job.step # "notify"
    /\ \/ /\ job.why = "block" /\ Rollback
          /\ \/ job.step = "stage" /\ Refused /\ UNCHANGED <<disk, poisoned>>
             \/ WriteFails(Written)
       \/ /\ job.why # "block" /\ Exit
          /\ \/ job.step = "stage" /\ Refused /\ UNCHANGED disk
             \/ (~healthy \/ poisoned) /\ disk' \in {disk, IF poisoned THEN disk ELSE Written}
    /\ UNCHANGED <<mode, healthy, followed>>

-----------------------------------------------------------------------------
(* The requests the actor serves. *)

Serving == node = "up" /\ job = NoJob

\* Mutant: the next block but one is taken too.
ApplyLeaping ==
    /\ Serving /\ khaos < MaxHeight /\ khaos = head
    /\ \E n \in {1, 2} : head' = head + n /\ khaos' = khaos + n
    /\ job' = Persisting("block")

\* Mutant: the events of a block go out with its application.
ApplyUnlogged ==
    /\ Serving /\ khaos < MaxHeight /\ khaos = head
    /\ head' = head + 1 /\ khaos' = khaos + 1
    /\ job' = [why |-> "block", step |-> "notify"]

\* apply_block of the valid next block of the chain: committed with its checkpoint
\* and put into Khaos, then persisted.  A block Khaos holds already is a duplicate.
Apply ==
    /\ Serving /\ khaos < MaxHeight /\ khaos = head
    /\ head' = head + 1 /\ khaos' = khaos + 1
    /\ job' = Persisting("block")

\* accept_network_block of a full node.
AcceptBlock ==
    /\ mode = "full" /\ Apply
    /\ UNCHANGED <<mode, healthy, disk, poisoned, node, task, api, followed, pool, cache>>

\* publish_applied, then the reply.
Notify ==
    /\ job.step = "notify"
    /\ followed' = IF followed < head THEN head ELSE followed
    /\ job' = NoJob
    /\ task' = IF task = "wait" THEN "mark" ELSE task
    /\ UNCHANGED <<mode, healthy, disk, poisoned, node, head, khaos, api, pool, cache>>

\* broadcast_raw: every use of the cache fails once its clock stands at i64::MAX.
Broadcast(t) ==
    /\ Serving /\ mode = "full"
    /\ t \notin pool \cup cache.ids /\ Cardinality(pool) < MaxPending /\ ~cache.atMax
    /\ pool' = pool \cup {t} /\ cache' = [cache EXCEPT !.ids = @ \cup {t}]
    /\ UNCHANGED <<mode, healthy, disk, poisoned, node, head, khaos, job, task, api, followed>>

\* known_transaction asks the cache at time i64::MAX: every entry is expired then.
Known(t) ==
    /\ Serving /\ mode = "full" /\ t \notin pool
    /\ cache' = [ids |-> {}, atMax |-> TRUE]
    /\ UNCHANGED <<mode, healthy, disk, poisoned, node, head, khaos, job, task, api, followed, pool>>

\* ChainActor::shutdown after the worker was cancelled: the pending session is
\* closed and the checkpoints persisted once more.
Shutdown ==
    /\ Serving /\ \/ task = "failed"
                  \/ task = "off" /\ ~healthy
    /\ job' = Persisting("stop") /\ task' = "off" /\ pool' = {}
    /\ UNCHANGED <<mode, healthy, disk, poisoned, node, head, khaos, api, followed, cache>>

-----------------------------------------------------------------------------
(* The replica worker. *)

\* latest_solidified and publish: the solid marker goes to the root, the API cursors
\* move; any error ends the worker and asks for a stop.
Mark ==
    /\ \/ /\ disk.solid > head
          /\ task' = "failed" /\ UNCHANGED <<disk, poisoned, api>>
       \/ /\ disk.solid <= head /\ ~poisoned
          /\ disk' = [disk EXCEPT !.solid = head] /\ api' = head /\ task' = "fetch"
          /\ UNCHANGED poisoned
       \/ /\ disk.solid < head
          /\ WriteFails([disk EXCEPT !.solid = head])
          /\ task' = "failed" /\ UNCHANGED api
    /\ UNCHANGED <<mode, healthy, node, head, khaos, job, followed, pool, cache>>

StartWorker == node = "up" /\ task = "start" /\ Mark
MarkSolid == node = "up" /\ task = "mark" /\ Mark

\* The trust node returns the block after the marker, and the actor applies it.
FetchBlock ==
    /\ mode = "replica" /\ task = "fetch" /\ Apply
    /\ task' = "wait"
    /\ UNCHANGED <<mode, healthy, disk, poisoned, node, api, followed, pool, cache>>

\* The stop cancels the worker, also while the actor applies its block.
Cancel ==
    /\ ~healthy /\ task \in {"start", "fetch", "wait", "mark"}
    /\ task' = "off"
    /\ UNCHANGED <<mode, healthy, disk, poisoned, node, head, khaos, job, api, followed, pool, cache>>

-----------------------------------------------------------------------------
Crash ==
    /\ ~healthy /\ node \notin {"down", "refused"}
    /\ Exit
    /\ UNCHANGED <<mode, healthy, disk, followed>>

\* The environment calms down for good.
CalmDown ==
    /\ ~healthy
    /\ healthy' = TRUE
    /\ UNCHANGED <<mode, disk, poisoned, node, head, khaos, job, task, api, followed, pool, cache>>

NodeStep == Boot \/ InitializeGenesis \/ Reconstruct \/ PersistWrites \/ PersistFails \/ Notify
WorkerStep == StartWorker \/ FetchBlock \/ MarkSolid
Requests == AcceptBlock \/ Shutdown \/ \E t \in Txs : Broadcast(t) \/ Known(t)
Environment == Cancel \/ Crash \/ CalmDown

Next == NodeStep \/ WorkerStep \/ Requests \/ Environment

\* The process and the worker run, and the trust node answers in the end.
Fairness == WF_vars(NodeStep) /\ WF_vars(WorkerStep)

Spec == Init /\ [][Next]_vars /\ Fairness

-----------------------------------------------------------------------------
TypeOK ==
    /\ mode \in Modes /\ healthy \in BOOLEAN /\ poisoned \in BOOLEAN
    /\ disk \in [genesis: BOOLEAN, current: Heights, staged: Heights, solid: Heights]
    /\ node \in {"down", "genesis", "reconstruct", "up", "refused"}
    /\ head \in Heights /\ khaos \in Heights /\ api \in Heights /\ followed \in Heights
    /\ job \in [why: {"none", "genesis", "block", "stop"}, step: {"stage", "publish", "notify"}]
    /\ task \in {"off", "start", "fetch", "wait", "mark", "failed"}
    /\ pool \subseteq Txs /\ cache \in [ids: SUBSET Txs, atMax: BOOLEAN]

\* Between requests the head of the block graph is the committed head, also after a
\* failed persist rolled a block back: the next block can be judged and applied.
HeadAgreement == Serving => khaos = head

\* Event subscribers are told of no block that a crash at this instant would take
\* back: what apply_direct publishes is in the chain the next start rebuilds.
EventsDurable == followed > 0 => followed <= Recovered(disk)

\* Neither the solid marker nor the cursors the APIs serve are ahead of the chain the
\* next start rebuilds, so latest_solidified never finds the marker ahead of the
\* checkpoints and no block reported solid is lost.
SolidDurable == \A h \in {disk.solid, api} : h > 0 => h <= Recovered(disk)

\* The inductive invariant behind HeadAgreement, EventsDurable and SolidDurable: a
\* publication runs only where the start or the actor began it; what a start would
\* rebuild is the head before the block in progress or the block after that; and what
\* was announced, served or marked solid is not above the head a rollback returns to.
InPublication == job.why # "none" /\ job.step # "notify"
SafeHead == IF job.why = "block" /\ job.step # "notify" THEN head - 1 ELSE head
Promised == {h \in {followed, api, disk.solid} : h > 0}

JobPlace ==
    /\ job.why = "none" => job.step = "stage"
    /\ job.step = "notify" => job.why = "block"
    /\ job.why = "genesis" => node = "genesis" /\ head = 0
    /\ job.why \in {"block", "stop"} => node = "up"
    /\ task # "off" => node = "up" /\ mode = "replica"
    /\ task \in {"start", "fetch", "mark"} => job.why = "none"
    /\ job.why = "block" => head >= 1
    /\ node \in {"reconstruct", "up"} => head >= 0
    /\ node = "up" => khaos = head

DiskFollows ==
    /\ InPublication /\ job.step = "publish" => disk.staged = head
    /\ job.step = "notify" => Recovered(disk) = head
    /\ node \in {"reconstruct", "up"} => Recovered(disk) \in {SafeHead, SafeHead + 1}
    /\ node = "genesis" => Recovered(disk) <= 0

PromisesKept ==
    \A h \in Promised : IF node \in {"reconstruct", "up"} THEN h <= SafeHead ELSE h <= Recovered(disk)

ChainInv == TypeOK /\ JobPlace /\ DiskFollows /\ PromisesKept

\* Once the disk works and nobody stops it, a replica whose store is usable marks every
\* block of the trust node solid, whatever failures it went through before.
CatchesUp ==
    (healthy /\ ~poisoned /\ task \in {"start", "fetch", "wait", "mark"}) ~> disk.solid = MaxHeight

\* What the repository says of the node and the code does not do.

\* "The next startup reconciles that stale marker to the durable local checkpoint"
\* (solidity_replica.rs): a start on any state a run can leave behind succeeds.
Restarts == node # "refused"

\* "block validation/production/application" (PORTING_PLAN.md): with a working disk a
\* valid block that extends the head is not taken back.
RollbackOnFault == [][job.why = "block" /\ head' < head => ~healthy \/ poisoned]_vars

\* "The durable store remains authoritative after cache expiry" (pipeline.rs): a node
\* with room in its pool can admit every transaction that no block, queue or cache holds.
AdmitsFresh ==
    Serving /\ mode = "full" /\ Cardinality(pool) < MaxPending =>
        \A t \in Txs \ (pool \cup cache.ids) : ENABLED Broadcast(t)
=============================================================================
