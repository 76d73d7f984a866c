------------------------ MODULE ChainManagerProofs --------------------------
(***************************************************************************)
(* For every mode, height, stack limit and set of transactions: what a     *)
(* node announces, serves or marks solid survives a crash at any instant,  *)
(* and the head of the block graph agrees with the committed head.  One    *)
(* lemma per action shows that it keeps ChainInv.                          *)
(***************************************************************************)
EXTENDS ChainManager, TLAPS

DiskType == [genesis: BOOLEAN, current: Heights, staged: Heights, solid: Heights]
JobType == [why: {"none", "genesis", "block", "stop"}, step: {"stage", "publish", "notify"}]

\* Heights are the integers from None to MaxHeight.
LEMMA HeightsAre ==
    /\ None \in Heights /\ 0 \in Heights /\ MaxHeight \in Nat
    /\ \A h \in Heights : h \in Int /\ h >= -1 /\ h <= MaxHeight
    /\ \A h \in Int : h >= -1 /\ h <= MaxHeight => h \in Heights
  BY SizeAssumption DEF None, Heights

\* What recover_store finds is a height.
LEMMA RecoveredType == ASSUME NEW d \in DiskType PROVE Recovered(d) \in Heights
  BY DEF Recovered, DiskType

\* The disk after a batch of publish.
LEMMA WrittenType == ASSUME TypeOK PROVE Written \in DiskType
  BY HeightsAre DEF Written, DiskType, TypeOK

\* The cache of a fresh process.
LEMMA FreshCacheType == FreshCache \in [ids: SUBSET Txs, atMax: BOOLEAN]
  BY DEF FreshCache

-----------------------------------------------------------------------------
\* Start: recovery makes the promised heights the head.
LEMMA BootKeeps == ChainInv /\ Boot => ChainInv'
<1> SUFFICES ASSUME ChainInv, Boot PROVE ChainInv'
  OBVIOUS
<1>0. Recovered(disk) \in Heights /\ disk \in DiskType
  BY RecoveredType DEF ChainInv, TypeOK, DiskType
<1>1. TypeOK'
  <2>1. disk' \in DiskType
    BY <1>0, HeightsAre DEF Boot, DiskType
  <2> QED
    BY <1>0, <2>1 DEF ChainInv, TypeOK, Boot, DiskType
<1>2. JobPlace'
  BY <1>0, HeightsAre DEF ChainInv, TypeOK, JobPlace, Boot, None
<1>3. DiskFollows'
  BY <1>0, HeightsAre DEF ChainInv, TypeOK, JobPlace, DiskFollows, InPublication, SafeHead, Recovered,
     NoJob, Persisting, None, Boot
<1>4. PromisesKept'
  BY <1>0, HeightsAre DEF ChainInv, TypeOK, JobPlace, DiskFollows, PromisesKept, Promised, SafeHead, Recovered,
     NoJob, Persisting, None, Boot
<1> QED
  BY <1>1, <1>2, <1>3, <1>4 DEF ChainInv

\* Genesis promises nothing.
LEMMA InitializeGenesisKeeps == ChainInv /\ InitializeGenesis => ChainInv'
<1> SUFFICES ASSUME ChainInv, InitializeGenesis PROVE ChainInv'
  OBVIOUS
<1>1. TypeOK'
  <2>1. disk' \in DiskType
    BY HeightsAre DEF ChainInv, TypeOK, InitializeGenesis, DiskType
  <2> QED
    BY HeightsAre, <2>1 DEF ChainInv, TypeOK, InitializeGenesis, DiskType, Persisting
<1>2. JobPlace'
  BY HeightsAre DEF ChainInv, TypeOK, JobPlace, NoJob, Persisting, None, InitializeGenesis
<1>3. DiskFollows'
  BY HeightsAre DEF ChainInv, TypeOK, JobPlace, DiskFollows, InPublication, SafeHead, Recovered,
     NoJob, Persisting, None, InitializeGenesis
<1>4. PromisesKept'
  BY HeightsAre DEF ChainInv, TypeOK, JobPlace, DiskFollows, PromisesKept, Promised, SafeHead, Recovered,
     NoJob, Persisting, None, InitializeGenesis
<1> QED
  BY <1>1, <1>2, <1>3, <1>4 DEF ChainInv

\* Only genesis is served; a refused start leaves the disk alone.
LEMMA ReconstructKeeps == ChainInv /\ Reconstruct => ChainInv'
<1> SUFFICES ASSUME ChainInv, Reconstruct PROVE ChainInv'
  OBVIOUS
<1>1. TypeOK'
  BY HeightsAre DEF ChainInv, TypeOK, JobPlace, NoJob, Persisting, Reconstruct, RootHead
<1>2. JobPlace'
  BY HeightsAre DEF ChainInv, TypeOK, JobPlace, NoJob, Persisting, Reconstruct, RootHead
<1>3. DiskFollows'
  BY HeightsAre DEF ChainInv, TypeOK, JobPlace, DiskFollows, InPublication, SafeHead, Recovered,
     NoJob, Persisting, None, Reconstruct, RootHead
<1>4. PromisesKept'
  BY HeightsAre DEF ChainInv, TypeOK, JobPlace, DiskFollows, PromisesKept, Promised, SafeHead, Recovered,
     NoJob, Persisting, None, Reconstruct, RootHead
<1> QED
  BY <1>1, <1>2, <1>3, <1>4 DEF ChainInv

\* Each batch of publish leaves the head or the block in progress recoverable.
LEMMA PersistWritesKeeps == ChainInv /\ PersistWrites => ChainInv'
<1> SUFFICES ASSUME ChainInv, PersistWrites PROVE ChainInv'
  OBVIOUS
<1>1. TypeOK'
  <2>1. disk' \in DiskType
    BY WrittenType DEF ChainInv, PersistWrites
  <2>2. CASE ~Exit
    <3>1. UNCHANGED <<mode, healthy, followed, poisoned, memory>>
      BY <2>2 DEF PersistWrites, Done
    <3>2. node' \in {node, "reconstruct"}
      BY <2>2 DEF PersistWrites, Done
    <3>3. job' \in JobType
      BY <2>2 DEF PersistWrites, Done, NoJob, JobType, ChainInv, TypeOK
    <3> QED
      BY <2>1, <3>1, <3>2, <3>3 DEF ChainInv, TypeOK, DiskType, JobType, memory
  <2>3. CASE Exit
    BY <2>1, <2>3, FreshCacheType, HeightsAre DEF ChainInv, TypeOK, PersistWrites, DiskType, Exit, NoJob
  <2> QED
    BY <2>2, <2>3 DEF PersistWrites, Done
<1>2. JobPlace'
  BY HeightsAre DEF ChainInv, TypeOK, JobPlace, NoJob, Persisting, None, PersistWrites, Written, Done, Exit, memory, FreshCache
<1>3. DiskFollows'
  BY HeightsAre DEF ChainInv, TypeOK, JobPlace, DiskFollows, InPublication, SafeHead, Recovered,
     NoJob, Persisting, None, PersistWrites, Written, Done, Exit, memory, FreshCache
<1>4. PromisesKept'
  BY HeightsAre DEF ChainInv, TypeOK, JobPlace, DiskFollows, PromisesKept, Promised, SafeHead, Recovered,
     NoJob, Persisting, None, PersistWrites, Written, Done, Exit, memory, FreshCache
<1> QED
  BY <1>1, <1>2, <1>3, <1>4 DEF ChainInv

\* A failed batch: the block is rolled back or the process ends.
LEMMA PersistFailsKeeps == ChainInv /\ PersistFails => ChainInv'
<1> SUFFICES ASSUME ChainInv, PersistFails PROVE ChainInv'
  OBVIOUS
<1>1. /\ disk' \in {disk, Written}
      /\ \/ job.why = "block" /\ Rollback /\ poisoned' \in BOOLEAN
         \/ job.why # "block" /\ Exit
      /\ job.why # "none" /\ job.step # "notify"
      /\ UNCHANGED <<mode, healthy, followed>>
  <2>1. CASE job.why = "block"
    BY <2>1 DEF PersistFails, WriteFails, ChainInv, TypeOK
  <2>2. CASE job.why # "block"
    BY <2>2 DEF PersistFails
  <2> QED
    BY <2>1, <2>2
<1>2. TypeOK'
  <2>1. disk' \in DiskType
    BY <1>1, WrittenType DEF ChainInv, TypeOK, DiskType
  <2>2. CASE job.why = "block"
    BY <1>1, <2>1, <2>2, HeightsAre DEF ChainInv, TypeOK, Rollback, DiskType, JobPlace, NoJob
  <2>3. CASE job.why # "block"
    <3>1. Exit /\ UNCHANGED <<mode, healthy, followed>>
      BY <1>1, <2>3
    <3> QED
      BY <2>1, <3>1, FreshCacheType, HeightsAre DEF ChainInv, TypeOK, Exit, DiskType, NoJob
  <2> QED
    BY <2>2, <2>3
<1>4. DiskFollows'
  <2>2. CASE job.why = "block"
    <3> USE <1>1, <2>2, HeightsAre DEF NoJob, None
    <3>1. CASE disk' = disk
      BY <3>1 DEF ChainInv, TypeOK, JobPlace, DiskFollows, InPublication, SafeHead, Recovered, Rollback
    <3>2. CASE disk' = Written
      BY <3>2 DEF ChainInv, TypeOK, JobPlace, DiskFollows, InPublication, SafeHead, Recovered, Rollback, Written
    <3> QED
      BY <1>1, <3>1, <3>2
  <2>3. CASE job.why # "block"
    BY <1>1, <2>3 DEF Exit, DiskFollows, InPublication, NoJob
  <2> QED
    BY <2>2, <2>3
<1>5. PromisesKept'
  <2>2. CASE job.why = "block"
    <3>1. \A h \in Promised' : h \in Promised
       BY <1>1, <2>2 DEF Promised, Rollback, Written, ChainInv, TypeOK
    <3>2. node' = "up" /\ SafeHead' = SafeHead
       BY <1>1, <2>2 DEF Rollback, SafeHead, ChainInv, JobPlace, NoJob
    <3> QED
      BY <3>1, <3>2, <1>1, <2>2 DEF PromisesKept, ChainInv, JobPlace
  <2>3. CASE job.why # "block"
    <3> USE <1>1, <2>3, HeightsAre DEF None
    <3>0. Exit /\ followed' = followed
       OBVIOUS
    <3>4. disk'.solid = disk.solid
       BY DEF Written, ChainInv, TypeOK
    <3>1. \A h \in Promised' : h \in Promised /\ h > 0
       BY <3>0, <3>4 DEF Promised, Exit
    <3>2. node' = "down"
       BY DEF Exit
    <3>3. \A h \in Promised : h <= Recovered(disk')
      <4>1. CASE disk' = disk
       BY <4>1 DEF Promised, ChainInv, TypeOK, JobPlace, DiskFollows, PromisesKept, SafeHead, Recovered
      <4>2. CASE disk' = Written
       BY <4>2 DEF Promised, ChainInv, TypeOK, JobPlace, DiskFollows, PromisesKept, SafeHead, Recovered, Written
      <4> QED
        BY <4>1, <4>2
    <3> QED
      BY <3>1, <3>2, <3>3 DEF PromisesKept
  <2> QED
    BY <2>2, <2>3
<1>6. JobPlace'
  BY <1>1, HeightsAre DEF ChainInv, TypeOK, JobPlace, Rollback, Exit, NoJob
<1> QED
  BY <1>2, <1>4, <1>5, <1>6 DEF ChainInv

\* Events go out when the block is what a start would rebuild.
LEMMA NotifyKeeps == ChainInv /\ Notify => ChainInv'
<1> SUFFICES ASSUME ChainInv, Notify PROVE ChainInv'
  OBVIOUS
<1>1. TypeOK'
  BY HeightsAre DEF ChainInv, TypeOK, JobPlace, NoJob, Persisting, Notify
<1>2. JobPlace'
  BY HeightsAre DEF ChainInv, TypeOK, JobPlace, NoJob, Persisting, Notify
<1>3. DiskFollows'
  BY HeightsAre DEF ChainInv, TypeOK, JobPlace, DiskFollows, InPublication, SafeHead, Recovered,
     NoJob, Persisting, None, Notify
<1>4. PromisesKept'
  BY HeightsAre DEF ChainInv, TypeOK, JobPlace, DiskFollows, PromisesKept, Promised, SafeHead, Recovered,
     NoJob, Persisting, None, Notify
<1> QED
  BY <1>1, <1>2, <1>3, <1>4 DEF ChainInv

\* The worker marks the head only between publications.
LEMMA MarkKeeps == ChainInv /\ (StartWorker \/ MarkSolid) => ChainInv'
<1> SUFFICES ASSUME ChainInv, StartWorker \/ MarkSolid PROVE ChainInv'
  OBVIOUS
<1>1. TypeOK'
  BY HeightsAre DEF ChainInv, TypeOK, JobPlace, NoJob, Persisting, StartWorker, MarkSolid, Mark, WriteFails
<1>2. JobPlace'
  BY HeightsAre DEF ChainInv, TypeOK, JobPlace, NoJob, Persisting, StartWorker, MarkSolid, Mark, WriteFails
<1>3. DiskFollows'
  BY HeightsAre DEF ChainInv, TypeOK, JobPlace, DiskFollows, InPublication, SafeHead, Recovered,
     NoJob, Persisting, None, StartWorker, MarkSolid, Mark, WriteFails
<1>4. PromisesKept'
  BY HeightsAre DEF ChainInv, TypeOK, JobPlace, DiskFollows, PromisesKept, Promised, SafeHead, Recovered,
     NoJob, Persisting, None, StartWorker, MarkSolid, Mark, WriteFails
<1> QED
  BY <1>1, <1>2, <1>3, <1>4 DEF ChainInv

\* A block of a peer.
LEMMA AcceptBlockKeeps == ChainInv /\ AcceptBlock => ChainInv'
<1> SUFFICES ASSUME ChainInv, AcceptBlock PROVE ChainInv'
  OBVIOUS
<1>1. TypeOK'
  BY HeightsAre DEF ChainInv, TypeOK, JobPlace, NoJob, Persisting, AcceptBlock, Apply, Serving
<1>2. JobPlace'
  BY HeightsAre DEF ChainInv, TypeOK, JobPlace, NoJob, Persisting, AcceptBlock, Apply, Serving
<1>3. DiskFollows'
  BY HeightsAre DEF ChainInv, TypeOK, JobPlace, DiskFollows, InPublication, SafeHead, Recovered,
     NoJob, Persisting, None, AcceptBlock, Apply, Serving
<1>4. PromisesKept'
  BY HeightsAre DEF ChainInv, TypeOK, JobPlace, DiskFollows, PromisesKept, Promised, SafeHead, Recovered,
     NoJob, Persisting, None, AcceptBlock, Apply, Serving
<1> QED
  BY <1>1, <1>2, <1>3, <1>4 DEF ChainInv

\* A block of the trust node.
LEMMA FetchBlockKeeps == ChainInv /\ FetchBlock => ChainInv'
<1> SUFFICES ASSUME ChainInv, FetchBlock PROVE ChainInv'
  OBVIOUS
<1>1. TypeOK'
  BY HeightsAre DEF ChainInv, TypeOK, JobPlace, NoJob, Persisting, FetchBlock, Apply, Serving
<1>2. JobPlace'
  BY HeightsAre DEF ChainInv, TypeOK, JobPlace, NoJob, Persisting, FetchBlock, Apply, Serving
<1>3. DiskFollows'
  BY HeightsAre DEF ChainInv, TypeOK, JobPlace, DiskFollows, InPublication, SafeHead, Recovered,
     NoJob, Persisting, None, FetchBlock, Apply, Serving
<1>4. PromisesKept'
  BY HeightsAre DEF ChainInv, TypeOK, JobPlace, DiskFollows, PromisesKept, Promised, SafeHead, Recovered,
     NoJob, Persisting, None, FetchBlock, Apply, Serving
<1> QED
  BY <1>1, <1>2, <1>3, <1>4 DEF ChainInv

\* The final persist may lower what is staged, never below a promise.
LEMMA ShutdownKeeps == ChainInv /\ Shutdown => ChainInv'
<1> SUFFICES ASSUME ChainInv, Shutdown PROVE ChainInv'
  OBVIOUS
<1>1. TypeOK'
  BY HeightsAre DEF ChainInv, TypeOK, JobPlace, NoJob, Persisting, Shutdown, Serving
<1>2. JobPlace'
  BY HeightsAre DEF ChainInv, TypeOK, JobPlace, NoJob, Persisting, Shutdown, Serving
<1>3. DiskFollows'
  BY HeightsAre DEF ChainInv, TypeOK, JobPlace, DiskFollows, InPublication, SafeHead, Recovered,
     NoJob, Persisting, None, Shutdown, Serving
<1>4. PromisesKept'
  BY HeightsAre DEF ChainInv, TypeOK, JobPlace, DiskFollows, PromisesKept, Promised, SafeHead, Recovered,
     NoJob, Persisting, None, Shutdown, Serving
<1> QED
  BY <1>1, <1>2, <1>3, <1>4 DEF ChainInv

\* The worker is cancelled.
LEMMA CancelKeeps == ChainInv /\ Cancel => ChainInv'
<1> SUFFICES ASSUME ChainInv, Cancel PROVE ChainInv'
  OBVIOUS
<1>1. TypeOK'
  BY HeightsAre DEF ChainInv, TypeOK, JobPlace, NoJob, Persisting, Cancel
<1>2. JobPlace'
  BY HeightsAre DEF ChainInv, TypeOK, JobPlace, NoJob, Persisting, Cancel
<1>3. DiskFollows'
  BY HeightsAre DEF ChainInv, TypeOK, JobPlace, DiskFollows, InPublication, SafeHead, Recovered,
     NoJob, Persisting, None, Cancel
<1>4. PromisesKept'
  BY HeightsAre DEF ChainInv, TypeOK, JobPlace, DiskFollows, PromisesKept, Promised, SafeHead, Recovered,
     NoJob, Persisting, None, Cancel
<1> QED
  BY <1>1, <1>2, <1>3, <1>4 DEF ChainInv

\* A crash at any instant.
LEMMA CrashKeeps == ChainInv /\ Crash => ChainInv'
<1> SUFFICES ASSUME ChainInv, Crash PROVE ChainInv'
  OBVIOUS
<1>1. TypeOK'
    BY FreshCacheType, HeightsAre DEF ChainInv, TypeOK, Crash, Exit, NoJob
<1>2. JobPlace'
  BY HeightsAre DEF ChainInv, TypeOK, JobPlace, NoJob, Persisting, None, Crash, Exit, FreshCache
<1>3. DiskFollows'
  BY HeightsAre DEF ChainInv, TypeOK, JobPlace, DiskFollows, InPublication, SafeHead, Recovered,
     NoJob, Persisting, None, Crash, Exit, FreshCache
<1>4. PromisesKept'
  BY HeightsAre DEF ChainInv, TypeOK, JobPlace, DiskFollows, PromisesKept, Promised, SafeHead, Recovered,
     NoJob, Persisting, None, Crash, Exit, FreshCache
<1> QED
  BY <1>1, <1>2, <1>3, <1>4 DEF ChainInv

\* The environment calms down.
LEMMA CalmDownKeeps == ChainInv /\ CalmDown => ChainInv'
<1> SUFFICES ASSUME ChainInv, CalmDown PROVE ChainInv'
  OBVIOUS
<1>1. TypeOK'
  BY HeightsAre DEF ChainInv, TypeOK, JobPlace, NoJob, Persisting, CalmDown
<1>2. JobPlace'
  BY HeightsAre DEF ChainInv, TypeOK, JobPlace, NoJob, Persisting, CalmDown
<1>3. DiskFollows'
  BY HeightsAre DEF ChainInv, TypeOK, JobPlace, DiskFollows, InPublication, SafeHead, Recovered,
     NoJob, Persisting, None, CalmDown
<1>4. PromisesKept'
  BY HeightsAre DEF ChainInv, TypeOK, JobPlace, DiskFollows, PromisesKept, Promised, SafeHead, Recovered,
     NoJob, Persisting, None, CalmDown
<1> QED
  BY <1>1, <1>2, <1>3, <1>4 DEF ChainInv

\* Broadcasts and queries touch only the pool and the cache.
LEMMA PoolKeeps == ASSUME ChainInv, NEW t \in Txs, Broadcast(t) \/ Known(t) PROVE ChainInv'
<1>1. TypeOK'
  <2>1. pool' \subseteq Txs
    BY DEF ChainInv, TypeOK, Broadcast, Known
  <2>2. CASE Broadcast(t)
    <3>1. cache' \in [ids: SUBSET Txs, atMax: BOOLEAN]
      BY <2>2 DEF ChainInv, TypeOK, Broadcast
    <3> QED
      BY <2>1, <2>2, <3>1 DEF ChainInv, TypeOK, Broadcast
  <2>3. CASE Known(t)
    <3>1. cache' \in [ids: SUBSET Txs, atMax: BOOLEAN]
      BY <2>3 DEF Known
    <3> QED
      BY <2>1, <2>3, <3>1 DEF ChainInv, TypeOK, Known
  <2> QED
    BY <2>2, <2>3
<1>2. UNCHANGED <<mode, disk, node, head, khaos, job, task, api, followed>>
  BY DEF Broadcast, Known
<1>3. (JobPlace /\ DiskFollows /\ PromisesKept)'
  BY <1>2 DEF ChainInv, JobPlace, DiskFollows, PromisesKept, Promised, SafeHead, InPublication
<1> QED
  BY <1>1, <1>3 DEF ChainInv

-----------------------------------------------------------------------------
\* The inductive invariant holds from the first start of an empty node on.
THEOREM ChainInvariant == Spec => []ChainInv
<1>1. Init => ChainInv
  <2> SUFFICES ASSUME Init PROVE ChainInv
    OBVIOUS
  <2>1. TypeOK
    BY HeightsAre, FreshCacheType DEF Init, TypeOK, NoJob
  <2>2. JobPlace /\ DiskFollows /\ PromisesKept
    BY DEF Init, JobPlace, DiskFollows, PromisesKept, Promised, InPublication, NoJob, None
  <2> QED
    BY <2>1, <2>2 DEF ChainInv
<1>2. ChainInv /\ [Next]_vars => ChainInv'
  <2> SUFFICES ASSUME ChainInv, [Next]_vars PROVE ChainInv'
    OBVIOUS
  <2>1. CASE NodeStep
    BY <2>1, BootKeeps, InitializeGenesisKeeps, ReconstructKeeps, PersistWritesKeeps,
       PersistFailsKeeps, NotifyKeeps DEF NodeStep
  <2>2. CASE WorkerStep
    BY <2>2, MarkKeeps, FetchBlockKeeps DEF WorkerStep
  <2>3. CASE Requests
    BY <2>3, AcceptBlockKeeps, ShutdownKeeps, PoolKeeps DEF Requests
  <2>4. CASE Environment
    BY <2>4, CancelKeeps, CrashKeeps, CalmDownKeeps DEF Environment
  <2>5. CASE UNCHANGED vars
    BY <2>5 DEF vars, ChainInv, TypeOK, JobPlace, DiskFollows, PromisesKept, Promised, SafeHead, InPublication
  <2> QED
    BY <2>1, <2>2, <2>3, <2>4, <2>5 DEF Next
<1> QED
  BY <1>1, <1>2, PTL DEF Spec

\* Every variable of the node keeps its type, on disk and in memory.
THEOREM NodeTypeCorrect == Spec => []TypeOK
<1>1. ChainInv => TypeOK
  BY DEF ChainInv
<1> QED
  BY <1>1, ChainInvariant, PTL

\* Between requests the head of the block graph is the committed head.
THEOREM HeadsAgree == Spec => []HeadAgreement
<1>1. ChainInv => HeadAgreement
  BY DEF ChainInv, JobPlace, HeadAgreement, Serving
<1> QED
  BY <1>1, ChainInvariant, PTL

\* What was promised is in the chain that the next start rebuilds.
LEMMA PromisesDurable == ASSUME ChainInv, NEW h \in Promised PROVE h <= Recovered(disk)
<1>1. h \in Int /\ Recovered(disk) \in Int /\ SafeHead \in Int
  BY HeightsAre, RecoveredType DEF ChainInv, TypeOK, Promised, SafeHead, DiskType
<1> QED
  BY <1>1 DEF ChainInv, DiskFollows, PromisesKept

\* No block that event subscribers were told of is lost by a crash, whenever it comes.
THEOREM AnnouncedDurable == Spec => []EventsDurable
<1>1. ChainInv => EventsDurable
  BY PromisesDurable DEF EventsDurable, Promised
<1> QED
  BY <1>1, ChainInvariant, PTL

\* No block marked solid or served by the APIs is lost by a crash.
THEOREM SolidSurvives == Spec => []SolidDurable
<1>1. ChainInv => SolidDurable
  BY PromisesDurable DEF SolidDurable, Promised
<1> QED
  BY <1>1, ChainInvariant, PTL
=============================================================================
