------------------------------- MODULE RustLog -------------------------------
(***************************************************************************)
(* The storage engine (tron-storage/src/lib.rs): a map in memory, a         *)
(* write-ahead log of batches, a compact snapshot that replaces the log,    *)
(* and checkpoints copied to another directory.                             *)
(*                                                                         *)
(* A file is what the process sees; `synced' and `undone' say what a power  *)
(* loss may still take back.  Frames are batches, their bytes and checksums *)
(* are reduced to whether the tail of the file is whole, torn or garbled.   *)
(***************************************************************************)
EXTENDS Integers, Sequences, FiniteSets, SequencesExt, Sublists

CONSTANTS LogKeys,      \* keys, as integers in byte order
          MarketKeys,   \* those that split_market_physical_key accepts
          PriceOf,      \* their price, the market order
          Batches,      \* the batches written: sequences of [key, value]
          MaxOps,       \* max_batch_operations
          MaxEntries,   \* max_snapshot_entries
          SyncOnWrite, CompactAfter, \* RustLogOptions, the length in frames
          MaxWrites, MaxLogFaults    \* bounds of the model

Gone == 0   \* the value of a deleted key
ASSUME RustLogAssumption ==
    /\ LogKeys \subseteq Nat \ {0} /\ IsFiniteSet(LogKeys) /\ SyncOnWrite \in BOOLEAN
    /\ MarketKeys \subseteq LogKeys /\ PriceOf \in [MarketKeys -> Int]
    /\ {MaxOps, CompactAfter, MaxWrites, MaxLogFaults, MaxEntries} \subseteq Nat /\ MaxOps > 0 /\ MaxEntries > 0
    /\ Batches \subseteq Seq([key : LogKeys, value : Nat])

VARIABLES disk,    \* snapshot, log header, frames, tail, durable length, undone truncation
          mem,     \* entries and the market index
          handle,  \* "down", "open", "poisoned", "leaked" (dropped, lock not released)
          step,    \* where the current operation is
          pend,    \* the batch in flight
          maint,   \* maintenance_error
          dest, staging, \* the checkpoint destination and its staging directory
          hist, floor,   \* acknowledged batches; how many of them must survive
          logFaults
logVars == <<disk, mem, handle, step, pend, maint, dest, staging, hist, floor, logFaults>>

NoDir == [parts |-> 0, entries |-> <<>>, count |-> 0, durable |-> FALSE]
NoEntries == [k \in LogKeys |-> Gone]
Present(entries) == {k \in LogKeys : entries[k] # Gone}

\* apply_batch: the operations in order, so that the last one on a key wins ...
OpsOn(b, k) == {i \in DOMAIN b : b[i].key = k}
ApplyBatch(entries, b) ==
    [k \in LogKeys |-> IF OpsOn(b, k) = {} THEN entries[k] ELSE b[Max(OpsOn(b, k))].value]
\* ... and of several batches the last one that has the key.
BatchesOn(batches, k) == {i \in DOMAIN batches : OpsOn(batches[i], k) # {}}
ApplyAll(entries, batches) ==
    [k \in LogKeys |-> IF BatchesOn(batches, k) = {} THEN entries[k]
                       ELSE ApplyBatch(entries, batches[Max(BatchesOn(batches, k))])[k]]
\* apply_market_batch: likewise, a deletion taking the key out of the index.
ApplyMarketBatch(index, b) ==
    {k \in MarketKeys : IF OpsOn(b, k) = {} THEN k \in index ELSE b[Max(OpsOn(b, k))].value # Gone}
BuildMarketIndex(entries) == Present(entries) \cap MarketKeys

LogInit ==
    /\ disk = [snap |-> NoEntries, header |-> "none", frames |-> <<>>, tail |-> "whole",
               synced |-> 0, undone |-> <<>>]
    /\ mem = [entries |-> NoEntries, market |-> {}]
    /\ handle = "down" /\ step = "idle" /\ pend = <<>> /\ maint = FALSE
    /\ dest = NoDir /\ staging = NoDir /\ hist = <<>> /\ floor = 0 /\ logFaults = 0

-----------------------------------------------------------------------------
\* load_snapshot and recover_wal: what an open reads, or that it refuses.  A log
\* shorter than its header is rewritten and synced, a torn tail is cut, anything else
\* is corruption.
Readable(d) == (d.header = "magic" \/ d.frames = <<>>) /\ d.tail # "garbled"
Recovered(d) == ApplyAll(d.snap, d.frames)
SyncedDisk(d) == [d EXCEPT !.synced = Len(d.frames), !.undone = <<>>]
RecoveredDisk(d) ==
    LET r == [d EXCEPT !.header = "magic", !.tail = "whole"] IN IF d.header = "none" THEN SyncedDisk(r) ELSE r

\* What a power loss leaves: durable frames, part of the others and a damaged
\* tail, or the log as it was before a truncation that was not synced.
Damage(d, n) ==
    IF d.tail = "garbled" THEN {"garbled"}
    ELSE IF n = Len(d.frames) /\ d.synced = n THEN {d.tail} ELSE {"whole", "torn", "garbled"}
PowerLoss(d) ==
    (UNION {{[d EXCEPT !.frames = SubSeq(@, 1, n), !.tail = t, !.synced = n, !.undone = <<>>] : t \in Damage(d, n)}
            : n \in d.synced..Len(d.frames)})
    \cup {[d EXCEPT !.frames = old, !.header = "magic", !.tail = "whole", !.synced = Len(old), !.undone = <<>>] :
           old \in {d.undone} \ {<<>>}}

\* encode_batch and encode_snapshot refuse what recovery would refuse to read.
Encodable(b) == b # <<>> /\ Len(b) <= MaxOps
Snapshottable(entries) == Cardinality(Present(entries)) <= MaxEntries

Fault == logFaults < MaxLogFaults /\ logFaults' = logFaults + 1
LogIdle == handle = "open" /\ step = "idle"

\* open_generation, under the lock of the root.
OpenGeneration ==
    /\ handle = "down" /\ Readable(disk)
    /\ disk' = RecoveredDisk(disk) /\ handle' = "open" /\ maint' = FALSE
    /\ mem' = [entries |-> Recovered(disk), market |-> BuildMarketIndex(Recovered(disk))]
    /\ floor' = IF disk.header = "none" THEN Len(hist) ELSE floor
    /\ UNCHANGED <<step, pend, dest, staging, hist, logFaults>>

\* write_with_faults, up to the append: limits first, then the frame at the end of the file.
Append1(b) ==
    /\ LogIdle /\ Encodable(b) /\ Len(hist) < MaxWrites
    /\ pend' = b
    /\ \/ disk' = [disk EXCEPT !.frames = Append(@, b)] /\ step' = "appended" /\ UNCHANGED logFaults
       \/ Fault /\ disk' = [disk EXCEPT !.tail = "torn"] /\ step' = "failed"
    /\ UNCHANGED <<mem, handle, maint, dest, staging, hist, floor>>

\* rollback_wal after a failed append, flush or sync: the frame is cut off and the cut synced.
WithoutFrame == [disk EXCEPT !.frames = IF step = "appended" THEN Front(@) ELSE @, !.tail = "whole"]
RollbackWal ==
    /\ handle = "open" /\ step \in {"appended", "failed"}
    /\ IF step = "appended" THEN Fault ELSE UNCHANGED logFaults
    /\ disk' = SyncedDisk(WithoutFrame) /\ step' = "idle" /\ pend' = <<>> /\ floor' = Len(hist)
    /\ UNCHANGED <<mem, handle, maint, dest, staging, hist>>
\* ... and the rollback fails too: the frame may or may not be cut, the handle is poisoned.
Poison ==
    /\ handle = "open" /\ step \in {"appended", "failed"} /\ Fault
    /\ handle' = "poisoned" /\ step' = "idle" /\ disk' \in {disk, WithoutFrame}
    /\ UNCHANGED <<mem, pend, maint, dest, staging, hist, floor>>

\* The rest of write_with_faults: sync, apply to memory and decide on compaction.
Acknowledge ==
    /\ handle = "open" /\ step = "appended"
    /\ disk' = IF SyncOnWrite THEN SyncedDisk(disk) ELSE disk
    /\ hist' = Append(hist, pend) /\ pend' = <<>>
    /\ floor' = IF SyncOnWrite THEN Len(hist') ELSE floor
    /\ mem' = [entries |-> ApplyBatch(mem.entries, pend), market |-> ApplyMarketBatch(mem.market, pend)]
    /\ \/ step' = (IF CompactAfter > 0 /\ Len(disk.frames) >= CompactAfter THEN "compact" ELSE "idle")
          /\ UNCHANGED <<maint, logFaults>>
       \/ Fault /\ maint' = TRUE /\ step' = "idle"   \* the length of the file is unreadable
    /\ UNCHANGED <<handle, dest, staging>>

-----------------------------------------------------------------------------
\* compact with the log emptied before the snapshot is in place.
InstallSnapshotLate ==
    /\ handle = "open" /\ step = "compact" /\ disk' = [disk EXCEPT !.frames = <<>>, !.synced = 0] /\ step' = "installed"
    /\ UNCHANGED <<mem, handle, pend, maint, dest, staging, hist, floor, logFaults>>
\* install_snapshot: a temporary file, synced, renamed over the old one.  A write
\* succeeds even when the compaction it started fails.
InstallSnapshot ==
    /\ handle = "open" /\ step = "compact"
    /\ \/ /\ Snapshottable(mem.entries)
          /\ disk' = [disk EXCEPT !.snap = mem.entries] /\ step' = "installed"
          /\ UNCHANGED <<maint, logFaults>>
       \/ Fault /\ disk' \in {disk, [disk EXCEPT !.snap = mem.entries]} /\ step' = "idle" /\ maint' = TRUE
       \/ /\ ~Snapshottable(mem.entries)
          /\ step' = "idle" /\ maint' = TRUE /\ UNCHANGED <<disk, logFaults>>
    /\ UNCHANGED <<mem, handle, pend, dest, staging, hist, floor>>
TruncateWal ==
    /\ handle = "open" /\ step = "installed"
    /\ disk' = [disk EXCEPT !.frames = <<>>, !.header = "none", !.synced = 0,
                            !.undone = IF disk.header = "magic" THEN disk.frames ELSE <<>>]
    /\ step' = "truncated"
    /\ UNCHANGED <<mem, handle, pend, maint, dest, staging, hist, floor, logFaults>>
\* ... and its header, whose loss leaves later frames in a log without one.
WriteHeader ==
    /\ handle = "open" /\ step = "truncated" /\ step' = "idle"
    /\ \/ disk' = SyncedDisk([disk EXCEPT !.header = "magic"]) /\ floor' = Len(hist) /\ UNCHANGED <<maint, logFaults>>
       \/ Fault /\ maint' = TRUE /\ UNCHANGED <<disk, floor>>
    /\ UNCHANGED <<mem, handle, pend, dest, staging, hist>>
TakeMaintenanceError ==
    /\ LogIdle /\ maint /\ maint' = FALSE
    /\ UNCHANGED <<disk, mem, handle, step, pend, dest, staging, hist, floor, logFaults>>

Flush ==
    /\ LogIdle /\ disk' = SyncedDisk(disk) /\ floor' = Len(hist) /\ disk # disk'
    /\ UNCHANGED <<mem, handle, step, pend, maint, dest, staging, hist, logFaults>>

\* close_in_place and sync_for_shutdown: closed and unlocked even when the sync fails.
CloseStore ==
    /\ handle \in {"open", "poisoned"} /\ step = "idle" /\ handle' = "down"
    /\ \/ handle = "open" /\ disk' = SyncedDisk(disk) /\ floor' = Len(hist) /\ UNCHANGED logFaults
       \/ handle = "open" /\ Fault /\ UNCHANGED <<disk, floor>>
       \/ handle = "poisoned" /\ UNCHANGED <<disk, floor, logFaults>>
    /\ hist' = IF Recovered(disk) = ApplyAll(NoEntries, hist) THEN hist ELSE Append(hist, pend)
    /\ pend' = <<>> /\ UNCHANGED <<mem, step, maint, dest, staging>>
\* Drop of a poisoned handle keeps the lock until the process ends.
DropPoisoned ==
    /\ handle = "poisoned" /\ handle' = "leaked"
    /\ UNCHANGED <<disk, mem, step, pend, maint, dest, staging, hist, floor, logFaults>>

-----------------------------------------------------------------------------
\* checkpoint_matches and create_checkpoint_staging.
CheckpointMatches == dest.parts = 3 /\ dest.entries = mem.entries
NewStaging == [NoDir EXCEPT !.count = Len(hist)]
\* checkpoint_with_faults: flush; a destination that already matches is only synced;
\* any other one must be missing or empty.
CheckpointStart ==
    /\ LogIdle /\ disk' = SyncedDisk(disk) /\ floor' = Len(hist)
    /\ \/ dest.parts = 0 /\ step' = "staging" /\ staging' = NewStaging /\ UNCHANGED dest
       \/ CheckpointMatches /\ dest' = [dest EXCEPT !.durable = TRUE] /\ UNCHANGED <<step, staging>>
    /\ UNCHANGED <<mem, handle, pend, maint, hist, logFaults>>
\* Snapshot, log header and manifest go into the staging directory one by one.
CheckpointBuild ==
    /\ handle = "open" /\ step = "staging" /\ staging.parts < 3
    /\ \/ /\ Snapshottable(mem.entries) /\ UNCHANGED <<step, logFaults>>
          /\ staging' = [staging EXCEPT !.parts = @ + 1, !.entries = mem.entries]
       \/ Fault /\ staging' = NoDir /\ step' = "idle"
       \/ ~Snapshottable(mem.entries) /\ staging' = NoDir /\ step' = "idle" /\ UNCHANGED logFaults
    /\ UNCHANGED <<disk, mem, handle, pend, maint, dest, hist, floor>>
\* rename_noreplace as soon as the snapshot is written.
CheckpointPublishEarly ==
    /\ handle = "open" /\ step = "staging" /\ staging.parts > 0 /\ dest.parts = 0
    /\ dest' = staging /\ staging' = NoDir /\ step' = "published"
    /\ UNCHANGED <<disk, mem, handle, pend, maint, hist, floor, logFaults>>
CheckpointPublish ==
    /\ handle = "open" /\ step = "staging" /\ staging.parts = 3 /\ dest.parts = 0
    /\ dest' = staging /\ staging' = NoDir /\ step' = "published"
    /\ UNCHANGED <<disk, mem, handle, pend, maint, hist, floor, logFaults>>
\* The parent directory is synced; a failure after the rename leaves the destination.
CheckpointEnd ==
    /\ handle = "open" /\ step = "published" /\ step' = "idle"
    /\ \/ dest' = [dest EXCEPT !.durable = TRUE] /\ UNCHANGED logFaults
       \/ Fault /\ UNCHANGED dest
    /\ UNCHANGED <<disk, mem, handle, pend, maint, staging, hist, floor>>

\* The process is killed (its files stay as it saw them) or the power goes.
CrashTo(d) ==
    LET kept == {h \in Prefixes(hist) \cup {Append(hist, pend)} :
                    ApplyAll(NoEntries, h) = Recovered(d)}
    IN  /\ disk' = d /\ handle' = "down" /\ step' = "idle" /\ pend' = <<>> /\ maint' = FALSE
        /\ hist' = IF Readable(d) /\ kept # {} THEN CHOOSE h \in kept : \A g \in kept : Len(g) <= Len(h) ELSE hist
        /\ floor' = IF Len(hist') < floor THEN Len(hist') ELSE floor
        /\ dest' \in IF dest.durable THEN {dest} ELSE {dest, NoDir}
        /\ UNCHANGED <<mem, staging>>
Crash ==
    /\ handle # "down" /\ Fault
    /\ CrashTo([disk EXCEPT !.tail = IF step = "failed" THEN "torn" ELSE @]) \/ \E d \in PowerLoss(disk) : CrashTo(d)

LogNext ==
    \/ OpenGeneration \/ \E b \in Batches : Append1(b)
    \/ RollbackWal \/ Poison \/ Acknowledge
    \/ InstallSnapshot \/ TruncateWal \/ WriteHeader \/ TakeMaintenanceError
    \/ Flush \/ CloseStore \/ DropPoisoned
    \/ CheckpointStart \/ CheckpointBuild \/ CheckpointPublish \/ CheckpointEnd \/ Crash

-----------------------------------------------------------------------------
Entries == [LogKeys -> Nat]
LogTypeOK ==
    /\ disk.snap \in Entries /\ disk.synced \in 0..Len(disk.frames) /\ disk.tail \in {"whole", "torn", "garbled"}
    /\ mem.entries \in Entries /\ mem.market \subseteq MarketKeys /\ floor \in 0..Len(hist)
    /\ handle \in {"down", "open", "poisoned", "leaked"} /\ {dest.parts, staging.parts} \subseteq 0..3

\* The order of the entries, that of their bytes.
KeyLess(a, b) == a < b
\* market_ordered_namespace_from: the index in market order after a key, one key
\* excluded, joined with the entries.
MarketLess(a, b) == PriceOf[a] < PriceOf[b] \/ (PriceOf[a] = PriceOf[b] /\ a < b)
MarketRows(after, excluded, limit) ==
    LET found == {k \in mem.market : (after = 0 \/ MarketLess(after, k)) /\ k # excluded /\ mem.entries[k] # Gone}
        rows == InOrder(found, MarketLess)
    IN  SubSeq(rows, 1, IF limit < Len(rows) THEN limit ELSE Len(rows))

\* OrderedIterator over n entries: position 0 is before the first or past the last,
\* and only first, last and seek leave the exhausted state.
NextEntry(it, n) ==
    IF it.exhausted THEN it
    ELSE IF it.pos < n THEN [it EXCEPT !.pos = @ + 1] ELSE [pos |-> 0, exhausted |-> TRUE]
PreviousEntry(it, n) ==
    IF it.exhausted THEN it
    ELSE IF it.pos = 0 /\ n > 0 THEN [it EXCEPT !.pos = n]
    ELSE IF it.pos > 1 THEN [it EXCEPT !.pos = @ - 1] ELSE [pos |-> 0, exhausted |-> TRUE]
SeekEntry(keys, target) ==
    LET below == Cardinality({i \in DOMAIN keys : keys[i] < target})
    IN  IF below < Len(keys) THEN [pos |-> below + 1, exhausted |-> FALSE] ELSE [pos |-> 0, exhausted |-> TRUE]
\* The iterator over n entries after each call of Step, and the keys met until nothing is left.
IteratorCalls(n, from, Step(_, _)) ==
    LET at[i \in 0..n + 1] == IF i = 0 THEN from ELSE Step(at[i - 1], n) IN at
Walk(keys, from, Step(_, _)) ==
    LET at == IteratorCalls(Len(keys), from, Step)
        calls == {i \in 1..Len(keys) + 1 : \A j \in 1..i : at[j].pos # 0}
    IN  [i \in 1..Cardinality(calls) |-> keys[at[i].pos]]

(* Whatever instant the process is killed or the power goes, an open of what is    *)
(* left, if it succeeds, finds every batch up to some point of the acknowledged     *)
(* order and at least all those that were synced (write_with_faults, compact,       *)
(* recover_wal); it can refuse only a log whose unsynced tail was garbled or whose  *)
(* header was lost in a failed compaction.                                          *)
DurablePrefix ==
    \A d \in PowerLoss(disk) \cup {disk} :
        IF Readable(d)
        THEN \E h \in {SubSeq(hist, 1, n) : n \in floor..Len(hist)} \cup {Append(hist, pend)} :
                Recovered(d) = ApplyAll(NoEntries, h)
        ELSE \/ d.tail = "garbled" /\ (disk.tail # "whole" \/ d.frames # disk.frames \/ disk.synced < Len(disk.frames))
             \/ d.header = "none" /\ disk.header = "none"

\* Rows by pages: each page goes on where the last key of the one before it stood.
PagesTile(excluded) ==
    LET all == MarketRows(0, excluded, Cardinality(mem.market))
    IN  /\ Range(all) = BuildMarketIndex(mem.entries) \ {excluded}
        /\ \A i \in DOMAIN all, n \in 0..Len(all) :
              MarketRows(all[i], excluded, n) = SubSeq(all, i + 1, IF i + n < Len(all) THEN i + n ELSE Len(all))
\* An iterator met forwards, backwards, and from where a seek has put it.
IteratorsCover ==
    LET keys == InOrder(Present(mem.entries), KeyLess)
        fresh == [pos |-> 0, exhausted |-> FALSE]
        found(it) == IF it.pos = 0 THEN <<>> ELSE <<keys[it.pos]>>
    IN  /\ Walk(keys, fresh, NextEntry) = keys /\ Walk(keys, fresh, PreviousEntry) = Reverse(keys)
        /\ \A k \in LogKeys :
              found(SeekEntry(keys, k)) \o Walk(keys, SeekEntry(keys, k), NextEntry)
              = InOrder({j \in Present(mem.entries) : k <= j}, KeyLess)
(* What get and the scans answer from memory is the acknowledged history, and the   *)
(* market index that is kept in step batch by batch lists exactly the market keys   *)
(* present, so that a query paged by any limit misses and repeats nothing; an       *)
(* iterator met forwards, backwards or from a seek lists every entry once, in key   *)
(* order.                                                                           *)
MemoryAgrees ==
    handle \in {"open", "poisoned"} =>
        /\ mem.entries = ApplyAll(NoEntries, hist)
        /\ mem.market = BuildMarketIndex(mem.entries)
        /\ \A excluded \in MarketKeys \cup {0} : PagesTile(excluded)
        /\ IteratorsCover

(* A checkpoint directory that exists is complete, holds an acknowledged state, and *)
(* the source recovers at least that state whatever crash follows: the flush comes  *)
(* before the copy (checkpoint_with_faults).                                        *)
CheckpointWhole ==
    dest.parts > 0 =>
        /\ dest.parts = 3 /\ dest.count <= floor
        /\ dest.entries = ApplyAll(NoEntries, SubSeq(hist, 1, dest.count))

(* Every reader sees an acknowledged state: the memory and its market index, and     *)
(* each published checkpoint (get, scan, checkpoint_with_faults).                    *)
LogViewsExact == MemoryAgrees /\ CheckpointWhole
=============================================================================
