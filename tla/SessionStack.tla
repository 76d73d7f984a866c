---------------------------- MODULE SessionStack ----------------------------
(***************************************************************************)
(* The revoking session manager of crates/tron-state: a durable root and a *)
(* stack of overlay layers above it (session.rs), the handles callers hold *)
(* on their layers, and the one reserved outer layer of the pending pool   *)
(* (pending.rs).  Every public operation takes the manager's mutex once,   *)
(* so every operation is one action.                                       *)
(*                                                                         *)
(* Data is abstracted to what the properties tell apart: a store is a      *)
(* function from Keys to values, a layer maps each key to a value, to      *)
(* Absent (the tombstone OverlayValue::Delete) or to Unset (no entry).     *)
(***************************************************************************)
EXTENDS Integers, Sequences, FiniteSets

CONSTANTS
    Handles,      \* the places of the program that can hold a Session
    Keys,         \* keys of the stores
    Vals,         \* values of the stores
    Absent,       \* no value: the key is missing, or deleted by a layer
    Unset,        \* a layer holds no entry for the key
    Identities,   \* checkpoint identities (block hashes)
    MaxSessions,  \* bound on the sessions ever opened (next_id)
    MaxBlock      \* bound on checkpoint block numbers

ASSUME SentinelAssumption == /\ Absent \notin Vals
                             /\ Unset \notin Vals \cup {Absent}
ASSUME BoundAssumption == MaxSessions \in Nat /\ MaxBlock \in Nat

VARIABLES
    root,          \* the durable store under the overlays
    layers,        \* ManagerState.layers, bottom first
    checkpoints,   \* ManagerState.checkpoints, oldest first
    enabled,       \* ManagerState.enabled
    active,        \* ManagerState.active, the count of live layers the code keeps
    nextId,        \* ManagerState.next_id
    pendingOuter,  \* ManagerState.pending_outer, 0 for None
    closed,        \* ManagerState.shutdown_complete: the root was closed
    handle,        \* handle[h]: id of the unfinalized Session held in h, 0 for none
    outer          \* id held by PendingSession.outer, 0 when there is none

vars == <<root, layers, checkpoints, enabled, active, nextId, pendingOuter, closed, handle, outer>>

Image == [Keys -> Vals \cup {Absent}]
Entries == [Keys -> Vals \cup {Absent, Unset}]
Layer == [id: Nat \ {0}, committed: BOOLEAN, abandoned: BOOLEAN,
          disableOnExit: BOOLEAN, values: Entries]
Point == [block: Nat, identity: Identities]
Checkpoint == [point: Point, parent: Identities \cup {Absent}, view: Image]

-----------------------------------------------------------------------------
(* Reading the stack. *)

Live(l) == ~l.committed /\ ~l.abandoned
Settled(l) == l.committed /\ ~l.abandoned

LiveFrom(ls, n) == {i \in n..Len(ls) : Live(ls[i])}
CountLive(ls, n) == Cardinality(LiveFrom(ls, n))
Flagged(ls, n) == \E i \in n..Len(ls) : ls[i].disableOnExit

\* Vec::position on the layer id.
HasId(ls, id) == \E i \in DOMAIN ls : ls[i].id = id
IndexIn(ls, id) == CHOOSE i \in DOMAIN ls : ls[i].id = id
Holds(id) == HasId(layers, id)
IndexOf(id) == IndexIn(layers, id)

\* The entry that the layers from..to of ls, read top down, hold for k.
EntryOf(ls, from, to, k) ==
    LET S == {i \in from..to : ls[i].values[k] # Unset}
    IN  IF S = {} THEN Unset
        ELSE ls[CHOOSE i \in S : \A j \in S : j <= i].values[k]

\* OverlayStore::get and prefix: the layers below and including n over the root.
ValueAt(n, k) ==
    LET e == EntryOf(layers, 1, n, k) IN IF e = Unset THEN root[k] ELSE e

\* ReadView::capture_where: only the layers in the set S take part.
Capture(S) ==
    LET Hidden == [k \in Keys |-> Unset]
        shown == [i \in DOMAIN layers |->
                    IF i \in S THEN layers[i] ELSE [layers[i] EXCEPT !.values = Hidden]]
    IN  [k \in Keys |-> LET e == EntryOf(shown, 1, Len(layers), k)
                        IN  IF e = Unset THEN root[k] ELSE e]

\* SessionManager::read_view, the HEAD the APIs see.
HeadView == Capture({i \in DOMAIN layers : Settled(layers[i])})

\* ReadView::capture of all layers, what a checkpoint records.
StackView == Capture({i \in DOMAIN layers : ~layers[i].abandoned})

-----------------------------------------------------------------------------
Init ==
    /\ root = [k \in Keys |-> Absent]
    /\ layers = <<>> /\ checkpoints = <<>>
    /\ enabled = TRUE /\ active = 0 /\ nextId = 1
    /\ pendingOuter = 0 /\ closed = FALSE
    /\ handle = [h \in Handles |-> 0] /\ outer = 0

NewLayer(flag) ==
    [id |-> nextId, committed |-> FALSE, abandoned |-> FALSE,
     disableOnExit |-> flag, values |-> [k \in Keys |-> Unset]]

\* Mutant: the layer of a temporarily enabling session always owes the switch back,
\* also when sessions were on already.
PushLayerAlwaysOwing(temporarilyEnable) ==
    /\ nextId <= MaxSessions
    /\ layers' = Append(layers, NewLayer(temporarilyEnable))
    /\ enabled' = (enabled \/ temporarilyEnable)
    /\ nextId' = nextId + 1
    /\ active' = active + 1

\* push_layer: a temporarily enabling session switches sessions on and owes the
\* switch back when it exits.
PushLayer(temporarilyEnable) ==
    /\ nextId <= MaxSessions
    /\ layers' = Append(layers, NewLayer(temporarilyEnable /\ ~enabled))
    /\ enabled' = (enabled \/ temporarilyEnable)
    /\ nextId' = nextId + 1
    /\ active' = active + 1

\* build_session / build_session_enabled.  With sessions disabled build_session
\* returns a no-op Session, which touches nothing.
BuildSession(h, temporarilyEnable) ==
    /\ handle[h] = 0 /\ active = 0
    /\ enabled \/ temporarilyEnable
    /\ PushLayer(temporarilyEnable)
    /\ handle' = [handle EXCEPT ![h] = nextId]
    /\ UNCHANGED <<root, checkpoints, pendingOuter, closed, outer>>

\* Session::child of the session with this id: its layer must be the live top.
BuildChild(h, parent) ==
    /\ handle[h] = 0 /\ parent # 0
    /\ layers # <<>> /\ layers[Len(layers)].id = parent /\ Live(layers[Len(layers)])
    /\ PushLayer(TRUE)
    /\ handle' = [handle EXCEPT ![h] = nextId]
    /\ UNCHANGED <<root, checkpoints, pendingOuter, closed, outer>>

\* OverlayStore::put / delete through a session: only the live top layer accepts it.
Mutate(id, k, v) ==
    /\ id # 0 /\ layers # <<>>
    /\ layers[Len(layers)].id = id /\ Live(layers[Len(layers)])
    /\ layers' = [layers EXCEPT ![Len(layers)].values[k] = v]
    /\ UNCHANGED <<root, checkpoints, enabled, active, nextId, pendingOuter, closed, handle, outer>>

-----------------------------------------------------------------------------
(* Session::finish.  Every variant ends by dropping the stack from the     *)
(* first abandoned layer up and by paying back a temporary enable.         *)

FirstAbandoned(ls) ==
    LET S == {i \in DOMAIN ls : ls[i].abandoned}
    IN  IF S = {} THEN Len(ls) + 1 ELSE CHOOSE i \in S : \A j \in S : i <= j

\* Mutant: finish forgets to reclaim the layers above an abandoned one.
SettleKeepingAbandoned(ls, count, disable) ==
    /\ layers' = ls
    /\ active' = count
    /\ enabled' = (enabled /\ ~disable)

Settle(ls, count, disable) ==
    LET cut == FirstAbandoned(ls)
    IN  /\ layers' = SubSeq(ls, 1, cut - 1)
        /\ active' = count - CountLive(ls, cut)
        /\ enabled' = (enabled /\ ~disable /\ ~Flagged(ls, cut))

DescendantsCommitted(i) == \A j \in i + 1 .. Len(layers) : Settled(layers[j])

FinishCommit(i) ==
    /\ DescendantsCommitted(i)
    /\ Settle([layers EXCEPT ![i].committed = TRUE], active - 1, layers[i].disableOnExit)

\* The predecessor takes the entries of the merged layers, upper ones winning.
Absorb(i) ==
    [k \in Keys |-> EntryOf(layers, i - 1, Len(layers), k)]

FinishMerge(i) ==
    /\ DescendantsCommitted(i) /\ i > 1
    /\ Settle([SubSeq(layers, 1, i - 1) EXCEPT ![i - 1].values = Absorb(i)],
              active - 1, Flagged(layers, i))

\* Mutant: revoke subtracts the committed descendants it discards as well.
FinishRevokeAll(i) ==
    Settle(SubSeq(layers, 1, i - 1), active - (Len(layers) - i + 1), Flagged(layers, i))

FinishRevoke(i) ==
    Settle(SubSeq(layers, 1, i - 1), active - CountLive(layers, i), Flagged(layers, i))

Finish(i) == FinishCommit(i) \/ FinishMerge(i) \/ FinishRevoke(i)

\* commit, merge, revoke and destroy of a caller's session: the layer must exist
\* and be live; on success the handle is finalized.
FinishSession(h) ==
    /\ handle[h] # 0 /\ Holds(handle[h])
    /\ Live(layers[IndexOf(handle[h])])
    /\ Finish(IndexOf(handle[h]))
    /\ handle' = [handle EXCEPT ![h] = 0]
    /\ UNCHANGED <<root, checkpoints, nextId, pendingOuter, closed, outer>>

\* Mutant: close abandons the layer but leaves the active count alone.
AbandonUncounted(i) ==
    /\ layers' = [layers EXCEPT ![i].abandoned = TRUE]
    /\ UNCHANGED <<active, enabled>>

\* close with live descendants: the layer is only marked.
Abandon(i) ==
    /\ layers' = [layers EXCEPT ![i].abandoned = TRUE]
    /\ active' = active - 1
    /\ UNCHANGED enabled

\* Session::close, also run by Drop: revoke when nothing live is above, abandon
\* otherwise; a layer that is already gone only finalizes the handle.
CloseSession(h) ==
    /\ handle[h] # 0
    /\ LET i == IndexOf(handle[h])
       IN  \/ ~Holds(handle[h]) /\ UNCHANGED <<layers, active, enabled>>
           \/ /\ Holds(handle[h]) /\ LiveFrom(layers, i + 1) # {}
              /\ Abandon(i)
           \/ /\ Holds(handle[h]) /\ LiveFrom(layers, i + 1) = {}
              /\ Live(layers[i])
              /\ FinishRevoke(i)
    /\ handle' = [handle EXCEPT ![h] = 0]
    /\ UNCHANGED <<root, checkpoints, nextId, pendingOuter, closed, outer>>

-----------------------------------------------------------------------------
(* The pending pool's outer session (pending.rs). *)

PendingOpen ==
    /\ outer = 0 /\ pendingOuter = 0 /\ active = 0
    /\ PushLayer(TRUE)
    /\ pendingOuter' = nextId /\ outer' = nextId
    /\ UNCHANGED <<root, checkpoints, closed, handle>>

\* reset_pending_outer: the outer layer and what is above it give way to a fresh
\* layer that inherits the duty to switch sessions off again.
PendingReset ==
    /\ outer # 0 /\ pendingOuter = outer /\ Holds(outer)
    /\ nextId <= MaxSessions
    /\ LET i == IndexOf(outer)
       IN  /\ Live(layers[i]) /\ LiveFrom(layers, i + 1) = {}
           /\ layers' = Append(SubSeq(layers, 1, i - 1), NewLayer(Flagged(layers, i)))
           /\ active' = active - CountLive(layers, i) + 1
    /\ nextId' = nextId + 1
    /\ pendingOuter' = nextId /\ outer' = nextId
    /\ UNCHANGED <<root, checkpoints, enabled, closed, handle>>

PendingCommit ==
    /\ outer # 0 /\ Holds(outer) /\ Live(layers[IndexOf(outer)])
    /\ FinishCommit(IndexOf(outer))
    /\ pendingOuter' = (IF pendingOuter = outer THEN 0 ELSE pendingOuter)
    /\ outer' = 0
    /\ UNCHANGED <<root, checkpoints, nextId, closed, handle>>

\* Mutant: close revokes the outer layer and forgets to release the reservation.
PendingCloseUnreleased ==
    /\ outer # 0 /\ Holds(outer) /\ Live(layers[IndexOf(outer)])
    /\ FinishRevoke(IndexOf(outer))
    /\ outer' = 0
    /\ UNCHANGED <<root, checkpoints, nextId, pendingOuter, closed, handle>>

PendingClose ==
    /\ outer # 0 /\ Holds(outer) /\ Live(layers[IndexOf(outer)])
    /\ FinishRevoke(IndexOf(outer))
    /\ pendingOuter' = (IF pendingOuter = outer THEN 0 ELSE pendingOuter)
    /\ outer' = 0
    /\ UNCHANGED <<root, checkpoints, nextId, closed, handle>>

\* force_reset_pending_outer, and the pool's drop of its PendingSession after it.
PendingForceReset ==
    /\ pendingOuter # 0
    /\ LET i == IndexOf(pendingOuter)
       IN  \/ ~Holds(pendingOuter) /\ UNCHANGED <<layers, active, enabled>>
           \/ /\ Holds(pendingOuter)
              /\ layers' = SubSeq(layers, 1, i - 1)
              /\ active' = IF CountLive(layers, i) <= active THEN active - CountLive(layers, i) ELSE 0
              /\ enabled' = (enabled /\ ~Flagged(layers, i))
    /\ pendingOuter' = 0 /\ outer' = 0
    /\ UNCHANGED <<root, checkpoints, nextId, closed, handle>>

-----------------------------------------------------------------------------
(* Checkpoints of committed block states. *)

NewCheckpoint(p) ==
    [point |-> p,
     parent |-> IF checkpoints = <<>> THEN Absent
                ELSE checkpoints[Len(checkpoints)].point.identity,
     view |-> StackView]

Extends(p) ==
    /\ \A i \in DOMAIN checkpoints : checkpoints[i].point.identity # p.identity
    /\ checkpoints # <<>> => checkpoints[Len(checkpoints)].point.block < p.block

RecordCheckpoint(p) ==
    /\ active = 0 /\ \A i \in DOMAIN layers : Settled(layers[i])
    /\ Extends(p)
    /\ checkpoints' = Append(checkpoints, NewCheckpoint(p))
    /\ UNCHANGED <<root, layers, enabled, active, nextId, pendingOuter, closed, handle, outer>>

\* commit_with_checkpoint.  Its one caller, BlockManager::apply_block_mode, uses
\* it on a session it opened with build_session_enabled: only settled layers are below.
CommitWithCheckpoint(h, p) ==
    /\ handle[h] # 0 /\ Holds(handle[h])
    /\ LET i == IndexOf(handle[h])
       IN  /\ Live(layers[i]) /\ DescendantsCommitted(i)
           /\ \A j \in 1 .. i - 1 : Settled(layers[j])
           /\ layers' = [layers EXCEPT ![i].committed = TRUE]
           /\ enabled' = (enabled /\ ~layers[i].disableOnExit)
    /\ Extends(p)
    /\ active' = active - 1
    /\ checkpoints' = Append(checkpoints, NewCheckpoint(p))
    /\ handle' = [handle EXCEPT ![h] = 0]
    /\ UNCHANGED <<root, nextId, pendingOuter, closed, outer>>

RewindCheckpoint(identity) ==
    /\ active = 0 /\ layers # <<>> /\ checkpoints # <<>>
    /\ Settled(layers[Len(layers)])
    /\ checkpoints[Len(checkpoints)].point.identity = identity
    /\ layers' = SubSeq(layers, 1, Len(layers) - 1)
    /\ checkpoints' = SubSeq(checkpoints, 1, Len(checkpoints) - 1)
    /\ UNCHANGED <<root, enabled, active, nextId, pendingOuter, closed, handle, outer>>

-----------------------------------------------------------------------------
(* Operations on the whole stack and on the durable root. *)

\* pop and fast_pop: the checkpoint history is left alone.
Pop ==
    /\ active = 0 /\ layers # <<>> /\ layers[Len(layers)].committed
    /\ layers' = SubSeq(layers, 1, Len(layers) - 1)
    /\ UNCHANGED <<root, checkpoints, enabled, active, nextId, pendingOuter, closed, handle, outer>>

\* Mutant: an upper layer's entry is overwritten by the one below it.
FlushOldest ==
    [k \in Keys |->
        LET S == {i \in DOMAIN layers : layers[i].values[k] # Unset}
        IN  IF S = {} THEN root[k] ELSE layers[CHOOSE i \in S : \A j \in S : i <= j].values[k]]

\* flush_committed_locked: the merged entries reach the root in one batch.
Flushed == [k \in Keys |-> ValueAt(Len(layers), k)]

FlushCommitted ==
    /\ active = 0 /\ ~closed /\ \A i \in DOMAIN layers : layers[i].committed
    /\ root' = Flushed /\ layers' = <<>>
    /\ UNCHANGED <<checkpoints, enabled, active, nextId, pendingOuter, closed, handle, outer>>

Destroy ==
    /\ active = 0
    /\ layers' = <<>>
    /\ UNCHANGED <<root, checkpoints, enabled, active, nextId, pendingOuter, closed, handle, outer>>

\* shutdown_aggregated: flush or drop the layers, then close the root.
Shutdown(flush) ==
    /\ ~closed /\ active = 0
    /\ flush => \A i \in DOMAIN layers : layers[i].committed
    /\ root' = IF flush THEN Flushed ELSE root
    /\ layers' = <<>> /\ closed' = TRUE
    /\ UNCHANGED <<checkpoints, enabled, active, nextId, pendingOuter, handle, outer>>

\* DurableStore::put / delete, refused while a session is active.
DurablePut(k, v) ==
    /\ active = 0 /\ ~closed
    /\ root' = [root EXCEPT ![k] = v]
    /\ UNCHANGED <<layers, checkpoints, enabled, active, nextId, pendingOuter, closed, handle, outer>>

\* publish_committed_metadata, allowed under active sessions.
PublishMetadata(k, v) ==
    /\ ~closed
    /\ root' = [root EXCEPT ![k] = v]
    /\ UNCHANGED <<layers, checkpoints, enabled, active, nextId, pendingOuter, closed, handle, outer>>

Enable ==
    /\ enabled' = TRUE
    /\ UNCHANGED <<root, layers, checkpoints, active, nextId, pendingOuter, closed, handle, outer>>

\* Mutant: disable does not look at the active sessions.
DisableAlways ==
    /\ enabled' = FALSE
    /\ UNCHANGED <<root, layers, checkpoints, active, nextId, pendingOuter, closed, handle, outer>>

Disable ==
    /\ active = 0
    /\ enabled' = FALSE
    /\ UNCHANGED <<root, layers, checkpoints, active, nextId, pendingOuter, closed, handle, outer>>

-----------------------------------------------------------------------------
Points == [block: 0..MaxBlock, identity: Identities]
Owners == {outer} \cup {handle[g] : g \in Handles}

SessionNext ==
    \E h \in Handles :
        \/ \E t \in BOOLEAN : BuildSession(h, t)
        \/ \E parent \in Owners : BuildChild(h, parent)
        \/ FinishSession(h)
        \/ CloseSession(h)
        \/ \E p \in Points : CommitWithCheckpoint(h, p)

StoreNext ==
    \E k \in Keys :
        \/ \E id \in Owners, v \in Vals \cup {Absent} : Mutate(id, k, v)
        \/ \E v \in Vals \cup {Absent} : DurablePut(k, v)
        \/ \E v \in Vals : PublishMetadata(k, v)

PendingNext ==
    \/ PendingOpen \/ PendingReset \/ PendingCommit \/ PendingClose \/ PendingForceReset

ManagerNext ==
    \/ \E p \in Points : RecordCheckpoint(p)
    \/ \E d \in Identities : RewindCheckpoint(d)
    \/ Pop \/ FlushCommitted \/ Destroy
    \/ \E flush \in BOOLEAN : Shutdown(flush)
    \/ Enable \/ Disable

Next == SessionNext \/ StoreNext \/ PendingNext \/ ManagerNext

\* Rust drops every Session and every PendingSession its owner lets go of.
Fairness ==
    /\ \A h \in Handles : WF_vars(CloseSession(h))
    /\ WF_vars(PendingClose)

Spec == Init /\ [][Next]_vars
FairSpec == Spec /\ Fairness

-----------------------------------------------------------------------------
TypeOK ==
    /\ root \in Image
    /\ layers \in Seq(Layer)
    /\ checkpoints \in Seq(Checkpoint)
    /\ enabled \in BOOLEAN
    /\ active \in Nat
    /\ nextId \in Nat \ {0}
    /\ pendingOuter \in Nat
    /\ closed \in BOOLEAN
    /\ handle \in [Handles -> Nat]
    /\ outer \in Nat

\* ManagerState.active is the number of live layers, so `active != 0` refuses exactly
\* when some speculative layer exists and no checked_sub of finish, close or
\* reset_pending_outer can fail after the layers were already changed.
ActiveCount == active = CountLive(layers, 1)

\* An abandoned layer always has a live layer above it whose end reclaims it: with
\* no active session every layer is committed and not abandoned, so flush_committed,
\* record_checkpoint and checkpoint_state can never be stuck on a leftover layer.
AbandonedCovered ==
    \A i \in DOMAIN layers :
        layers[i].abandoned => \E j \in DOMAIN layers : i < j /\ Live(layers[j])

\* Sessions stay enabled as long as one is active, whatever mixture of temporary
\* enables, resets and abandoned parents led here.
EnabledWhileActive == active # 0 => enabled

\* The reservation of the pending layer and the PendingSession that owns it agree, and
\* the reserved layer is in the stack and live with only settled layers below it: the
\* slot can always be released, so build_pending_outer is never refused for good.
PendingSlot ==
    /\ pendingOuter = outer
    /\ outer # 0 => \E p \in DOMAIN layers :
                        /\ layers[p].id = outer /\ Live(layers[p])
                        /\ \A j \in 1 .. p - 1 : Settled(layers[j])

-----------------------------------------------------------------------------
(* The inductive invariant behind ActiveCount, AbandonedCovered,           *)
(* EnabledWhileActive and PendingSlot: ids are fresh and unique, so an id  *)
(* names one layer and one owner; an owned layer is live; and a layer that *)
(* must switch sessions off again is the lowest unsettled one.             *)

Fresh ==
    /\ \A i \in DOMAIN layers : layers[i].id < nextId
    /\ \A h \in Handles : handle[h] < nextId
    /\ outer < nextId

Distinct(ls) == \A i, j \in DOMAIN ls : ls[i].id = ls[j].id => i = j

OwnersDistinct ==
    /\ \A g, h \in Handles : handle[g] # 0 /\ handle[g] = handle[h] => g = h
    /\ \A h \in Handles : handle[h] # 0 => handle[h] # outer

OwnedLive ==
    \A h \in Handles : \A i \in DOMAIN layers : layers[i].id = handle[h] => Live(layers[i])

FlagBottom(ls) ==
    \A i \in DOMAIN ls : ls[i].disableOnExit => \A j \in 1 .. i - 1 : Settled(ls[j])

StackInv ==
    /\ TypeOK /\ ActiveCount /\ AbandonedCovered /\ EnabledWhileActive /\ PendingSlot
    /\ Fresh /\ Distinct(layers) /\ OwnersDistinct /\ OwnedLive /\ FlagBottom(layers)

-----------------------------------------------------------------------------
\* The overlay layers implement nested whole-store snapshots: what a session reads
\* through its layer is the image NestedSnapshots keeps for that level, through every
\* write, merge, revoke, abandonment, reset, rewind and flush.
Snapshots == INSTANCE NestedSnapshots WITH
    snaps <- [n \in 1 .. Len(layers) + 1 |-> [k \in Keys |-> ValueAt(n - 1, k)]]
ImplementsSnapshots == Snapshots!Spec

\* Once no more sessions can be opened, dropping the handles drains the stack: no
\* live layer is left without an owner to end it.
SessionsDrain == <>[](nextId > MaxSessions) => <>[](active = 0)
=============================================================================
