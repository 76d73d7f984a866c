-------------------------- MODULE NestedSnapshots ---------------------------
(***************************************************************************)
(* What the overlay stack promises: nested whole-store snapshots.  snaps   *)
(* holds one complete image per level, the durable root first.  Only the   *)
(* top image is written, opening a level copies it, and a level ends by    *)
(* being discarded with everything above it or by passing the top image    *)
(* down.  No overlay, tombstone or layer flag appears here.                *)
(***************************************************************************)
EXTENDS Naturals, Sequences

CONSTANTS Keys, Vals, Absent

VARIABLE snaps

Images == [Keys -> Vals \cup {Absent}]
Top == snaps[Len(snaps)]

Init == snaps = <<[k \in Keys |-> Absent]>>

\* A new level starts from the image below it.
Open == snaps' = Append(snaps, Top)

\* A session writes its own image.
Write(k, v) ==
    /\ Len(snaps) > 1
    /\ snaps' = [snaps EXCEPT ![Len(snaps)][k] = v]

\* Levels above n are discarded.
Discard(n) == snaps' = SubSeq(snaps, 1, n)

\* The top image becomes the image of level n, which becomes the top level.
PassDown(n) == snaps' = Append(SubSeq(snaps, 1, n - 1), Top)

\* Levels above n are replaced by one fresh level.
Restart(n) == snaps' = Append(SubSeq(snaps, 1, n), snaps[n])

\* A write to the durable root shows through the levels that did not set the key:
\* those up to some level n.
WriteRoot(k, v, n) ==
    snaps' = [i \in DOMAIN snaps |-> IF i <= n THEN [snaps[i] EXCEPT ![k] = v] ELSE snaps[i]]

Next ==
    \/ \E n \in DOMAIN snaps : Discard(n)
    \/ Open
    \/ \E k \in Keys, v \in Vals \cup {Absent} : Write(k, v)
    \/ \E n \in DOMAIN snaps : PassDown(n)
    \/ \E n \in DOMAIN snaps : Restart(n)
    \/ \E k \in Keys, v \in Vals \cup {Absent}, n \in DOMAIN snaps : WriteRoot(k, v, n)

Spec == Init /\ [][Next]_snaps
=============================================================================
