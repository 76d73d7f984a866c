--------------------------- MODULE StoreTransaction ---------------------------
(***************************************************************************)
(* Whole-store transactions of the toolkit (tron-storage/src/toolkit.rs):   *)
(* copy, replace and move a store through a staging directory and a journal *)
(* in the parent directory, and resume or roll back one that was cut off.   *)
(*                                                                         *)
(* Every rename is followed by a sync and then by an update of the journal, *)
(* which replaces it atomically: between the two the directory is one step  *)
(* ahead of the journal.  A directory is removed file by file: on the way   *)
(* it is "half" a store, which no fingerprint matches.  The parent's lock   *)
(* admits one actor at a time.  A transaction on a destination that still   *)
(* has a journal is not modelled.                                           *)
(***************************************************************************)
EXTENDS Integers

CONSTANTS Modes, MaxTxRuns, MaxTxFaults   \* RewriteMode values; bounds of the model

ASSUME TransactionAssumption ==
    Modes \subseteq {"create", "replace", "move"} /\ {MaxTxRuns, MaxTxFaults} \subseteq Nat

VARIABLES tree,  \* destination, staging, backup, source and quarantine directories
          jrn,   \* the journal: phase, mode, and the identities it has recorded
          actor, \* who holds the lock, and its next step
          txRuns, txFaults
txVars == <<tree, jrn, actor, txRuns, txFaults>>

NoJournal == [phase |-> "none", mode |-> "none", staging |-> FALSE, backup |-> FALSE, quarantine |-> FALSE]
Nobody == [who |-> "none", at |-> "none"]
TxInit ==
    /\ tree \in {[dest |-> d, staging |-> "none", backup |-> "none", source |-> "store", quarantine |-> "none"] : d \in {"none", "old"}}
    /\ jrn = NoJournal /\ actor = Nobody /\ txRuns = 0 /\ txFaults = 0

-----------------------------------------------------------------------------
\* rewrite_store: preflight, then the journal.  Create and move want no destination,
\* replace wants one.  Contents are named from the transaction's view: what a replace
\* finds at the destination is its "old" store.
Preflight(mode) == (mode = "replace" <=> tree.dest # "none") /\ tree.source = "store"
StartRewrite(mode) ==
    /\ actor = Nobody /\ jrn = NoJournal /\ Preflight(mode) /\ tree.staging = "none" /\ tree.backup = "none"
    /\ txRuns < MaxTxRuns /\ txRuns' = txRuns + 1
    /\ jrn' = [NoJournal EXCEPT !.phase = "prepared", !.mode = mode]
    /\ tree' = [tree EXCEPT !.dest = IF mode = "replace" THEN "old" ELSE @]
    /\ actor' = [who |-> "rewrite", at |-> "stage"] /\ UNCHANGED txFaults

Step(from, to, t, j) ==
    /\ actor.at = from /\ actor' = [actor EXCEPT !.at = to]
    /\ tree' = t /\ jrn' = j /\ UNCHANGED <<txRuns, txFaults>>
Phase(p) == [jrn EXCEPT !.phase = p]
\* remove_tree_identity on its way through the files of a directory that is there.
Halved(dir) == IF dir = "none" THEN dir ELSE "half"

\* The staging store: created, recorded, filled through RewriteSink, synced and fingerprinted.
Stage ==
    \/ Step("stage", "staged", [tree EXCEPT !.staging = "part"], jrn)
    \/ Step("staged", "write", tree, [Phase("staging_created") EXCEPT !.staging = TRUE])
    \/ Step("write", "sync", [tree EXCEPT !.staging = "new"], Phase("data_written"))
    \/ Step("sync", "verify", tree, Phase("data_synced"))
    \/ Step("verify", IF jrn.mode = "replace" THEN "backup" ELSE "publish", tree, Phase("verified"))
\* The original goes aside only when the new store is verified.
BackUpOriginal ==
    \/ /\ tree.dest # "none"
       /\ Step("backup", "backedup", [tree EXCEPT !.backup = tree.dest, !.dest = "none"], jrn)
    \/ Step("backedup", "publish", tree, [Phase("original_backed_up") EXCEPT !.backup = TRUE])
\* rename_noreplace of the staging store to the destination.
Publish ==
    \/ /\ tree.dest = "none"
       /\ Step("publish", "published", [tree EXCEPT !.dest = tree.staging, !.staging = "none"], jrn)
    \/ Step("published", IF jrn.mode = "move" THEN "quarantine" ELSE IF jrn.mode = "replace" THEN "dropbackup" ELSE "finish",
            tree, Phase("destination_published"))
\* The source of a move is removed as soon as the staging store is renamed.
RemoveSourceUnverified ==
    \/ Step("quarantine", "quarantined", [tree EXCEPT !.source = "none"], jrn)
    \/ Step("quarantined", "finish", [tree EXCEPT !.dest = "none"], Phase("source_removed"))
\* The source of a move is renamed aside, recorded, and only then removed.
RemoveSource ==
    \/ Step("quarantine", "quarantined", [tree EXCEPT !.quarantine = tree.source, !.source = "none"], jrn)
    \/ Step("quarantined", "remove", tree, [Phase("source_quarantined") EXCEPT !.quarantine = TRUE])
    \/ Step("remove", "removing", [tree EXCEPT !.quarantine = Halved(@)], jrn)
    \/ Step("removing", "removed", [tree EXCEPT !.quarantine = "none"], jrn)
    \/ Step("removed", "finish", tree, Phase("source_removed"))
Finish ==
    \/ Step("dropbackup", "dropping", [tree EXCEPT !.backup = Halved(@)], jrn)
    \/ Step("dropping", "finish", [tree EXCEPT !.backup = "none"], jrn)
    \/ /\ actor.at = "finish" /\ jrn' = NoJournal /\ actor' = Nobody /\ UNCHANGED <<tree, txRuns, txFaults>>

-----------------------------------------------------------------------------
Early == {"prepared", "staging_created", "data_written", "data_synced"}
\* rollback_transaction: the phases and directories it accepts ...
RollbackAccepts ==
    IF jrn.mode = "replace"
    THEN \/ jrn.phase \in Early /\ tree.dest = "old" /\ tree.backup = "none"
         \/ jrn.phase = "verified" /\ tree.staging = "new" /\ tree.dest = "old" /\ tree.backup = "none"
         \/ jrn.phase \in {"verified", "original_backed_up", "destination_published"} /\ tree.backup = "old"
            /\ {tree.staging, tree.dest} \subseteq {"none", "new"}
    ELSE /\ tree.dest = "none" /\ tree.backup = "none"
         /\ jrn.phase \in Early \/ (jrn.phase = "verified" /\ tree.staging = "new")
\* ... what it has removed by the time it needs an identity the journal lacks ...
RollbackRestores == tree.backup # "none" => jrn.backup
RollbackClears == tree.staging # "none" => jrn.staging
\* ... and what it does: drop the published copy and the staging store, put the backup back.
Unpublishes == jrn.mode = "replace" /\ tree.backup # "none"
Unpublishing == [tree EXCEPT !.dest = IF Unpublishes THEN Halved(@) ELSE @]
Unpublished == [tree EXCEPT !.dest = IF Unpublishes THEN "none" ELSE @]
Clearing == [Unpublished EXCEPT !.staging = Halved(@)]
Cleared == [Unpublished EXCEPT !.staging = "none"]
Restored == IF tree.backup # "none" THEN [Cleared EXCEPT !.dest = tree.backup, !.backup = "none"] ELSE Cleared
RolledBack ==
    IF ~RollbackAccepts THEN tree
    ELSE IF ~RollbackClears THEN Unpublished ELSE IF ~RollbackRestores THEN Cleared ELSE Restored
RollbackEnds == RollbackAccepts /\ RollbackClears /\ RollbackRestores
RollBack ==
    /\ tree' = RolledBack /\ jrn' = (IF RollbackEnds THEN NoJournal ELSE jrn) /\ actor' = Nobody
RollbackTransaction ==
    /\ actor = Nobody /\ jrn # NoJournal /\ RollbackAccepts /\ RollBack /\ UNCHANGED <<txRuns, txFaults>>
\* A rollback dies, or an operation of it fails, on its way: the journal is removed last.
CrashInRollback ==
    /\ actor = Nobody /\ jrn # NoJournal /\ RollbackAccepts /\ txFaults < MaxTxFaults /\ txFaults' = txFaults + 1
    /\ \/ tree' \in {Unpublishing, Unpublished}
       \/ RollbackClears /\ tree' \in {Clearing, Cleared}
       \/ RollbackEnds /\ tree' = Restored
    /\ UNCHANGED <<jrn, actor, txRuns>>

\* A resume that has no case for a replace whose original is already aside.
ResumeAtForgetful ==
    IF jrn.mode = "replace" /\ jrn.phase = "destination_published" THEN "invalid"
    ELSE IF jrn.phase = "destination_published" /\ tree.dest = "new" THEN "finish" ELSE "invalid"
\* resume_transaction: where it takes up the work, for what the journal and the directories say.
ResumeAt ==
    CASE jrn.mode # "replace" /\ jrn.phase = "verified" ->
            IF tree.dest = "none" /\ tree.staging = "new" THEN "publish" ELSE "invalid"
      [] jrn.mode = "replace" /\ jrn.phase = "verified" ->
            IF tree.staging # "new" \/ (tree.dest = "none") = (tree.backup = "none") THEN "invalid"
            ELSE IF tree.dest = "old" THEN "backup"
            ELSE IF tree.backup = "old" /\ jrn.backup THEN "backedup" ELSE "invalid"
      [] jrn.mode = "replace" /\ jrn.phase = "original_backed_up" ->
            IF tree.backup # "old" THEN "invalid"
            ELSE IF tree.staging = "new" /\ tree.dest = "none" THEN "publish"
            ELSE IF tree.staging = "none" /\ tree.dest = "new" THEN "published" ELSE "invalid"
      [] jrn.phase = "destination_published" ->
            IF tree.dest # "new" \/ tree.staging # "none" THEN "invalid"
            ELSE IF jrn.mode = "move" THEN (IF tree.source = "store" /\ tree.quarantine = "none" THEN "quarantine" ELSE "invalid")
            ELSE IF jrn.mode = "replace" THEN (IF tree.backup = "half" THEN "invalid" ELSE "dropbackup") ELSE "finish"
      [] jrn.phase = "source_quarantined" ->
            IF tree.source = "none" /\ tree.quarantine = "store" /\ jrn.quarantine THEN "remove" ELSE "invalid"
      [] OTHER -> "invalid"
ResumeTransaction ==
    /\ actor = Nobody /\ jrn # NoJournal /\ ResumeAt # "invalid"
    /\ actor' = [who |-> "resume", at |-> ResumeAt] /\ UNCHANGED <<tree, jrn, txRuns, txFaults>>

\* A step of rewrite_store fails before the destination is published: it rolls back itself.
\* Later, and in a resume, the journal is left for the next recovery.
UnpublishedSteps == {"stage", "staged", "write", "sync", "verify", "backup", "backedup", "publish", "published"}
StepFails ==
    /\ actor.who = "rewrite" /\ actor.at \in UnpublishedSteps
    /\ txFaults < MaxTxFaults /\ txFaults' = txFaults + 1 /\ RollBack /\ UNCHANGED txRuns
CrashTx ==
    /\ actor # Nobody /\ txFaults < MaxTxFaults /\ txFaults' = txFaults + 1
    /\ actor' = Nobody /\ UNCHANGED <<tree, jrn, txRuns>>

TxNext ==
    \/ (\E m \in Modes : StartRewrite(m)) \/ Stage \/ BackUpOriginal \/ Publish \/ RemoveSource \/ Finish
    \/ RollbackTransaction \/ CrashInRollback \/ ResumeTransaction \/ StepFails \/ CrashTx

-----------------------------------------------------------------------------
TxTypeOK ==
    /\ {tree.dest, tree.staging, tree.backup, tree.source, tree.quarantine}
         \subseteq {"none", "part", "half", "old", "new", "store"}
    /\ jrn.mode \in {"none", "create", "replace", "move"} /\ actor.who \in {"none", "rewrite", "resume"}

(* Whatever step a copy, replace or move, or the recovery of one, fails or dies at, a *)
(* complete store survives: the original of a replace under its name or as the        *)
(* backup until the new store is published, the moved content at its source, in       *)
(* quarantine or at the destination.  A half-built store is never the destination; a  *)
(* half-removed one is only while the whole original is its backup, and a backup or   *)
(* a source is only removed while the new store is the destination (rewrite_store,     *)
(* resume_transaction, rollback_transaction, remove_tree_identity).                    *)
StoreNeverLost ==
    /\ tree.dest # "part" /\ tree.backup # "part"
    /\ "store" \in {tree.source, tree.quarantine} \/ tree.dest = "new"
    /\ jrn.mode = "replace" => "old" \in {tree.dest, tree.backup} \/ tree.dest = "new"
    /\ tree.dest = "half" => tree.backup = "old"
    /\ "half" \in {tree.backup, tree.quarantine} => tree.dest = "new"
    /\ jrn = NoJournal /\ actor = Nobody => tree.staging = "none" /\ tree.backup = "none" /\ tree.quarantine = "none"

(* The journal lags the directory by the one change that follows it; a rollback, which *)
(* does not journal its own steps, by as much as it has already put back.             *)
OneStepAhead ==
    \/ jrn.mode = "replace" /\ tree.dest = "old" /\ tree.staging = "none" /\ jrn.phase \notin Early
    \/ tree.staging # "none" /\ ~jrn.staging
    \/ tree.backup # "none" /\ ~jrn.backup
    \/ jrn.mode # "replace" /\ jrn.phase = "verified" /\ tree.staging = "none"
    \/ jrn.phase = "destination_published" /\ jrn.mode = "move" /\ tree.source = "none"
    \/ jrn.phase = "source_quarantined" /\ tree.quarantine = "none"
(* A directory whose fingerprint the recovery will ask for was being removed.          *)
HalfRemoved ==
    "half" \in {tree.dest, tree.backup, tree.quarantine} \/ (tree.staging = "half" /\ jrn.phase \notin Early)
(* A transaction that was cut off can be resumed or rolled back, unless the crash fell *)
(* between a rename and the update of the journal that follows it, inside the removal  *)
(* of the published copy, of a verified staging store, of the backup or of the         *)
(* quarantined source, or after source_removed was recorded, which resume_transaction  *)
(* names among the phases it accepts and then refuses.                                 *)
JournalResolvable ==
    actor = Nobody /\ jrn # NoJournal =>
        \/ ResumeAt # "invalid" \/ RollbackEnds
        \/ OneStepAhead \/ HalfRemoved \/ jrn.phase = "source_removed"

(* A store rewrite loses nothing, and can be ended after a crash outside the windows  *)
(* named above (toolkit.rs).                                                           *)
RewriteCrashSafe == StoreNeverLost /\ JournalResolvable
=============================================================================
