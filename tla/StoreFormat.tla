----------------------------- MODULE StoreFormat -----------------------------
(***************************************************************************)
(* The directory of one store (tron-storage/src/format.rs, fs.rs and        *)
(* snapshot_bundle.rs): classification, first initialization, migration to  *)
(* the next generation, import of a signed snapshot, and the recovery of    *)
(* each of them after a crash.                                              *)
(*                                                                         *)
(* Every step below ends with the sync the code ends it with, so a crash    *)
(* leaves the directory as the last step left it; the two windows in which  *)
(* a file is half written are steps of their own.                           *)
(***************************************************************************)
EXTENDS Integers, FiniteSets

CONSTANTS Snapshots,   \* snapshot files offered: [hash, signed, root, body]
          MaxRootOps, MaxRootFaults  \* bounds of the model

\* "none" and "new" stand for the root of an empty and of a migrated store.
ASSUME FormatAssumption ==
    /\ {MaxRootOps, MaxRootFaults} \subseteq Nat
    /\ \A s \in Snapshots : {s.hash, s.signed} \subseteq BOOLEAN /\ s.root \notin {"none", "new"}

VARIABLES root,   \* the entries of the store's directory
          rootJob,    \* the operation that holds the lock: name, step, snapshot
          jobs, rootFaults
formatVars == <<root, rootJob, jobs, rootFaults>>

NoSnapshot == [hash |-> FALSE, signed |-> FALSE, root |-> "none", body |-> "bad"]
NoJob == [name |-> "none", at |-> 0, snap |-> NoSnapshot]
\* gens: generation directories with a whole content; manifest: the generation it names;
\* rootOf: its state_root; the journals by phase; staging directories by how far they are.
EmptyRoot == [gens |-> {}, manifest |-> -1, rootOf |-> "none", initj |-> "none", mtemp |-> FALSE,
              mig |-> "none", migStage |-> "none", backup |-> FALSE, migRoot |-> "none",
              imp |-> "none", impStage |-> "none", impRoot |-> "none", stray |-> FALSE, java |-> FALSE,
              resync |-> FALSE, schema |-> 1]

FormatInit ==
    /\ root \in {EmptyRoot, [EmptyRoot EXCEPT !.java = TRUE],
                 [EmptyRoot EXCEPT !.gens = {0}, !.manifest = 0]}
    /\ rootJob = NoJob /\ jobs = 0 /\ rootFaults = 0

-----------------------------------------------------------------------------
\* initialization_state: what may lie beside an initialization journal of each phase; any
\* other entry (a later generation, the backup of a manifest, a temporary file) is refused.
InitConsistent(r) ==
    /\ r.initj # "torn" /\ ~r.stray /\ r.gens \subseteq {0} /\ ~r.backup
    /\ r.initj = "journal" => ~r.mtemp /\ r.manifest = -1
    /\ r.initj = "generation" => 0 \in r.gens /\ ~(r.mtemp /\ r.manifest = 0)
    /\ r.initj = "manifest" => 0 \in r.gens /\ r.manifest = 0 /\ ~r.mtemp
    /\ r.mtemp \/ r.manifest = 0 => 0 \in r.gens
\* classify_at: the lock file does not count, a Java marker comes first, then journals
\* of migrations and imports, then the initialization journal, then the manifest.
Classify(r) ==
    IF r.java THEN "java"
    ELSE IF r.mig # "none" \/ r.imp # "none" \/ r.migStage # "none" \/ r.impStage # "none" THEN "partial"
    ELSE IF r.initj # "none" THEN (IF InitConsistent(r) THEN "initializing" ELSE "corrupt")
    ELSE IF r.manifest >= 0 THEN "rust"
    ELSE IF r.gens = {} /\ ~r.stray /\ ~r.mtemp /\ ~r.backup THEN "empty" ELSE "ambiguous"
\* open_manifest_at and Manifest::validate, for an executable that requires this schema:
\* only the manifest is read, whatever else the directory holds.
Validates(r, schema) == r.manifest >= 0 /\ r.schema = schema

Begin(name, at, snap) == rootJob = NoJob /\ jobs < MaxRootOps /\ jobs' = jobs + 1 /\ rootJob' = [name |-> name, at |-> at, snap |-> snap]
At(name, at) == rootJob.name = name /\ rootJob.at = at
GoTo(at) == rootJob' = [rootJob EXCEPT !.at = at]
FormatDone == rootJob' = NoJob
Same == UNCHANGED <<jobs, rootFaults>>

\* initialize_empty_at, which open_store and open_retained_store call under the lock.
StartInit ==
    /\ Classify(root) \in {"empty", "initializing"} /\ Begin("init", IF Classify(root) = "empty" THEN 1 ELSE 3, NoSnapshot)
    /\ UNCHANGED <<root, rootFaults>>
\* write_initialization_journal: created or truncated, then written: half written in between.
InitJournal ==
    /\ rootJob.name = "init" /\ Same
    /\ \/ At("init", 1) /\ GoTo(2) /\ root' = [root EXCEPT !.initj = "torn"]
       \/ At("init", 2) /\ GoTo(3) /\ root' = [root EXCEPT !.initj = "journal"]
       \/ At("init", 4) /\ GoTo(5) /\ root' = [root EXCEPT !.initj = "torn"]
       \/ At("init", 5) /\ GoTo(6) /\ root' = [root EXCEPT !.initj = "generation"]
       \/ At("init", 8) /\ GoTo(9) /\ root' = [root EXCEPT !.initj = "torn"]
       \/ At("init", 9) /\ GoTo(10) /\ root' = [root EXCEPT !.initj = "manifest"]
\* The generation, unless a manifest is there already; temporary manifests are removed.
InitGeneration ==
    /\ At("init", 3) /\ Same
    /\ root' = [root EXCEPT !.mtemp = FALSE, !.gens = IF root.manifest = 0 THEN @ ELSE @ \cup {0}]
    /\ GoTo(IF root.manifest = 0 THEN 8 ELSE 4)
\* install_atomic_at: a temporary file, then the rename.
InitManifest ==
    /\ Same
    /\ \/ At("init", 6) /\ GoTo(7) /\ root' = [root EXCEPT !.mtemp = TRUE]
       \/ At("init", 7) /\ GoTo(8) /\ root' = [root EXCEPT !.mtemp = FALSE, !.manifest = 0]
\* cleanup_initialization
InitCleanup == At("init", 10) /\ Same /\ FormatDone /\ root' = [root EXCEPT !.initj = "none", !.mtemp = FALSE]

-----------------------------------------------------------------------------
\* migration_edge: schema 1 to 2 and no other.
MigrationEdge(r) == r.schema = 1
\* migrate_generation asks for the manifest, and for no migration under way: it does not ask
\* whether the initialization or the import that wrote the manifest has been finished.
StartMigration ==
    /\ Validates(root, 1) /\ MigrationEdge(root)
    /\ root.migStage = "none" /\ root.mig = "none" /\ (root.manifest + 1) \notin root.gens
    /\ Begin("migrate", 0, NoSnapshot) /\ UNCHANGED <<root, rootFaults>>
\* Then the journal, staging, data, journal ready, backup of the manifest, rename.
MigrationData ==
    /\ Same
    /\ \/ At("migrate", 0) /\ GoTo(1) /\ root' = [root EXCEPT !.mig = "prepared", !.migRoot = "none"]
       \/ At("migrate", 1) /\ GoTo(2) /\ root' = [root EXCEPT !.migStage = "part"]
       \/ At("migrate", 2) /\ GoTo(3) /\ root' = [root EXCEPT !.migStage = "whole"]
       \/ At("migrate", 3) /\ GoTo(4) /\ root' = [root EXCEPT !.mig = "ready", !.migRoot = "new"]
       \/ At("migrate", 4) /\ GoTo(5) /\ root' = [root EXCEPT !.backup = TRUE]
       \/ At("migrate", 5) /\ GoTo(6) /\ root' = [root EXCEPT !.migStage = "none", !.gens = @ \cup {root.manifest + 1}]
\* The switch: one rename, after which the migration can only go forward.
SwitchManifest ==
    /\ rootJob.name \in {"migrate", "resume"} /\ rootJob.at = 6 /\ GoTo(7) /\ Same
    /\ root' = [root EXCEPT !.manifest = @ + 1, !.rootOf = root.migRoot, !.schema = 2]
\* cleanup_migration_at: the journal, then the backup.
CleanupMigration ==
    /\ rootJob.name \in {"migrate", "resume", "rollback"} /\ Same
    /\ \/ rootJob.at = 7 /\ GoTo(8) /\ root' = [root EXCEPT !.mig = "none", !.migRoot = "none"]
       \/ rootJob.at = 8 /\ FormatDone /\ root' = [root EXCEPT !.backup = FALSE]

\* rollback_migration (and rollback_migration_checked): a prepared journal whose manifest
\* is still the old one.
StartRollback ==
    /\ root.mig = "prepared" /\ root.schema = 1 /\ Begin("rollback", 1, NoSnapshot) /\ UNCHANGED <<root, rootFaults>>
RollbackTreesOffByOne ==
    /\ At("rollback", 1) /\ GoTo(7) /\ Same
    /\ root' = [root EXCEPT !.migStage = "none", !.gens = @ \ {root.manifest}]
RollbackTrees ==
    /\ At("rollback", 1) /\ GoTo(7) /\ Same
    /\ root' = [root EXCEPT !.migStage = "none", !.gens = @ \ {root.manifest + 1}]
\* resume_migration: a ready journal; the manifest is already switched, or the generation
\* is published if it still waits in staging.
ResumeMigration ==
    /\ root.mig = "ready" /\ UNCHANGED rootFaults
    /\ \/ root.schema = 2 /\ Begin("resume", 7, NoSnapshot) /\ UNCHANGED root
       \/ /\ root.schema = 1 /\ (root.migStage = "whole") # ((root.manifest + 1) \in root.gens)
          /\ Begin("resume", 6, NoSnapshot)
          /\ root' = [root EXCEPT !.migStage = "none", !.gens = @ \cup {root.manifest + 1}]

-----------------------------------------------------------------------------
\* import_snapshot_with_faults: descriptor, size, hash and signature are checked before
\* anything is written; the destination must be empty or an interrupted import.
Importable(s) == s.hash /\ s.signed
\* The staging directory survives the cleanup.
RecoverImportKeepingStage(r) ==
    IF r.imp = "none" THEN r
    ELSE IF 0 \notin r.gens THEN [r EXCEPT !.imp = "none", !.impRoot = "none"]
    ELSE [r EXCEPT !.manifest = 0, !.rootOf = r.impRoot, !.imp = "none", !.impRoot = "none"]
\* recover_snapshot_import_locked: without the generation the import is undone, with it
\* the manifest is completed.
RecoverImport(r) ==
    IF r.imp = "none" THEN r
    ELSE IF 0 \notin r.gens THEN [r EXCEPT !.imp = "none", !.impStage = "none", !.impRoot = "none"]
    ELSE [r EXCEPT !.manifest = 0, !.rootOf = r.impRoot, !.imp = "none", !.impRoot = "none"]
\* Neither case fits: the generation is missing though it was published, exists too early,
\* or is no longer the one the manifest names.
ImportBroken(r) ==
    IF 0 \notin r.gens THEN r.manifest >= 0 \/ r.imp = "published" ELSE r.imp = "prepared" \/ r.manifest > 0
StartImport(s) ==
    /\ Importable(s) /\ Classify(root) \in {"empty", "partial"}
    /\ ~(root.imp # "none" /\ ImportBroken(root)) /\ UNCHANGED rootFaults
    /\ IF 0 \in root.gens \/ root.stray THEN rootJob = NoJob /\ jobs < MaxRootOps /\ jobs' = jobs + 1 /\ FormatDone /\ root' = RecoverImport(root)
       ELSE Begin("import", 1, s) /\ root' = [RecoverImport(root) EXCEPT !.stray = TRUE]
\* open_manifest finishes an interrupted import as well.
RecoverOnOpen ==
    /\ rootJob = NoJob /\ root.imp # "none" /\ ~ImportBroken(root) /\ root' = RecoverImport(root) /\ UNCHANGED <<rootJob, jobs, rootFaults>>
\* decode_snapshot_bundle and validate_physical: the bundle is whole and its rows decode.
Decodes(s) == s.body # "bad"
\* SnapshotMaterializer::materialize decodes the bundle into the staging directory and
\* returns the root of what it decoded, which must be the one that was signed.
ImportRefused ==
    /\ Same /\ FormatDone
    /\ (At("import", 3) /\ ~Decodes(rootJob.snap)) \/ (At("import", 4) /\ rootJob.snap.body # rootJob.snap.root)
    /\ root' = [root EXCEPT !.imp = "none", !.impStage = "none", !.impRoot = "none"]
ImportStep ==
    /\ Same
    /\ \/ At("import", 1) /\ GoTo(2) /\ root' = [root EXCEPT !.stray = FALSE, !.imp = "prepared", !.impRoot = rootJob.snap.root]
       \/ At("import", 2) /\ GoTo(3) /\ root' = [root EXCEPT !.impStage = "part"]
       \/ At("import", 3) /\ Decodes(rootJob.snap) /\ GoTo(4) /\ root' = [root EXCEPT !.impStage = "whole"]
       \/ At("import", 4) /\ rootJob.snap.body = rootJob.snap.root /\ GoTo(5) /\ root' = [root EXCEPT !.imp = "ready"]
       \/ At("import", 5) /\ GoTo(6) /\ root' = [root EXCEPT !.impStage = "none", !.gens = @ \cup {0}]
       \/ At("import", 6) /\ GoTo(7) /\ root' = [root EXCEPT !.imp = "published"]
       \/ At("import", 7) /\ GoTo(8) /\ root' = [root EXCEPT !.manifest = 0, !.rootOf = rootJob.snap.root]
       \/ At("import", 8) /\ FormatDone /\ root' = [root EXCEPT !.imp = "none", !.impRoot = "none"]
\* A step fails: before the rename the import cleans up after itself, later it leaves
\* everything to the recovery.
ImportFails ==
    /\ rootJob.name = "import" /\ rootJob.at > 1 /\ rootFaults < MaxRootFaults /\ rootFaults' = rootFaults + 1 /\ FormatDone /\ UNCHANGED jobs
    /\ root' = IF 0 \in root.gens THEN root ELSE [root EXCEPT !.imp = "none", !.impStage = "none", !.impRoot = "none"]

\* write_clean_resync_marker, under the shared lock.
WriteResyncMarker ==
    /\ rootJob = NoJob /\ Classify(root) = "rust" /\ root.manifest \in root.gens /\ ~root.resync
    /\ root' = [root EXCEPT !.resync = TRUE] /\ UNCHANGED <<rootJob, jobs, rootFaults>>

\* The process dies or a step fails with no cleanup of its own: the kernel drops the lock.
\* A crash inside install_atomic_at leaves its temporary file.
InsideInstall ==
    \/ rootJob.name = "import" /\ rootJob.at \in {4, 6, 7}
    \/ rootJob.name = "migrate" /\ rootJob.at \in {0, 3, 6}
    \/ At("resume", 6)
CrashRoot ==
    /\ rootJob # NoJob /\ rootFaults < MaxRootFaults /\ rootFaults' = rootFaults + 1
    /\ root' \in {[root EXCEPT !.stray = b] : b \in {root.stray} \cup {x \in BOOLEAN : InsideInstall}}
    /\ FormatDone /\ UNCHANGED jobs

FormatNext ==
    \/ StartInit \/ InitJournal \/ InitGeneration \/ InitManifest \/ InitCleanup
    \/ StartMigration \/ MigrationData \/ SwitchManifest \/ CleanupMigration
    \/ StartRollback \/ RollbackTrees \/ ResumeMigration
    \/ (\E s \in Snapshots : StartImport(s)) \/ RecoverOnOpen \/ ImportStep \/ ImportRefused \/ ImportFails
    \/ WriteResyncMarker \/ CrashRoot

-----------------------------------------------------------------------------
Phases == {"none", "torn", "journal", "generation", "manifest", "prepared", "ready", "published"}
FormatTypeOK ==
    /\ root.gens \subseteq 0..MaxRootOps /\ root.manifest \in -1..MaxRootOps
    /\ {root.initj, root.mig, root.imp} \subseteq Phases /\ {root.migStage, root.impStage} \subseteq {"none", "part", "whole"}
    /\ rootJob.at \in 0..10

(* Whenever the directory has a manifest, between any two steps of an initialization, *)
(* a migration or an import and after a crash of each, it names a generation that is  *)
(* complete, and a store that came from a snapshot has the root of one whose hash and *)
(* signature were accepted (initialize_empty_at, migrate_generation,                  *)
(* import_snapshot_with_faults and their recoveries).                                 *)
ManifestNamesWholeStore ==
    root.manifest >= 0 =>
        /\ root.manifest \in root.gens
        /\ root.rootOf \in {"none", "new"} \cup {s.root : s \in {x \in Snapshots : Importable(x) /\ x.body = x.root}}
        /\ root.schema = 2 <=> root.rootOf = "new"

(* A migration was started on a store whose initialization or import was cut off      *)
(* before the removal of its journal: the migrated store still has that journal, or   *)
(* the migration left a temporary file beside the initialization journal.             *)
MigratedUnfinished ==
    \/ root.manifest > 0 /\ (root.initj # "none" \/ root.imp # "none")
    \/ root.manifest = 0 /\ root.initj # "none" /\ root.stray
MigrationRepairable ==
    \/ root.mig = "prepared" /\ root.schema = 1
    \/ root.mig = "ready" /\ (root.schema = 2 \/ (root.migStage = "whole") # ((root.manifest + 1) \in root.gens))
(* No crash leaves a directory that the code can neither open nor repair: an          *)
(* interrupted initialization continues, an import is finished or undone, a migration *)
(* is rolled back or resumed, never both.  Three windows are excepted because the     *)
(* code has them: the initialization journal is rewritten in place, the first file of *)
(* an import is a temporary one in a directory without a manifest, and a migration    *)
(* does not look for the journal of an unfinished initialization or import, which no  *)
(* open accepts beside the generation it adds.                                        *)
AlwaysRepairable ==
    rootJob = NoJob =>
        \/ Classify(root) \in {"empty", "rust", "initializing", "java"}
        \/ root.initj = "torn" \/ (Classify(root) = "ambiguous" /\ root.stray) \/ MigratedUnfinished
        \/ /\ Classify(root) = "partial" /\ (root.imp # "none" \/ root.mig # "none")
           /\ root.imp = "none" \/ ~ImportBroken(root)
           /\ root.mig = "none" \/ MigrationRepairable

(* A crash at any step leaves a whole store, or outside the windows above one the     *)
(* code repairs                                                                       *)
(* (classify_at, recover_snapshot_import_locked, rollback_migration, resume_migration).*)
FormatCrashSafe == ManifestNamesWholeStore /\ AlwaysRepairable
=============================================================================
