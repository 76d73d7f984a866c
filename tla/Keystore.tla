------------------------------- MODULE Keystore -------------------------------
(***************************************************************************)
(* The keystore directory (tron-crypto/src/keystore_store.rs) and the        *)
(* toolkit's keystore commands on it (tron-toolkit/src/keystore.rs).         *)
(*                                                                         *)
(* A wallet file is a number: its inode, digest and address together; 0 is  *)
(* no file, Foreign a .json file that is no wallet.  The directory's flock admits one operation at a time, and every *)
(* operation first recovers a replacement that was cut off.  Temporary and   *)
(* backup names are random: what an earlier operation left under them joins  *)
(* the files nobody looks at.  ksSaved is the set of directories a power     *)
(* loss may leave: every one since the last directory fsync.                 *)
(***************************************************************************)
EXTENDS Integers, SequencesExt

CONSTANTS Files,      \* the .json names in use
          WalletKeys, Passwords,
          ShortPasswords,          \* the ones require_password refuses
          MaxWallets, MaxKsFaults  \* bounds of the model

ASSUME KeystoreAssumption == {MaxWallets, MaxKsFaults} \subseteq Nat /\ ShortPasswords \subseteq Passwords

VARIABLES ksDir, ksSaved, ksOp,
          wallets,  \* what each wallet file holds, in order of creation
          loose,    \* wallet files whose mode is no longer 0600
          ksTold,   \* the last answer: to what, from which step, and what the name held before
          readBack, \* (name, wallet) pairs found whole under their name after the fsync
          ksFaults
ksVars == <<ksDir, ksSaved, ksOp, wallets, loose, ksTold, readBack, ksFaults>>

Foreign == -1
NoReplace == [target |-> "none", orig |-> 0, repl |-> 0]
Torn == [target |-> "torn", orig |-> 0, repl |-> 0]
IdleOp == [at |-> "idle", target |-> "none", wallet |-> 0, over |-> FALSE, orig |-> 0, journaled |-> FALSE]
Untold == [what |-> "none", at |-> "idle", target |-> "none", wallet |-> 0, before |-> 0]
KsInit ==
    \E k \in WalletKeys, p \in Passwords \ ShortPasswords, f \in Files, other \in {0, Foreign} :
        /\ wallets = <<[key |-> k, password |-> p]>> /\ readBack = {<<f, 1>>}
        /\ ksDir = [dest |-> [g \in Files |-> IF g = f THEN 1 ELSE other], tmp |-> 0, backup |-> 0,
                    journal |-> NoReplace, pending |-> NoReplace, kept |-> {}]
        /\ ksSaved = {ksDir} /\ ksOp = IdleOp /\ loose = {} /\ ksTold = Untold /\ ksFaults = 0

-----------------------------------------------------------------------------
\* validate_recovery_wallet of the three names of a journal; "other" refuses the recovery.
Kind(w, j) ==
    IF w = 0 THEN "missing" ELSE IF w \in loose THEN "other"
    ELSE IF w = j.repl THEN "repl" ELSE IF w = j.orig THEN "orig" ELSE "other"
EntryKinds(d, j) == <<Kind(d.dest[j.target], j), Kind(d.tmp, j), Kind(d.backup, j)>>
KeepTmp(d) == [d EXCEPT !.kept = @ \cup {d.tmp}, !.tmp = 0]
KeepBackup(d) == [d EXCEPT !.kept = @ \cup {d.backup}, !.backup = 0]
Swap(d, f) == [d EXCEPT !.dest[f] = d.backup, !.backup = d.dest[f]]
Unjournaled(d) == [d EXCEPT !.journal = NoReplace, !.pending = NoReplace]
Moves(d, steps) == <<d>> \o steps \o <<Unjournaled(Last(<<d>> \o steps))>>

\* recover_replacement: the directories it goes through, a sync after each; empty when it refuses.
RecoveryOf(d, j) ==
    LET k == EntryKinds(d, j) IN
    CASE k = <<"orig", "repl", "missing">> -> Moves(d, <<KeepTmp(d)>>)
      [] k = <<"missing", "repl", "orig">> -> Moves(d, <<Swap(d, j.target), KeepTmp(Swap(d, j.target))>>)
      [] k \in {<<"repl", "missing", "orig">>, <<"orig", "missing", "repl">>} -> Moves(d, <<KeepBackup(d)>>)
      [] k = <<"repl", "missing", "missing">> -> Moves(d, <<>>)
      [] k = <<"orig", "missing", "missing">> /\ j.orig # 0 -> Moves(d, <<>>)
      [] k = <<"missing", "repl", "missing">> /\ j.orig = 0 -> Moves(d, <<KeepTmp(d)>>)
      [] OTHER -> <<>>
\* Recovery that drops the journal of a replacement stopped after its backup.
RecoveryHasty(d) == <<Unjournaled(d)>>
Recovery(d) ==
    IF Torn \in {d.journal, d.pending} THEN <<>>
    ELSE IF d.journal # NoReplace /\ d.pending # NoReplace THEN <<>>
    ELSE IF d.journal # NoReplace THEN RecoveryOf(d, d.journal)
    ELSE IF d.pending # NoReplace THEN RecoveryOf(d, d.pending) ELSE <<d>>
\* rollback_replacement, likewise: a publication is undone by exchanging the two files.
Rollback(d, j) ==
    LET k == EntryKinds(d, j) IN
    CASE k = <<"orig", "repl", "missing">> -> Moves(d, <<KeepTmp(d)>>)
      [] k = <<"missing", "repl", "orig">> -> Moves(d, <<Swap(d, j.target), KeepTmp(Swap(d, j.target))>>)
      [] k = <<"repl", "missing", "orig">> -> Moves(d, <<Swap(d, j.target), KeepBackup(Swap(d, j.target))>>)
      [] OTHER -> <<>>

-----------------------------------------------------------------------------
\* AnchoredDirectory::open: locked, and recovered.  Random names make the old leftovers anonymous.
Opens == ksOp = IdleOp /\ Recovery(ksDir) # <<>>
Opened == LET d == Last(Recovery(ksDir))
          IN [d EXCEPT !.kept = (@ \cup {d.tmp, d.backup}) \ {0}, !.tmp = 0, !.backup = 0]
AfterOpen == ksDir' = Opened /\ ksSaved' = (IF Recovery(ksDir) = <<ksDir>> /\ Opened = ksDir THEN ksSaved ELSE {Opened})
Said(what, f, w) == ksTold' = [what |-> what, at |-> "idle", target |-> f, wallet |-> w, before |-> Opened.dest[f]]

\* parse_strict and is_valid_discovery_file; create_with_random and decrypt: a wallet binds a
\* key to a password.
IsWallet(w) == w > 0
Create(k, p) == wallets' = Append(wallets, [key |-> k, password |-> p])
Decrypts(p, w) == wallets[w].password = p
\* list_keystores_locked_reporting: the readable wallets; a loose mode is fatal to the scan.
ScanFatal == \E f \in Files : Opened.dest[f] \in loose
Matching(k) == {f \in Files : IsWallet(Opened.dest[f]) /\ wallets[Opened.dest[f]].key = k}

\* The operation goes on to write wallet Len(wallets) + 1 under name f.
WriteWallet(f, k, p, over) ==
    /\ Len(wallets) < MaxWallets /\ Create(k, p)
    /\ ksOp' = [IdleOp EXCEPT !.at = "temp", !.target = f, !.wallet = Len(wallets) + 1,
                              !.over = over, !.orig = Opened.dest[f]]
    /\ AfterOpen /\ ksTold' = Untold /\ UNCHANGED <<loose, readBack, ksFaults>>
\* It answers an error before it has written anything.
Declined(f) ==
    /\ AfterOpen /\ Said("failed", f, 0) /\ UNCHANGED <<ksOp, wallets, loose, readBack, ksFaults>>

\* new_keystore skips the scan; import_keystore wants one file per address unless forced;
\* update_keystore exactly one file of the address, and its password.
NewKeystore(f, k, p, over) == Opens /\ WriteWallet(f, k, p, over)
ImportKeystore(f, k, p, force, over) ==
    Opens /\ IF ScanFatal \/ (~force /\ Matching(k) # {}) THEN Declined(f) ELSE WriteWallet(f, k, p, over)
UpdateKeystore(k, old, new) ==
    /\ Opens
    /\ \E f \in Files :
        /\ Matching(k) # {} => f \in Matching(k)
        /\ IF ~ScanFatal /\ Matching(k) = {f} /\ Decrypts(old, Opened.dest[f])
           THEN WriteWallet(f, k, new, TRUE) ELSE Declined(f)
\* list_keystores and load_keystore_direct only recover and read.
ListKeystores == Opens /\ AfterOpen /\ ksTold' = Untold /\ UNCHANGED <<ksOp, wallets, loose, readBack, ksFaults>>

\* The toolkit's commands: the password is checked first, and they never overwrite a name;
\* library callers may.  A short password or a malformed key file changes nothing.
PasswordValid(p) == p \notin ShortPasswords
DispatchNew(f, k, p) == PasswordValid(p) /\ NewKeystore(f, k, p, FALSE)
DispatchImport(f, k, p, force) == PasswordValid(p) /\ ImportKeystore(f, k, p, force, FALSE)
DispatchUpdate(k, old, new) == PasswordValid(new) /\ UpdateKeystore(k, old, new)
DispatchList == ListKeystores
KsDispatch ==
    \/ \E f \in Files, k \in WalletKeys, p \in Passwords : DispatchNew(f, k, p) \/ \E force \in BOOLEAN : DispatchImport(f, k, p, force)
    \/ \E k \in WalletKeys, p, q \in Passwords : DispatchUpdate(k, p, q)
    \/ DispatchList
Overwrite == \E f \in Files, k \in WalletKeys, p \in Passwords : NewKeystore(f, k, p, TRUE) \/ ImportKeystore(f, k, p, TRUE, TRUE)

-----------------------------------------------------------------------------
\* atomic_write_wallet_in_parent, one step per change of the directory and per directory fsync.
KsMove(from, to, d) ==
    /\ ksOp.at = from /\ ksOp' = [ksOp EXCEPT !.at = to] /\ ksDir' = d /\ ksSaved' = ksSaved \cup {d}
    /\ UNCHANGED <<wallets, loose, ksTold, readBack, ksFaults>>
KsSync(from, to, journaled) ==
    /\ ksOp.at = from /\ ksOp' = [ksOp EXCEPT !.at = to, !.journaled = journaled] /\ ksSaved' = {ksDir}
    /\ UNCHANGED <<ksDir, wallets, loose, ksTold, readBack, ksFaults>>
TheJournal == [target |-> ksOp.target, orig |-> ksOp.orig, repl |-> ksOp.wallet]

WriteTemporary == KsMove("temp", IF ksOp.over THEN "journal" ELSE "publish", [ksDir EXCEPT !.tmp = ksOp.wallet])
\* write_replace_journal; the original must still be a file that may be read.
WriteReplaceJournal ==
    \/ ksOp.orig \notin loose \cup {Foreign} /\ KsMove("journal", "fill", [ksDir EXCEPT !.pending = Torn])
    \/ KsMove("fill", "rename", [ksDir EXCEPT !.pending = TheJournal])
    \/ KsMove("rename", "jsync", [ksDir EXCEPT !.pending = NoReplace, !.journal = TheJournal])
    \/ KsSync("jsync", IF ksOp.orig # 0 THEN "backup" ELSE "publish", TRUE)
SetAside ==
    \/ KsMove("backup", "bsync", [ksDir EXCEPT !.backup = ksDir.dest[ksOp.target], !.dest[ksOp.target] = 0])
    \/ ksOp.orig \notin loose /\ KsSync("bsync", "publish", TRUE)
\* renameat over a name that is free by now, or renameat_with NOREPLACE; where the file system
\* has no NOREPLACE, linkat gives the file its second name and unlinkat takes the first away.
PublishWallet ==
    /\ ksOp.at = "publish" /\ (ksOp.over \/ ksDir.dest[ksOp.target] = 0)
    /\ \/ KsMove("publish", "psync", [ksDir EXCEPT !.dest[ksOp.target] = ksOp.wallet, !.tmp = 0])
       \/ ~ksOp.over /\ KsMove("publish", "linked", [ksDir EXCEPT !.dest[ksOp.target] = ksOp.wallet])
UnlinkTemporary == KsMove("linked", "psync", [ksDir EXCEPT !.tmp = 0])
SyncPublication == KsSync("psync", "validate", ksOp.journaled)
\* read_validated_wallet_at of what was published; Refused has its failure.
ReadBack ==
    /\ ksOp.at = "validate" /\ ksOp.wallet \notin loose
    /\ ksOp' = [ksOp EXCEPT !.at = IF ksDir.backup # 0 THEN "retain" ELSE IF ksOp.journaled THEN "unlink" ELSE "done"]
    /\ readBack' = readBack \cup {<<ksOp.target, ksOp.wallet>>}
    /\ UNCHANGED <<ksDir, ksSaved, wallets, loose, ksTold, ksFaults>>
CleanUp ==
    \/ ksDir.backup \notin loose /\ KsMove("retain", "rsync", KeepBackup(ksDir))
    \/ KsSync("rsync", "unlink", TRUE)
    \/ KsMove("unlink", "usync", Unjournaled(ksDir))
    \/ KsSync("usync", "done", FALSE)
Stored ==
    /\ ksOp.at = "done" /\ ksOp' = IdleOp
    /\ ksTold' = [what |-> "ok", at |-> "done", target |-> ksOp.target, wallet |-> ksOp.wallet, before |-> ksOp.orig]
    /\ UNCHANGED <<ksDir, ksSaved, wallets, loose, readBack, ksFaults>>

-----------------------------------------------------------------------------
\* What the error path answers: the error itself, or RollbackFailed.
Answered(what, d, s) ==
    /\ ksDir' = d /\ ksSaved' = s /\ ksOp' = IdleOp
    /\ ksTold' = [what |-> what, at |-> ksOp.at, target |-> ksOp.target, wallet |-> ksOp.wallet, before |-> ksOp.orig]
    /\ UNCHANGED <<wallets, loose, readBack>>
\* Once journaled is set the replacement is rolled back; otherwise the temporary file is unlinked,
\* a second link to a wallet already published too.
Undo ==
    IF ksOp.journaled
    THEN LET r == Rollback(ksDir, TheJournal)
         IN IF r = <<>> THEN Answered("rollback_failed", ksDir, ksSaved) ELSE Answered("failed", Last(r), {Last(r)})
    ELSE IF ksDir.tmp = 0 THEN Answered("rollback_failed", ksDir, ksSaved)
         ELSE LET d == [ksDir EXCEPT !.tmp = 0] IN Answered("failed", d, {d})
\* The errors the directory itself causes: TargetExists, a name that holds no
\* wallet, and a wallet whose mode was loosened.
Refused ==
    /\ \/ ksOp.at = "publish" /\ ~ksOp.over /\ ksDir.dest[ksOp.target] # 0
       \/ ksOp.at \in {"journal", "bsync"} /\ ksOp.orig \in loose \cup {Foreign}
       \/ ksOp.at = "validate" /\ ksOp.wallet \in loose
       \/ ksOp.at = "retain" /\ ksDir.backup \in loose
    /\ Undo /\ UNCHANGED ksFaults
KsFault == ksFaults < MaxKsFaults /\ ksFaults' = ksFaults + 1
IoFails == ksOp.at \notin {"idle", "temp", "done"} /\ KsFault /\ Undo
\* A rollback, or the recovery of an open, stops at a directory fsync that fails; the removal of
\* the temporary file at its unlinkat or its fsync.
StopsAt(r, i) == IF i = 1 THEN ksSaved ELSE {r[i - 1], r[i]}
RollbackStops ==
    /\ ksOp.journaled /\ KsFault
    /\ LET r == Rollback(ksDir, TheJournal)
       IN \E i \in 1..Len(r) : Answered("rollback_failed", r[i], StopsAt(r, i))
RemovalStops ==
    /\ ksOp.at \notin {"idle", "temp", "done"} /\ ~ksOp.journaled /\ ksDir.tmp # 0 /\ KsFault
    /\ \E d \in {ksDir, [ksDir EXCEPT !.tmp = 0]} : Answered("rollback_failed", d, ksSaved \cup {d})
RecoveryStops ==
    /\ ksOp = IdleOp /\ KsFault
    /\ LET r == Recovery(ksDir) IN \E i \in 2..Len(r) : ksDir' = r[i] /\ ksSaved' = StopsAt(r, i)
    /\ ksTold' = Untold /\ UNCHANGED <<ksOp, wallets, loose, readBack>>
\* The process dies, with or without the machine.
KsCrash ==
    /\ KsFault /\ ksOp' = IdleOp /\ ksTold' = Untold /\ UNCHANGED <<wallets, loose, readBack>>
    /\ UNCHANGED <<ksDir, ksSaved>> \/ (ksDir' \in ksSaved /\ ksSaved' = {ksDir'})
\* Somebody changes a wallet file's mode (check_security).
Chmod ==
    /\ \E f \in Files : ksDir.dest[f] \notin loose \cup {0, Foreign} /\ loose' = loose \cup {ksDir.dest[f]}
    /\ KsFault /\ UNCHANGED <<ksDir, ksSaved, ksOp, wallets, ksTold, readBack>>

KsNext ==
    \/ KsDispatch \/ Overwrite \/ WriteTemporary \/ WriteReplaceJournal \/ SetAside \/ PublishWallet
    \/ UnlinkTemporary \/ SyncPublication \/ ReadBack \/ CleanUp \/ Stored
    \/ Refused \/ IoFails \/ RollbackStops \/ RemovalStops \/ RecoveryStops \/ KsCrash \/ Chmod

-----------------------------------------------------------------------------
KsTypeOK ==
    /\ ksDir \in ksSaved /\ ksOp.wallet \in 0..Len(wallets) /\ ksFaults \in 0..MaxKsFaults
    /\ \A d \in ksSaved : {d.dest[f] : f \in Files} \cup {d.tmp, d.backup} \cup d.kept \subseteq Foreign..Len(wallets)
    /\ ksTold.what \in {"none", "ok", "failed", "rollback_failed"}

Everywhere(d) == {d.dest[f] : f \in Files} \cup {d.tmp, d.backup} \cup d.kept
(* A wallet that was read back after its publication was synced holds a key that      *)
(* nothing else may hold: its file is never deleted, whatever replaces it, fails, is    *)
(* rolled back, crashes or is recovered; and once no operation is under way and no      *)
(* journal is left, its name still holds a wallet that can be found                     *)
(* (atomic_write_wallet_in_parent, rollback_replacement, recover_replacement).          *)
WalletSurvives ==
    /\ \A d \in ksSaved : \A a \in readBack : a[2] \in Everywhere(d)
    /\ \A d \in ksSaved : ksOp = IdleOp /\ NoReplace = d.journal /\ NoReplace = d.pending =>
           \A a \in readBack : d.dest[a[1]] # 0

(* What the caller was told survives a power loss that follows: after success the name  *)
(* holds the new wallet, and it was read back; after an error other than RollbackFailed *)
(* the name holds what it held before, and the wallet that failed can no longer turn up *)
(* under it.  One error says less: when linkat has published the wallet and unlinkat of *)
(* its temporary name fails, the plain error comes back with the new wallet in place,   *)
(* durably (atomic_write_wallet_in_parent's order of rename, fsync and answer).         *)
KeystoreHonest ==
    /\ ksTold.what = "ok" =>
         <<ksTold.target, ksTold.wallet>> \in readBack /\ \A d \in ksSaved : d.dest[ksTold.target] = ksTold.wallet
    /\ ksTold.what = "failed" /\ ksTold.at # "linked" =>
         /\ ksDir.dest[ksTold.target] = ksTold.before
         /\ ksTold.wallet # 0 => \A d \in ksSaved : d.dest[ksTold.target] # ksTold.wallet
    /\ ksTold.what = "failed" /\ ksTold.at = "linked" =>
         ksTold.before = 0 /\ \A d \in ksSaved : d.dest[ksTold.target] = ksTold.wallet

(* No wallet read back is lost and no answer about one is false, but for the one     *)
(* error named above, over failures and power losses at every step                   *)
(* (keystore_store.rs).                                                              *)
WalletsSafe == WalletSurvives /\ KeystoreHonest
=============================================================================
