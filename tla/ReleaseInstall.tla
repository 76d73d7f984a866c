--------------------------- MODULE ReleaseInstall ---------------------------
(***************************************************************************)
(* The offline release tool (tron-toolkit/src/release.rs, tron-release-     *)
(* verify.rs) and the artifact authentication under it (tron-crypto/src/    *)
(* artifact_auth.rs): a bundle is verified against a trust store, copied to  *)
(* staging directories and published by a journaled sequence of renames.     *)
(*                                                                         *)
(* The installer may be killed, or meet an I/O error, between any two steps;  *)
(* what it did stays on disk (a power loss is not modelled: the staging       *)
(* directories' own entries are not synced before the journal names them).    *)
(* One installer runs at a time: the code takes no lock.                      *)
(***************************************************************************)
EXTENDS Integers, FiniteSets, SequencesExt

CONSTANTS Ids, NoRelease,
          Manifest,           \* of each release: what its manifest, SBOM, provenance and OCI index say
          Channel, Platform, MinimumSequence, \* what the operator asks for
          Required,           \* the logical names a release must have
          Stores, FirstStore, \* trust stores, and the provisioned one
          Updates,            \* signed trust-store updates: [store, signers]
          Times,              \* the --verification-time an operator passes
          Retain,             \* --retained-slots
          MaxRelFaults

ASSUME ReleaseAssumption ==
    /\ NoRelease \notin Ids /\ FirstStore \in Stores /\ Retain \in Nat \ {0}
    /\ (\A i \in Ids : Manifest[i].sequence \in Nat) /\ \A u \in Updates : u.store \in Stores

VARIABLES trust,      \* the store in force
          bundle,     \* each release's bundle since it was verified
          published,  \* the publication staging directory
          layout,       \* slots, selectors, receipt and journal
          installer, relFaults
relVars == <<trust, bundle, published, layout, installer, relFaults>>

Trees == {"bin", "config"}
Sequence(i) == Manifest[i].sequence
NoInstall == [id |-> NoRelease]
Quiet == [at |-> "idle", id |-> NoRelease]
RelInit ==
    /\ trust = FirstStore /\ bundle = [i \in Ids |-> "good"] /\ published = "none"
    /\ layout = [slots |-> [t \in Trees |-> [i \in Ids |-> "none"]], order |-> <<>>, current |-> [t \in Trees |-> NoRelease],
               receipt |-> NoRelease, journal |-> NoInstall]
    /\ installer = Quiet /\ relFaults = 0

-----------------------------------------------------------------------------
\* parse_trust_store: thresholds are met by known keys, and there is a root.
Parses(s) ==
    /\ s.version > 0 /\ "root" \in DOMAIN s.roles
    /\ \A r \in DOMAIN s.roles : s.roles[r].threshold \in 1..Cardinality(s.roles[r].members)
                                  /\ s.roles[r].members \subseteq DOMAIN s.keys
KeyInTime(key, now) == key.from <= now /\ now < key.until
\* One signature the store does not accept refuses the whole envelope.
VerifyThreshold(s, role, signers, now) ==
    /\ now < s.expires /\ role \in DOMAIN s.roles
    /\ \A k \in signers : k \in DOMAIN s.keys /\ ~s.keys[k].revoked /\ KeyInTime(s.keys[k], now)
    /\ Cardinality(signers \cap s.roles[role].members) >= s.roles[role].threshold
\* verify_rotation_signatures: a key counts for either root it is in, at the new store's dates.
Endorsed(s, c, signers, now) ==
    /\ \A k \in signers :
          /\ k \in DOMAIN c.keys \cup DOMAIN s.keys
          /\ ~(k \in DOMAIN s.keys /\ s.keys[k].revoked) /\ ~(k \in DOMAIN c.keys /\ c.keys[k].revoked)
          /\ KeyInTime(IF k \in DOMAIN c.keys THEN c.keys[k] ELSE s.keys[k], now)
    /\ \A st \in {s, c} : Cardinality(signers \cap st.roles["root"].members) >= st.roles["root"].threshold
\* verify_trust_store_update: the next version, signed by both roots' thresholds.
VerifyRotation(s, c, signers, now) ==
    Parses(c) /\ c.version = s.version + 1 /\ now < s.expires /\ now < c.expires /\ Endorsed(s, c, signers, now)
\* The operator puts a verified update in force.
RotateTrust ==
    /\ \E u \in Updates, now \in Times : VerifyRotation(trust, u.store, u.signers, now) /\ trust' = u.store
    /\ UNCHANGED <<bundle, published, layout, installer, relFaults>>

Idle == installer = Quiet
Goes(at) == installer' = [installer EXCEPT !.at = at]
Stops == installer' = Quiet
\* Subjects of an SBOM or a provenance statement: paths with their digests.
Subjects(m, kinds) == {<<a.path, a.digest>> : a \in {x \in m.artifacts : x.kind \notin kinds}}
ValidateManifest(m) ==
    /\ m.channel = Channel /\ m.sequence >= MinimumSequence /\ m.sequence >= m.minimum /\ m.platform = Platform
    /\ Required \subseteq {a.name : a \in m.artifacts}
    /\ \A a, b \in m.artifacts : a # b => a.name # b.name /\ a.path # b.path
    /\ \A a \in m.artifacts : a.name \in Required \/ a.kind \in {"oci-blob", "oci-manifest", "configuration"}
\* validate_metadata looks at the artifacts of three kinds, each in its own way.
Ships(m, kinds) == \E a \in m.artifacts : a.kind \in kinds
ValidateSbom(m) == Ships(m, {"sbom"}) => m.sbom = Subjects(m, {"sbom", "provenance"})
ValidateProvenance(m, now) ==
    Ships(m, {"provenance"}) =>
        VerifyThreshold(trust, "provenance", m.provenance.signers, now) /\ m.provenance.subjects = Subjects(m, {"provenance"})
ValidateOciDescriptor(m) ==
    Ships(m, {"oci", "oci-index", "oci-manifest"}) => m.oci # {} /\ m.oci \subseteq {a.digest : a \in m.artifacts}
\* verify_bundle: the process keeps handles to the files it hashed.
VerifyBundle(i, now) ==
    /\ Idle /\ Parses(trust) /\ VerifyThreshold(trust, "release", Manifest[i].signers, now) /\ bundle[i] = "good"
    /\ LET m == Manifest[i] IN ValidateManifest(m) /\ ValidateSbom(m) /\ ValidateProvenance(m, now) /\ ValidateOciDescriptor(m)
    /\ installer' = [Quiet EXCEPT !.at = "verified", !.id = i]
    /\ UNCHANGED <<trust, bundle, published, layout, relFaults>>
\* Someone edits a verified file in place, or puts another under its name.
BundleChanges(i) ==
    /\ relFaults < MaxRelFaults /\ relFaults' = relFaults + 1 /\ installer.id = i /\ bundle[i] = "good"
    /\ bundle' \in {[bundle EXCEPT ![i] = x] : x \in {"edited", "replaced"}}
    /\ UNCHANGED <<trust, published, layout, installer>>

-----------------------------------------------------------------------------
\* stage_verified_publication copies from the handles and removes a failed staging;
\* one left by a crash refuses the next.
BeginPublication ==
    /\ installer.at = "verified" /\ IF published = "none" THEN published' = "partial" /\ Goes("publish") ELSE UNCHANGED published /\ Stops
    /\ UNCHANGED <<trust, bundle, layout, relFaults>>
StagePublication ==
    /\ installer.at = "publish" /\ published' = (IF bundle[installer.id] = "edited" THEN "none" ELSE "staged") /\ Stops
    /\ UNCHANGED <<trust, bundle, layout, relFaults>>

-----------------------------------------------------------------------------
\* The install journal's phases.
InstallPhases == <<"Staged", "SlotPublished", "ConfigSlotPublished", "ConfigCurrentPublished", "ReceiptPublished", "CurrentPublished", "Pruned">>
NextPhase(p) == InstallPhases[CHOOSE n \in 2..Len(InstallPhases) : InstallPhases[n - 1] = p]
Journaled == layout.journal # NoInstall
InstalledSlots(t) == {i \in Ids : layout.slots[t][i] \in {"slot", "torn"}}
Whole(t, i) == i # NoRelease /\ layout.slots[t][i] = "slot"
\* verify_install_receipt: both selectors lead to what the receipt lists.
ReceiptHolds(i) == \A t \in Trees : layout.current[t] = i /\ Whole(t, i)
\* plan_prune_slots: the oldest of what is there, so that with the new one Retain are kept.
Age(i) == CHOOSE n \in DOMAIN layout.order : layout.order[n] = i
PlanPrune(t) ==
    LET newer(i) == {j \in InstalledSlots(t) : Age(j) > Age(i)}
    IN {i \in InstalledSlots(t) : Cardinality(newer(i)) + 1 >= Retain}

\* install_verified recovers an earlier install before it plans its own.
BeginInstall ==
    /\ installer.at = "verified" /\ Goes(IF Journaled THEN "before" ELSE "plan")
    /\ UNCHANGED <<trust, bundle, published, layout, relFaults>>
PlanInstall ==
    /\ installer.at = "plan"
    /\ LET i == installer.id IN
        IF \/ layout.receipt # NoRelease /\ Sequence(layout.receipt) >= Sequence(i)
           \/ \E t \in Trees : i \in InstalledSlots(t)
        THEN Stops ELSE Goes("copy")
    /\ UNCHANGED <<trust, bundle, published, layout, relFaults>>
\* The files are copied from their handles, hashed, and the paths looked at again.
CopyFiles ==
    /\ installer.at = "copy"
    /\ IF bundle[installer.id] = "good" /\ \E a \in Manifest[installer.id].artifacts : a.kind = "configuration"
       THEN /\ Goes("journal")
            /\ layout' = [layout EXCEPT !.order = Append(SelectSeq(@, LAMBDA x : x # installer.id), installer.id),
                                    !.slots = [t \in Trees |-> [@[t] EXCEPT ![installer.id] = "staging"]]]
       ELSE Stops /\ UNCHANGED layout
    /\ UNCHANGED <<trust, bundle, published, relFaults>>

WriteJournal ==
    /\ installer.at = "journal" /\ Goes("advance")
    /\ layout' = [layout EXCEPT !.journal =
          [id |-> installer.id, phase |-> "Staged", previous |-> layout.current, previousReceipt |-> layout.receipt, prune |-> [t \in Trees |-> PlanPrune(t)]]]
    /\ UNCHANGED <<trust, bundle, published, relFaults>>

\* advance_install runs for the install itself, once more after an error in it, and for an earlier one.
Advancing == installer.at \in {"advance", "recover", "before"} /\ Journaled
J == layout.journal
SlotOf(p) == IF p = "Staged" THEN "bin" ELSE "config"
LinkOf(p) == IF p = "ReceiptPublished" THEN "bin" ELSE "config"
\* What a phase does is already there (reconcile_slot, reconcile_current, reconcile_receipt, reconcile_pruning).
Reconciled(p) ==
    CASE p \in {"Staged", "SlotPublished"} -> Whole(SlotOf(p), J.id)
      [] p \in {"ConfigSlotPublished", "ReceiptPublished"} -> layout.current[LinkOf(p)] = J.id /\ (LinkOf(p) = "bin" => ReceiptHolds(J.id))
      [] p = "ConfigCurrentPublished" -> layout.receipt = J.id
      [] p = "CurrentPublished" -> ReceiptHolds(J.id) /\ \A t \in Trees : J.prune[t] \cap InstalledSlots(t) = {}
      [] OTHER -> TRUE
\* It can be done: nothing but the previous state is found.  A phase that is neither is refused;
\* InstallRecovers says that no journal is in one.
Publishable(p) ==
    CASE p \in {"Staged", "SlotPublished"} -> layout.slots[SlotOf(p)][J.id] = "staging"
      [] p \in {"ConfigSlotPublished", "ReceiptPublished"} -> Whole(LinkOf(p), J.id) /\ layout.current[LinkOf(p)] = J.previous[LinkOf(p)]
      [] p = "ConfigCurrentPublished" -> Whole("bin", J.id) /\ layout.receipt = J.previousReceipt
      [] p = "CurrentPublished" -> \E t \in Trees : J.prune[t] \cap InstalledSlots(t) # {}
      [] OTHER -> FALSE
Pruned(t, i) == {[layout EXCEPT !.slots[t][i] = x] : x \in {"torn", "none"}}
PublishStep ==
    /\ Advancing /\ ~Reconciled(J.phase) /\ Publishable(J.phase)
    /\ LET p == J.phase IN
        CASE p \in {"Staged", "SlotPublished"} -> layout' = [layout EXCEPT !.slots[SlotOf(p)][J.id] = "slot"]
          [] p \in {"ConfigSlotPublished", "ReceiptPublished"} -> layout' = [layout EXCEPT !.current[LinkOf(p)] = J.id]
          [] p = "ConfigCurrentPublished" -> layout' = [layout EXCEPT !.receipt = J.id]
          [] OTHER -> \E t \in Trees, i \in Ids : i \in J.prune[t] \cap InstalledSlots(t) /\ layout' \in Pruned(t, i)
    /\ UNCHANGED <<trust, bundle, published, installer, relFaults>>

\* The phase is recorded before its effect.
RecordEarly ==
    /\ Advancing /\ J.phase # "Pruned" /\ (Publishable(J.phase) \/ Reconciled(J.phase))
    /\ layout' = [layout EXCEPT !.journal.phase = NextPhase(J.phase)] /\ UNCHANGED <<trust, bundle, published, installer, relFaults>>
\* set_phase, once the effect is there.
Record ==
    /\ Advancing /\ J.phase # "Pruned" /\ Reconciled(J.phase)
    /\ layout' = [layout EXCEPT !.journal.phase = NextPhase(J.phase)] /\ UNCHANGED <<trust, bundle, published, installer, relFaults>>
FinishInstall ==
    /\ Advancing /\ J.phase = "Pruned" /\ layout' = [layout EXCEPT !.journal = NoInstall]
    /\ IF installer.at = "before" THEN Goes("plan") ELSE Stops
    /\ UNCHANGED <<trust, bundle, published, relFaults>>
\* An error in an install is followed by a recovery, an error in a recovery is returned.
AfterError == IF installer.at = "advance" THEN Goes("recover") ELSE Stops

-----------------------------------------------------------------------------
\* Staging directories no journal names are another process's: nobody looks at them again.
Abandoned(d) ==
    [d EXCEPT !.slots = [t \in Trees |-> [i \in Ids |->
        IF d.slots[t][i] = "staging" /\ d.journal.id # i THEN "none" ELSE d.slots[t][i]]]]
RelFault == relFaults < MaxRelFaults /\ relFaults' = relFaults + 1 /\ UNCHANGED <<trust, bundle, published>>
IoError == RelFault /\ Advancing /\ AfterError /\ UNCHANGED layout
KillInstaller == RelFault /\ ~Idle /\ Stops /\ layout' = Abandoned(layout)

RelNext ==
    \/ RotateTrust \/ (\E i \in Ids : BundleChanges(i) \/ \E now \in Times : VerifyBundle(i, now))
    \/ BeginPublication \/ StagePublication \/ BeginInstall \/ PlanInstall \/ CopyFiles \/ WriteJournal
    \/ PublishStep \/ Record \/ FinishInstall
    \/ IoError \/ KillInstaller

-----------------------------------------------------------------------------
RelTypeOK ==
    /\ trust \in Stores /\ bundle \in [Ids -> {"good", "edited", "replaced"}] /\ published \in {"none", "partial", "staged"}
    /\ layout.slots \in [Trees -> [Ids -> {"none", "staging", "slot", "torn"}]] /\ layout.receipt \in Ids \cup {NoRelease}
    /\ layout.current \in [Trees -> Ids \cup {NoRelease}] /\ (Journaled => layout.journal.phase \in ToSet(InstallPhases))

(* A journal found on disk can always be carried on: each phase finds either its own      *)
(* effect or exactly the state before it (recover_install).                              *)
InstallRecovers == Journaled => Reconciled(J.phase) \/ Publishable(J.phase)

(* Whatever step the installer dies in, both selectors lead to whole slots holding what *)
(* the manifest signed, no release older than the receipt's is selected, the journal can *)
(* be carried on, and without one the programs, the configuration and the receipt are of  *)
(* one release (advance_install, recover_install, reconcile_current, reconcile_pruning).  *)
InstallCoherent ==
    /\ InstallRecovers
    /\ \A t \in Trees : layout.current[t] # NoRelease => Whole(t, layout.current[t])
    /\ ~Journaled => \A t \in Trees : layout.current[t] = layout.receipt
    /\ Journaled /\ J.previousReceipt # NoRelease =>
          \A t \in Trees : layout.current[t] # NoRelease /\ Sequence(layout.current[t]) >= Sequence(J.previousReceipt)
=============================================================================
