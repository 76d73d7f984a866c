---------------------------- MODULE StoreProofs ----------------------------
(***************************************************************************)
(* Proofs about what a crash leaves of a store on disk, for every bound and *)
(* every set of inputs: the copy, replace and move of a store by the        *)
(* toolkit (StoreTransaction), the life of a store's own directory          *)
(* (StoreFormat) and the write-ahead log inside it (RustLog).  In the first *)
(* two, the phase a journal has on disk and the step of whoever holds the   *)
(* lock determine what the directories hold; for the log, every beginning   *)
(* of it that a crash may leave replays to an acknowledged state.           *)
(***************************************************************************)
EXTENDS StoreTransaction, StoreFormat, RustLog, FiniteSums, TLAPS

-----------------------------------------------------------------------------
\* Copy, replace and move: tron-toolkit.

\* The shapes of the directories, of the journal and of who holds the lock.
TxPhases == {"prepared", "staging_created", "data_written", "data_synced", "verified", "original_backed_up",
           "destination_published", "source_quarantined", "source_removed"}
TxSteps == {"stage", "staged", "write", "sync", "verify", "backup", "backedup", "publish", "published", "dropbackup",
            "dropping", "quarantine", "quarantined", "remove", "removing", "removed", "finish"}
Trees == [dest : {"none", "old", "new", "half"}, staging : {"none", "part", "new", "half"}, backup : {"none", "old", "half"},
          source : {"none", "store"}, quarantine : {"none", "store", "half"}]
Journals == [phase : TxPhases \cup {"none"}, mode : {"none", "create", "replace", "move"},
             staging : BOOLEAN, backup : BOOLEAN, quarantine : BOOLEAN]
Actors == [who : {"none", "rewrite", "resume"}, at : TxSteps \cup {"none"}]
TxShape ==
    /\ tree \in Trees /\ jrn \in Journals /\ actor \in Actors
    /\ jrn.phase = "none" <=> jrn = NoJournal
    /\ actor.at = "none" <=> actor = Nobody

\* What each phase of the journal has recorded.
Replace == jrn.mode = "replace"
Move == jrn.mode = "move"
JournalSound ==
    jrn.phase # "none" =>
        /\ jrn.mode \in {"create", "replace", "move"}
        /\ jrn.staging <=> jrn.phase # "prepared"
        /\ jrn.backup <=> jrn.phase = "original_backed_up" \/ (Replace /\ jrn.phase = "destination_published")
        /\ jrn.quarantine <=> jrn.phase \in {"source_quarantined", "source_removed"}
        /\ jrn.phase = "original_backed_up" => Replace
        /\ jrn.phase \in {"source_quarantined", "source_removed"} => Move

Dirs(d, s, b) == tree.dest = d /\ tree.staging = s /\ tree.backup = b
Sources(s, q) == tree.source = s /\ tree.quarantine = q
Original == IF Replace THEN "old" ELSE "none"
Ready == IF Replace THEN "original_backed_up" ELSE "verified"

\* What the directories hold while a step is under way: journal phase by actor step.
Doing(at, phase) == actor.at = at /\ jrn.phase = phase
Working ==
    \/ Doing("stage", "prepared") /\ Dirs(Original, "none", "none") /\ Sources("store", "none")
    \/ Doing("staged", "prepared") /\ Dirs(Original, "part", "none") /\ Sources("store", "none")
    \/ Doing("write", "staging_created") /\ Dirs(Original, "part", "none") /\ Sources("store", "none")
    \/ Doing("sync", "data_written") /\ Dirs(Original, "new", "none") /\ Sources("store", "none")
    \/ Doing("verify", "data_synced") /\ Dirs(Original, "new", "none") /\ Sources("store", "none")
    \/ Replace /\ Doing("backup", "verified") /\ Dirs("old", "new", "none") /\ Sources("store", "none")
    \/ Replace /\ Doing("backedup", "verified") /\ Dirs("none", "new", "old") /\ Sources("store", "none")
    \/ Doing("publish", Ready) /\ Dirs("none", "new", Original) /\ Sources("store", "none")
    \/ Doing("published", Ready) /\ Dirs("new", "none", Original) /\ Sources("store", "none")
    \/ Replace /\ Doing("dropbackup", "destination_published") /\ Dirs("new", "none", tree.backup) /\ tree.backup \in {"none", "old"}
       /\ Sources("store", "none")
    \/ Replace /\ Doing("dropping", "destination_published") /\ Dirs("new", "none", tree.backup) /\ tree.backup \in {"none", "half"}
       /\ Sources("store", "none")
    \/ Move /\ Doing("quarantine", "destination_published") /\ Dirs("new", "none", "none") /\ Sources("store", "none")
    \/ Move /\ Doing("quarantined", "destination_published") /\ Dirs("new", "none", "none") /\ Sources("none", "store")
    \/ Move /\ Doing("remove", "source_quarantined") /\ Dirs("new", "none", "none") /\ Sources("none", "store")
    \/ Move /\ Doing("removing", "source_quarantined") /\ Dirs("new", "none", "none") /\ Sources("none", "half")
    \/ Move /\ Doing("removed", "source_quarantined") /\ Dirs("new", "none", "none") /\ Sources("none", "none")
    \/ Move /\ Doing("finish", "source_removed") /\ Dirs("new", "none", "none") /\ Sources("none", "none")
    \/ ~Move /\ Doing("finish", "destination_published") /\ Dirs("new", "none", "none") /\ Sources("store", "none")

\* What they hold when the process died with this phase on disk, also inside a rollback.
On(phases) == jrn.phase \in phases
CutOff ==
    \/ On({"prepared", "staging_created"}) /\ tree.staging \in {"none", "part", "half"} /\ Dirs(Original, tree.staging, "none") /\ Sources("store", "none")
    \/ On({"data_written", "data_synced"}) /\ tree.staging \in {"none", "new", "half"} /\ Dirs(Original, tree.staging, "none") /\ Sources("store", "none")
    \/ ~Replace /\ On({"verified"}) /\ Sources("store", "none") /\ tree.staging \in {"none", "new", "half"}
       /\ (Dirs("none", tree.staging, "none") \/ Dirs("new", "none", "none"))
    \/ Replace /\ On({"verified"}) /\ Sources("store", "none") /\ tree.staging \in {"none", "new", "half"}
       /\ (Dirs("none", tree.staging, "old") \/ Dirs("old", tree.staging, "none"))
    \/ Replace /\ On({"original_backed_up"}) /\ Sources("store", "none") /\ tree.staging \in {"none", "new", "half"}
       /\ (Dirs("none", tree.staging, "old") \/ Dirs("new", "none", "old") \/ Dirs("half", "none", "old") \/ Dirs("old", "none", "none"))
    \/ Replace /\ On({"destination_published"}) /\ Sources("store", "none")
       /\ (\/ Dirs("new", "none", tree.backup)
           \/ Dirs("half", "none", "old") \/ Dirs("none", "none", "old") \/ Dirs("old", "none", "none"))
    \/ jrn.mode = "create" /\ On({"destination_published"}) /\ Dirs("new", "none", "none") /\ Sources("store", "none")
    \/ Move /\ On({"destination_published"}) /\ Dirs("new", "none", "none") /\ (Sources("store", "none") \/ Sources("none", "store"))
    \/ Move /\ On({"source_quarantined"}) /\ Dirs("new", "none", "none") /\ Sources("none", tree.quarantine)
    \/ Move /\ On({"source_removed"}) /\ Dirs("new", "none", "none") /\ Sources("none", "none")
AtRest ==
    /\ Dirs(tree.dest, "none", "none") /\ tree.dest # "half" /\ tree.quarantine = "none"
    /\ tree.source = "store" \/ tree.dest = "new"

\* The inductive invariant of the rewrites of one store.
RewriteInv ==
    /\ TxShape /\ JournalSound
    /\ actor.at # "none" => jrn.phase # "none" /\ actor.who # "none" /\ Working
    /\ actor.at = "none" /\ jrn.phase # "none" => CutOff
    /\ actor.at = "none" /\ jrn.phase = "none" => AtRest

LEMMA RewriteInvInit == TxInit => RewriteInv
<1> SUFFICES ASSUME TxInit PROVE RewriteInv
    OBVIOUS
<1> QED
  BY DEF TxInit, RewriteInv, TxShape, JournalSound, AtRest, Dirs, NoJournal, Nobody, TxPhases, Trees, Journals, Actors, TxSteps

LEMMA StartRewriteKeeps == RewriteInv /\ (\E m \in Modes : StartRewrite(m)) => RewriteInv'
<1> SUFFICES ASSUME RewriteInv, NEW m \in Modes, StartRewrite(m) PROVE RewriteInv'
    OBVIOUS
<1>1. m \in {"create", "replace", "move"}
    BY TransactionAssumption
<1>2. TxShape' /\ jrn'.phase = "prepared" /\ jrn'.mode = m /\ ~jrn'.staging /\ ~jrn'.backup /\ ~jrn'.quarantine
      /\ actor'.at = "stage" /\ actor'.who = "rewrite"
    BY <1>1 DEF StartRewrite, RewriteInv, TxShape, NoJournal, Nobody, TxPhases, Trees, Journals, Actors, TxSteps
<1>3. tree'.dest = (IF m = "replace" THEN "old" ELSE tree.dest) /\ tree'.staging = tree.staging /\ tree'.backup = tree.backup
      /\ tree'.source = tree.source /\ tree'.quarantine = tree.quarantine
    BY DEF StartRewrite, RewriteInv, TxShape, Trees
<1>4. tree.staging = "none" /\ tree.backup = "none" /\ tree.source = "store" /\ (m = "replace" <=> tree.dest # "none") /\ tree.quarantine = "none"
    BY DEF StartRewrite, RewriteInv, Preflight, AtRest, TxShape
<1> QED
    BY <1>1, <1>2, <1>3, <1>4 DEF RewriteInv, JournalSound, Dirs, Sources, Working, Doing, Original, Replace, Move

\* What a journaled step leaves: the shape of the state, and who is where.
LEMMA StepView ==
    ASSUME RewriteInv, NEW from, NEW to \in TxSteps, NEW t \in Trees, NEW j \in Journals, j.phase # "none",
           Step(from, to, t, j)
    PROVE  TxShape' /\ actor.at = from /\ actor'.at = to /\ actor'.who = actor.who /\ tree' = t /\ jrn' = j
    BY DEF Step, RewriteInv, TxShape, NoJournal, Nobody, TxPhases, Actors, TxSteps

LEMMA StageKeeps == RewriteInv /\ Stage => RewriteInv'
<1> SUFFICES ASSUME RewriteInv, Stage PROVE RewriteInv'
    OBVIOUS
<1>1. CASE Step("stage", "staged", [tree EXCEPT !.staging = "part"], jrn)
  <2> DEFINE t == [tree EXCEPT !.staging = "part"]  j == jrn
  <2>1. t \in Trees /\ t.dest = tree.dest /\ t.staging = "part" /\ t.backup = tree.backup /\ t.source = tree.source /\ t.quarantine = tree.quarantine
    BY <1>1 DEF RewriteInv, TxShape, Trees, Step, Working, Doing, Dirs, Sources
  <2>2. j \in Journals /\ j.phase # "none" /\ j = jrn
    BY <1>1 DEF RewriteInv, TxShape, Journals, TxPhases, Phase, Step, TxSteps
  <2> HIDE DEF t, j
  <2>3. TxShape' /\ actor.at = "stage" /\ actor'.at = ("staged") /\ actor'.who = actor.who /\ tree' = t /\ jrn' = j
    BY <1>1, <2>1, <2>2, StepView DEF TxSteps, t, j
  <2> QED
    BY <2>1, <2>2, <2>3 DEF RewriteInv, JournalSound, Dirs, Sources, Working, Doing, Original, Replace, Move, Ready
<1>2. CASE Step("staged", "write", tree, [Phase("staging_created") EXCEPT !.staging = TRUE])
  <2> DEFINE t == tree  j == [Phase("staging_created") EXCEPT !.staging = TRUE]
  <2>1. t \in Trees /\ t.dest = tree.dest /\ t.staging = tree.staging /\ t.backup = tree.backup /\ t.source = tree.source /\ t.quarantine = tree.quarantine
    BY <1>2 DEF RewriteInv, TxShape, Trees, Step, Working, Doing, Dirs, Sources
  <2>2. j \in Journals /\ j.phase = "staging_created" /\ j.mode = jrn.mode /\ j.staging = TRUE /\ j.backup = jrn.backup /\ j.quarantine = jrn.quarantine
    BY <1>2 DEF RewriteInv, TxShape, Journals, TxPhases, Phase, Step, TxSteps
  <2> HIDE DEF t, j
  <2>3. TxShape' /\ actor.at = "staged" /\ actor'.at = ("write") /\ actor'.who = actor.who /\ tree' = t /\ jrn' = j
    BY <1>2, <2>1, <2>2, StepView DEF TxSteps, t, j
  <2> QED
    BY <2>1, <2>2, <2>3 DEF RewriteInv, JournalSound, Dirs, Sources, Working, Doing, Original, Replace, Move, Ready
<1>3. CASE Step("write", "sync", [tree EXCEPT !.staging = "new"], Phase("data_written"))
  <2> DEFINE t == [tree EXCEPT !.staging = "new"]  j == Phase("data_written")
  <2>1. t \in Trees /\ t.dest = tree.dest /\ t.staging = "new" /\ t.backup = tree.backup /\ t.source = tree.source /\ t.quarantine = tree.quarantine
    BY <1>3 DEF RewriteInv, TxShape, Trees, Step, Working, Doing, Dirs, Sources
  <2>2. j \in Journals /\ j.phase = "data_written" /\ j.mode = jrn.mode /\ j.staging = jrn.staging /\ j.backup = jrn.backup /\ j.quarantine = jrn.quarantine
    BY <1>3 DEF RewriteInv, TxShape, Journals, TxPhases, Phase, Step, TxSteps
  <2> HIDE DEF t, j
  <2>3. TxShape' /\ actor.at = "write" /\ actor'.at = ("sync") /\ actor'.who = actor.who /\ tree' = t /\ jrn' = j
    BY <1>3, <2>1, <2>2, StepView DEF TxSteps, t, j
  <2> QED
    BY <2>1, <2>2, <2>3 DEF RewriteInv, JournalSound, Dirs, Sources, Working, Doing, Original, Replace, Move, Ready
<1>4. CASE Step("sync", "verify", tree, Phase("data_synced"))
  <2> DEFINE t == tree  j == Phase("data_synced")
  <2>1. t \in Trees /\ t.dest = tree.dest /\ t.staging = tree.staging /\ t.backup = tree.backup /\ t.source = tree.source /\ t.quarantine = tree.quarantine
    BY <1>4 DEF RewriteInv, TxShape, Trees, Step, Working, Doing, Dirs, Sources
  <2>2. j \in Journals /\ j.phase = "data_synced" /\ j.mode = jrn.mode /\ j.staging = jrn.staging /\ j.backup = jrn.backup /\ j.quarantine = jrn.quarantine
    BY <1>4 DEF RewriteInv, TxShape, Journals, TxPhases, Phase, Step, TxSteps
  <2> HIDE DEF t, j
  <2>3. TxShape' /\ actor.at = "sync" /\ actor'.at = ("verify") /\ actor'.who = actor.who /\ tree' = t /\ jrn' = j
    BY <1>4, <2>1, <2>2, StepView DEF TxSteps, t, j
  <2> QED
    BY <2>1, <2>2, <2>3 DEF RewriteInv, JournalSound, Dirs, Sources, Working, Doing, Original, Replace, Move, Ready
<1>5. CASE Step("verify", IF jrn.mode = "replace" THEN "backup" ELSE "publish", tree, Phase("verified"))
  <2> DEFINE t == tree  j == Phase("verified")
  <2>1. t \in Trees /\ t.dest = tree.dest /\ t.staging = tree.staging /\ t.backup = tree.backup /\ t.source = tree.source /\ t.quarantine = tree.quarantine
    BY <1>5 DEF RewriteInv, TxShape, Trees, Step, Working, Doing, Dirs, Sources
  <2>2. j \in Journals /\ j.phase = "verified" /\ j.mode = jrn.mode /\ j.staging = jrn.staging /\ j.backup = jrn.backup /\ j.quarantine = jrn.quarantine
    BY <1>5 DEF RewriteInv, TxShape, Journals, TxPhases, Phase, Step, TxSteps
  <2> HIDE DEF t, j
  <2>3. TxShape' /\ actor.at = "verify" /\ actor'.at = (IF jrn.mode = "replace" THEN "backup" ELSE "publish") /\ actor'.who = actor.who /\ tree' = t /\ jrn' = j
    BY <1>5, <2>1, <2>2, StepView DEF TxSteps, t, j
  <2> QED
    BY <2>1, <2>2, <2>3 DEF RewriteInv, JournalSound, Dirs, Sources, Working, Doing, Original, Replace, Move, Ready
<1> QED
    BY <1>1, <1>2, <1>3, <1>4, <1>5 DEF Stage

LEMMA BackUpOriginalKeeps == RewriteInv /\ BackUpOriginal => RewriteInv'
<1> SUFFICES ASSUME RewriteInv, BackUpOriginal PROVE RewriteInv'
    OBVIOUS
<1>1. CASE tree.dest # "none" /\ Step("backup", "backedup", [tree EXCEPT !.backup = tree.dest, !.dest = "none"], jrn)
  <2> DEFINE t == [tree EXCEPT !.backup = tree.dest, !.dest = "none"]  j == jrn
  <2>1. t \in Trees /\ t.dest = "none" /\ t.staging = tree.staging /\ t.backup = tree.dest /\ t.source = tree.source /\ t.quarantine = tree.quarantine
    BY <1>1 DEF RewriteInv, TxShape, Trees, Step, Working, Doing, Dirs, Sources
  <2>2. j \in Journals /\ j.phase # "none" /\ j = jrn
    BY <1>1 DEF RewriteInv, TxShape, Journals, TxPhases, Phase, Step, TxSteps
  <2> HIDE DEF t, j
  <2>3. TxShape' /\ actor.at = "backup" /\ actor'.at = ("backedup") /\ actor'.who = actor.who /\ tree' = t /\ jrn' = j
    BY <1>1, <2>1, <2>2, StepView DEF TxSteps, t, j
  <2> QED
    BY <2>1, <2>2, <2>3 DEF RewriteInv, JournalSound, Dirs, Sources, Working, Doing, Original, Replace, Move, Ready
<1>2. CASE Step("backedup", "publish", tree, [Phase("original_backed_up") EXCEPT !.backup = TRUE])
  <2> DEFINE t == tree  j == [Phase("original_backed_up") EXCEPT !.backup = TRUE]
  <2>1. t \in Trees /\ t.dest = tree.dest /\ t.staging = tree.staging /\ t.backup = tree.backup /\ t.source = tree.source /\ t.quarantine = tree.quarantine
    BY <1>2 DEF RewriteInv, TxShape, Trees, Step, Working, Doing, Dirs, Sources
  <2>2. j \in Journals /\ j.phase = "original_backed_up" /\ j.mode = jrn.mode /\ j.staging = jrn.staging /\ j.backup = TRUE /\ j.quarantine = jrn.quarantine
    BY <1>2 DEF RewriteInv, TxShape, Journals, TxPhases, Phase, Step, TxSteps
  <2> HIDE DEF t, j
  <2>3. TxShape' /\ actor.at = "backedup" /\ actor'.at = ("publish") /\ actor'.who = actor.who /\ tree' = t /\ jrn' = j
    BY <1>2, <2>1, <2>2, StepView DEF TxSteps, t, j
  <2> QED
    BY <2>1, <2>2, <2>3 DEF RewriteInv, JournalSound, Dirs, Sources, Working, Doing, Original, Replace, Move, Ready
<1> QED
    BY <1>1, <1>2 DEF BackUpOriginal

LEMMA PublishKeeps == RewriteInv /\ Publish => RewriteInv'
<1> SUFFICES ASSUME RewriteInv, Publish PROVE RewriteInv'
    OBVIOUS
<1>1. CASE tree.dest = "none" /\ Step("publish", "published", [tree EXCEPT !.dest = tree.staging, !.staging = "none"], jrn)
  <2> DEFINE t == [tree EXCEPT !.dest = tree.staging, !.staging = "none"]  j == jrn
  <2>1. t \in Trees /\ t.dest = tree.staging /\ t.staging = "none" /\ t.backup = tree.backup /\ t.source = tree.source /\ t.quarantine = tree.quarantine
    BY <1>1 DEF RewriteInv, TxShape, Trees, Step, Working, Doing, Dirs, Sources
  <2>2. j \in Journals /\ j.phase # "none" /\ j = jrn
    BY <1>1 DEF RewriteInv, TxShape, Journals, TxPhases, Phase, Step, TxSteps
  <2> HIDE DEF t, j
  <2>3. TxShape' /\ actor.at = "publish" /\ actor'.at = ("published") /\ actor'.who = actor.who /\ tree' = t /\ jrn' = j
    BY <1>1, <2>1, <2>2, StepView DEF TxSteps, t, j
  <2> QED
    BY <2>1, <2>2, <2>3 DEF RewriteInv, JournalSound, Dirs, Sources, Working, Doing, Original, Replace, Move, Ready
<1>2. CASE Step("published", IF jrn.mode = "move" THEN "quarantine" ELSE IF jrn.mode = "replace" THEN "dropbackup" ELSE "finish", tree, Phase("destination_published"))
  <2> DEFINE t == tree  j == Phase("destination_published")
  <2>1. t \in Trees /\ t.dest = tree.dest /\ t.staging = tree.staging /\ t.backup = tree.backup /\ t.source = tree.source /\ t.quarantine = tree.quarantine
    BY <1>2 DEF RewriteInv, TxShape, Trees, Step, Working, Doing, Dirs, Sources
  <2>2. j \in Journals /\ j.phase = "destination_published" /\ j.mode = jrn.mode /\ j.staging = jrn.staging /\ j.backup = jrn.backup /\ j.quarantine = jrn.quarantine
    BY <1>2 DEF RewriteInv, TxShape, Journals, TxPhases, Phase, Step, TxSteps
  <2> HIDE DEF t, j
  <2>3. TxShape' /\ actor.at = "published" /\ actor'.at = (IF jrn.mode = "move" THEN "quarantine" ELSE IF jrn.mode = "replace" THEN "dropbackup" ELSE "finish") /\ actor'.who = actor.who /\ tree' = t /\ jrn' = j
    BY <1>2, <2>1, <2>2, StepView DEF TxSteps, t, j
  <2> QED
    BY <2>1, <2>2, <2>3 DEF RewriteInv, JournalSound, Dirs, Sources, Working, Doing, Original, Replace, Move, Ready
<1> QED
    BY <1>1, <1>2 DEF Publish

LEMMA RemoveSourceKeeps == RewriteInv /\ RemoveSource => RewriteInv'
<1> SUFFICES ASSUME RewriteInv, RemoveSource PROVE RewriteInv'
    OBVIOUS
<1>1. CASE Step("quarantine", "quarantined", [tree EXCEPT !.quarantine = tree.source, !.source = "none"], jrn)
  <2> DEFINE t == [tree EXCEPT !.quarantine = tree.source, !.source = "none"]  j == jrn
  <2>1. t \in Trees /\ t.dest = tree.dest /\ t.staging = tree.staging /\ t.backup = tree.backup /\ t.source = "none" /\ t.quarantine = tree.source
    BY <1>1 DEF RewriteInv, TxShape, Trees, Step, Working, Doing, Dirs, Sources
  <2>2. j \in Journals /\ j.phase # "none" /\ j = jrn
    BY <1>1 DEF RewriteInv, TxShape, Journals, TxPhases, Phase, Step, TxSteps
  <2> HIDE DEF t, j
  <2>3. TxShape' /\ actor.at = "quarantine" /\ actor'.at = ("quarantined") /\ actor'.who = actor.who /\ tree' = t /\ jrn' = j
    BY <1>1, <2>1, <2>2, StepView DEF TxSteps, t, j
  <2> QED
    BY <2>1, <2>2, <2>3 DEF RewriteInv, JournalSound, Dirs, Sources, Working, Doing, Original, Replace, Move, Ready
<1>2. CASE Step("quarantined", "remove", tree, [Phase("source_quarantined") EXCEPT !.quarantine = TRUE])
  <2> DEFINE t == tree  j == [Phase("source_quarantined") EXCEPT !.quarantine = TRUE]
  <2>1. t \in Trees /\ t.dest = tree.dest /\ t.staging = tree.staging /\ t.backup = tree.backup /\ t.source = tree.source /\ t.quarantine = tree.quarantine
    BY <1>2 DEF RewriteInv, TxShape, Trees, Step, Working, Doing, Dirs, Sources
  <2>2. j \in Journals /\ j.phase = "source_quarantined" /\ j.mode = jrn.mode /\ j.staging = jrn.staging /\ j.backup = jrn.backup /\ j.quarantine = TRUE
    BY <1>2 DEF RewriteInv, TxShape, Journals, TxPhases, Phase, Step, TxSteps
  <2> HIDE DEF t, j
  <2>3. TxShape' /\ actor.at = "quarantined" /\ actor'.at = ("remove") /\ actor'.who = actor.who /\ tree' = t /\ jrn' = j
    BY <1>2, <2>1, <2>2, StepView DEF TxSteps, t, j
  <2> QED
    BY <2>1, <2>2, <2>3 DEF RewriteInv, JournalSound, Dirs, Sources, Working, Doing, Original, Replace, Move, Ready
<1>3. CASE Step("remove", "removing", [tree EXCEPT !.quarantine = Halved(@)], jrn)
  <2> DEFINE t == [tree EXCEPT !.quarantine = Halved(@)]  j == jrn
  <2>1. t \in Trees /\ t.dest = tree.dest /\ t.staging = tree.staging /\ t.backup = tree.backup /\ t.source = tree.source /\ t.quarantine = "half"
    BY <1>3 DEF RewriteInv, TxShape, Trees, Step, Working, Doing, Dirs, Sources, Halved
  <2>2. j \in Journals /\ j.phase # "none" /\ j = jrn
    BY <1>3 DEF RewriteInv, TxShape, Journals, TxPhases, Phase, Step, TxSteps
  <2> HIDE DEF t, j
  <2>3. TxShape' /\ actor.at = "remove" /\ actor'.at = ("removing") /\ actor'.who = actor.who /\ tree' = t /\ jrn' = j
    BY <1>3, <2>1, <2>2, StepView DEF TxSteps, t, j
  <2> QED
    BY <2>1, <2>2, <2>3 DEF RewriteInv, JournalSound, Dirs, Sources, Working, Doing, Original, Replace, Move, Ready
<1>4. CASE Step("removing", "removed", [tree EXCEPT !.quarantine = "none"], jrn)
  <2> DEFINE t == [tree EXCEPT !.quarantine = "none"]  j == jrn
  <2>1. t \in Trees /\ t.dest = tree.dest /\ t.staging = tree.staging /\ t.backup = tree.backup /\ t.source = tree.source /\ t.quarantine = "none"
    BY <1>4 DEF RewriteInv, TxShape, Trees, Step, Working, Doing, Dirs, Sources
  <2>2. j \in Journals /\ j.phase # "none" /\ j = jrn
    BY <1>4 DEF RewriteInv, TxShape, Journals, TxPhases, Phase, Step, TxSteps
  <2> HIDE DEF t, j
  <2>3. TxShape' /\ actor.at = "removing" /\ actor'.at = ("removed") /\ actor'.who = actor.who /\ tree' = t /\ jrn' = j
    BY <1>4, <2>1, <2>2, StepView DEF TxSteps, t, j
  <2> QED
    BY <2>1, <2>2, <2>3 DEF RewriteInv, JournalSound, Dirs, Sources, Working, Doing, Original, Replace, Move, Ready
<1>5. CASE Step("removed", "finish", tree, Phase("source_removed"))
  <2> DEFINE t == tree  j == Phase("source_removed")
  <2>1. t \in Trees /\ t.dest = tree.dest /\ t.staging = tree.staging /\ t.backup = tree.backup /\ t.source = tree.source /\ t.quarantine = tree.quarantine
    BY <1>5 DEF RewriteInv, TxShape, Trees, Step, Working, Doing, Dirs, Sources
  <2>2. j \in Journals /\ j.phase = "source_removed" /\ j.mode = jrn.mode /\ j.staging = jrn.staging /\ j.backup = jrn.backup /\ j.quarantine = jrn.quarantine
    BY <1>5 DEF RewriteInv, TxShape, Journals, TxPhases, Phase, Step, TxSteps
  <2> HIDE DEF t, j
  <2>3. TxShape' /\ actor.at = "removed" /\ actor'.at = ("finish") /\ actor'.who = actor.who /\ tree' = t /\ jrn' = j
    BY <1>5, <2>1, <2>2, StepView DEF TxSteps, t, j
  <2> QED
    BY <2>1, <2>2, <2>3 DEF RewriteInv, JournalSound, Dirs, Sources, Working, Doing, Original, Replace, Move, Ready
<1> QED
    BY <1>1, <1>2, <1>3, <1>4, <1>5 DEF RemoveSource

LEMMA FinishKeeps == RewriteInv /\ Finish => RewriteInv'
<1> SUFFICES ASSUME RewriteInv, Finish PROVE RewriteInv'
    OBVIOUS
<1>1. CASE Step("dropbackup", "dropping", [tree EXCEPT !.backup = Halved(@)], jrn)
  <2> DEFINE t == [tree EXCEPT !.backup = Halved(@)]
  <2>1. t \in Trees /\ t.dest = tree.dest /\ t.staging = tree.staging /\ t.backup = Halved(tree.backup) /\ t.source = tree.source /\ t.quarantine = tree.quarantine
    BY DEF RewriteInv, TxShape, Trees, Halved
  <2>2. jrn \in Journals /\ jrn.phase # "none"
    BY <1>1 DEF RewriteInv, TxShape, Step
  <2> HIDE DEF t
  <2>3. TxShape' /\ actor.at = "dropbackup" /\ actor'.at = "dropping" /\ actor'.who = actor.who /\ tree' = t /\ jrn' = jrn
    BY <1>1, <2>1, <2>2, StepView DEF TxSteps, t
  <2> QED
    BY <2>1, <2>2, <2>3 DEF RewriteInv, JournalSound, Dirs, Sources, Working, Doing, Original, Replace, Move, Ready, Halved
<1>2. CASE Step("dropping", "finish", [tree EXCEPT !.backup = "none"], jrn)
  <2> DEFINE t == [tree EXCEPT !.backup = "none"]
  <2>1. t \in Trees /\ t.dest = tree.dest /\ t.staging = tree.staging /\ t.backup = "none" /\ t.source = tree.source /\ t.quarantine = tree.quarantine
    BY DEF RewriteInv, TxShape, Trees
  <2>2. jrn \in Journals /\ jrn.phase # "none"
    BY <1>2 DEF RewriteInv, TxShape, Step
  <2> HIDE DEF t
  <2>3. TxShape' /\ actor.at = "dropping" /\ actor'.at = "finish" /\ actor'.who = actor.who /\ tree' = t /\ jrn' = jrn
    BY <1>2, <2>1, <2>2, StepView DEF TxSteps, t
  <2> QED
    BY <2>1, <2>2, <2>3 DEF RewriteInv, JournalSound, Dirs, Sources, Working, Doing, Original, Replace, Move, Ready
<1>3. CASE actor.at = "finish" /\ jrn' = NoJournal /\ actor' = Nobody /\ UNCHANGED <<tree, txRuns, txFaults>>
  <2>1. TxShape' /\ jrn'.phase = "none" /\ actor'.at = "none" /\ tree' = tree
    BY <1>3 DEF RewriteInv, TxShape, NoJournal, Nobody, Journals, Actors, TxPhases, TxSteps
  <2>2. Working
    BY <1>3 DEF RewriteInv
  <2> QED
    BY <1>3, <2>1, <2>2 DEF RewriteInv, JournalSound, Dirs, Sources, Working, Doing, AtRest
<1> QED
    BY <1>1, <1>2, <1>3 DEF Finish

\* Whoever holds the lock, a transaction with a journal looks like one that was cut off there.
LEMMA AlwaysCutOff == RewriteInv /\ jrn.phase # "none" => CutOff
<1> SUFFICES ASSUME RewriteInv, jrn.phase # "none" PROVE CutOff
    OBVIOUS
<1>1. CASE actor.at = "none"
    BY <1>1 DEF RewriteInv
<1>2. CASE actor.at # "none"
    BY <1>2 DEF RewriteInv, TxShape, Trees, JournalSound, Dirs, Sources, Working, Doing, CutOff, On, Original, Replace, Move, Ready
<1> QED
    BY <1>1, <1>2

LEMMA CrashTxKeeps == RewriteInv /\ CrashTx => RewriteInv'
<1> SUFFICES ASSUME RewriteInv, CrashTx PROVE RewriteInv'
    OBVIOUS
<1>1. jrn.phase # "none" /\ actor'.at = "none" /\ TxShape' /\ tree' = tree /\ jrn' = jrn
    BY DEF RewriteInv, CrashTx, TxShape, Nobody, Actors
<1>2. CutOff
    BY <1>1, AlwaysCutOff
<1>3. JournalSound'
    BY <1>1 DEF RewriteInv, JournalSound, Replace, Move
<1>4. CutOff'
    BY <1>1, <1>2 DEF CutOff, On, Dirs, Sources, Original, Replace, Move
<1> QED
    BY <1>1, <1>3, <1>4 DEF RewriteInv

\* The directories on the way of a rollback.
LEMMA RollbackDirs ==
    ASSUME RewriteInv
    PROVE  /\ {Unpublishing, Unpublished, Clearing, Cleared, Restored} \subseteq Trees
           /\ \A t \in {Unpublishing, Unpublished, Clearing, Cleared, Restored} : t.source = tree.source /\ t.quarantine = tree.quarantine
           /\ Unpublishing.dest = (IF Unpublishes THEN Halved(tree.dest) ELSE tree.dest)
           /\ Unpublishing.staging = tree.staging /\ Unpublishing.backup = tree.backup
           /\ Unpublished.dest = (IF Unpublishes THEN "none" ELSE tree.dest)
           /\ Unpublished.staging = tree.staging /\ Unpublished.backup = tree.backup
           /\ Clearing.dest = Unpublished.dest /\ Clearing.staging = Halved(tree.staging) /\ Clearing.backup = tree.backup
           /\ Cleared.dest = Unpublished.dest /\ Cleared.staging = "none" /\ Cleared.backup = tree.backup
           /\ Restored.dest = (IF tree.backup # "none" THEN tree.backup ELSE Cleared.dest)
           /\ Restored.staging = "none" /\ Restored.backup = "none"
<1>1. tree \in Trees
    BY DEF RewriteInv, TxShape
<1>2. /\ Unpublished \in Trees /\ Unpublished.source = tree.source /\ Unpublished.quarantine = tree.quarantine
      /\ Unpublished.dest = (IF Unpublishes THEN "none" ELSE tree.dest)
      /\ Unpublished.staging = tree.staging /\ Unpublished.backup = tree.backup
    BY <1>1 DEF Unpublished, Trees
<1>3. /\ Unpublishing \in Trees /\ Unpublishing.source = tree.source /\ Unpublishing.quarantine = tree.quarantine
      /\ Unpublishing.dest = (IF Unpublishes THEN Halved(tree.dest) ELSE tree.dest)
      /\ Unpublishing.staging = tree.staging /\ Unpublishing.backup = tree.backup
    BY <1>1 DEF Unpublishing, Trees, Halved
<1>4. /\ Cleared \in Trees /\ Cleared.source = tree.source /\ Cleared.quarantine = tree.quarantine
      /\ Cleared.dest = Unpublished.dest /\ Cleared.staging = "none" /\ Cleared.backup = tree.backup
    BY <1>2 DEF Cleared, Trees
<1>5. /\ Clearing \in Trees /\ Clearing.source = tree.source /\ Clearing.quarantine = tree.quarantine
      /\ Clearing.dest = Unpublished.dest /\ Clearing.staging = Halved(tree.staging) /\ Clearing.backup = tree.backup
    BY <1>2 DEF Clearing, Trees, Halved
<1>6. /\ Restored \in Trees /\ Restored.source = tree.source /\ Restored.quarantine = tree.quarantine
      /\ Restored.dest = (IF tree.backup # "none" THEN tree.backup ELSE Cleared.dest)
      /\ Restored.staging = "none" /\ Restored.backup = "none"
    BY <1>1, <1>4 DEF Restored, Trees
<1> QED
    BY <1>2, <1>3, <1>4, <1>5, <1>6

\* A rollback that has not ended leaves a transaction that still looks cut off.
LEMMA RollbackCutOff ==
    ASSUME RewriteInv, CutOff, jrn.phase # "none", RollbackAccepts, jrn' = jrn, actor' = Nobody,
           \/ tree' \in {Unpublishing, Unpublished}
           \/ RollbackClears /\ tree' \in {Clearing, Cleared}
           \/ RollbackEnds /\ tree' = Restored
    PROVE  RewriteInv'
<1>1. tree' \in Trees /\ tree'.source = tree.source /\ tree'.quarantine = tree.quarantine
    BY RollbackDirs DEF RollbackEnds
<1>2. TxShape' /\ actor'.at = "none"
    BY <1>1 DEF RewriteInv, TxShape, Nobody, Actors
<1>3. JournalSound'
    BY DEF RewriteInv, JournalSound, Replace, Move
<1>4. CASE tree' = Unpublishing
  <2>1. /\ tree'.dest = (IF Unpublishes THEN Halved(tree.dest) ELSE tree.dest)
        /\ tree'.staging = tree.staging /\ tree'.backup = tree.backup
    BY <1>4, RollbackDirs
  <2>2. CutOff'
    BY <1>1, <2>1 DEF CutOff, On, Dirs, Sources, Original, Replace, Move, RollbackAccepts, Early, Unpublishes, Halved
  <2> QED
    BY <1>2, <1>3, <2>2 DEF RewriteInv
<1>5. CASE tree' = Unpublished
  <2>1. /\ tree'.dest = (IF Unpublishes THEN "none" ELSE tree.dest)
        /\ tree'.staging = tree.staging /\ tree'.backup = tree.backup
    BY <1>5, RollbackDirs
  <2>2. CutOff'
    BY <1>1, <2>1 DEF CutOff, On, Dirs, Sources, Original, Replace, Move, RollbackAccepts, Early, Unpublishes
  <2> QED
    BY <1>2, <1>3, <2>2 DEF RewriteInv
<1>6. CASE RollbackClears /\ tree' = Clearing
  <2>1. /\ tree'.dest = (IF Unpublishes THEN "none" ELSE tree.dest)
        /\ tree'.staging = Halved(tree.staging) /\ tree'.backup = tree.backup
    BY <1>6, RollbackDirs
  <2>2. CutOff'
    BY <1>1, <2>1 DEF CutOff, On, Dirs, Sources, Original, Replace, Move, RollbackAccepts, Early, Unpublishes, Halved
  <2> QED
    BY <1>2, <1>3, <2>2 DEF RewriteInv
<1>7. CASE RollbackClears /\ tree' = Cleared
  <2>1. /\ tree'.dest = (IF Unpublishes THEN "none" ELSE tree.dest)
        /\ tree'.staging = "none" /\ tree'.backup = tree.backup
    BY <1>7, RollbackDirs
  <2>2. CutOff'
    BY <1>1, <2>1 DEF CutOff, On, Dirs, Sources, Original, Replace, Move, RollbackAccepts, Early, Unpublishes
  <2> QED
    BY <1>2, <1>3, <2>2 DEF RewriteInv
<1>8. CASE RollbackEnds /\ tree' = Restored
  <2>1. /\ tree'.dest = (IF tree.backup # "none" THEN tree.backup ELSE tree.dest)
        /\ tree'.staging = "none" /\ tree'.backup = "none"
    BY <1>8, RollbackDirs DEF Unpublishes, CutOff, On, Dirs, RollbackAccepts, Early, RollbackEnds
  <2>2. CutOff'
    BY <1>1, <2>1 DEF CutOff, On, Dirs, Sources, Original, Replace, Move, RollbackAccepts, Early
  <2> QED
    BY <1>2, <1>3, <2>2 DEF RewriteInv
<1> QED
    BY <1>4, <1>5, <1>6, <1>7, <1>8

LEMMA RollBackKeeps == ASSUME RewriteInv, jrn.phase # "none", RollBack PROVE RewriteInv'
<1>1. CutOff
    BY AlwaysCutOff
<1>2. CASE RollbackEnds
  <2>1. jrn' = NoJournal /\ actor' = Nobody /\ tree' = Restored
    BY <1>2 DEF RollBack, RollbackEnds, RolledBack
  <2>2. /\ tree' \in Trees /\ tree'.source = tree.source /\ tree'.quarantine = tree.quarantine
        /\ tree'.dest = (IF tree.backup # "none" THEN tree.backup ELSE tree.dest)
        /\ tree'.staging = "none" /\ tree'.backup = "none"
    BY <1>1, <1>2, <2>1, RollbackDirs DEF Unpublishes, CutOff, On, Dirs, RollbackAccepts, Early, RollbackEnds
  <2>3. TxShape' /\ jrn'.phase = "none" /\ actor'.at = "none"
    BY <2>1, <2>2 DEF RewriteInv, TxShape, NoJournal, Nobody, Journals, Actors, TxPhases, TxSteps
  <2>4. AtRest'
    BY <1>1, <1>2, <2>2 DEF AtRest, CutOff, On, Dirs, Sources, RollbackEnds, RollbackAccepts, Early, Replace, Move, Original
  <2> QED
    BY <2>3, <2>4 DEF RewriteInv, JournalSound
<1>3. CASE RollbackAccepts /\ ~RollbackEnds
  <2>1. jrn' = jrn /\ actor' = Nobody
    BY <1>3 DEF RollBack
  <2>2. tree' = Unpublished \/ (RollbackClears /\ tree' = Cleared)
    BY <1>3 DEF RollBack, RolledBack, RollbackEnds
  <2> QED
    BY <1>1, <1>3, <2>1, <2>2, RollbackCutOff
<1>4. CASE ~RollbackAccepts
  <2>1. jrn' = jrn /\ actor' = Nobody /\ tree' = tree
    BY <1>4 DEF RollBack, RolledBack, RollbackEnds
  <2>2. TxShape' /\ actor'.at = "none"
    BY <2>1 DEF RewriteInv, TxShape, Nobody, Actors
  <2>3. JournalSound' /\ CutOff'
    BY <1>1, <2>1 DEF RewriteInv, JournalSound, CutOff, On, Dirs, Sources, Original, Replace, Move
  <2> QED
    BY <2>1, <2>2, <2>3 DEF RewriteInv
<1> QED
    BY <1>2, <1>3, <1>4 DEF RollbackEnds

LEMMA ResumeKeeps == RewriteInv /\ ResumeTransaction => RewriteInv'
<1> SUFFICES ASSUME RewriteInv, ResumeTransaction PROVE RewriteInv'
    OBVIOUS
<1>1. jrn.phase # "none" /\ tree' = tree /\ jrn' = jrn /\ actor.at = "none" /\ ResumeAt # "invalid"
    BY DEF ResumeTransaction, RewriteInv, TxShape
<1>2. CutOff
    BY <1>1, AlwaysCutOff
<1>3. ResumeAt \in TxSteps
    BY <1>1 DEF ResumeAt, TxSteps
<1>4. actor'.at = ResumeAt /\ actor'.who = "resume" /\ TxShape'
    BY <1>1, <1>3 DEF ResumeTransaction, RewriteInv, TxShape, Nobody, Actors, TxSteps
<1>5. JournalSound'
    BY <1>1 DEF RewriteInv, JournalSound, Replace, Move
<1>6. Working'
  <2> DEFINE at == ResumeAt
  <2>1. \/ at = "publish" /\ ~Replace /\ jrn.phase = "verified" /\ tree.dest = "none" /\ tree.staging = "new"
        \/ at = "backup" /\ Replace /\ jrn.phase = "verified" /\ tree.dest = "old" /\ tree.staging = "new"
        \/ at = "backedup" /\ Replace /\ jrn.phase = "verified" /\ tree.dest = "none" /\ tree.staging = "new" /\ tree.backup # "none"
        \/ at = "publish" /\ Replace /\ jrn.phase = "original_backed_up" /\ tree.dest = "none" /\ tree.staging = "new"
        \/ at = "published" /\ Replace /\ jrn.phase = "original_backed_up" /\ tree.dest = "new" /\ tree.staging = "none"
        \/ jrn.phase = "destination_published" /\ tree.dest = "new" /\ tree.staging = "none" /\
             (\/ at = "quarantine" /\ Move /\ tree.source = "store" /\ tree.quarantine = "none"
              \/ at = "dropbackup" /\ Replace /\ tree.backup # "half"
              \/ at = "finish" /\ ~Move /\ ~Replace)
        \/ at = "remove" /\ jrn.phase = "source_quarantined" /\ tree.source = "none" /\ tree.quarantine = "store"
    BY <1>1 DEF ResumeAt, Replace, Move
  <2> HIDE DEF at
  <2>2. actor'.at = at
    BY <1>4 DEF at
  <2> QED
    BY <1>1, <1>2, <2>1, <2>2 DEF RewriteInv, TxShape, Trees, JournalSound, Working, CutOff, On, Doing, Dirs, Sources,
       Original, Replace, Move, Ready
<1> QED
    BY <1>1, <1>3, <1>4, <1>5, <1>6 DEF RewriteInv, TxSteps

\* No step breaks the invariant.
LEMMA RewriteInvKept == RewriteInv /\ [TxNext]_txVars => RewriteInv'
<1> SUFFICES ASSUME RewriteInv, [TxNext]_txVars PROVE RewriteInv'
    OBVIOUS
<1>1. CASE UNCHANGED txVars
    BY <1>1 DEF txVars, RewriteInv, TxShape, JournalSound, Working, CutOff, AtRest, On, Doing, Dirs, Sources, Original, Replace, Move, Ready
<1>2. CASE RollbackTransaction
  <2>1. jrn.phase # "none" /\ RollBack
    BY <1>2 DEF RollbackTransaction, RewriteInv, TxShape
  <2> QED
    BY <2>1, RollBackKeeps
<1>3. CASE CrashInRollback
  <2>1. /\ jrn.phase # "none" /\ RollbackAccepts /\ jrn' = jrn /\ actor' = Nobody
        /\ \/ tree' \in {Unpublishing, Unpublished}
           \/ RollbackClears /\ tree' \in {Clearing, Cleared}
           \/ RollbackEnds /\ tree' = Restored
    BY <1>3 DEF CrashInRollback, RewriteInv, TxShape
  <2>2. CutOff
    BY <2>1, AlwaysCutOff
  <2> QED
    BY <2>1, <2>2, RollbackCutOff
<1>4. CASE StepFails
  <2>1. jrn.phase # "none" /\ RollBack
    BY <1>4 DEF StepFails, RewriteInv, UnpublishedSteps
  <2> QED
    BY <2>1, RollBackKeeps
<1> QED
    BY <1>1, <1>2, <1>3, <1>4, StartRewriteKeeps, StageKeeps, BackUpOriginalKeeps, PublishKeeps, RemoveSourceKeeps,
       FinishKeeps, CrashTxKeeps, ResumeKeeps DEF TxNext

RewriteSpec == TxInit /\ [][TxNext]_txVars

(* Between any two steps of a copy, a replace or a move, of its recovery and of their *)
(* crashes, the journal's phase and the actor's step fix what each directory holds    *)
(* (rewrite_store, resume_transaction, rollback_transaction).                          *)
THEOREM RewriteInvariant == RewriteSpec => []RewriteInv
    BY RewriteInvInit, RewriteInvKept, PTL DEF RewriteSpec

(* The directories, the journal and the actor keep their types (toolkit.rs).           *)
THEOREM RewriteTypes == RewriteSpec => []TxTypeOK
<1>1. RewriteInv => TxTypeOK
  <2> SUFFICES ASSUME RewriteInv PROVE TxTypeOK
    OBVIOUS
  <2>1. tree \in Trees /\ jrn \in Journals /\ actor \in Actors
    BY DEF RewriteInv, TxShape
  <2> QED
    BY <2>1 DEF TxTypeOK, Trees, Journals, Actors
<1> QED
    BY <1>1, RewriteInvariant, PTL

(* Whatever step fails or dies, in the middle of a removal too, a complete store       *)
(* survives, no half-built one is ever published, a half-removed one has its name only *)
(* while the whole original is the backup, and what was cut off can be ended outside   *)
(* the windows the property names (rewrite_store, resume_transaction,                  *)
(* rollback_transaction, remove_tree_identity).                                        *)
THEOREM RewritesAreCrashSafe == RewriteSpec => []RewriteCrashSafe
<1>1. RewriteInv => StoreNeverLost
  <2> SUFFICES ASSUME RewriteInv PROVE StoreNeverLost
    OBVIOUS
  <2>1. tree.dest # "part" /\ tree.backup # "part"
    BY DEF RewriteInv, TxShape, Trees
  <2>2. CASE jrn.phase = "none"
    <3>1. actor.at = "none" /\ AtRest /\ jrn.mode = "none"
      BY <2>2 DEF RewriteInv, TxShape, NoJournal
    <3> QED
      BY <2>1, <3>1 DEF StoreNeverLost, AtRest, Dirs, RewriteInv, TxShape, Trees
  <2>3. CASE jrn.phase # "none"
    <3>1. CutOff /\ jrn # NoJournal
      BY <2>3, AlwaysCutOff DEF RewriteInv, TxShape
    <3> QED
      BY <2>1, <3>1 DEF StoreNeverLost, CutOff, On, Dirs, Sources, Original, Replace, Move, RewriteInv, TxShape, Trees
  <2> QED
    BY <2>2, <2>3
<1>2. RewriteInv => JournalResolvable
  <2> SUFFICES ASSUME RewriteInv, actor = Nobody, jrn # NoJournal, ~OneStepAhead, ~HalfRemoved, jrn.phase # "source_removed"
               PROVE  ResumeAt # "invalid" \/ RollbackEnds
    BY DEF JournalResolvable
  <2>1. jrn.phase # "none" /\ JournalSound /\ TxShape
    BY DEF RewriteInv, TxShape
  <2>2. CutOff
    BY <2>1, AlwaysCutOff
  <2>3. CASE jrn.phase \in Early
    BY <2>1, <2>2, <2>3 DEF CutOff, On, Dirs, Sources, Original, Replace, Move, OneStepAhead, HalfRemoved, JournalSound, Early,
       RollbackEnds, RollbackAccepts, RollbackClears, RollbackRestores
  <2>4. CASE jrn.phase = "verified"
    BY <2>1, <2>2, <2>4 DEF CutOff, On, Dirs, Sources, Original, Replace, Move, OneStepAhead, HalfRemoved, JournalSound, Early,
       RollbackEnds, RollbackAccepts, RollbackClears, RollbackRestores
  <2>5. CASE jrn.phase \in {"original_backed_up", "destination_published", "source_quarantined"}
    BY <2>1, <2>2, <2>5 DEF CutOff, On, Dirs, Sources, Original, Replace, Move, OneStepAhead, HalfRemoved, JournalSound, Early,
       RollbackEnds, RollbackAccepts, RollbackClears, RollbackRestores, ResumeAt, TxShape, Trees
  <2> QED
    BY <2>1, <2>3, <2>4, <2>5 DEF Early, TxShape, Journals, TxPhases
<1> QED
    BY <1>1, <1>2, RewriteInvariant, PTL DEF RewriteCrashSafe

-----------------------------------------------------------------------------
\* The directory of a store: tron-storage.
\* The generations a directory can hold, the roots it can be of, and the shapes of its state.
Nothing == {}
FirstGen == {0}
Both == {0, 1}
GoodRoots == {s.root : s \in {x \in Snapshots : Importable(x) /\ x.body = x.root}}
Roots == [gens : {Nothing, FirstGen, Both}, manifest : {-1, 0, 1}, rootOf : {"none", "new"} \cup GoodRoots,
          initj : {"none", "torn", "journal", "generation", "manifest"}, mtemp : BOOLEAN,
          mig : {"none", "prepared", "ready"}, migStage : {"none", "part", "whole"}, backup : BOOLEAN, migRoot : {"none", "new"},
          imp : {"none", "prepared", "ready", "published"}, impStage : {"none", "part", "whole"},
          impRoot : {"none"} \cup {s.root : s \in Snapshots}, stray : BOOLEAN, java : BOOLEAN,
          resync : BOOLEAN, schema : {1, 2}]
RootJobs == [name : {"none", "init", "migrate", "resume", "rollback", "import"}, at : 0..10, snap : Snapshots \cup {NoSnapshot}]

\* The kinds of a directory that no one holds the lock of.
NoInit(r) == r.initj = "none" /\ ~r.mtemp
NoMigration(r) == r.mig = "none" /\ r.migStage = "none" /\ r.migRoot = "none" /\ ~r.backup
NoImport(r) == r.imp = "none" /\ r.impStage = "none" /\ r.impRoot = "none"
Holds(r, g, m) == r.gens = g /\ r.manifest = m

Blank(r) == Holds(r, Nothing, -1) /\ r.rootOf = "none" /\ r.schema = 1 /\ NoInit(r) /\ NoMigration(r) /\ NoImport(r)
Initializing(r) ==
    /\ r.rootOf = "none" /\ r.schema = 1 /\ NoMigration(r) /\ NoImport(r) /\ ~r.stray /\ ~r.java
    /\ \/ r.initj = "torn" /\ ~r.mtemp /\ (Holds(r, Nothing, -1) \/ Holds(r, FirstGen, -1) \/ Holds(r, FirstGen, 0))
       \/ r.initj = "journal" /\ ~r.mtemp /\ (Holds(r, Nothing, -1) \/ Holds(r, FirstGen, -1))
       \/ r.initj = "generation" /\ (Holds(r, FirstGen, -1) \/ (Holds(r, FirstGen, 0) /\ ~r.mtemp))
       \/ r.initj = "manifest" /\ ~r.mtemp /\ Holds(r, FirstGen, 0)
Importing(r) ==
    /\ r.schema = 1 /\ NoInit(r) /\ NoMigration(r) /\ ~r.java
    /\ \/ r.imp = "prepared" /\ Holds(r, Nothing, -1) /\ r.rootOf = "none"
       \/ r.imp = "ready" /\ Holds(r, Nothing, -1) /\ r.rootOf = "none" /\ r.impStage = "whole" /\ r.impRoot \in GoodRoots
       \/ r.imp \in {"ready", "published"} /\ Holds(r, FirstGen, -1) /\ r.rootOf = "none" /\ r.impStage = "none" /\ r.impRoot \in GoodRoots
       \/ r.imp = "published" /\ Holds(r, FirstGen, 0) /\ r.rootOf = r.impRoot /\ r.impStage = "none" /\ r.impRoot \in GoodRoots
\* What may be left beside a manifest: nothing, or the journal of the initialization or of
\* the import that wrote it.
Beside(r) ==
    \/ NoInit(r) /\ NoImport(r)
    \/ r.initj \in {"torn", "generation", "manifest"} /\ ~r.mtemp /\ NoImport(r)
    \/ NoInit(r) /\ r.imp = "published" /\ r.impStage = "none" /\ r.impRoot \in GoodRoots
Unmigrated(r) ==
    /\ r.schema = 1 /\ r.manifest = 0 /\ r.rootOf \in {"none"} \cup GoodRoots /\ Beside(r) /\ ~r.java
    /\ r.initj # "none" => r.rootOf = "none"
Live(r) == Unmigrated(r) /\ r.gens = FirstGen /\ NoMigration(r)
Migrating(r) ==
    /\ Unmigrated(r)
    /\ \/ r.mig = "prepared" /\ r.gens = FirstGen /\ r.migRoot = "none" /\ ~r.backup
       \/ r.mig = "ready" /\ r.gens = FirstGen /\ r.migStage = "whole" /\ r.migRoot = "new"
       \/ r.mig = "ready" /\ r.gens = Both /\ r.migStage = "none" /\ r.migRoot = "new"
Migrated(r) ==
    /\ r.schema = 2 /\ Holds(r, Both, 1) /\ r.rootOf = "new" /\ Beside(r) /\ ~r.java /\ r.migStage = "none"
    /\ (r.mig = "ready" /\ r.migRoot = "new") \/ (r.mig = "none" /\ r.migRoot = "none")
Standing(r) == Blank(r) \/ Initializing(r) \/ Importing(r) \/ Live(r) \/ Migrating(r) \/ Migrated(r)

\* What the directory is before each step of the operation that holds the lock.
InitSound(at, r) ==
    \/ at = 1 /\ Blank(r) /\ ~r.stray /\ ~r.java
    \/ /\ Initializing(r)
       /\ \/ at = 2 /\ r.initj = "torn" /\ Holds(r, Nothing, -1)
          \/ at = 3 /\ r.initj # "torn"
          \/ at = 4 /\ r.initj \in {"journal", "generation"} /\ ~r.mtemp /\ Holds(r, FirstGen, -1)
          \/ at = 5 /\ r.initj = "torn" /\ Holds(r, FirstGen, -1)
          \/ at = 6 /\ r.initj = "generation" /\ ~r.mtemp /\ Holds(r, FirstGen, -1)
          \/ at = 7 /\ r.initj = "generation" /\ r.mtemp
          \/ at = 8 /\ r.initj \in {"generation", "manifest"} /\ Holds(r, FirstGen, 0)
          \/ at = 9 /\ r.initj = "torn" /\ Holds(r, FirstGen, 0)
          \/ at = 10 /\ r.initj = "manifest"
MigrateSound(at, r) ==
    \/ at = 0 /\ Live(r)
    \/ /\ Migrating(r)
       /\ \/ at = 1 /\ r.mig = "prepared" /\ r.migStage = "none"
          \/ at = 2 /\ r.mig = "prepared" /\ r.migStage = "part"
          \/ at = 3 /\ r.mig = "prepared" /\ r.migStage = "whole"
          \/ at \in {4, 5} /\ r.mig = "ready" /\ r.gens = FirstGen
          \/ at = 6 /\ r.mig = "ready" /\ r.gens = Both
    \/ at = 7 /\ Migrated(r) /\ r.mig = "ready"
    \/ at = 8 /\ Migrated(r) /\ r.mig = "none"
RollbackSound(at, r) ==
    \/ at = 1 /\ Migrating(r) /\ r.mig = "prepared"
    \/ at = 7 /\ Migrating(r) /\ r.mig = "prepared" /\ r.migStage = "none"
    \/ at = 8 /\ Live(r)
ImportSound(at, r, s) ==
    /\ s \in Snapshots /\ Importable(s) /\ ~r.java
    /\ \/ at = 1 /\ Blank(r) /\ r.stray
       \/ /\ Importing(r) /\ r.impRoot = s.root
          /\ \/ at = 2 /\ r.imp = "prepared"
             \/ at = 3 /\ r.imp = "prepared" /\ r.impStage = "part"
             \/ at = 4 /\ r.imp = "prepared" /\ r.impStage = "whole"
             \/ at = 5 /\ r.imp = "ready" /\ r.gens = Nothing
             \/ at = 6 /\ r.imp = "ready" /\ r.gens = FirstGen
             \/ at = 7 /\ r.imp = "published" /\ r.manifest = -1
             \/ at = 8 /\ r.imp = "published" /\ r.manifest = 0

\* The inductive invariant of the directory of a store.
FormatInv ==
    /\ root \in Roots /\ rootJob \in RootJobs /\ jobs \in 0..MaxRootOps
    /\ root.mig # "none" \/ root.manifest = 1 \/ rootJob.name = "migrate" => MaxRootOps > 0
    /\ rootJob.name = "none" => rootJob = NoJob
    /\ rootJob.name = "none" => Standing(root)
    /\ rootJob.name = "init" => InitSound(rootJob.at, root)
    /\ rootJob.name \in {"migrate", "resume"} => MigrateSound(rootJob.at, root)
    /\ rootJob.name = "rollback" => RollbackSound(rootJob.at, root)
    /\ rootJob.name = "import" => ImportSound(rootJob.at, root, rootJob.snap)

\* The parts of the directory a step leaves alone.
SameData == root'.gens = root.gens /\ root'.manifest = root.manifest /\ root'.rootOf = root.rootOf /\ root'.schema = root.schema
SameInit == root'.initj = root.initj /\ root'.mtemp = root.mtemp
SameMigration == root'.mig = root.mig /\ root'.migStage = root.migStage /\ root'.migRoot = root.migRoot /\ root'.backup = root.backup
SameImport == root'.imp = root.imp /\ root'.impStage = root.impStage /\ root'.impRoot = root.impRoot
SameMarks == root'.stray = root.stray /\ root'.java = root.java

LEMMA FormatBounds == MaxRootOps \in Nat
    BY FormatAssumption

\* The three sets of generations a directory holds.
LEMMA GenerationSets ==
    /\ Nothing # FirstGen /\ FirstGen # Both /\ Nothing # Both
    /\ Nothing \cup {0} = FirstGen /\ FirstGen \cup {0} = FirstGen /\ FirstGen \cup {1} = Both /\ Both \cup {1} = Both
    /\ FirstGen \ {1} = FirstGen /\ 0 \notin Nothing /\ 0 \in FirstGen /\ 0 \in Both /\ 1 \notin FirstGen /\ 1 \notin Nothing /\ 1 \in Both
    /\ Nothing = {} /\ FirstGen = {0}
<1>1. 0 \notin Nothing /\ 0 \in FirstGen /\ 0 \in Both /\ 1 \notin FirstGen /\ 1 \notin Nothing /\ 1 \in Both
    BY DEF Nothing, FirstGen, Both
<1>2. Nothing # FirstGen /\ FirstGen # Both /\ Nothing # Both
    BY <1>1
<1> QED
    BY <1>1, <1>2 DEF Nothing, FirstGen, Both

LEMMA FormatInvInit == FormatInit => FormatInv
<1> SUFFICES ASSUME FormatInit PROVE FormatInv
    OBVIOUS
<1>1. NoJob \in RootJobs /\ NoJob.name = "none"
    BY DEF RootJobs, NoJob
<1>2. rootJob = NoJob /\ jobs \in 0..MaxRootOps
    BY FormatBounds DEF FormatInit
<1>3. /\ root \in Roots /\ root.rootOf = "none" /\ root.schema = 1 /\ root.initj = "none" /\ ~root.mtemp
      /\ root.mig = "none" /\ root.migStage = "none" /\ root.migRoot = "none" /\ ~root.backup
      /\ root.imp = "none" /\ root.impStage = "none" /\ root.impRoot = "none" /\ ~root.stray
      /\ \/ root.gens = Nothing /\ root.manifest = -1
         \/ root.gens = FirstGen /\ root.manifest = 0 /\ ~root.java
  <2>1. EmptyRoot \in Roots
    BY GenerationSets DEF EmptyRoot, Roots
  <2>2. CASE root = EmptyRoot
    BY <2>1, <2>2, GenerationSets DEF EmptyRoot
  <2>3. CASE root = [EmptyRoot EXCEPT !.java = TRUE]
    BY <2>1, <2>3, GenerationSets DEF EmptyRoot, Roots
  <2>4. CASE root = [EmptyRoot EXCEPT !.gens = {0}, !.manifest = 0]
    BY <2>1, <2>4, GenerationSets DEF EmptyRoot, Roots
  <2> QED
    BY <2>2, <2>3, <2>4 DEF FormatInit
<1>4. Standing(root)
    BY <1>3 DEF Standing, Blank, Live, Holds, NoInit, NoMigration, NoImport, Unmigrated, Beside
<1> QED
    BY <1>1, <1>2, <1>3, <1>4 DEF FormatInv


LEMMA InitJournalKeeps == FormatInv /\ InitJournal => FormatInv'
<1> SUFFICES ASSUME FormatInv, InitJournal PROVE FormatInv'
    OBVIOUS
<1>1. CASE At("init", 1) /\ GoTo(2) /\ Same /\ root' = [root EXCEPT !.initj = "torn"]
  <2>1. rootJob.name = "init" /\ rootJob.at = 1 /\ InitSound(1, root) /\ root \in Roots
    BY <1>1 DEF FormatInv, At
  <2>2. root' \in Roots /\ SameData /\ root'.initj = "torn" /\ root'.mtemp = root.mtemp /\ SameMigration /\ SameImport
         /\ SameMarks
    BY <1>1, <2>1 DEF SameData, SameMigration, SameImport, SameMarks, Roots
  <2>3. rootJob' \in RootJobs /\ rootJob'.name = "init" /\ rootJob'.at = 2 /\ rootJob'.snap = rootJob.snap /\ jobs' = jobs
    BY <1>1, <2>1 DEF FormatInv, RootJobs, GoTo, Same
  <2>4. InitSound(2, root')
    BY <2>1, <2>2, GenerationSets DEF SameData, SameMigration, SameImport, SameMarks, InitSound, Initializing, Blank, Holds, NoInit, NoMigration, NoImport
  <2>5. root'.mig # "none" \/ root'.manifest = 1 => MaxRootOps > 0
    BY <2>1, <2>2, GenerationSets DEF FormatInv, SameData, SameMigration, SameImport, SameMarks, InitSound, Initializing, Blank, Holds, NoInit, NoMigration, NoImport
  <2> QED
    BY <2>1, <2>2, <2>3, <2>4, <2>5 DEF FormatInv
<1>2. CASE At("init", 2) /\ GoTo(3) /\ Same /\ root' = [root EXCEPT !.initj = "journal"]
  <2>1. rootJob.name = "init" /\ rootJob.at = 2 /\ InitSound(2, root) /\ root \in Roots
    BY <1>2 DEF FormatInv, At
  <2>2. root' \in Roots /\ SameData /\ root'.initj = "journal" /\ root'.mtemp = root.mtemp /\ SameMigration
         /\ SameImport /\ SameMarks
    BY <1>2, <2>1 DEF SameData, SameMigration, SameImport, SameMarks, Roots
  <2>3. rootJob' \in RootJobs /\ rootJob'.name = "init" /\ rootJob'.at = 3 /\ rootJob'.snap = rootJob.snap /\ jobs' = jobs
    BY <1>2, <2>1 DEF FormatInv, RootJobs, GoTo, Same
  <2>4. InitSound(3, root')
    BY <2>1, <2>2, GenerationSets DEF SameData, SameMigration, SameImport, SameMarks, InitSound, Initializing, Blank, Holds, NoInit, NoMigration, NoImport
  <2>5. root'.mig # "none" \/ root'.manifest = 1 => MaxRootOps > 0
    BY <2>1, <2>2, GenerationSets DEF FormatInv, SameData, SameMigration, SameImport, SameMarks, InitSound, Initializing, Blank, Holds, NoInit, NoMigration, NoImport
  <2> QED
    BY <2>1, <2>2, <2>3, <2>4, <2>5 DEF FormatInv
<1>3. CASE At("init", 4) /\ GoTo(5) /\ Same /\ root' = [root EXCEPT !.initj = "torn"]
  <2>1. rootJob.name = "init" /\ rootJob.at = 4 /\ InitSound(4, root) /\ root \in Roots
    BY <1>3 DEF FormatInv, At
  <2>2. root' \in Roots /\ SameData /\ root'.initj = "torn" /\ root'.mtemp = root.mtemp /\ SameMigration /\ SameImport
         /\ SameMarks
    BY <1>3, <2>1 DEF SameData, SameMigration, SameImport, SameMarks, Roots
  <2>3. rootJob' \in RootJobs /\ rootJob'.name = "init" /\ rootJob'.at = 5 /\ rootJob'.snap = rootJob.snap /\ jobs' = jobs
    BY <1>3, <2>1 DEF FormatInv, RootJobs, GoTo, Same
  <2>4. InitSound(5, root')
    BY <2>1, <2>2, GenerationSets DEF SameData, SameMigration, SameImport, SameMarks, InitSound, Initializing, Blank, Holds, NoInit, NoMigration, NoImport
  <2>5. root'.mig # "none" \/ root'.manifest = 1 => MaxRootOps > 0
    BY <2>1, <2>2, GenerationSets DEF FormatInv, SameData, SameMigration, SameImport, SameMarks, InitSound, Initializing, Blank, Holds, NoInit, NoMigration, NoImport
  <2> QED
    BY <2>1, <2>2, <2>3, <2>4, <2>5 DEF FormatInv
<1>4. CASE At("init", 5) /\ GoTo(6) /\ Same /\ root' = [root EXCEPT !.initj = "generation"]
  <2>1. rootJob.name = "init" /\ rootJob.at = 5 /\ InitSound(5, root) /\ root \in Roots
    BY <1>4 DEF FormatInv, At
  <2>2. root' \in Roots /\ SameData /\ root'.initj = "generation" /\ root'.mtemp = root.mtemp /\ SameMigration
         /\ SameImport /\ SameMarks
    BY <1>4, <2>1 DEF SameData, SameMigration, SameImport, SameMarks, Roots
  <2>3. rootJob' \in RootJobs /\ rootJob'.name = "init" /\ rootJob'.at = 6 /\ rootJob'.snap = rootJob.snap /\ jobs' = jobs
    BY <1>4, <2>1 DEF FormatInv, RootJobs, GoTo, Same
  <2>4. InitSound(6, root')
    BY <2>1, <2>2, GenerationSets DEF SameData, SameMigration, SameImport, SameMarks, InitSound, Initializing, Blank, Holds, NoInit, NoMigration, NoImport
  <2>5. root'.mig # "none" \/ root'.manifest = 1 => MaxRootOps > 0
    BY <2>1, <2>2, GenerationSets DEF FormatInv, SameData, SameMigration, SameImport, SameMarks, InitSound, Initializing, Blank, Holds, NoInit, NoMigration, NoImport
  <2> QED
    BY <2>1, <2>2, <2>3, <2>4, <2>5 DEF FormatInv
<1>5. CASE At("init", 8) /\ GoTo(9) /\ Same /\ root' = [root EXCEPT !.initj = "torn"]
  <2>1. rootJob.name = "init" /\ rootJob.at = 8 /\ InitSound(8, root) /\ root \in Roots
    BY <1>5 DEF FormatInv, At
  <2>2. root' \in Roots /\ SameData /\ root'.initj = "torn" /\ root'.mtemp = root.mtemp /\ SameMigration /\ SameImport
         /\ SameMarks
    BY <1>5, <2>1 DEF SameData, SameMigration, SameImport, SameMarks, Roots
  <2>3. rootJob' \in RootJobs /\ rootJob'.name = "init" /\ rootJob'.at = 9 /\ rootJob'.snap = rootJob.snap /\ jobs' = jobs
    BY <1>5, <2>1 DEF FormatInv, RootJobs, GoTo, Same
  <2>4. InitSound(9, root')
    BY <2>1, <2>2, GenerationSets DEF SameData, SameMigration, SameImport, SameMarks, InitSound, Initializing, Blank, Holds, NoInit, NoMigration, NoImport
  <2>5. root'.mig # "none" \/ root'.manifest = 1 => MaxRootOps > 0
    BY <2>1, <2>2, GenerationSets DEF FormatInv, SameData, SameMigration, SameImport, SameMarks, InitSound, Initializing, Blank, Holds, NoInit, NoMigration, NoImport
  <2> QED
    BY <2>1, <2>2, <2>3, <2>4, <2>5 DEF FormatInv
<1>6. CASE At("init", 9) /\ GoTo(10) /\ Same /\ root' = [root EXCEPT !.initj = "manifest"]
  <2>1. rootJob.name = "init" /\ rootJob.at = 9 /\ InitSound(9, root) /\ root \in Roots
    BY <1>6 DEF FormatInv, At
  <2>2. root' \in Roots /\ SameData /\ root'.initj = "manifest" /\ root'.mtemp = root.mtemp /\ SameMigration
         /\ SameImport /\ SameMarks
    BY <1>6, <2>1 DEF SameData, SameMigration, SameImport, SameMarks, Roots
  <2>3. rootJob' \in RootJobs /\ rootJob'.name = "init" /\ rootJob'.at = 10 /\ rootJob'.snap = rootJob.snap /\ jobs' = jobs
    BY <1>6, <2>1 DEF FormatInv, RootJobs, GoTo, Same
  <2>4. InitSound(10, root')
    BY <2>1, <2>2, GenerationSets DEF SameData, SameMigration, SameImport, SameMarks, InitSound, Initializing, Blank, Holds, NoInit, NoMigration, NoImport
  <2>5. root'.mig # "none" \/ root'.manifest = 1 => MaxRootOps > 0
    BY <2>1, <2>2, GenerationSets DEF FormatInv, SameData, SameMigration, SameImport, SameMarks, InitSound, Initializing, Blank, Holds, NoInit, NoMigration, NoImport
  <2> QED
    BY <2>1, <2>2, <2>3, <2>4, <2>5 DEF FormatInv
<1> QED
    BY <1>1, <1>2, <1>3, <1>4, <1>5, <1>6 DEF InitJournal


LEMMA InitManifestKeeps == FormatInv /\ InitManifest => FormatInv'
<1> SUFFICES ASSUME FormatInv, InitManifest PROVE FormatInv'
    OBVIOUS
<1>1. CASE At("init", 6) /\ GoTo(7) /\ Same /\ root' = [root EXCEPT !.mtemp = TRUE]
  <2>1. rootJob.name = "init" /\ rootJob.at = 6 /\ InitSound(6, root) /\ root \in Roots
    BY <1>1 DEF FormatInv, At
  <2>2. root' \in Roots /\ SameData /\ root'.initj = root.initj /\ root'.mtemp = TRUE /\ SameMigration /\ SameImport
         /\ SameMarks
    BY <1>1, <2>1 DEF SameData, SameMigration, SameImport, SameMarks, Roots
  <2>3. rootJob' \in RootJobs /\ rootJob'.name = "init" /\ rootJob'.at = 7 /\ rootJob'.snap = rootJob.snap /\ jobs' = jobs
    BY <1>1, <2>1 DEF FormatInv, RootJobs, GoTo, Same
  <2>4. InitSound(7, root')
    BY <2>1, <2>2, GenerationSets DEF SameData, SameMigration, SameImport, SameMarks, InitSound, Initializing, Blank, Holds, NoInit, NoMigration, NoImport
  <2>5. root'.mig # "none" \/ root'.manifest = 1 => MaxRootOps > 0
    BY <2>1, <2>2, GenerationSets DEF FormatInv, SameData, SameMigration, SameImport, SameMarks, InitSound, Initializing, Blank, Holds, NoInit, NoMigration, NoImport
  <2> QED
    BY <2>1, <2>2, <2>3, <2>4, <2>5 DEF FormatInv
<1>2. CASE At("init", 7) /\ GoTo(8) /\ Same /\ root' = [root EXCEPT !.mtemp = FALSE, !.manifest = 0]
  <2>1. rootJob.name = "init" /\ rootJob.at = 7 /\ InitSound(7, root) /\ root \in Roots
    BY <1>2 DEF FormatInv, At
  <2>2. root' \in Roots /\ root'.gens = root.gens /\ root'.manifest = 0 /\ root'.rootOf = root.rootOf
         /\ root'.schema = root.schema /\ root'.initj = root.initj /\ root'.mtemp = FALSE /\ SameMigration
         /\ SameImport /\ SameMarks
    BY <1>2, <2>1 DEF SameMigration, SameImport, SameMarks, Roots
  <2>3. rootJob' \in RootJobs /\ rootJob'.name = "init" /\ rootJob'.at = 8 /\ rootJob'.snap = rootJob.snap /\ jobs' = jobs
    BY <1>2, <2>1 DEF FormatInv, RootJobs, GoTo, Same
  <2>4. InitSound(8, root')
    BY <2>1, <2>2, GenerationSets DEF SameMigration, SameImport, SameMarks, InitSound, Initializing, Blank, Holds, NoInit, NoMigration, NoImport
  <2>5. root'.mig # "none" \/ root'.manifest = 1 => MaxRootOps > 0
    BY <2>1, <2>2, GenerationSets DEF FormatInv, SameMigration, SameImport, SameMarks, InitSound, Initializing, Blank, Holds, NoInit, NoMigration, NoImport
  <2> QED
    BY <2>1, <2>2, <2>3, <2>4, <2>5 DEF FormatInv
<1> QED
    BY <1>1, <1>2 DEF InitManifest


LEMMA MigrationDataKeeps == FormatInv /\ MigrationData => FormatInv'
<1> SUFFICES ASSUME FormatInv, MigrationData PROVE FormatInv'
    OBVIOUS
<1>1. CASE At("migrate", 0) /\ GoTo(1) /\ Same /\ root' = [root EXCEPT !.mig = "prepared", !.migRoot = "none"]
  <2>1. rootJob.name = "migrate" /\ rootJob.at = 0 /\ MigrateSound(0, root) /\ root \in Roots
    BY <1>1 DEF FormatInv, At
  <2>2. root' \in Roots /\ SameData /\ SameInit /\ root'.mig = "prepared" /\ root'.migStage = root.migStage
         /\ root'.migRoot = "none" /\ root'.backup = root.backup /\ SameImport /\ SameMarks
    BY <1>1, <2>1 DEF SameData, SameInit, SameImport, SameMarks, Roots
  <2>3. rootJob' \in RootJobs /\ rootJob'.name = "migrate" /\ rootJob'.at = 1 /\ rootJob'.snap = rootJob.snap /\ jobs' = jobs
    BY <1>1, <2>1 DEF FormatInv, RootJobs, GoTo, Same
  <2>4. MigrateSound(1, root')
    BY <2>1, <2>2, GenerationSets DEF SameData, SameInit, SameImport, SameMarks, MigrateSound, Migrating, Migrated, Unmigrated, Beside, Live, Holds, NoInit, NoMigration, NoImport
  <2>5. MaxRootOps > 0
    BY <2>1 DEF FormatInv
  <2> QED
    BY <2>1, <2>2, <2>3, <2>4, <2>5 DEF FormatInv
<1>2. CASE At("migrate", 1) /\ GoTo(2) /\ Same /\ root' = [root EXCEPT !.migStage = "part"]
  <2>1. rootJob.name = "migrate" /\ rootJob.at = 1 /\ MigrateSound(1, root) /\ root \in Roots
    BY <1>2 DEF FormatInv, At
  <2>2. root' \in Roots /\ SameData /\ SameInit /\ root'.mig = root.mig /\ root'.migStage = "part"
         /\ root'.migRoot = root.migRoot /\ root'.backup = root.backup /\ SameImport /\ SameMarks
    BY <1>2, <2>1 DEF SameData, SameInit, SameImport, SameMarks, Roots
  <2>3. rootJob' \in RootJobs /\ rootJob'.name = "migrate" /\ rootJob'.at = 2 /\ rootJob'.snap = rootJob.snap /\ jobs' = jobs
    BY <1>2, <2>1 DEF FormatInv, RootJobs, GoTo, Same
  <2>4. MigrateSound(2, root')
    BY <2>1, <2>2, GenerationSets DEF SameData, SameInit, SameImport, SameMarks, MigrateSound, Migrating, Migrated, Unmigrated, Beside, Live, Holds, NoInit, NoMigration, NoImport
  <2>5. root'.mig # "none" \/ root'.manifest = 1 => MaxRootOps > 0
    BY <2>1, <2>2, GenerationSets DEF FormatInv, SameData, SameInit, SameImport, SameMarks, MigrateSound, Migrating, Migrated, Unmigrated, Beside, Live, Holds, NoInit, NoMigration, NoImport
  <2> QED
    BY <2>1, <2>2, <2>3, <2>4, <2>5 DEF FormatInv
<1>3. CASE At("migrate", 2) /\ GoTo(3) /\ Same /\ root' = [root EXCEPT !.migStage = "whole"]
  <2>1. rootJob.name = "migrate" /\ rootJob.at = 2 /\ MigrateSound(2, root) /\ root \in Roots
    BY <1>3 DEF FormatInv, At
  <2>2. root' \in Roots /\ SameData /\ SameInit /\ root'.mig = root.mig /\ root'.migStage = "whole"
         /\ root'.migRoot = root.migRoot /\ root'.backup = root.backup /\ SameImport /\ SameMarks
    BY <1>3, <2>1 DEF SameData, SameInit, SameImport, SameMarks, Roots
  <2>3. rootJob' \in RootJobs /\ rootJob'.name = "migrate" /\ rootJob'.at = 3 /\ rootJob'.snap = rootJob.snap /\ jobs' = jobs
    BY <1>3, <2>1 DEF FormatInv, RootJobs, GoTo, Same
  <2>4. MigrateSound(3, root')
    BY <2>1, <2>2, GenerationSets DEF SameData, SameInit, SameImport, SameMarks, MigrateSound, Migrating, Migrated, Unmigrated, Beside, Live, Holds, NoInit, NoMigration, NoImport
  <2>5. root'.mig # "none" \/ root'.manifest = 1 => MaxRootOps > 0
    BY <2>1, <2>2, GenerationSets DEF FormatInv, SameData, SameInit, SameImport, SameMarks, MigrateSound, Migrating, Migrated, Unmigrated, Beside, Live, Holds, NoInit, NoMigration, NoImport
  <2> QED
    BY <2>1, <2>2, <2>3, <2>4, <2>5 DEF FormatInv
<1>4. CASE At("migrate", 3) /\ GoTo(4) /\ Same /\ root' = [root EXCEPT !.mig = "ready", !.migRoot = "new"]
  <2>1. rootJob.name = "migrate" /\ rootJob.at = 3 /\ MigrateSound(3, root) /\ root \in Roots
    BY <1>4 DEF FormatInv, At
  <2>2. root' \in Roots /\ SameData /\ SameInit /\ root'.mig = "ready" /\ root'.migStage = root.migStage
         /\ root'.migRoot = "new" /\ root'.backup = root.backup /\ SameImport /\ SameMarks
    BY <1>4, <2>1 DEF SameData, SameInit, SameImport, SameMarks, Roots
  <2>3. rootJob' \in RootJobs /\ rootJob'.name = "migrate" /\ rootJob'.at = 4 /\ rootJob'.snap = rootJob.snap /\ jobs' = jobs
    BY <1>4, <2>1 DEF FormatInv, RootJobs, GoTo, Same
  <2>4. MigrateSound(4, root')
    BY <2>1, <2>2, GenerationSets DEF SameData, SameInit, SameImport, SameMarks, MigrateSound, Migrating, Migrated, Unmigrated, Beside, Live, Holds, NoInit, NoMigration, NoImport
  <2>5. root'.mig # "none" \/ root'.manifest = 1 => MaxRootOps > 0
    BY <2>1, <2>2, GenerationSets DEF FormatInv, SameData, SameInit, SameImport, SameMarks, MigrateSound, Migrating, Migrated, Unmigrated, Beside, Live, Holds, NoInit, NoMigration, NoImport
  <2> QED
    BY <2>1, <2>2, <2>3, <2>4, <2>5 DEF FormatInv
<1>5. CASE At("migrate", 4) /\ GoTo(5) /\ Same /\ root' = [root EXCEPT !.backup = TRUE]
  <2>1. rootJob.name = "migrate" /\ rootJob.at = 4 /\ MigrateSound(4, root) /\ root \in Roots
    BY <1>5 DEF FormatInv, At
  <2>2. root' \in Roots /\ SameData /\ SameInit /\ root'.mig = root.mig /\ root'.migStage = root.migStage
         /\ root'.migRoot = root.migRoot /\ root'.backup = TRUE /\ SameImport /\ SameMarks
    BY <1>5, <2>1 DEF SameData, SameInit, SameImport, SameMarks, Roots
  <2>3. rootJob' \in RootJobs /\ rootJob'.name = "migrate" /\ rootJob'.at = 5 /\ rootJob'.snap = rootJob.snap /\ jobs' = jobs
    BY <1>5, <2>1 DEF FormatInv, RootJobs, GoTo, Same
  <2>4. MigrateSound(5, root')
    BY <2>1, <2>2, GenerationSets DEF SameData, SameInit, SameImport, SameMarks, MigrateSound, Migrating, Migrated, Unmigrated, Beside, Live, Holds, NoInit, NoMigration, NoImport
  <2>5. root'.mig # "none" \/ root'.manifest = 1 => MaxRootOps > 0
    BY <2>1, <2>2, GenerationSets DEF FormatInv, SameData, SameInit, SameImport, SameMarks, MigrateSound, Migrating, Migrated, Unmigrated, Beside, Live, Holds, NoInit, NoMigration, NoImport
  <2> QED
    BY <2>1, <2>2, <2>3, <2>4, <2>5 DEF FormatInv
<1>6. CASE At("migrate", 5) /\ GoTo(6) /\ Same /\ root' = [root EXCEPT !.migStage = "none", !.gens = @ \cup {root.manifest + 1}]
  <2>1. rootJob.name = "migrate" /\ rootJob.at = 5 /\ MigrateSound(5, root) /\ root \in Roots
    BY <1>6 DEF FormatInv, At
  <2>2. root.gens \cup {root.manifest + 1} = Both
    BY <1>6, <2>1, GenerationSets DEF MigrateSound, Migrating, Migrated, Unmigrated, Beside, Live, Holds, NoInit, NoMigration, NoImport
  <2>3. root' \in Roots /\ root'.gens = Both /\ root'.manifest = root.manifest /\ root'.rootOf = root.rootOf
         /\ root'.schema = root.schema /\ SameInit /\ root'.mig = root.mig /\ root'.migStage = "none"
         /\ root'.migRoot = root.migRoot /\ root'.backup = root.backup /\ SameImport /\ SameMarks
    BY <1>6, <2>1, <2>2 DEF SameInit, SameImport, SameMarks, Roots
  <2>4. rootJob' \in RootJobs /\ rootJob'.name = "migrate" /\ rootJob'.at = 6 /\ rootJob'.snap = rootJob.snap /\ jobs' = jobs
    BY <1>6, <2>1 DEF FormatInv, RootJobs, GoTo, Same
  <2>5. MigrateSound(6, root')
    BY <2>1, <2>2, <2>3, GenerationSets DEF SameInit, SameImport, SameMarks, MigrateSound, Migrating, Migrated, Unmigrated, Beside, Live, Holds, NoInit, NoMigration, NoImport
  <2>6. root'.mig # "none" \/ root'.manifest = 1 => MaxRootOps > 0
    BY <2>1, <2>2, <2>3, GenerationSets DEF FormatInv, SameInit, SameImport, SameMarks, MigrateSound, Migrating, Migrated, Unmigrated, Beside, Live, Holds, NoInit, NoMigration, NoImport
  <2> QED
    BY <2>1, <2>2, <2>3, <2>4, <2>5, <2>6 DEF FormatInv
<1> QED
    BY <1>1, <1>2, <1>3, <1>4, <1>5, <1>6 DEF MigrationData


LEMMA InitGenerationKeeps == FormatInv /\ InitGeneration => FormatInv'
<1> SUFFICES ASSUME FormatInv, InitGeneration PROVE FormatInv'
    OBVIOUS
<1>1. CASE root.manifest = 0 /\ At("init", 3) /\ GoTo(8) /\ Same /\ root' = [root EXCEPT !.mtemp = FALSE, !.gens = root.gens]
  <2>1. rootJob.name = "init" /\ rootJob.at = 3 /\ InitSound(3, root) /\ root \in Roots
    BY <1>1 DEF FormatInv, At
  <2>2. root.manifest = 0
    BY <1>1, <2>1, GenerationSets DEF InitSound, Initializing, Blank, Holds, NoInit, NoMigration, NoImport
  <2>3. root' \in Roots /\ SameData /\ root'.initj = root.initj /\ root'.mtemp = FALSE /\ SameMigration /\ SameImport
         /\ SameMarks
    BY <1>1, <2>1, <2>2 DEF SameData, SameMigration, SameImport, SameMarks, Roots
  <2>4. rootJob' \in RootJobs /\ rootJob'.name = "init" /\ rootJob'.at = 8 /\ rootJob'.snap = rootJob.snap /\ jobs' = jobs
    BY <1>1, <2>1 DEF FormatInv, RootJobs, GoTo, Same
  <2>5. InitSound(8, root')
    BY <2>1, <2>2, <2>3, GenerationSets DEF SameData, SameMigration, SameImport, SameMarks, InitSound, Initializing, Blank, Holds, NoInit, NoMigration, NoImport
  <2>6. root'.mig # "none" \/ root'.manifest = 1 => MaxRootOps > 0
    BY <2>1, <2>2, <2>3, GenerationSets DEF FormatInv, SameData, SameMigration, SameImport, SameMarks, InitSound, Initializing, Blank, Holds, NoInit, NoMigration, NoImport
  <2> QED
    BY <2>1, <2>2, <2>3, <2>4, <2>5, <2>6 DEF FormatInv
<1>2. CASE root.manifest # 0 /\ At("init", 3) /\ GoTo(4) /\ Same /\ root' = [root EXCEPT !.mtemp = FALSE, !.gens = root.gens \cup {0}]
  <2>1. rootJob.name = "init" /\ rootJob.at = 3 /\ InitSound(3, root) /\ root \in Roots
    BY <1>2 DEF FormatInv, At
  <2>2. root.manifest # 0 /\ root.gens \cup {0} = FirstGen
    BY <1>2, <2>1, GenerationSets DEF InitSound, Initializing, Blank, Holds, NoInit, NoMigration, NoImport
  <2>3. root' \in Roots /\ root'.gens = FirstGen /\ root'.manifest = root.manifest /\ root'.rootOf = root.rootOf
         /\ root'.schema = root.schema /\ root'.initj = root.initj /\ root'.mtemp = FALSE /\ SameMigration
         /\ SameImport /\ SameMarks
    BY <1>2, <2>1, <2>2 DEF SameMigration, SameImport, SameMarks, Roots
  <2>4. rootJob' \in RootJobs /\ rootJob'.name = "init" /\ rootJob'.at = 4 /\ rootJob'.snap = rootJob.snap /\ jobs' = jobs
    BY <1>2, <2>1 DEF FormatInv, RootJobs, GoTo, Same
  <2>5. InitSound(4, root')
    BY <2>1, <2>2, <2>3, GenerationSets DEF SameMigration, SameImport, SameMarks, InitSound, Initializing, Blank, Holds, NoInit, NoMigration, NoImport
  <2>6. root'.mig # "none" \/ root'.manifest = 1 => MaxRootOps > 0
    BY <2>1, <2>2, <2>3, GenerationSets DEF FormatInv, SameMigration, SameImport, SameMarks, InitSound, Initializing, Blank, Holds, NoInit, NoMigration, NoImport
  <2> QED
    BY <2>1, <2>2, <2>3, <2>4, <2>5, <2>6 DEF FormatInv
<1> QED
    BY <1>1, <1>2 DEF InitGeneration


LEMMA InitCleanupKeeps == FormatInv /\ InitCleanup => FormatInv'
<1> SUFFICES ASSUME FormatInv, InitCleanup PROVE FormatInv'
    OBVIOUS
<1>1. CASE At("init", 10) /\ FormatDone /\ Same /\ root' = [root EXCEPT !.initj = "none", !.mtemp = FALSE]
  <2>1. rootJob.name = "init" /\ rootJob.at = 10 /\ InitSound(10, root) /\ root \in Roots
    BY <1>1 DEF FormatInv, At
  <2>2. root' \in Roots /\ SameData /\ root'.initj = "none" /\ root'.mtemp = FALSE /\ SameMigration /\ SameImport
         /\ SameMarks
    BY <1>1, <2>1 DEF SameData, SameMigration, SameImport, SameMarks, Roots
  <2>3. rootJob' \in RootJobs /\ rootJob' = NoJob /\ rootJob'.name = "none" /\ jobs' = jobs
    BY <1>1 DEF RootJobs, Same, FormatDone, NoJob
  <2>4. Standing(root')
    BY <2>1, <2>2, GenerationSets DEF SameData, SameMigration, SameImport, SameMarks, InitSound, Initializing, Blank, Holds, NoInit, NoMigration, NoImport, Standing, Live, Unmigrated, Beside
  <2>5. root'.mig # "none" \/ root'.manifest = 1 => MaxRootOps > 0
    BY <2>1, <2>2, GenerationSets DEF FormatInv, SameData, SameMigration, SameImport, SameMarks, InitSound, Initializing, Blank, Holds, NoInit, NoMigration, NoImport
  <2> QED
    BY <2>1, <2>2, <2>3, <2>4, <2>5 DEF FormatInv
<1> QED
    BY <1>1 DEF InitCleanup


LEMMA SwitchManifestKeeps == FormatInv /\ SwitchManifest => FormatInv'
<1> SUFFICES ASSUME FormatInv, SwitchManifest PROVE FormatInv'
    OBVIOUS
<1>1. CASE rootJob.name = "migrate" /\ rootJob.at = 6 /\ GoTo(7) /\ Same /\ root' = [root EXCEPT !.manifest = @ + 1, !.rootOf = root.migRoot, !.schema = 2]
  <2>1. rootJob.name = "migrate" /\ rootJob.at = 6 /\ MigrateSound(6, root) /\ root \in Roots
    BY <1>1 DEF FormatInv, At
  <2>2. root.manifest + 1 = 1 /\ root.migRoot = "new"
    BY <1>1, <2>1, GenerationSets DEF MigrateSound, Migrating, Migrated, Unmigrated, Beside, Live, Holds, NoInit, NoMigration, NoImport
  <2>3. root' \in Roots /\ root'.gens = root.gens /\ root'.manifest = 1 /\ root'.rootOf = "new" /\ root'.schema = 2
         /\ SameInit /\ SameMigration /\ SameImport /\ SameMarks
    BY <1>1, <2>1, <2>2 DEF SameInit, SameMigration, SameImport, SameMarks, Roots
  <2>4. rootJob' \in RootJobs /\ rootJob'.name = "migrate" /\ rootJob'.at = 7 /\ rootJob'.snap = rootJob.snap /\ jobs' = jobs
    BY <1>1, <2>1 DEF FormatInv, RootJobs, GoTo, Same
  <2>5. MigrateSound(7, root')
    BY <2>1, <2>2, <2>3, GenerationSets DEF SameInit, SameMigration, SameImport, SameMarks, MigrateSound, Migrating, Migrated, Unmigrated, Beside, Live, Holds, NoInit, NoMigration, NoImport
  <2>6. root'.mig # "none" \/ root'.manifest = 1 => MaxRootOps > 0
    BY <2>1, <2>2, <2>3, GenerationSets DEF FormatInv, SameInit, SameMigration, SameImport, SameMarks, MigrateSound, Migrating, Migrated, Unmigrated, Beside, Live, Holds, NoInit, NoMigration, NoImport
  <2> QED
    BY <2>1, <2>2, <2>3, <2>4, <2>5, <2>6 DEF FormatInv
<1>2. CASE rootJob.name = "resume" /\ rootJob.at = 6 /\ GoTo(7) /\ Same /\ root' = [root EXCEPT !.manifest = @ + 1, !.rootOf = root.migRoot, !.schema = 2]
  <2>1. rootJob.name = "resume" /\ rootJob.at = 6 /\ MigrateSound(6, root) /\ root \in Roots
    BY <1>2 DEF FormatInv, At
  <2>2. root.manifest + 1 = 1 /\ root.migRoot = "new"
    BY <1>2, <2>1, GenerationSets DEF MigrateSound, Migrating, Migrated, Unmigrated, Beside, Live, Holds, NoInit, NoMigration, NoImport
  <2>3. root' \in Roots /\ root'.gens = root.gens /\ root'.manifest = 1 /\ root'.rootOf = "new" /\ root'.schema = 2
         /\ SameInit /\ SameMigration /\ SameImport /\ SameMarks
    BY <1>2, <2>1, <2>2 DEF SameInit, SameMigration, SameImport, SameMarks, Roots
  <2>4. rootJob' \in RootJobs /\ rootJob'.name = "resume" /\ rootJob'.at = 7 /\ rootJob'.snap = rootJob.snap /\ jobs' = jobs
    BY <1>2, <2>1 DEF FormatInv, RootJobs, GoTo, Same
  <2>5. MigrateSound(7, root')
    BY <2>1, <2>2, <2>3, GenerationSets DEF SameInit, SameMigration, SameImport, SameMarks, MigrateSound, Migrating, Migrated, Unmigrated, Beside, Live, Holds, NoInit, NoMigration, NoImport
  <2>6. root'.mig # "none" \/ root'.manifest = 1 => MaxRootOps > 0
    BY <2>1, <2>2, <2>3, GenerationSets DEF FormatInv, SameInit, SameMigration, SameImport, SameMarks, MigrateSound, Migrating, Migrated, Unmigrated, Beside, Live, Holds, NoInit, NoMigration, NoImport
  <2> QED
    BY <2>1, <2>2, <2>3, <2>4, <2>5, <2>6 DEF FormatInv
<1> QED
    BY <1>1, <1>2 DEF SwitchManifest


LEMMA CleanupMigrationKeeps == FormatInv /\ CleanupMigration => FormatInv'
<1> SUFFICES ASSUME FormatInv, CleanupMigration PROVE FormatInv'
    OBVIOUS
<1>1. CASE rootJob.name = "migrate" /\ rootJob.at = 7 /\ GoTo(8) /\ Same /\ root' = [root EXCEPT !.mig = "none", !.migRoot = "none"]
  <2>1. rootJob.name = "migrate" /\ rootJob.at = 7 /\ MigrateSound(7, root) /\ root \in Roots
    BY <1>1 DEF FormatInv, At
  <2>2. root' \in Roots /\ SameData /\ SameInit /\ root'.mig = "none" /\ root'.migStage = root.migStage
         /\ root'.migRoot = "none" /\ root'.backup = root.backup /\ SameImport /\ SameMarks
    BY <1>1, <2>1 DEF SameData, SameInit, SameImport, SameMarks, Roots
  <2>3. rootJob' \in RootJobs /\ rootJob'.name = "migrate" /\ rootJob'.at = 8 /\ rootJob'.snap = rootJob.snap /\ jobs' = jobs
    BY <1>1, <2>1 DEF FormatInv, RootJobs, GoTo, Same
  <2>4. MigrateSound(8, root')
    BY <2>1, <2>2, GenerationSets DEF SameData, SameInit, SameImport, SameMarks, MigrateSound, Migrating, Migrated, Unmigrated, Beside, Live, Holds, NoInit, NoMigration, NoImport
  <2>5. root'.mig # "none" \/ root'.manifest = 1 => MaxRootOps > 0
    BY <2>1, <2>2, GenerationSets DEF FormatInv, SameData, SameInit, SameImport, SameMarks, MigrateSound, Migrating, Migrated, Unmigrated, Beside, Live, Holds, NoInit, NoMigration, NoImport
  <2> QED
    BY <2>1, <2>2, <2>3, <2>4, <2>5 DEF FormatInv
<1>2. CASE rootJob.name = "resume" /\ rootJob.at = 7 /\ GoTo(8) /\ Same /\ root' = [root EXCEPT !.mig = "none", !.migRoot = "none"]
  <2>1. rootJob.name = "resume" /\ rootJob.at = 7 /\ MigrateSound(7, root) /\ root \in Roots
    BY <1>2 DEF FormatInv, At
  <2>2. root' \in Roots /\ SameData /\ SameInit /\ root'.mig = "none" /\ root'.migStage = root.migStage
         /\ root'.migRoot = "none" /\ root'.backup = root.backup /\ SameImport /\ SameMarks
    BY <1>2, <2>1 DEF SameData, SameInit, SameImport, SameMarks, Roots
  <2>3. rootJob' \in RootJobs /\ rootJob'.name = "resume" /\ rootJob'.at = 8 /\ rootJob'.snap = rootJob.snap /\ jobs' = jobs
    BY <1>2, <2>1 DEF FormatInv, RootJobs, GoTo, Same
  <2>4. MigrateSound(8, root')
    BY <2>1, <2>2, GenerationSets DEF SameData, SameInit, SameImport, SameMarks, MigrateSound, Migrating, Migrated, Unmigrated, Beside, Live, Holds, NoInit, NoMigration, NoImport
  <2>5. root'.mig # "none" \/ root'.manifest = 1 => MaxRootOps > 0
    BY <2>1, <2>2, GenerationSets DEF FormatInv, SameData, SameInit, SameImport, SameMarks, MigrateSound, Migrating, Migrated, Unmigrated, Beside, Live, Holds, NoInit, NoMigration, NoImport
  <2> QED
    BY <2>1, <2>2, <2>3, <2>4, <2>5 DEF FormatInv
<1>3. CASE rootJob.name = "rollback" /\ rootJob.at = 7 /\ GoTo(8) /\ Same /\ root' = [root EXCEPT !.mig = "none", !.migRoot = "none"]
  <2>1. rootJob.name = "rollback" /\ rootJob.at = 7 /\ RollbackSound(7, root) /\ root \in Roots
    BY <1>3 DEF FormatInv, At
  <2>2. root' \in Roots /\ SameData /\ SameInit /\ root'.mig = "none" /\ root'.migStage = root.migStage
         /\ root'.migRoot = "none" /\ root'.backup = root.backup /\ SameImport /\ SameMarks
    BY <1>3, <2>1 DEF SameData, SameInit, SameImport, SameMarks, Roots
  <2>3. rootJob' \in RootJobs /\ rootJob'.name = "rollback" /\ rootJob'.at = 8 /\ rootJob'.snap = rootJob.snap /\ jobs' = jobs
    BY <1>3, <2>1 DEF FormatInv, RootJobs, GoTo, Same
  <2>4. RollbackSound(8, root')
    BY <2>1, <2>2, GenerationSets DEF SameData, SameInit, SameImport, SameMarks, RollbackSound, Migrating, Live, Unmigrated, Beside, NoInit, NoMigration, NoImport
  <2>5. root'.mig # "none" \/ root'.manifest = 1 => MaxRootOps > 0
    BY <2>1, <2>2, GenerationSets DEF FormatInv, SameData, SameInit, SameImport, SameMarks, RollbackSound, Migrating, Live, Unmigrated, Beside, NoInit, NoMigration, NoImport
  <2> QED
    BY <2>1, <2>2, <2>3, <2>4, <2>5 DEF FormatInv
<1>4. CASE rootJob.name = "migrate" /\ rootJob.at = 8 /\ FormatDone /\ Same /\ root' = [root EXCEPT !.backup = FALSE]
  <2>1. rootJob.name = "migrate" /\ rootJob.at = 8 /\ MigrateSound(8, root) /\ root \in Roots
    BY <1>4 DEF FormatInv, At
  <2>2. root' \in Roots /\ SameData /\ SameInit /\ root'.mig = root.mig /\ root'.migStage = root.migStage
         /\ root'.migRoot = root.migRoot /\ root'.backup = FALSE /\ SameImport /\ SameMarks
    BY <1>4, <2>1 DEF SameData, SameInit, SameImport, SameMarks, Roots
  <2>3. rootJob' \in RootJobs /\ rootJob' = NoJob /\ rootJob'.name = "none" /\ jobs' = jobs
    BY <1>4 DEF RootJobs, Same, FormatDone, NoJob
  <2>4. Standing(root')
    BY <2>1, <2>2, GenerationSets DEF SameData, SameInit, SameImport, SameMarks, MigrateSound, Migrating, Migrated, Unmigrated, Beside, Live, Holds, NoInit, NoMigration, NoImport, Standing
  <2>5. root'.mig # "none" \/ root'.manifest = 1 => MaxRootOps > 0
    BY <2>1, <2>2, GenerationSets DEF FormatInv, SameData, SameInit, SameImport, SameMarks, MigrateSound, Migrating, Migrated, Unmigrated, Beside, Live, Holds, NoInit, NoMigration, NoImport
  <2> QED
    BY <2>1, <2>2, <2>3, <2>4, <2>5 DEF FormatInv
<1>5. CASE rootJob.name = "resume" /\ rootJob.at = 8 /\ FormatDone /\ Same /\ root' = [root EXCEPT !.backup = FALSE]
  <2>1. rootJob.name = "resume" /\ rootJob.at = 8 /\ MigrateSound(8, root) /\ root \in Roots
    BY <1>5 DEF FormatInv, At
  <2>2. root' \in Roots /\ SameData /\ SameInit /\ root'.mig = root.mig /\ root'.migStage = root.migStage
         /\ root'.migRoot = root.migRoot /\ root'.backup = FALSE /\ SameImport /\ SameMarks
    BY <1>5, <2>1 DEF SameData, SameInit, SameImport, SameMarks, Roots
  <2>3. rootJob' \in RootJobs /\ rootJob' = NoJob /\ rootJob'.name = "none" /\ jobs' = jobs
    BY <1>5 DEF RootJobs, Same, FormatDone, NoJob
  <2>4. Standing(root')
    BY <2>1, <2>2, GenerationSets DEF SameData, SameInit, SameImport, SameMarks, MigrateSound, Migrating, Migrated, Unmigrated, Beside, Live, Holds, NoInit, NoMigration, NoImport, Standing
  <2>5. root'.mig # "none" \/ root'.manifest = 1 => MaxRootOps > 0
    BY <2>1, <2>2, GenerationSets DEF FormatInv, SameData, SameInit, SameImport, SameMarks, MigrateSound, Migrating, Migrated, Unmigrated, Beside, Live, Holds, NoInit, NoMigration, NoImport
  <2> QED
    BY <2>1, <2>2, <2>3, <2>4, <2>5 DEF FormatInv
<1>6. CASE rootJob.name = "rollback" /\ rootJob.at = 8 /\ FormatDone /\ Same /\ root' = [root EXCEPT !.backup = FALSE]
  <2>1. rootJob.name = "rollback" /\ rootJob.at = 8 /\ RollbackSound(8, root) /\ root \in Roots
    BY <1>6 DEF FormatInv, At
  <2>2. root' \in Roots /\ SameData /\ SameInit /\ root'.mig = root.mig /\ root'.migStage = root.migStage
         /\ root'.migRoot = root.migRoot /\ root'.backup = FALSE /\ SameImport /\ SameMarks
    BY <1>6, <2>1 DEF SameData, SameInit, SameImport, SameMarks, Roots
  <2>3. rootJob' \in RootJobs /\ rootJob' = NoJob /\ rootJob'.name = "none" /\ jobs' = jobs
    BY <1>6 DEF RootJobs, Same, FormatDone, NoJob
  <2>4. Standing(root')
    BY <2>1, <2>2, GenerationSets DEF SameData, SameInit, SameImport, SameMarks, RollbackSound, Migrating, Live, Unmigrated, Beside, NoInit, NoMigration, NoImport, Standing
  <2>5. root'.mig # "none" \/ root'.manifest = 1 => MaxRootOps > 0
    BY <2>1, <2>2, GenerationSets DEF FormatInv, SameData, SameInit, SameImport, SameMarks, RollbackSound, Migrating, Live, Unmigrated, Beside, NoInit, NoMigration, NoImport
  <2> QED
    BY <2>1, <2>2, <2>3, <2>4, <2>5 DEF FormatInv
<1> QED
    BY <1>1, <1>2, <1>3, <1>4, <1>5, <1>6 DEF CleanupMigration


LEMMA RollbackTreesKeeps == FormatInv /\ RollbackTrees => FormatInv'
<1> SUFFICES ASSUME FormatInv, RollbackTrees PROVE FormatInv'
    OBVIOUS
<1>1. CASE At("rollback", 1) /\ GoTo(7) /\ Same /\ root' = [root EXCEPT !.migStage = "none", !.gens = @ \ {root.manifest + 1}]
  <2>1. rootJob.name = "rollback" /\ rootJob.at = 1 /\ RollbackSound(1, root) /\ root \in Roots
    BY <1>1 DEF FormatInv, At
  <2>2. root.gens \ {root.manifest + 1} = root.gens
    BY <1>1, <2>1, GenerationSets DEF RollbackSound, Migrating, Live, Unmigrated, Beside, NoInit, NoMigration, NoImport
  <2>3. root' \in Roots /\ SameData /\ SameInit /\ root'.mig = root.mig /\ root'.migStage = "none"
         /\ root'.migRoot = root.migRoot /\ root'.backup = root.backup /\ SameImport /\ SameMarks
    BY <1>1, <2>1, <2>2 DEF SameData, SameInit, SameImport, SameMarks, Roots
  <2>4. rootJob' \in RootJobs /\ rootJob'.name = "rollback" /\ rootJob'.at = 7 /\ rootJob'.snap = rootJob.snap /\ jobs' = jobs
    BY <1>1, <2>1 DEF FormatInv, RootJobs, GoTo, Same
  <2>5. RollbackSound(7, root')
    BY <2>1, <2>2, <2>3, GenerationSets DEF SameData, SameInit, SameImport, SameMarks, RollbackSound, Migrating, Live, Unmigrated, Beside, NoInit, NoMigration, NoImport
  <2>6. root'.mig # "none" \/ root'.manifest = 1 => MaxRootOps > 0
    BY <2>1, <2>2, <2>3, GenerationSets DEF FormatInv, SameData, SameInit, SameImport, SameMarks, RollbackSound, Migrating, Live, Unmigrated, Beside, NoInit, NoMigration, NoImport
  <2> QED
    BY <2>1, <2>2, <2>3, <2>4, <2>5, <2>6 DEF FormatInv
<1> QED
    BY <1>1 DEF RollbackTrees


LEMMA ImportStepKeeps == FormatInv /\ ImportStep => FormatInv'
<1> SUFFICES ASSUME FormatInv, ImportStep PROVE FormatInv'
    OBVIOUS
<1>1. CASE At("import", 1) /\ GoTo(2) /\ Same /\ root' = [root EXCEPT !.stray = FALSE, !.imp = "prepared", !.impRoot = rootJob.snap.root]
  <2>1. rootJob.name = "import" /\ rootJob.at = 1 /\ ImportSound(1, root, rootJob.snap) /\ root \in Roots
    BY <1>1 DEF FormatInv, At
  <2>2. rootJob.snap.root \in {s.root : s \in Snapshots}
    BY <1>1, <2>1, GenerationSets DEF ImportSound, Importing, Blank, Holds, NoInit, NoMigration, NoImport
  <2>3. root' \in Roots /\ SameData /\ SameInit /\ SameMigration /\ root'.imp = "prepared"
         /\ root'.impStage = root.impStage /\ root'.impRoot = rootJob.snap.root /\ root'.stray = FALSE
         /\ root'.java = root.java
    BY <1>1, <2>1, <2>2 DEF SameData, SameInit, SameMigration, Roots
  <2>4. rootJob' \in RootJobs /\ rootJob'.name = "import" /\ rootJob'.at = 2 /\ rootJob'.snap = rootJob.snap /\ jobs' = jobs
    BY <1>1, <2>1 DEF FormatInv, RootJobs, GoTo, Same
  <2>5. ImportSound(2, root', rootJob.snap)
    BY <2>1, <2>2, <2>3, GenerationSets DEF SameData, SameInit, SameMigration, ImportSound, Importing, Blank, Holds, NoInit, NoMigration, NoImport
  <2>6. root'.mig # "none" \/ root'.manifest = 1 => MaxRootOps > 0
    BY <2>1, <2>2, <2>3, GenerationSets DEF FormatInv, SameData, SameInit, SameMigration, ImportSound, Importing, Blank, Holds, NoInit, NoMigration, NoImport
  <2> QED
    BY <2>1, <2>2, <2>3, <2>4, <2>5, <2>6 DEF FormatInv
<1>2. CASE At("import", 2) /\ GoTo(3) /\ Same /\ root' = [root EXCEPT !.impStage = "part"]
  <2>1. rootJob.name = "import" /\ rootJob.at = 2 /\ ImportSound(2, root, rootJob.snap) /\ root \in Roots
    BY <1>2 DEF FormatInv, At
  <2>2. root' \in Roots /\ SameData /\ SameInit /\ SameMigration /\ root'.imp = root.imp /\ root'.impStage = "part"
         /\ root'.impRoot = root.impRoot /\ SameMarks
    BY <1>2, <2>1 DEF SameData, SameInit, SameMigration, SameMarks, Roots
  <2>3. rootJob' \in RootJobs /\ rootJob'.name = "import" /\ rootJob'.at = 3 /\ rootJob'.snap = rootJob.snap /\ jobs' = jobs
    BY <1>2, <2>1 DEF FormatInv, RootJobs, GoTo, Same
  <2>4. ImportSound(3, root', rootJob.snap)
    BY <2>1, <2>2, GenerationSets DEF SameData, SameInit, SameMigration, SameMarks, ImportSound, Importing, Blank, Holds, NoInit, NoMigration, NoImport
  <2>5. root'.mig # "none" \/ root'.manifest = 1 => MaxRootOps > 0
    BY <2>1, <2>2, GenerationSets DEF FormatInv, SameData, SameInit, SameMigration, SameMarks, ImportSound, Importing, Blank, Holds, NoInit, NoMigration, NoImport
  <2> QED
    BY <2>1, <2>2, <2>3, <2>4, <2>5 DEF FormatInv
<1>3. CASE At("import", 3) /\ GoTo(4) /\ Same /\ root' = [root EXCEPT !.impStage = "whole"]
  <2>1. rootJob.name = "import" /\ rootJob.at = 3 /\ ImportSound(3, root, rootJob.snap) /\ root \in Roots
    BY <1>3 DEF FormatInv, At
  <2>2. root' \in Roots /\ SameData /\ SameInit /\ SameMigration /\ root'.imp = root.imp /\ root'.impStage = "whole"
         /\ root'.impRoot = root.impRoot /\ SameMarks
    BY <1>3, <2>1 DEF SameData, SameInit, SameMigration, SameMarks, Roots
  <2>3. rootJob' \in RootJobs /\ rootJob'.name = "import" /\ rootJob'.at = 4 /\ rootJob'.snap = rootJob.snap /\ jobs' = jobs
    BY <1>3, <2>1 DEF FormatInv, RootJobs, GoTo, Same
  <2>4. ImportSound(4, root', rootJob.snap)
    BY <2>1, <2>2, GenerationSets DEF SameData, SameInit, SameMigration, SameMarks, ImportSound, Importing, Blank, Holds, NoInit, NoMigration, NoImport
  <2>5. root'.mig # "none" \/ root'.manifest = 1 => MaxRootOps > 0
    BY <2>1, <2>2, GenerationSets DEF FormatInv, SameData, SameInit, SameMigration, SameMarks, ImportSound, Importing, Blank, Holds, NoInit, NoMigration, NoImport
  <2> QED
    BY <2>1, <2>2, <2>3, <2>4, <2>5 DEF FormatInv
<1>4. CASE rootJob.snap.body = rootJob.snap.root /\ At("import", 4) /\ GoTo(5) /\ Same /\ root' = [root EXCEPT !.imp = "ready"]
  <2>1. rootJob.name = "import" /\ rootJob.at = 4 /\ ImportSound(4, root, rootJob.snap) /\ root \in Roots
    BY <1>4 DEF FormatInv, At
  <2>2. rootJob.snap.root \in GoodRoots
    BY <1>4, <2>1, GenerationSets DEF ImportSound, Importing, Blank, Holds, NoInit, NoMigration, NoImport, GoodRoots
  <2>3. root' \in Roots /\ SameData /\ SameInit /\ SameMigration /\ root'.imp = "ready"
         /\ root'.impStage = root.impStage /\ root'.impRoot = root.impRoot /\ SameMarks
    BY <1>4, <2>1, <2>2 DEF SameData, SameInit, SameMigration, SameMarks, Roots
  <2>4. rootJob' \in RootJobs /\ rootJob'.name = "import" /\ rootJob'.at = 5 /\ rootJob'.snap = rootJob.snap /\ jobs' = jobs
    BY <1>4, <2>1 DEF FormatInv, RootJobs, GoTo, Same
  <2>5. ImportSound(5, root', rootJob.snap)
    BY <2>1, <2>2, <2>3, GenerationSets DEF SameData, SameInit, SameMigration, SameMarks, ImportSound, Importing, Blank, Holds, NoInit, NoMigration, NoImport
  <2>6. root'.mig # "none" \/ root'.manifest = 1 => MaxRootOps > 0
    BY <2>1, <2>2, <2>3, GenerationSets DEF FormatInv, SameData, SameInit, SameMigration, SameMarks, ImportSound, Importing, Blank, Holds, NoInit, NoMigration, NoImport
  <2> QED
    BY <2>1, <2>2, <2>3, <2>4, <2>5, <2>6 DEF FormatInv
<1>5. CASE At("import", 5) /\ GoTo(6) /\ Same /\ root' = [root EXCEPT !.impStage = "none", !.gens = @ \cup {0}]
  <2>1. rootJob.name = "import" /\ rootJob.at = 5 /\ ImportSound(5, root, rootJob.snap) /\ root \in Roots
    BY <1>5 DEF FormatInv, At
  <2>2. root.gens \cup {0} = FirstGen
    BY <1>5, <2>1, GenerationSets DEF ImportSound, Importing, Blank, Holds, NoInit, NoMigration, NoImport
  <2>3. root' \in Roots /\ root'.gens = FirstGen /\ root'.manifest = root.manifest /\ root'.rootOf = root.rootOf
         /\ root'.schema = root.schema /\ SameInit /\ SameMigration /\ root'.imp = root.imp /\ root'.impStage = "none"
         /\ root'.impRoot = root.impRoot /\ SameMarks
    BY <1>5, <2>1, <2>2 DEF SameInit, SameMigration, SameMarks, Roots
  <2>4. rootJob' \in RootJobs /\ rootJob'.name = "import" /\ rootJob'.at = 6 /\ rootJob'.snap = rootJob.snap /\ jobs' = jobs
    BY <1>5, <2>1 DEF FormatInv, RootJobs, GoTo, Same
  <2>5. ImportSound(6, root', rootJob.snap)
    BY <2>1, <2>2, <2>3, GenerationSets DEF SameInit, SameMigration, SameMarks, ImportSound, Importing, Blank, Holds, NoInit, NoMigration, NoImport
  <2>6. root'.mig # "none" \/ root'.manifest = 1 => MaxRootOps > 0
    BY <2>1, <2>2, <2>3, GenerationSets DEF FormatInv, SameInit, SameMigration, SameMarks, ImportSound, Importing, Blank, Holds, NoInit, NoMigration, NoImport
  <2> QED
    BY <2>1, <2>2, <2>3, <2>4, <2>5, <2>6 DEF FormatInv
<1>6. CASE At("import", 6) /\ GoTo(7) /\ Same /\ root' = [root EXCEPT !.imp = "published"]
  <2>1. rootJob.name = "import" /\ rootJob.at = 6 /\ ImportSound(6, root, rootJob.snap) /\ root \in Roots
    BY <1>6 DEF FormatInv, At
  <2>2. root' \in Roots /\ SameData /\ SameInit /\ SameMigration /\ root'.imp = "published"
         /\ root'.impStage = root.impStage /\ root'.impRoot = root.impRoot /\ SameMarks
    BY <1>6, <2>1 DEF SameData, SameInit, SameMigration, SameMarks, Roots
  <2>3. rootJob' \in RootJobs /\ rootJob'.name = "import" /\ rootJob'.at = 7 /\ rootJob'.snap = rootJob.snap /\ jobs' = jobs
    BY <1>6, <2>1 DEF FormatInv, RootJobs, GoTo, Same
  <2>4. ImportSound(7, root', rootJob.snap)
    BY <2>1, <2>2, GenerationSets DEF SameData, SameInit, SameMigration, SameMarks, ImportSound, Importing, Blank, Holds, NoInit, NoMigration, NoImport
  <2>5. root'.mig # "none" \/ root'.manifest = 1 => MaxRootOps > 0
    BY <2>1, <2>2, GenerationSets DEF FormatInv, SameData, SameInit, SameMigration, SameMarks, ImportSound, Importing, Blank, Holds, NoInit, NoMigration, NoImport
  <2> QED
    BY <2>1, <2>2, <2>3, <2>4, <2>5 DEF FormatInv
<1>7. CASE At("import", 7) /\ GoTo(8) /\ Same /\ root' = [root EXCEPT !.manifest = 0, !.rootOf = rootJob.snap.root]
  <2>1. rootJob.name = "import" /\ rootJob.at = 7 /\ ImportSound(7, root, rootJob.snap) /\ root \in Roots
    BY <1>7 DEF FormatInv, At
  <2>2. rootJob.snap.root \in GoodRoots
    BY <1>7, <2>1, GenerationSets DEF ImportSound, Importing, Blank, Holds, NoInit, NoMigration, NoImport, GoodRoots
  <2>3. root' \in Roots /\ root'.gens = root.gens /\ root'.manifest = 0 /\ root'.rootOf = rootJob.snap.root
         /\ root'.schema = root.schema /\ SameInit /\ SameMigration /\ SameImport /\ SameMarks
    BY <1>7, <2>1, <2>2 DEF SameInit, SameMigration, SameImport, SameMarks, Roots
  <2>4. rootJob' \in RootJobs /\ rootJob'.name = "import" /\ rootJob'.at = 8 /\ rootJob'.snap = rootJob.snap /\ jobs' = jobs
    BY <1>7, <2>1 DEF FormatInv, RootJobs, GoTo, Same
  <2>5. ImportSound(8, root', rootJob.snap)
    BY <2>1, <2>2, <2>3, GenerationSets DEF SameInit, SameMigration, SameImport, SameMarks, ImportSound, Importing, Blank, Holds, NoInit, NoMigration, NoImport
  <2>6. root'.mig # "none" \/ root'.manifest = 1 => MaxRootOps > 0
    BY <2>1, <2>2, <2>3, GenerationSets DEF FormatInv, SameInit, SameMigration, SameImport, SameMarks, ImportSound, Importing, Blank, Holds, NoInit, NoMigration, NoImport
  <2> QED
    BY <2>1, <2>2, <2>3, <2>4, <2>5, <2>6 DEF FormatInv
<1>8. CASE At("import", 8) /\ FormatDone /\ Same /\ root' = [root EXCEPT !.imp = "none", !.impRoot = "none"]
  <2>1. rootJob.name = "import" /\ rootJob.at = 8 /\ ImportSound(8, root, rootJob.snap) /\ root \in Roots
    BY <1>8 DEF FormatInv, At
  <2>2. root' \in Roots /\ SameData /\ SameInit /\ SameMigration /\ root'.imp = "none"
         /\ root'.impStage = root.impStage /\ root'.impRoot = "none" /\ SameMarks
    BY <1>8, <2>1 DEF SameData, SameInit, SameMigration, SameMarks, Roots
  <2>3. rootJob' \in RootJobs /\ rootJob' = NoJob /\ rootJob'.name = "none" /\ jobs' = jobs
    BY <1>8 DEF RootJobs, Same, FormatDone, NoJob
  <2>4. Standing(root')
    BY <2>1, <2>2, GenerationSets DEF SameData, SameInit, SameMigration, SameMarks, ImportSound, Importing, Blank, Holds, NoInit, NoMigration, NoImport, Standing, Live, Unmigrated, Beside
  <2>5. root'.mig # "none" \/ root'.manifest = 1 => MaxRootOps > 0
    BY <2>1, <2>2, GenerationSets DEF FormatInv, SameData, SameInit, SameMigration, SameMarks, ImportSound, Importing, Blank, Holds, NoInit, NoMigration, NoImport
  <2> QED
    BY <2>1, <2>2, <2>3, <2>4, <2>5 DEF FormatInv
<1> QED
    BY <1>1, <1>2, <1>3, <1>4, <1>5, <1>6, <1>7, <1>8 DEF ImportStep

\* Whatever holds the lock, the directory is one that can be met without it.
LEMMA AlwaysStanding == FormatInv => Standing(root)
<1> SUFFICES ASSUME FormatInv PROVE Standing(root)
    OBVIOUS
<1>1. ASSUME NEW at, InitSound(at, root) PROVE Standing(root)
    BY <1>1 DEF InitSound, Standing
<1>2. ASSUME NEW at, MigrateSound(at, root) PROVE Standing(root)
    BY <1>2 DEF MigrateSound, Standing
<1>3. ASSUME NEW at, RollbackSound(at, root) PROVE Standing(root)
    BY <1>3 DEF RollbackSound, Standing
<1>4. ASSUME NEW at, NEW s, ImportSound(at, root, s) PROVE Standing(root)
    BY <1>4 DEF ImportSound, Standing
<1> QED
    BY <1>1, <1>2, <1>3, <1>4 DEF FormatInv, RootJobs

\* What taking the lock leaves.
LEMMA BeginView ==
    ASSUME FormatInv, NEW name \in {"init", "migrate", "resume", "rollback", "import"}, NEW at \in 0..10,
           NEW snap \in Snapshots \cup {NoSnapshot}, Begin(name, at, snap)
    PROVE  /\ rootJob' \in RootJobs /\ rootJob'.name = name /\ rootJob'.at = at /\ rootJob'.snap = snap
           /\ jobs' \in 0..MaxRootOps /\ MaxRootOps > 0 /\ Standing(root) /\ rootJob = NoJob
<1>1. rootJob = NoJob /\ jobs < MaxRootOps /\ jobs' = jobs + 1 /\ rootJob' = [name |-> name, at |-> at, snap |-> snap]
    BY DEF Begin
<1>2. Standing(root)
    BY AlwaysStanding
<1>3. rootJob' \in RootJobs
    BY <1>1 DEF RootJobs
<1>4. jobs \in 0..MaxRootOps /\ MaxRootOps \in Nat
    BY FormatBounds DEF FormatInv
<1> QED
    BY <1>1, <1>2, <1>3, <1>4

LEMMA StartInitKeeps == FormatInv /\ StartInit => FormatInv'
<1> SUFFICES ASSUME FormatInv, StartInit PROVE FormatInv'
    OBVIOUS
<1> DEFINE at == IF Classify(root) = "empty" THEN 1 ELSE 3
<1>1. root' = root /\ Begin("init", at, NoSnapshot) /\ Classify(root) \in {"empty", "initializing"}
    BY DEF StartInit
<1>2. at \in 0..10
    OBVIOUS
<1> HIDE DEF at
<1>3. rootJob' \in RootJobs /\ rootJob'.name = "init" /\ rootJob'.at = at /\ jobs' \in 0..MaxRootOps /\ MaxRootOps > 0 /\ Standing(root)
    BY <1>1, <1>2, BeginView
<1>4. InitSound(at, root)
  <2>1. CASE Classify(root) = "empty"
    <3>1. at = 1 /\ ~root.java /\ root.mig = "none" /\ root.imp = "none" /\ root.initj = "none" /\ root.gens = {} /\ ~root.stray
      BY <2>1 DEF at, Classify
    <3> QED
      BY <1>3, <3>1, GenerationSets DEF Standing, InitSound, Blank, Initializing, Importing, Live, Unmigrated, Beside, Migrating, Migrated, Holds
  <2>2. CASE Classify(root) = "initializing"
    <3>1. at = 3 /\ root.initj # "none" /\ root.initj # "torn" /\ root.mig = "none" /\ root.imp = "none" /\ ~root.stray /\ root.gens \subseteq {0}
      BY <2>2 DEF at, Classify, InitConsistent
    <3>2. root.gens # Both
      BY <3>1, GenerationSets
    <3>3. Initializing(root)
      BY <1>3, <3>1, <3>2 DEF Standing, Initializing, Blank, Importing, Live, Unmigrated, Beside, Migrating, Migrated, NoInit, NoMigration, NoImport, Holds
    <3> QED
      BY <3>1, <3>3 DEF InitSound
  <2> QED
    BY <1>1, <2>1, <2>2
<1> QED
    BY <1>1, <1>3, <1>4 DEF FormatInv

LEMMA StartMigrationKeeps == FormatInv /\ StartMigration => FormatInv'
<1> SUFFICES ASSUME FormatInv, StartMigration PROVE FormatInv'
    OBVIOUS
<1>1. Begin("migrate", 0, NoSnapshot) /\ root.schema = 1 /\ root.manifest >= 0 /\ root.mig = "none" /\ root' = root
    BY DEF StartMigration, MigrationEdge, Validates
<1>2. rootJob' \in RootJobs /\ rootJob'.name = "migrate" /\ rootJob'.at = 0 /\ jobs' \in 0..MaxRootOps /\ MaxRootOps > 0 /\ Standing(root)
    BY <1>1, BeginView
<1>3. Live(root)
    BY <1>1, <1>2 DEF Standing, Blank, Initializing, Importing, Live, Unmigrated, Beside, Migrating, Migrated, Holds, NoInit, NoMigration, NoImport
<1>4. MigrateSound(0, root)
    BY <1>3 DEF MigrateSound
<1> QED
    BY <1>1, <1>2, <1>4 DEF FormatInv

LEMMA StartRollbackKeeps == FormatInv /\ StartRollback => FormatInv'
<1> SUFFICES ASSUME FormatInv, StartRollback PROVE FormatInv'
    OBVIOUS
<1>1. Begin("rollback", 1, NoSnapshot) /\ root.mig = "prepared" /\ root' = root
    BY DEF StartRollback
<1>2. rootJob' \in RootJobs /\ rootJob'.name = "rollback" /\ rootJob'.at = 1 /\ jobs' \in 0..MaxRootOps /\ MaxRootOps > 0 /\ Standing(root)
    BY <1>1, BeginView
<1>3. RollbackSound(1, root)
    BY <1>1, <1>2 DEF RollbackSound, Standing, Blank, Initializing, Importing, Live, Migrated, NoMigration
<1> QED
    BY <1>1, <1>2, <1>3 DEF FormatInv

LEMMA ResumeMigrationKeeps == FormatInv /\ ResumeMigration => FormatInv'
<1> SUFFICES ASSUME FormatInv, ResumeMigration PROVE FormatInv'
    OBVIOUS
<1>1. CASE root.mig = "ready" /\ root.schema = 2 /\ Begin("resume", 7, NoSnapshot) /\ UNCHANGED root
  <2>1. rootJob' \in RootJobs /\ rootJob'.name = "resume" /\ rootJob'.at = 7 /\ jobs' \in 0..MaxRootOps /\ MaxRootOps > 0 /\ Standing(root)
    BY <1>1, BeginView
  <2>2. MigrateSound(7, root)
    BY <1>1, <2>1 DEF MigrateSound, Standing, Blank, Initializing, Importing, Live, Unmigrated, Beside, Migrating, Migrated
  <2> QED
    BY <1>1, <2>1, <2>2 DEF FormatInv
<1>2. CASE /\ root.mig = "ready" /\ root.schema = 1 /\ Begin("resume", 6, NoSnapshot)
           /\ root' = [root EXCEPT !.migStage = "none", !.gens = @ \cup {root.manifest + 1}]
  <2>1. rootJob' \in RootJobs /\ rootJob'.name = "resume" /\ rootJob'.at = 6 /\ jobs' \in 0..MaxRootOps /\ MaxRootOps > 0 /\ Standing(root)
    BY <1>2, BeginView
  <2>2. Migrating(root)
    BY <1>2, <2>1 DEF Standing, Blank, Initializing, Importing, Live, Migrated, NoMigration
  <2>3. root.gens \cup {root.manifest + 1} = Both
    BY <1>2, <2>2, GenerationSets DEF Migrating, Unmigrated, Beside
  <2>4. root' \in Roots /\ root'.gens = Both /\ root'.manifest = root.manifest /\ root'.rootOf = root.rootOf /\ root'.schema = root.schema
        /\ SameInit /\ root'.mig = root.mig /\ root'.migStage = "none" /\ root'.migRoot = root.migRoot
        /\ root'.backup = root.backup /\ SameImport /\ SameMarks
    BY <1>2, <2>3 DEF FormatInv, Roots, SameInit, SameImport, SameMarks
  <2>5. MigrateSound(6, root')
    BY <1>2, <2>2, <2>4 DEF Unmigrated, Beside, Migrating, MigrateSound, NoInit, NoImport, SameInit, SameImport, SameMarks
  <2> QED
    BY <2>1, <2>4, <2>5 DEF FormatInv
<1> QED
    BY <1>1, <1>2 DEF ResumeMigration

\* The three outcomes of a recovered import.
LEMMA RecoverImportView ==
    ASSUME FormatInv, root.imp # "none", Importing(root), ~ImportBroken(root)
    PROVE  /\ RecoverImport(root) \in Roots /\ RecoverImport(root).stray = root.stray
           /\ root.gens = Nothing => Blank(RecoverImport(root)) /\ ~RecoverImport(root).java
           /\ root.gens # Nothing => root.gens = FirstGen /\ Live(RecoverImport(root))
           /\ RecoverImport(root).mig = "none" /\ RecoverImport(root).manifest # 1
<1> DEFINE t == RecoverImport(root)
<1>1. root \in Roots
    BY DEF FormatInv
<1>2. CASE root.gens = Nothing
  <2>1. t = [root EXCEPT !.imp = "none", !.impStage = "none", !.impRoot = "none"]
    BY <1>2, GenerationSets DEF RecoverImport
  <2> HIDE DEF t
  <2>2. t \in Roots /\ t.gens = root.gens /\ t.manifest = root.manifest /\ t.rootOf = root.rootOf /\ t.schema = root.schema
        /\ t.initj = root.initj /\ t.mtemp = root.mtemp /\ t.mig = root.mig /\ t.migStage = root.migStage /\ t.migRoot = root.migRoot
        /\ t.backup = root.backup /\ t.imp = "none" /\ t.impStage = "none" /\ t.impRoot = "none" /\ t.stray = root.stray /\ t.java = root.java
    BY <1>1, <2>1 DEF Roots
  <2>3. Blank(t) /\ ~t.java /\ t.mig = "none" /\ t.manifest # 1
    BY <1>2, <2>2, GenerationSets DEF Importing, Blank, Holds, NoInit, NoMigration, NoImport
  <2> QED
    BY <1>2, <2>2, <2>3 DEF t
<1>3. CASE root.gens # Nothing
  <2>1. root.gens = FirstGen /\ root.impRoot \in GoodRoots /\ root.impStage = "none"
    BY <1>3 DEF Importing, Holds
  <2>2. t = [root EXCEPT !.manifest = 0, !.rootOf = root.impRoot, !.imp = "none", !.impRoot = "none"]
    BY <2>1, GenerationSets DEF RecoverImport
  <2> HIDE DEF t
  <2>3. t \in Roots /\ t.gens = root.gens /\ t.manifest = 0 /\ t.rootOf = root.impRoot /\ t.schema = root.schema
        /\ t.initj = root.initj /\ t.mtemp = root.mtemp /\ t.mig = root.mig /\ t.migStage = root.migStage /\ t.migRoot = root.migRoot
        /\ t.backup = root.backup /\ t.imp = "none" /\ t.impStage = root.impStage /\ t.impRoot = "none" /\ t.stray = root.stray /\ t.java = root.java
    BY <1>1, <2>1, <2>2 DEF Roots
  <2>4. Live(t) /\ t.mig = "none" /\ t.manifest # 1
    BY <2>1, <2>3 DEF Importing, Live, Unmigrated, Beside, Holds, NoInit, NoMigration, NoImport
  <2> QED
    BY <1>3, <2>1, <2>3, <2>4 DEF t
<1> QED
    BY <1>2, <1>3

\* An import that a migration found published loses its journal.
LEMMA RecoverBesideView ==
    ASSUME FormatInv, root.imp # "none", Live(root) \/ Migrating(root)
    PROVE  /\ RecoverImport(root) \in Roots /\ RecoverImport(root).mig = root.mig /\ RecoverImport(root).manifest = 0
           /\ Live(RecoverImport(root)) \/ Migrating(RecoverImport(root))
<1> DEFINE t == RecoverImport(root)
<1>1. root \in Roots /\ root.impRoot \in GoodRoots /\ root.impStage = "none" /\ 0 \in root.gens
    BY GenerationSets DEF FormatInv, Live, Migrating, Unmigrated, Beside, NoImport
<1>2. t = [root EXCEPT !.manifest = 0, !.rootOf = root.impRoot, !.imp = "none", !.impRoot = "none"]
    BY <1>1 DEF RecoverImport
<1> HIDE DEF t
<1>3. t \in Roots /\ t.gens = root.gens /\ t.manifest = 0 /\ t.rootOf = root.impRoot /\ t.schema = root.schema
      /\ t.initj = root.initj /\ t.mtemp = root.mtemp /\ t.mig = root.mig /\ t.migStage = root.migStage /\ t.migRoot = root.migRoot
      /\ t.backup = root.backup /\ t.imp = "none" /\ t.impStage = root.impStage /\ t.impRoot = "none" /\ t.java = root.java
    BY <1>1, <1>2 DEF Roots
<1>4. Live(t) \/ Migrating(t)
    BY <1>1, <1>3 DEF Live, Migrating, Unmigrated, Beside, NoInit, NoMigration, NoImport
<1> QED
    BY <1>3, <1>4 DEF t

\* Whatever it finds, the recovery of an import leaves a directory that can be met.
RecoveredSound(t) == t \in Roots /\ Standing(t) /\ t.manifest # 1 /\ (t.mig # "none" => MaxRootOps > 0)
LEMMA RecoverImportSound ==
    ASSUME FormatInv, root.imp # "none", ~ImportBroken(root)
    PROVE  RecoveredSound(RecoverImport(root))
<1>1. Importing(root) \/ Live(root) \/ Migrating(root)
  <2>1. ~Migrated(root)
    BY GenerationSets DEF Migrated, Holds, ImportBroken
  <2> QED
    BY <2>1, AlwaysStanding DEF Standing, Blank, Initializing, NoImport
<1>2. CASE Importing(root)
    BY <1>2, RecoverImportView DEF RecoveredSound, Standing
<1>3. CASE Live(root) \/ Migrating(root)
    BY <1>3, RecoverBesideView DEF RecoveredSound, Standing, FormatInv
<1> QED
    BY <1>1, <1>2, <1>3

LEMMA RecoverOnOpenKeeps == FormatInv /\ RecoverOnOpen => FormatInv'
<1> SUFFICES ASSUME FormatInv, RecoverOnOpen PROVE FormatInv'
    OBVIOUS
<1>1. rootJob = NoJob /\ root.imp # "none" /\ ~ImportBroken(root) /\ root' = RecoverImport(root) /\ rootJob' = rootJob /\ jobs' = jobs
    BY DEF RecoverOnOpen
<1>3. root' \in Roots /\ Standing(root') /\ root'.manifest # 1 /\ (root'.mig # "none" => MaxRootOps > 0)
    BY <1>1, RecoverImportSound DEF RecoveredSound
<1>4. rootJob'.name = "none"
    BY <1>1 DEF NoJob
<1> QED
    BY <1>1, <1>3, <1>4 DEF FormatInv

LEMMA StartImportKeeps == FormatInv /\ (\E s \in Snapshots : StartImport(s)) => FormatInv'
<1> SUFFICES ASSUME FormatInv, NEW s \in Snapshots, StartImport(s) PROVE FormatInv'
    OBVIOUS
<1>1. Importable(s) /\ Classify(root) \in {"empty", "partial"} /\ ~(root.imp # "none" /\ ImportBroken(root))
    BY DEF StartImport
<1>2. Standing(root) /\ ~root.java
    BY <1>1, AlwaysStanding DEF Classify
<1> DEFINE t == RecoverImport(root)
<1>5. CASE 0 \in root.gens \/ root.stray
  <2>1. rootJob = NoJob /\ jobs < MaxRootOps /\ jobs' = jobs + 1 /\ rootJob' = NoJob /\ root' = t
    BY <1>5 DEF StartImport, FormatDone
  <2>2. jobs' \in 0..MaxRootOps /\ MaxRootOps > 0
    BY <2>1, FormatBounds DEF FormatInv
  <2>3. rootJob' \in RootJobs /\ rootJob'.name = "none"
    BY <2>1 DEF RootJobs, NoJob
  <2>4. t \in Roots /\ Standing(t)
    <3>1. CASE root.imp = "none"
      BY <1>2, <3>1 DEF RecoverImport, FormatInv
    <3>2. CASE root.imp # "none"
      BY <1>1, <3>2, RecoverImportSound DEF RecoveredSound
    <3> QED
      BY <3>1, <3>2
  <2> HIDE DEF t
  <2> QED
    BY <2>1, <2>2, <2>3, <2>4 DEF FormatInv
<1>6. CASE ~(0 \in root.gens \/ root.stray)
  <2>1. Begin("import", 1, s) /\ root' = [t EXCEPT !.stray = TRUE]
    BY <1>6 DEF StartImport
  <2>2. rootJob' \in RootJobs /\ rootJob'.name = "import" /\ rootJob'.at = 1 /\ rootJob'.snap = s /\ jobs' \in 0..MaxRootOps
    BY <2>1, BeginView
  <2>3. root.gens = Nothing
    BY <1>6, GenerationSets DEF FormatInv, Roots
  <2>7. Blank(root) \/ (Importing(root) /\ root.imp # "none")
    <3>1. root.initj = "none" \/ root.imp # "none" \/ root.impStage # "none" \/ root.mig # "none" \/ root.migStage # "none"
      BY <1>1 DEF Classify
    <3>2. ~Live(root) /\ ~Migrating(root) /\ ~Migrated(root)
      BY <2>3, GenerationSets DEF Live, Migrating, Migrated, Holds
    <3> QED
      BY <1>2, <3>1, <3>2 DEF Standing, Initializing, Importing, NoImport, NoMigration
  <2>8. t \in Roots /\ Blank(t) /\ ~t.java
    <3>1. CASE Blank(root)
      BY <1>2, <3>1 DEF RecoverImport, Blank, NoImport, FormatInv
    <3>2. CASE Importing(root) /\ root.imp # "none"
      BY <1>1, <2>3, <3>2, RecoverImportView
    <3> QED
      BY <2>7, <3>1, <3>2
  <2> HIDE DEF t
  <2>4. root' \in Roots /\ root'.gens = t.gens /\ root'.manifest = t.manifest /\ root'.rootOf = t.rootOf /\ root'.schema = t.schema
        /\ root'.initj = t.initj /\ root'.mtemp = t.mtemp /\ root'.mig = t.mig /\ root'.migStage = t.migStage /\ root'.migRoot = t.migRoot
        /\ root'.backup = t.backup /\ root'.imp = t.imp /\ root'.impStage = t.impStage /\ root'.impRoot = t.impRoot
        /\ root'.stray = TRUE /\ root'.java = t.java
    BY <2>8, <2>1 DEF Roots
  <2>5. Blank(root') /\ ~root'.java /\ root'.stray
    BY <2>8, <2>3, <2>4 DEF Blank, Holds, NoInit, NoMigration, NoImport
  <2>6. ImportSound(1, root', s)
    BY <1>1, <2>5 DEF ImportSound
  <2> QED
    BY <2>2, <2>4, <2>5, <2>6 DEF FormatInv, Blank, Holds, NoMigration
<1> QED
    BY <1>5, <1>6

\* An import that is abandoned before its generation is there leaves the directory blank.
LEMMA AbandonImport ==
    ASSUME FormatInv, rootJob.name = "import", root.gens = Nothing, Importing(root), rootJob' = NoJob, jobs' = jobs,
           root' = [root EXCEPT !.imp = "none", !.impStage = "none", !.impRoot = "none"]
    PROVE  FormatInv'
<1>1. root' \in Roots /\ SameData /\ SameInit /\ SameMigration /\ root'.imp = "none" /\ root'.impStage = "none"
      /\ root'.impRoot = "none" /\ SameMarks
    BY DEF FormatInv, Roots, SameData, SameInit, SameMigration, SameMarks
<1>2. Blank(root') /\ root'.mig = "none" /\ root'.manifest # 1
    BY <1>1, GenerationSets DEF Importing, Blank, Holds, NoInit, NoMigration, NoImport, SameData, SameInit, SameMigration
<1>3. rootJob' \in RootJobs /\ rootJob'.name = "none"
    BY DEF RootJobs, NoJob
<1> QED
    BY <1>1, <1>2, <1>3 DEF FormatInv, Standing

LEMMA ImportRefusedKeeps == FormatInv /\ ImportRefused => FormatInv'
<1> SUFFICES ASSUME FormatInv, ImportRefused PROVE FormatInv'
    OBVIOUS
<1>1. /\ rootJob.name = "import" /\ rootJob.at \in {3, 4} /\ rootJob' = NoJob /\ jobs' = jobs
      /\ root' = [root EXCEPT !.imp = "none", !.impStage = "none", !.impRoot = "none"]
    BY DEF ImportRefused, At, Same, FormatDone
<1>2. Importing(root) /\ root.gens = Nothing
    BY <1>1 DEF FormatInv, ImportSound, Importing, Holds
<1> QED
    BY <1>1, <1>2, AbandonImport

LEMMA ImportFailsKeeps == FormatInv /\ ImportFails => FormatInv'
<1> SUFFICES ASSUME FormatInv, ImportFails PROVE FormatInv'
    OBVIOUS
<1>1. rootJob.name = "import" /\ rootJob.at > 1 /\ rootJob' = NoJob /\ jobs' = jobs
    BY DEF ImportFails, FormatDone
<1>2. Importing(root)
    BY <1>1 DEF FormatInv, ImportSound
<1>3. CASE 0 \in root.gens
  <2>1. root' = root
    BY <1>3 DEF ImportFails
  <2>2. rootJob' \in RootJobs /\ rootJob'.name = "none"
    BY <1>1 DEF RootJobs, NoJob
  <2> QED
    BY <1>1, <1>2, <2>1, <2>2 DEF FormatInv, Standing
<1>4. CASE 0 \notin root.gens
  <2>1. root.gens = Nothing
    BY <1>4, GenerationSets DEF FormatInv, Roots
  <2>2. root' = [root EXCEPT !.imp = "none", !.impStage = "none", !.impRoot = "none"]
    BY <1>4 DEF ImportFails
  <2> QED
    BY <1>1, <1>2, <2>1, <2>2, AbandonImport
<1> QED
    BY <1>3, <1>4

LEMMA WriteResyncMarkerKeeps == FormatInv /\ WriteResyncMarker => FormatInv'
<1> SUFFICES ASSUME FormatInv, WriteResyncMarker PROVE FormatInv'
    OBVIOUS
<1>1. rootJob = NoJob /\ rootJob' = rootJob /\ jobs' = jobs /\ root' = [root EXCEPT !.resync = TRUE]
    BY DEF WriteResyncMarker
<1>2. root' \in Roots /\ SameData /\ SameInit /\ SameMigration /\ SameImport /\ SameMarks
    BY <1>1 DEF FormatInv, Roots, SameData, SameInit, SameMigration, SameImport, SameMarks
<1>3. Standing(root')
    BY <1>2, AlwaysStanding DEF Standing, Blank, Initializing, Importing, Unmigrated, Beside, Live, Migrating, Migrated, Holds, NoInit, NoMigration, NoImport,
       SameData, SameInit, SameMigration, SameImport, SameMarks
<1>4. rootJob'.name = "none"
    BY <1>1 DEF NoJob
<1> QED
    BY <1>1, <1>2, <1>3, <1>4 DEF FormatInv, SameData, SameMigration

LEMMA CrashRootKeeps == FormatInv /\ CrashRoot => FormatInv'
<1> SUFFICES ASSUME FormatInv, CrashRoot PROVE FormatInv'
    OBVIOUS
<1>1. rootJob' = NoJob /\ jobs' = jobs
    BY DEF CrashRoot, FormatDone
<1>2. PICK b \in BOOLEAN : root' = [root EXCEPT !.stray = b] /\ (b = root.stray \/ InsideInstall)
    BY DEF CrashRoot, FormatInv, Roots
<1>3. root' \in Roots /\ SameData /\ SameInit /\ SameMigration /\ SameImport /\ root'.java = root.java /\ root'.stray = b
    BY <1>2 DEF FormatInv, Roots, SameData, SameInit, SameMigration, SameImport
<1>4. Standing(root')
  <2>1. CASE b = root.stray
    BY <1>3, <2>1, AlwaysStanding DEF Standing, Blank, Initializing, Importing, Unmigrated, Beside, Live, Migrating, Migrated, Holds, NoInit, NoMigration, NoImport,
       SameData, SameInit, SameMigration, SameImport
  <2>2. CASE InsideInstall
    <3>1. Importing(root) \/ Live(root) \/ Migrating(root)
      BY <2>2 DEF InsideInstall, At, FormatInv, ImportSound, MigrateSound
    <3> QED
      BY <1>3, <3>1 DEF Standing, Importing, Live, Migrating, Unmigrated, Beside, Holds, NoInit, NoMigration, NoImport,
         SameData, SameInit, SameMigration, SameImport
  <2> QED
    BY <1>2, <2>1, <2>2
<1>5. rootJob' \in RootJobs /\ rootJob'.name = "none"
    BY <1>1 DEF RootJobs, NoJob
<1> QED
    BY <1>1, <1>3, <1>4, <1>5 DEF FormatInv, SameData, SameMigration


LEMMA FormatInvKept == FormatInv /\ [FormatNext]_formatVars => FormatInv'
<1> SUFFICES ASSUME FormatInv, [FormatNext]_formatVars PROVE FormatInv'
    OBVIOUS
<1>1. CASE UNCHANGED formatVars
  <2>1. root' = root /\ rootJob' = rootJob /\ jobs' = jobs
    BY <1>1 DEF formatVars
  <2> QED
    BY <2>1 DEF FormatInv
<1>2. CASE FormatNext
    BY <1>2, StartInitKeeps, InitJournalKeeps, InitGenerationKeeps, InitManifestKeeps, InitCleanupKeeps, StartMigrationKeeps,
       MigrationDataKeeps, SwitchManifestKeeps, CleanupMigrationKeeps, StartRollbackKeeps, RollbackTreesKeeps, ResumeMigrationKeeps,
       StartImportKeeps, RecoverOnOpenKeeps, ImportStepKeeps, ImportRefusedKeeps, ImportFailsKeeps, WriteResyncMarkerKeeps, CrashRootKeeps
       DEF FormatNext
<1> QED
    BY <1>1, <1>2

\* No accepted snapshot has the root of an empty or of a migrated store.
LEMMA GoodRootsAreOwn == "none" \notin GoodRoots /\ "new" \notin GoodRoots
    BY FormatAssumption DEF GoodRoots

LEMMA WholeStoreHolds == FormatInv => ManifestNamesWholeStore
<1> SUFFICES ASSUME FormatInv, root.manifest >= 0
             PROVE  root.manifest \in root.gens /\ root.rootOf \in {"none", "new"} \cup GoodRoots /\ (root.schema = 2 <=> root.rootOf = "new")
    BY DEF ManifestNamesWholeStore, GoodRoots
<1>1. CASE Initializing(root) \/ Importing(root)
    BY <1>1, GenerationSets, GoodRootsAreOwn DEF Initializing, Importing, Holds
<1>2. CASE Live(root) \/ Migrating(root)
    BY <1>2, GenerationSets, GoodRootsAreOwn DEF Live, Migrating, Unmigrated
<1>3. CASE Migrated(root)
    BY <1>3, GenerationSets DEF Migrated, Holds
<1> QED
    BY <1>1, <1>2, <1>3, AlwaysStanding DEF Standing, Blank, Holds

LEMMA RepairableHolds == FormatInv => AlwaysRepairable
<1> SUFFICES ASSUME FormatInv PROVE AlwaysRepairable
    OBVIOUS
<1>1. root \in Roots /\ Standing(root)
    BY AlwaysStanding DEF FormatInv
<1>2. root.java \in BOOLEAN /\ root.stray \in BOOLEAN /\ root.mtemp \in BOOLEAN /\ root.backup \in BOOLEAN
      /\ root.migStage \in {"none", "part", "whole"} /\ root.impStage \in {"none", "part", "whole"}
    BY <1>1 DEF Roots
<1>3. CASE Blank(root)
  <2>1. root.gens = {} /\ root.manifest = -1 /\ root.mig = "none" /\ root.migStage = "none" /\ ~root.backup /\ root.imp = "none" /\ root.impStage = "none"
        /\ root.initj = "none" /\ ~root.mtemp
    BY <1>3, GenerationSets DEF Blank, Holds, NoInit, NoMigration, NoImport
  <2>2. Classify(root) \in {"java", "empty"} \/ (Classify(root) = "ambiguous" /\ root.stray)
    BY <1>2, <2>1 DEF Classify
  <2> QED
    BY <2>2 DEF AlwaysRepairable
<1>4. CASE Initializing(root)
  <2>0. root.gens \subseteq {0} /\ ~root.backup
    BY <1>4, GenerationSets DEF Initializing, Holds, NoMigration
  <2>1. root.initj = "torn" \/ InitConsistent(root)
    BY <1>2, <1>4, <2>0, GenerationSets DEF Initializing, InitConsistent, Holds
  <2>2. root.initj = "torn" \/ Classify(root) = "initializing"
    BY <1>2, <1>4, <2>1 DEF Initializing, Classify, NoMigration, NoImport
  <2> QED
    BY <2>2 DEF AlwaysRepairable
<1>5. CASE Importing(root)
  <2>1. Classify(root) = "partial" /\ root.imp # "none" /\ root.mig = "none"
    BY <1>2, <1>5 DEF Importing, Classify, NoMigration
  <2>2. ~ImportBroken(root)
    BY <1>5, GenerationSets DEF Importing, ImportBroken, Holds
  <2> QED
    BY <2>1, <2>2 DEF AlwaysRepairable
<1>6. CASE Live(root)
  <2>1. root.mig = "none" /\ root.migStage = "none" /\ ~root.backup /\ root.gens = {0} /\ root.manifest = 0 /\ ~root.java /\ ~root.mtemp
    BY <1>6, GenerationSets DEF Live, Unmigrated, Beside, NoInit, NoMigration
  <2>2. CASE root.imp # "none"
    <3>1. Classify(root) = "partial" /\ ~ImportBroken(root)
      BY <1>6, <2>1, <2>2 DEF Classify, ImportBroken, Live, Unmigrated, Beside, NoImport
    <3> QED
      BY <2>1, <2>2, <3>1 DEF AlwaysRepairable
  <2>3. CASE root.imp = "none" /\ root.initj # "none"
    <3>1. root.initj = "torn" \/ MigratedUnfinished \/ InitConsistent(root)
      BY <1>2, <1>6, <2>1, <2>3 DEF MigratedUnfinished, InitConsistent, Live, Unmigrated, Beside, NoInit
    <3>2. root.impStage = "none"
      BY <1>6, <2>3 DEF Live, Unmigrated, Beside, NoImport
    <3>3. root.initj = "torn" \/ MigratedUnfinished \/ Classify(root) = "initializing"
      BY <2>1, <2>3, <3>1, <3>2 DEF Classify
    <3> QED
      BY <3>3 DEF AlwaysRepairable
  <2>4. CASE root.imp = "none" /\ root.initj = "none"
    <3>1. Classify(root) = "rust"
      BY <1>6, <2>1, <2>4 DEF Live, Unmigrated, Beside, Classify, NoImport
    <3> QED
      BY <3>1 DEF AlwaysRepairable
  <2> QED
    BY <2>2, <2>3, <2>4
<1>7. CASE Migrating(root)
  <2>1. Classify(root) = "partial" /\ root.mig # "none" /\ root.schema = 1 /\ root.manifest = 0 /\ 0 \in root.gens
    BY <1>2, <1>7, GenerationSets DEF Migrating, Unmigrated, Classify
  <2>2. root.imp = "none" \/ ~ImportBroken(root)
    BY <1>7, <2>1 DEF Migrating, Unmigrated, Beside, NoImport, ImportBroken
  <2>3. MigrationRepairable
    BY <1>7, <2>1, GenerationSets DEF Migrating, MigrationRepairable
  <2> QED
    BY <2>1, <2>2, <2>3 DEF AlwaysRepairable
<1>8. CASE Migrated(root)
  <2>1. root.manifest = 1 /\ root.schema = 2 /\ root.migStage = "none" /\ ~root.java
    BY <1>8 DEF Migrated, Holds
  <2>2. CASE root.initj # "none" \/ root.imp # "none"
    BY <2>1, <2>2 DEF MigratedUnfinished, AlwaysRepairable
  <2>3. CASE root.initj = "none" /\ root.imp = "none"
    <3>1. root.impStage = "none"
      BY <1>8, <2>3 DEF Migrated, Beside, NoImport
    <3>2. Classify(root) = "rust" \/ (Classify(root) = "partial" /\ root.mig = "ready")
      BY <1>8, <2>1, <2>3, <3>1 DEF Classify, Migrated
    <3> QED
      BY <2>1, <2>3, <3>2 DEF MigrationRepairable, AlwaysRepairable
  <2> QED
    BY <2>2, <2>3
<1> QED
    BY <1>1, <1>3, <1>4, <1>5, <1>6, <1>7, <1>8 DEF Standing

FormatSpec == FormatInit /\ [][FormatNext]_formatVars

(* Between any two steps of an initialization, a migration, a rollback or an import,  *)
(* and after a crash of each, the directory is one of six kinds, and the step of the  *)
(* operation that holds the lock fixes which (initialize_empty_at, migrate_generation,*)
(* rollback_migration, resume_migration, import_snapshot_with_faults).                *)
THEOREM FormatInvariant == FormatSpec => []FormatInv
    BY FormatInvInit, FormatInvKept, PTL DEF FormatSpec

(* Generations, manifest, journals and steps keep their types (format.rs).            *)
THEOREM FormatTypes == FormatSpec => []FormatTypeOK
<1>1. FormatInv => FormatTypeOK
  <2> SUFFICES ASSUME FormatInv PROVE FormatTypeOK
    OBVIOUS
  <2>1. root \in Roots /\ rootJob.at \in 0..10 /\ MaxRootOps \in Nat
    BY FormatBounds DEF FormatInv, RootJobs
  <2>2. root.gens \in {Nothing, FirstGen, Both} /\ root.manifest \in {-1, 0, 1} /\ {root.initj, root.mig, root.imp} \subseteq Phases
        /\ {root.migStage, root.impStage} \subseteq {"none", "part", "whole"}
    BY <2>1 DEF Roots, Phases
  <2>3. root.gens = Both \/ root.manifest = 1 => MaxRootOps > 0
    BY AlwaysStanding, GenerationSets DEF FormatInv, Standing, Blank, Initializing, Importing, Live, Migrating, Migrated, Holds
  <2>4. root.gens \subseteq 0..MaxRootOps
    BY <2>1, <2>2, <2>3 DEF Nothing, FirstGen, Both
  <2> QED
    BY <2>1, <2>2, <2>3, <2>4 DEF FormatTypeOK
<1> QED
    BY <1>1, FormatInvariant, PTL

(* A manifest always names a complete generation whose root was accepted, and a       *)
(* directory the code cannot open it can repair, outside the three windows the        *)
(* property names, a migration over an unfinished import or initialization among them *)
(* (classify_at, recover_snapshot_import_locked, migrate_generation,                  *)
(* rollback_migration, resume_migration).                                             *)
THEOREM FormatsAreCrashSafe == FormatSpec => []FormatCrashSafe
<1>1. FormatInv => FormatCrashSafe
    BY WholeStoreHolds, RepairableHolds DEF FormatCrashSafe
<1> QED
    BY <1>1, FormatInvariant, PTL

-----------------------------------------------------------------------------
\* The log: tron-storage.

\* The batches that can be written, and the states that can be acknowledged.
LogOps == [key : LogKeys, value : Nat]
LogBatches == Seq(LogOps)

\* The last of a set of positions.
LEMMA LastPosition ==
    ASSUME NEW n \in Nat, NEW S \in SUBSET (1..n), S # {}
    PROVE  Max(S) \in S /\ \A j \in S : j <= Max(S)
<1> DEFINE T == {n - j : j \in S}
<1>1. T \in SUBSET Nat /\ T # {}
  <2>1. \A j \in S : n - j \in Nat
    OBVIOUS
  <2> QED
    BY <2>1
<1>2. PICK m \in T : \A j \in T : m <= j
    BY <1>1, LeastNumber
<1>3. PICK x \in S : m = n - x
    BY <1>2
<1>4. \A y \in S : x >= y
  <2> SUFFICES ASSUME NEW y \in S PROVE x >= y
    OBVIOUS
  <2>1. n - y \in T
    OBVIOUS
  <2>2. n - x <= n - y /\ x \in 1..n /\ y \in 1..n
    BY <1>2, <1>3, <2>1
  <2> QED
    BY <2>2
<1>5. Max(S) \in S /\ \A y \in S : Max(S) >= y
    BY <1>3, <1>4 DEF Max
<1> QED
    BY <1>5

\* The last operation of a batch on a key.
LEMMA LastOp ==
    ASSUME NEW b \in LogBatches, NEW k, OpsOn(b, k) # {}
    PROVE  /\ Max(OpsOn(b, k)) \in OpsOn(b, k)
           /\ b[Max(OpsOn(b, k))].value \in Nat /\ b[Max(OpsOn(b, k))].key = k
<1>1. Len(b) \in Nat /\ OpsOn(b, k) \in SUBSET (1..Len(b))
    BY DEF OpsOn, LogBatches
<1>2. Max(OpsOn(b, k)) \in OpsOn(b, k)
    BY <1>1, LastPosition
<1>3. \A i \in DOMAIN b : b[i] \in LogOps
    BY DEF LogBatches
<1> QED
    BY <1>2, <1>3 DEF OpsOn, LogOps

\* The last of several batches that has a key.
LEMMA LastBatch ==
    ASSUME NEW F \in Seq(LogBatches), NEW k, BatchesOn(F, k) # {}
    PROVE  /\ Max(BatchesOn(F, k)) \in BatchesOn(F, k) /\ \A j \in BatchesOn(F, k) : j <= Max(BatchesOn(F, k))
           /\ Max(BatchesOn(F, k)) \in 1..Len(F) /\ F[Max(BatchesOn(F, k))] \in LogBatches
           /\ OpsOn(F[Max(BatchesOn(F, k))], k) # {}
<1>1. Len(F) \in Nat /\ BatchesOn(F, k) \in SUBSET (1..Len(F))
    BY DEF BatchesOn
<1>2. Max(BatchesOn(F, k)) \in BatchesOn(F, k) /\ \A j \in BatchesOn(F, k) : j <= Max(BatchesOn(F, k))
    BY <1>1, LastPosition
<1>3. \A i \in BatchesOn(F, k) : i \in 1..Len(F) /\ F[i] \in LogBatches /\ OpsOn(F[i], k) # {}
    BY DEF BatchesOn
<1> QED
    BY <1>2, <1>3

\* A batch maps states to states.
LEMMA BatchState ==
    ASSUME NEW e \in Entries, NEW b \in LogBatches
    PROVE  ApplyBatch(e, b) \in Entries
<1>1. ASSUME NEW k \in LogKeys PROVE (IF OpsOn(b, k) = {} THEN e[k] ELSE b[Max(OpsOn(b, k))].value) \in Nat
    BY LastOp DEF Entries
<1> QED
    BY <1>1 DEF ApplyBatch, Entries

\* What a key has after a batch that sets it does not depend on the state before.
LEMMA BatchSets ==
    ASSUME NEW e, NEW b, NEW k \in LogKeys
    PROVE  ApplyBatch(e, b)[k] = IF OpsOn(b, k) = {} THEN e[k] ELSE b[Max(OpsOn(b, k))].value
    BY DEF ApplyBatch

\* The state after a sequence of batches, key by key.
LEMMA AllSets ==
    ASSUME NEW e, NEW F, NEW k \in LogKeys
    PROVE  ApplyAll(e, F)[k] = IF BatchesOn(F, k) = {} THEN e[k] ELSE ApplyBatch(e, F[Max(BatchesOn(F, k))])[k]
    BY DEF ApplyAll

LEMMA AllState ==
    ASSUME NEW e \in Entries, NEW F \in Seq(LogBatches)
    PROVE  ApplyAll(e, F) \in Entries
<1>1. ASSUME NEW k \in LogKeys
      PROVE  (IF BatchesOn(F, k) = {} THEN e[k] ELSE ApplyBatch(e, F[Max(BatchesOn(F, k))])[k]) \in Nat
  <2>1. CASE BatchesOn(F, k) = {}
    BY <2>1 DEF Entries
  <2>2. CASE BatchesOn(F, k) # {}
    <3>1. F[Max(BatchesOn(F, k))] \in LogBatches
      BY <2>2, LastBatch
    <3>2. ApplyBatch(e, F[Max(BatchesOn(F, k))]) \in Entries
      BY <3>1, BatchState
    <3> QED
      BY <2>2, <3>2 DEF Entries
  <2> QED
    BY <2>1, <2>2
<1> QED
    BY <1>1 DEF ApplyAll, Entries

\* No batches, or an empty one, change nothing.
LEMMA NothingApplied ==
    ASSUME NEW e \in Entries
    PROVE  ApplyAll(e, <<>>) = e /\ ApplyBatch(e, <<>>) = e
<1>1. \A k : OpsOn(<<>>, k) = {} /\ BatchesOn(<<>>, k) = {}
    BY DEF OpsOn, BatchesOn
<1>2. ApplyAll(e, <<>>) = [k \in LogKeys |-> e[k]] /\ ApplyBatch(e, <<>>) = [k \in LogKeys |-> e[k]]
    BY <1>1 DEF ApplyAll, ApplyBatch
<1> QED
    BY <1>2 DEF Entries

\* The state after one batch more: apply_batch on what was there.
LEMMA OneMoreBatch ==
    ASSUME NEW e \in Entries, NEW F \in Seq(LogBatches), NEW b \in LogBatches
    PROVE  ApplyAll(e, Append(F, b)) = ApplyBatch(ApplyAll(e, F), b)
<1> DEFINE G == Append(F, b)
<1>1. /\ G \in Seq(LogBatches) /\ Len(F) \in Nat /\ Len(G) = Len(F) + 1 /\ G[Len(F) + 1] = b
      /\ \A i \in 1..Len(F) : G[i] = F[i]
      /\ DOMAIN G = 1..Len(F) + 1 /\ DOMAIN F = 1..Len(F)
    OBVIOUS
<1> HIDE DEF G
<1>2. ApplyAll(e, F) \in Entries
    BY AllState
<1>3. ApplyAll(e, G) \in Entries /\ ApplyBatch(ApplyAll(e, F), b) \in Entries
    BY <1>1, <1>2, AllState, BatchState
<1>4. ASSUME NEW k \in LogKeys PROVE ApplyAll(e, G)[k] = ApplyBatch(ApplyAll(e, F), b)[k]
  <2>1. CASE OpsOn(b, k) # {}
    <3>1. Len(F) + 1 \in BatchesOn(G, k)
      BY <1>1, <2>1 DEF BatchesOn
    <3>2. Max(BatchesOn(G, k)) = Len(F) + 1
      <4>1. Max(BatchesOn(G, k)) \in 1..Len(G) /\ Len(F) + 1 <= Max(BatchesOn(G, k))
        BY <1>1, <3>1, LastBatch
      <4> QED
        BY <1>1, <4>1
    <3>3. ApplyAll(e, G)[k] = ApplyBatch(e, b)[k]
      BY <1>1, <3>1, <3>2, AllSets
    <3> QED
      BY <2>1, <3>3, BatchSets
  <2>2. CASE OpsOn(b, k) = {}
    <3>1. BatchesOn(G, k) = BatchesOn(F, k)
      BY <1>1, <2>2 DEF BatchesOn
    <3>2. ApplyBatch(ApplyAll(e, F), b)[k] = ApplyAll(e, F)[k]
      BY <2>2, BatchSets
    <3>3. BatchesOn(F, k) # {} => G[Max(BatchesOn(F, k))] = F[Max(BatchesOn(F, k))]
      BY <1>1, LastBatch
    <3>4. ApplyAll(e, G)[k] = ApplyAll(e, F)[k]
      BY <3>1, <3>3, AllSets
    <3> QED
      BY <3>2, <3>4
  <2> QED
    BY <2>1, <2>2
<1>5. ApplyAll(e, G) = ApplyBatch(ApplyAll(e, F), b)
    BY <1>3, <1>4 DEF Entries
<1> QED
    BY <1>5 DEF G

\* Batches replayed over a state they have already made change nothing.
LEMMA ReplayedTwice ==
    ASSUME NEW e \in Entries, NEW F \in Seq(LogBatches)
    PROVE  ApplyAll(ApplyAll(e, F), F) = ApplyAll(e, F)
<1> DEFINE d == ApplyAll(e, F)
<1>1. d \in Entries
    BY AllState
<1> HIDE DEF d
<1>2. ApplyAll(d, F) \in Entries
    BY <1>1, AllState
<1>3. ASSUME NEW k \in LogKeys PROVE ApplyAll(d, F)[k] = d[k]
  <2>1. CASE BatchesOn(F, k) = {}
    BY <2>1, AllSets
  <2>2. CASE BatchesOn(F, k) # {}
    <3> DEFINE b == F[Max(BatchesOn(F, k))]
    <3>1. OpsOn(b, k) # {}
      BY <2>2, LastBatch
    <3>2. ApplyAll(d, F)[k] = ApplyBatch(d, b)[k] /\ d[k] = ApplyBatch(e, b)[k]
      BY <2>2, AllSets DEF d
    <3> HIDE DEF b
    <3> QED
      BY <3>1, <3>2, BatchSets
  <2> QED
    BY <2>1, <2>2
<1>4. ApplyAll(d, F) = d
    BY <1>1, <1>2, <1>3 DEF Entries
<1> QED
    BY <1>4 DEF d

-----------------------------------------------------------------------------
\* Beginnings of sequences.
LEMMA Beginnings ==
    ASSUME NEW T, NEW s \in Seq(T)
    PROVE  /\ SubSeq(s, 1, Len(s)) = s /\ SubSeq(s, 1, 0) = <<>>
           /\ \A n \in 0..Len(s) : SubSeq(s, 1, n) \in Seq(T) /\ Len(SubSeq(s, 1, n)) = n
           /\ \A n \in 0..Len(s) : \A m \in 0..n : SubSeq(SubSeq(s, 1, n), 1, m) = SubSeq(s, 1, m)
<1>1. SubSeq(s, 1, Len(s)) = s /\ SubSeq(s, 1, 0) = <<>>
    OBVIOUS
<1>2. \A n \in 0..Len(s) : SubSeq(s, 1, n) \in Seq(T) /\ Len(SubSeq(s, 1, n)) = n
    OBVIOUS
<1>3. ASSUME NEW n \in 0..Len(s), NEW m \in 0..n
      PROVE  SubSeq(SubSeq(s, 1, n), 1, m) = SubSeq(s, 1, m)
    OBVIOUS
<1> QED
    BY <1>1, <1>2, <1>3

LEMMA BeginningOfMore ==
    ASSUME NEW T, NEW s \in Seq(T), NEW b \in T
    PROVE  /\ Append(s, b) \in Seq(T) /\ Len(Append(s, b)) = Len(s) + 1 /\ Append(s, b)[Len(s) + 1] = b
           /\ \A n \in 0..Len(s) : SubSeq(Append(s, b), 1, n) = SubSeq(s, 1, n)
    OBVIOUS

LEMMA AllButLast ==
    ASSUME NEW T, NEW s \in Seq(T), Len(s) > 0
    PROVE  s = Append(SubSeq(s, 1, Len(s) - 1), s[Len(s)])
    OBVIOUS

-----------------------------------------------------------------------------
\* The state a history makes, and what replaying n frames of a log makes.
Told(h) == ApplyAll(NoEntries, h)
After(d, n) == ApplyAll(d.snap, SubSeq(d.frames, 1, n))
\* The states a power loss may go back to: those since the last sync.
Acknowledged(h, f, e) == \E m \in f..Len(h) : e = Told(SubSeq(h, 1, m))
\* A log cut to n frames is not refused for its header or its tail.
OpensAt(d, n) == d.tail # "garbled" /\ (d.header = "magic" \/ n = 0)

LogDisks == [snap : Entries, header : {"none", "magic"}, frames : Seq(LogBatches),
             tail : {"whole", "torn", "garbled"}, synced : Nat, undone : Seq(LogBatches)]
LogCopies == [parts : 0..3, entries : Entries \cup {<<>>}, count : Nat, durable : BOOLEAN]
LogSteps == {"idle", "appended", "failed", "compact", "installed", "truncated", "staging", "published"}

\* The log on disk and the history agree: every beginning of the log that a power loss may
\* leave replays to an acknowledged state, the whole log perhaps to one batch more, and so
\* does the log that a truncation has not durably replaced.
Sound(d, h, f, p) ==
    /\ \A n \in d.synced..Len(d.frames) : OpensAt(d, n) =>
          Acknowledged(h, f, After(d, n)) \/ (n = Len(d.frames) /\ After(d, n) = ApplyBatch(Told(h), p))
    /\ d.undone # <<>> => Acknowledged(h, f, d.snap) /\ ApplyAll(d.snap, d.undone) = d.snap

LogShape ==
    /\ disk \in LogDisks /\ disk.synced <= Len(disk.frames)
    /\ handle \in {"down", "open", "poisoned", "leaked"} /\ step \in LogSteps
    /\ pend \in LogBatches /\ hist \in Seq(LogBatches) /\ floor \in 0..Len(hist)
    /\ dest \in LogCopies /\ staging \in LogCopies
MemoryTold == handle # "down" => mem.entries = Told(hist)
FramesTold ==
    /\ handle = "open" /\ step # "appended" => Recovered(disk) = Told(hist)
    /\ handle = "open" /\ step = "appended" =>
          /\ Len(disk.frames) > disk.synced /\ disk.frames[Len(disk.frames)] = pend
          /\ After(disk, Len(disk.frames) - 1) = Told(hist)
    /\ handle \in {"poisoned", "leaked"} => Recovered(disk) \in {Told(hist), ApplyBatch(Told(hist), pend)}
    /\ handle = "down" /\ Readable(disk) => Recovered(disk) = Told(hist)
StepFinds ==
    /\ step # "idle" => handle = "open"
    /\ handle # "down" => disk.tail # "garbled"
    /\ handle \in {"open", "down"} /\ step \notin {"appended", "failed"} => pend = <<>>
    /\ step \in {"compact", "installed"} => disk.synced = Len(disk.frames) /\ disk.undone = <<>>
    /\ step \in {"installed", "truncated"} => disk.snap = Told(hist)
    /\ step = "truncated" => disk.frames = <<>>
    /\ step = "staging" => /\ floor = Len(hist) /\ staging.count = floor
                           /\ staging.parts > 0 => staging.entries = Told(hist)
LogInv ==
    LogShape /\ MemoryTold /\ FramesTold /\ Sound(disk, hist, floor, pend) /\ StepFinds /\ CheckpointWhole

\* A disk by its parts, and what the updates of parts make.
DiskIs(d, sn, he, fr, ta, sy, un) ==
    /\ d \in LogDisks
    /\ d.snap = sn /\ d.header = he /\ d.frames = fr /\ d.tail = ta /\ d.synced = sy /\ d.undone = un
LEMMA DiskParts ==
    ASSUME NEW d \in LogDisks
    PROVE  /\ d.snap \in Entries /\ d.header \in {"none", "magic"} /\ d.frames \in Seq(LogBatches)
           /\ d.tail \in {"whole", "torn", "garbled"} /\ d.synced \in Nat /\ d.undone \in Seq(LogBatches)
           /\ Len(d.frames) \in Nat
    BY DEF LogDisks
LEMMA DiskSnap ==
    ASSUME NEW d \in LogDisks, NEW sn \in Entries
    PROVE  DiskIs([d EXCEPT !.snap = sn],
                  sn, d.header, d.frames, d.tail, d.synced, d.undone)
    BY DEF DiskIs, LogDisks
LEMMA DiskHeader ==
    ASSUME NEW d \in LogDisks, NEW he \in {"none", "magic"}
    PROVE  DiskIs([d EXCEPT !.header = he],
                  d.snap, he, d.frames, d.tail, d.synced, d.undone)
    BY DEF DiskIs, LogDisks
LEMMA DiskFrames ==
    ASSUME NEW d \in LogDisks, NEW fr \in Seq(LogBatches)
    PROVE  DiskIs([d EXCEPT !.frames = fr],
                  d.snap, d.header, fr, d.tail, d.synced, d.undone)
    BY DEF DiskIs, LogDisks
LEMMA DiskTail ==
    ASSUME NEW d \in LogDisks, NEW ta \in {"whole", "torn", "garbled"}
    PROVE  DiskIs([d EXCEPT !.tail = ta],
                  d.snap, d.header, d.frames, ta, d.synced, d.undone)
    BY DEF DiskIs, LogDisks
LEMMA DiskSynced ==
    ASSUME NEW d \in LogDisks, NEW sy \in Nat, NEW un \in Seq(LogBatches)
    PROVE  DiskIs([d EXCEPT !.synced = sy, !.undone = un],
                  d.snap, d.header, d.frames, d.tail, sy, un)
    BY DEF DiskIs, LogDisks
LEMMA DiskCut ==
    ASSUME NEW d \in LogDisks, NEW fr \in Seq(LogBatches), NEW ta \in {"whole", "torn", "garbled"}
    PROVE  DiskIs([d EXCEPT !.frames = fr, !.tail = ta],
                  d.snap, d.header, fr, ta, d.synced, d.undone)
    BY DEF DiskIs, LogDisks
LEMMA DiskOpened ==
    ASSUME NEW d \in LogDisks, NEW he \in {"none", "magic"}, NEW ta \in {"whole", "torn", "garbled"}
    PROVE  DiskIs([d EXCEPT !.header = he, !.tail = ta],
                  d.snap, he, d.frames, ta, d.synced, d.undone)
    BY DEF DiskIs, LogDisks
LEMMA DiskTruncated ==
    ASSUME NEW d \in LogDisks, NEW fr \in Seq(LogBatches), NEW he \in {"none", "magic"}, NEW sy \in Nat, NEW un \in Seq(LogBatches)
    PROVE  DiskIs([d EXCEPT !.frames = fr, !.header = he, !.synced = sy, !.undone = un],
                  d.snap, he, fr, d.tail, sy, un)
    BY DEF DiskIs, LogDisks
LEMMA DiskLost ==
    ASSUME NEW d \in LogDisks, NEW fr \in Seq(LogBatches), NEW ta \in {"whole", "torn", "garbled"}, NEW sy \in Nat, NEW un \in Seq(LogBatches)
    PROVE  DiskIs([d EXCEPT !.frames = fr, !.tail = ta, !.synced = sy, !.undone = un],
                  d.snap, d.header, fr, ta, sy, un)
    BY DEF DiskIs, LogDisks
LEMMA DiskUndone ==
    ASSUME NEW d \in LogDisks, NEW fr \in Seq(LogBatches), NEW he \in {"none", "magic"}, NEW ta \in {"whole", "torn", "garbled"}, NEW sy \in Nat, NEW un \in Seq(LogBatches)
    PROVE  DiskIs([d EXCEPT !.frames = fr, !.header = he, !.tail = ta, !.synced = sy, !.undone = un],
                  d.snap, he, fr, ta, sy, un)
    BY DEF DiskIs, LogDisks

\* The state of a history and of a log.
LEMMA ToldState ==
    /\ NoEntries \in Entries
    /\ \A h \in Seq(LogBatches) : Told(h) \in Entries
    /\ \A h \in Seq(LogBatches) : \A b \in LogBatches : Told(Append(h, b)) = ApplyBatch(Told(h), b)
    /\ \A h \in Seq(LogBatches) : ApplyBatch(Told(h), <<>>) = Told(h)
<1>1. NoEntries \in Entries
    BY DEF NoEntries, Entries, Gone
<1>2. \A h \in Seq(LogBatches) : Told(h) \in Entries
    BY <1>1, AllState DEF Told
<1>3. \A h \in Seq(LogBatches) : \A b \in LogBatches : Told(Append(h, b)) = ApplyBatch(Told(h), b)
    BY <1>1, OneMoreBatch DEF Told
<1> QED
    BY <1>1, <1>2, <1>3, NothingApplied

\* The whole log is the log cut to its length; it opens if that one does.
LEMMA WholeLog ==
    ASSUME NEW d \in LogDisks
    PROVE  /\ After(d, Len(d.frames)) = Recovered(d) /\ After(d, 0) = d.snap
           /\ Readable(d) <=> OpensAt(d, Len(d.frames))
           /\ Recovered(d) \in Entries
<1>1. d.frames \in Seq(LogBatches) /\ d.snap \in Entries
    BY DEF LogDisks
<1>2. SubSeq(d.frames, 1, Len(d.frames)) = d.frames /\ SubSeq(d.frames, 1, 0) = <<>>
    BY <1>1, Beginnings
<1>3. d.frames = <<>> <=> Len(d.frames) = 0
    BY <1>1
<1> QED
    BY <1>1, <1>2, <1>3, AllState, NothingApplied DEF After, Recovered, Readable, OpensAt

\* What the whole history makes is acknowledged.
LEMMA ToldAcknowledged ==
    ASSUME NEW h \in Seq(LogBatches), NEW f \in 0..Len(h)
    PROVE  Acknowledged(h, f, Told(h))
<1>1. SubSeq(h, 1, Len(h)) = h /\ Len(h) \in f..Len(h)
    BY Beginnings
<1> QED
    BY <1>1 DEF Acknowledged

\* A log that is synced when it holds the history is sound.
LEMMA SyncedIsSound ==
    ASSUME NEW d \in LogDisks, NEW h \in Seq(LogBatches), NEW p, Recovered(d) = Told(h)
    PROVE  /\ SyncedDisk(d) \in LogDisks /\ Recovered(SyncedDisk(d)) = Recovered(d)
           /\ SyncedDisk(d).synced = Len(SyncedDisk(d).frames) /\ SyncedDisk(d).undone = <<>>
           /\ SyncedDisk(d).frames = d.frames /\ SyncedDisk(d).snap = d.snap
           /\ SyncedDisk(d).tail = d.tail /\ SyncedDisk(d).header = d.header
           /\ Sound(SyncedDisk(d), h, Len(h), p)
<1>1. /\ SyncedDisk(d) \in LogDisks /\ SyncedDisk(d).synced = Len(SyncedDisk(d).frames) /\ SyncedDisk(d).undone = <<>>
      /\ SyncedDisk(d).frames = d.frames /\ SyncedDisk(d).snap = d.snap
      /\ SyncedDisk(d).tail = d.tail /\ SyncedDisk(d).header = d.header
  <2>1. d.frames \in Seq(LogBatches) /\ Len(d.frames) \in Nat /\ <<>> \in Seq(LogBatches)
    BY DiskParts
  <2>2. DiskIs(SyncedDisk(d), d.snap, d.header, d.frames, d.tail, Len(d.frames), <<>>)
    BY <2>1, DiskSynced DEF SyncedDisk
  <2> QED
    BY <2>2 DEF DiskIs
<1>2. Recovered(SyncedDisk(d)) = Recovered(d)
    BY <1>1 DEF Recovered
<1>3. Len(SyncedDisk(d).frames) \in Nat /\ Len(h) \in Nat
    BY <1>1 DEF LogDisks
<1>4. Acknowledged(h, Len(h), Told(h))
    BY <1>3, ToldAcknowledged
<1>5. After(SyncedDisk(d), Len(SyncedDisk(d).frames)) = Told(h)
    BY <1>1, <1>2, WholeLog
<1>6. \A n \in SyncedDisk(d).synced..Len(SyncedDisk(d).frames) : n = Len(SyncedDisk(d).frames)
    BY <1>1, <1>3
<1> QED
    BY <1>1, <1>2, <1>4, <1>5, <1>6 DEF Sound

\* A history that goes on keeps what it acknowledged.
LEMMA AcknowledgedLater ==
    ASSUME NEW h \in Seq(LogBatches), NEW p \in LogBatches, NEW f \in 0..Len(h), NEW e,
           NEW g \in {h, Append(h, p)}, Acknowledged(h, f, e)
    PROVE  Acknowledged(g, f, e) /\ g \in Seq(LogBatches) /\ f \in 0..Len(g) /\ SubSeq(g, 1, f) = SubSeq(h, 1, f)
<1>1. PICK m \in f..Len(h) : e = Told(SubSeq(h, 1, m))
    BY DEF Acknowledged
<1>2. /\ Append(h, p) \in Seq(LogBatches) /\ Len(Append(h, p)) = Len(h) + 1
      /\ \A n \in 0..Len(h) : SubSeq(Append(h, p), 1, n) = SubSeq(h, 1, n)
    BY BeginningOfMore
<1>3. m \in 0..Len(h) /\ m \in f..Len(g) /\ f \in 0..Len(g) /\ g \in Seq(LogBatches)
    BY <1>2
<1>4. SubSeq(g, 1, m) = SubSeq(h, 1, m) /\ SubSeq(g, 1, f) = SubSeq(h, 1, f)
    BY <1>2, <1>3
<1> QED
    BY <1>1, <1>3, <1>4 DEF Acknowledged

-----------------------------------------------------------------------------
\* What a power loss makes of a disk.
LEMMA LossShape ==
    ASSUME NEW d \in LogDisks, d.synced <= Len(d.frames), NEW e \in PowerLoss(d)
    PROVE  \/ \E n \in d.synced..Len(d.frames) : \E t \in Damage(d, n) :
                 DiskIs(e, d.snap, d.header, SubSeq(d.frames, 1, n), t, n, <<>>)
           \/ d.undone # <<>> /\ DiskIs(e, d.snap, "magic", d.undone, "whole", Len(d.undone), <<>>)
<1>1. CASE \E n \in d.synced..Len(d.frames) : \E t \in Damage(d, n) :
              e = [d EXCEPT !.frames = SubSeq(d.frames, 1, n), !.tail = t, !.synced = n, !.undone = <<>>]
  <2>1. PICK n \in d.synced..Len(d.frames) : \E t \in Damage(d, n) :
              e = [d EXCEPT !.frames = SubSeq(d.frames, 1, n), !.tail = t, !.synced = n, !.undone = <<>>]
    BY <1>1
  <2>2. PICK t \in Damage(d, n) :
              e = [d EXCEPT !.frames = SubSeq(d.frames, 1, n), !.tail = t, !.synced = n, !.undone = <<>>]
    BY <2>1
  <2>3. n \in Nat /\ n \in 0..Len(d.frames) /\ <<>> \in Seq(LogBatches) /\ d.frames \in Seq(LogBatches)
    BY DiskParts
  <2>4. SubSeq(d.frames, 1, n) \in Seq(LogBatches)
    BY <2>3, Beginnings
  <2>5. t \in {"whole", "torn", "garbled"}
    BY DiskParts DEF Damage
  <2>6. DiskIs(e, d.snap, d.header, SubSeq(d.frames, 1, n), t, n, <<>>)
    BY <2>2, <2>3, <2>4, <2>5, DiskLost
  <2> QED
    BY <2>6
<1>2. CASE d.undone # <<>> /\ e = [d EXCEPT !.frames = d.undone, !.header = "magic", !.tail = "whole",
                                            !.synced = Len(d.undone), !.undone = <<>>]
  <2>1. d.undone \in Seq(LogBatches) /\ Len(d.undone) \in Nat /\ <<>> \in Seq(LogBatches)
    BY DiskParts
  <2>2. DiskIs(e, d.snap, "magic", d.undone, "whole", Len(d.undone), <<>>)
    BY <1>2, <2>1, DiskUndone
  <2> QED
    BY <1>2, <2>2
<1>3. (\E n \in d.synced..Len(d.frames) : \E t \in Damage(d, n) :
          e = [d EXCEPT !.frames = SubSeq(d.frames, 1, n), !.tail = t, !.synced = n, !.undone = <<>>])
      \/ (d.undone # <<>> /\ e = [d EXCEPT !.frames = d.undone, !.header = "magic", !.tail = "whole",
                                           !.synced = Len(d.undone), !.undone = <<>>])
  <2> DEFINE Lost(n, t) == [d EXCEPT !.frames = SubSeq(d.frames, 1, n), !.tail = t, !.synced = n, !.undone = <<>>]
             Back(old) == [d EXCEPT !.frames = old, !.header = "magic", !.tail = "whole",
                                    !.synced = Len(old), !.undone = <<>>]
  <2>1. PowerLoss(d) = (UNION {{Lost(n, t) : t \in Damage(d, n)} : n \in d.synced..Len(d.frames)})
                       \cup {Back(old) : old \in {d.undone} \ {<<>>}}
    BY DEF PowerLoss
  <2> HIDE DEF Lost, Back
  <2>2. (\E n \in d.synced..Len(d.frames) : \E t \in Damage(d, n) : e = Lost(n, t))
        \/ (d.undone # <<>> /\ e = Back(d.undone))
    <3>1. CASE e \in UNION {{Lost(n, t) : t \in Damage(d, n)} : n \in d.synced..Len(d.frames)}
      <4>1. PICK n \in d.synced..Len(d.frames) : e \in {Lost(n, t) : t \in Damage(d, n)}
        BY <3>1
      <4> QED
        BY <4>1
    <3>2. CASE e \in {Back(old) : old \in {d.undone} \ {<<>>}}
      BY <3>2
    <3>3. \/ e \in UNION {{Lost(n, t) : t \in Damage(d, n)} : n \in d.synced..Len(d.frames)}
          \/ e \in {Back(old) : old \in {d.undone} \ {<<>>}}
      BY <2>1
    <3> QED
      BY <3>1, <3>2, <3>3
  <2> QED
    BY <2>2 DEF Lost, Back
<1> QED
    BY <1>1, <1>2, <1>3

\* The histories an open may find.
Survivors(h, f, p) == {SubSeq(h, 1, n) : n \in f..Len(h)} \cup {Append(h, p)}
LEMMA LossFinds ==
    ASSUME NEW d \in LogDisks, d.synced <= Len(d.frames), NEW h \in Seq(LogBatches), NEW f \in 0..Len(h),
           NEW p \in LogBatches, Sound(d, h, f, p), NEW e \in PowerLoss(d) \cup {d}, Readable(e)
    PROVE  \E g \in Survivors(h, f, p) : Recovered(e) = Told(g)
<1>1. \A x : Acknowledged(h, f, x) => \E g \in Survivors(h, f, p) : x = Told(g)
    BY DEF Acknowledged, Survivors
<1>2. \E g \in Survivors(h, f, p) : ApplyBatch(Told(h), p) = Told(g)
    BY ToldState DEF Survivors
<1>3. ASSUME NEW n \in d.synced..Len(d.frames), OpensAt(d, n)
      PROVE  \E g \in Survivors(h, f, p) : After(d, n) = Told(g)
  <2>1. Acknowledged(h, f, After(d, n)) \/ After(d, n) = ApplyBatch(Told(h), p)
    BY <1>3 DEF Sound
  <2> QED
    BY <1>1, <1>2, <2>1
<1>4. CASE e = d
  <2>1. Len(d.frames) \in d.synced..Len(d.frames)
    BY DiskParts
  <2> QED
    BY <1>3, <1>4, <2>1, WholeLog
<1>5. ASSUME NEW n \in d.synced..Len(d.frames), NEW t \in Damage(d, n),
             DiskIs(e, d.snap, d.header, SubSeq(d.frames, 1, n), t, n, <<>>)
      PROVE  \E g \in Survivors(h, f, p) : Recovered(e) = Told(g)
  <2>1. Recovered(e) = After(d, n)
    BY <1>5 DEF DiskIs, Recovered, After
  <2>2. t # "garbled" /\ d.tail # "garbled"
    BY <1>5 DEF DiskIs, Readable, Damage
  <2>3. d.header = "magic" \/ SubSeq(d.frames, 1, n) = <<>>
    BY <1>5 DEF DiskIs, Readable
  <2>4. n \in 0..Len(d.frames) /\ Len(SubSeq(d.frames, 1, n)) = n
    <3>1. d.frames \in Seq(LogBatches) /\ n \in 0..Len(d.frames)
      BY DiskParts
    <3> QED
      BY <3>1, Beginnings
  <2>5. OpensAt(d, n)
    <3>1. SubSeq(d.frames, 1, n) = <<>> => n = 0
      BY <2>4
    <3> QED
      BY <2>2, <2>3, <3>1 DEF OpensAt
  <2> QED
    BY <1>3, <2>1, <2>5
<1>6. CASE d.undone # <<>> /\ DiskIs(e, d.snap, "magic", d.undone, "whole", Len(d.undone), <<>>)
  <2>1. Recovered(e) = d.snap /\ Acknowledged(h, f, d.snap)
    BY <1>6 DEF DiskIs, Recovered, Sound
  <2> QED
    BY <1>1, <2>1
<1> QED
    BY <1>4, <1>5, <1>6, LossShape

\* The histories that explain a state; one of them is the longest.
Kept(h, p, x) == {g \in Prefixes(h) \cup {Append(h, p)} : ApplyAll(NoEntries, g) = x}
LEMMA LongestKept ==
    ASSUME NEW h \in Seq(LogBatches), NEW p \in LogBatches, NEW kept \in SUBSET (Prefixes(h) \cup {Append(h, p)}),
           kept # {}
    PROVE  \E x \in kept : \A y \in kept : Len(y) <= Len(x)
<1>1. \A x \in kept : x \in Seq(LogBatches) /\ Len(x) \in 0..Len(h) + 1
  <2>1. \A n \in 0..Len(h) : SubSeq(h, 1, n) \in Seq(LogBatches) /\ Len(SubSeq(h, 1, n)) = n
    BY Beginnings
  <2>2. \A x \in Prefixes(h) : x \in Seq(LogBatches) /\ Len(x) \in 0..Len(h) + 1
    BY <2>1 DEF Prefixes
  <2>3. Append(h, p) \in Seq(LogBatches) /\ Len(Append(h, p)) \in 0..Len(h) + 1
    BY BeginningOfMore
  <2> QED
    BY <2>2, <2>3
<1> DEFINE S == {Len(x) + 1 : x \in kept}
<1>2. Len(h) + 2 \in Nat /\ S \in SUBSET (1..Len(h) + 2) /\ S # {}
    BY <1>1
<1>3. Max(S) \in S /\ \A j \in S : j <= Max(S)
    BY <1>2, LastPosition
<1>4. PICK x \in kept : Max(S) = Len(x) + 1
    BY <1>3
<1>5. \A y \in kept : Len(y) <= Len(x)
  <2> SUFFICES ASSUME NEW y \in kept PROVE Len(y) <= Len(x)
    OBVIOUS
  <2>1. Len(y) + 1 \in S
    OBVIOUS
  <2>2. Len(y) \in Nat /\ Len(x) \in Nat
    BY <1>1
  <2> HIDE DEF S
  <2>3. Len(y) + 1 <= Len(x) + 1
    BY <1>3, <1>4, <2>1
  <2> QED
    BY <2>2, <2>3
<1> QED
    BY <1>5

\* The history after a crash: it makes what the disk recovers to, and keeps what was synced.
LEMMA CrashHistory ==
    ASSUME NEW h \in Seq(LogBatches), NEW f \in 0..Len(h), NEW p \in LogBatches, NEW x,
           NEW g \in Survivors(h, f, p), x = Told(g), NEW c \in Kept(h, p, x), \A y \in Kept(h, p, x) : Len(y) <= Len(c)
    PROVE  /\ c \in Seq(LogBatches) /\ Told(c) = x /\ Len(c) >= Len(g) /\ Len(g) \in Nat /\ f <= Len(c)
           /\ SubSeq(c, 1, f) = SubSeq(h, 1, f)
           /\ c = Append(h, p) \/ (Len(c) <= Len(h) /\ c = SubSeq(h, 1, Len(c)))
<1>1. /\ SubSeq(h, 1, Len(h)) = h
      /\ \A n \in 0..Len(h) : SubSeq(h, 1, n) \in Seq(LogBatches) /\ Len(SubSeq(h, 1, n)) = n
      /\ \A n \in 0..Len(h) : \A m \in 0..n : SubSeq(SubSeq(h, 1, n), 1, m) = SubSeq(h, 1, m)
    BY Beginnings
<1>2. /\ Append(h, p) \in Seq(LogBatches) /\ Len(Append(h, p)) = Len(h) + 1
      /\ \A n \in 0..Len(h) : SubSeq(Append(h, p), 1, n) = SubSeq(h, 1, n)
    BY BeginningOfMore
<1>3. g \in Kept(h, p, x) /\ Len(g) \in Nat /\ Len(g) >= f
  <2>1. CASE g = Append(h, p)
    BY <1>2, <2>1 DEF Told, Kept
  <2>2. CASE g # Append(h, p)
    <3>1. PICK n \in f..Len(h) : g = SubSeq(h, 1, n)
      BY <2>2 DEF Survivors
    <3>2. n \in 0..Len(h)
      OBVIOUS
    <3> QED
      BY <1>1, <3>1, <3>2 DEF Told, Prefixes, Kept
  <2> QED
    BY <2>1, <2>2
<1>4. Len(g) <= Len(c)
    BY <1>3
<1>5. c = Append(h, p) \/ \E n \in 0..Len(h) : c = SubSeq(h, 1, n)
    BY DEF Prefixes, Kept
<1>6. /\ c \in Seq(LogBatches) /\ Len(c) \in Nat
      /\ c = Append(h, p) \/ (Len(c) <= Len(h) /\ c = SubSeq(h, 1, Len(c)))
  <2>1. CASE c = Append(h, p)
    BY <1>2, <2>1
  <2>2. ASSUME NEW n \in 0..Len(h), c = SubSeq(h, 1, n)
        PROVE  c \in Seq(LogBatches) /\ Len(c) \in Nat /\ Len(c) <= Len(h) /\ c = SubSeq(h, 1, Len(c))
    <3>1. c \in Seq(LogBatches) /\ Len(c) = n
      BY <1>1, <2>2
    <3> QED
      BY <2>2, <3>1
  <2> QED
    BY <1>5, <2>1, <2>2
<1>7. f <= Len(c)
    BY <1>3, <1>4, <1>6
<1>8. SubSeq(c, 1, f) = SubSeq(h, 1, f)
  <2>1. CASE c = Append(h, p)
    BY <1>2, <2>1
  <2>2. CASE Len(c) <= Len(h) /\ c = SubSeq(h, 1, Len(c))
    <3>0. Len(h) \in Nat /\ f \in Nat
      OBVIOUS
    <3>2. Len(c) \in Nat /\ Len(c) <= Len(h)
      BY ONLY <1>6, <2>2
    <3>1. Len(c) \in 0..Len(h) /\ f \in 0..Len(c)
      BY ONLY <1>7, <3>0, <3>2
    <3> QED
      BY <1>1, <2>2, <3>1
  <2> QED
    BY <1>6, <2>1, <2>2
<1> QED
    BY <1>3, <1>4, <1>6, <1>7, <1>8 DEF Told, Kept

-----------------------------------------------------------------------------
\* Ways in which the log and the history change and stay sound.  A disk that opens for
\* no more lengths than before:
LEMMA SoundSame ==
    ASSUME NEW d \in LogDisks, NEW e, NEW h, NEW f, NEW p, Sound(d, h, f, p),
           e.snap = d.snap, e.frames = d.frames, e.synced = d.synced, e.undone = d.undone,
           \A n \in d.synced..Len(d.frames) : OpensAt(e, n) => OpensAt(d, n)
    PROVE  Sound(e, h, f, p)
<1>1. \A n : After(e, n) = After(d, n)
    BY DEF After
<1> QED
    BY <1>1 DEF Sound

\* The history takes in the batch in flight, or gives it up for another one.
LEMMA SoundLater ==
    ASSUME NEW d \in LogDisks, NEW h \in Seq(LogBatches), NEW f \in 0..Len(h), NEW p \in LogBatches,
           Sound(d, h, f, p), NEW g \in {h, Append(h, p)}, Readable(d) => Recovered(d) = Told(g), NEW q
    PROVE  Sound(d, g, f, q)
<1>1. \A e : Acknowledged(h, f, e) => Acknowledged(g, f, e)
    BY AcknowledgedLater
<1>2. g \in Seq(LogBatches) /\ f \in 0..Len(g)
    BY BeginningOfMore
<1>3. Acknowledged(g, f, Told(g))
    BY <1>2, ToldAcknowledged
<1>4. OpensAt(d, Len(d.frames)) => After(d, Len(d.frames)) = Told(g)
    BY WholeLog
<1> QED
    BY <1>1, <1>3, <1>4 DEF Sound

\* A frame is appended to a log that holds the history.
LEMMA SoundAppend ==
    ASSUME NEW d \in LogDisks, NEW h \in Seq(LogBatches), NEW f \in 0..Len(h), NEW p \in LogBatches, NEW b \in LogBatches,
           Sound(d, h, f, p), Recovered(d) = Told(h), NEW e,
           DiskIs(e, d.snap, d.header, Append(d.frames, b), d.tail, d.synced, d.undone)
    PROVE  /\ Sound(e, h, f, b) /\ Len(e.frames) = Len(d.frames) + 1 /\ e.frames[Len(e.frames)] = b
           /\ After(e, Len(e.frames) - 1) = Told(h)
<1>1. Sound(d, h, f, b)
    BY SoundLater
<1>2. d.frames \in Seq(LogBatches) /\ d.synced \in Nat /\ Len(d.frames) \in Nat /\ d.snap \in Entries
    BY DiskParts
<1>3. /\ e.snap = d.snap /\ e.frames = Append(d.frames, b) /\ e.synced = d.synced /\ e.undone = d.undone
      /\ e.tail = d.tail /\ e.header = d.header
    BY DEF DiskIs
<1>4. /\ Len(Append(d.frames, b)) = Len(d.frames) + 1 /\ Append(d.frames, b)[Len(d.frames) + 1] = b
      /\ \A n \in 0..Len(d.frames) : SubSeq(Append(d.frames, b), 1, n) = SubSeq(d.frames, 1, n)
    BY <1>2, BeginningOfMore
<1>5. \A n \in 0..Len(d.frames) : After(e, n) = After(d, n)
    BY <1>3, <1>4 DEF After
<1>6. After(d, Len(d.frames)) = Told(h)
    BY WholeLog
<1>7. After(e, Len(d.frames) + 1) = ApplyBatch(Told(h), b)
  <2>1. SubSeq(e.frames, 1, Len(d.frames) + 1) = Append(d.frames, b)
    <3>1. Append(d.frames, b) \in Seq(LogBatches)
      BY <1>2
    <3> QED
      BY <1>3, <1>4, <3>1, Beginnings
  <2>2. After(e, Len(d.frames) + 1) = ApplyAll(d.snap, Append(d.frames, b))
    BY <1>3, <2>1 DEF After
  <2>3. ApplyAll(d.snap, Append(d.frames, b)) = ApplyBatch(ApplyAll(d.snap, d.frames), b)
    BY <1>2, OneMoreBatch
  <2> QED
    BY <2>2, <2>3 DEF Recovered
<1>8. Acknowledged(h, f, Told(h))
    BY ToldAcknowledged
<1>9. ASSUME NEW n \in e.synced..Len(e.frames), OpensAt(e, n)
      PROVE  Acknowledged(h, f, After(e, n)) \/ (n = Len(e.frames) /\ After(e, n) = ApplyBatch(Told(h), b))
  <2>1. Len(e.frames) = Len(d.frames) + 1
    BY <1>3, <1>4
  <2>2. CASE n = Len(d.frames) + 1
    BY <1>7, <2>1, <2>2
  <2>3. CASE n = Len(d.frames)
    <3>1. n \in 0..Len(d.frames)
      BY <1>2, <2>3
    <3> QED
      BY <1>5, <1>6, <1>8, <2>3, <3>1
  <2>4. CASE n < Len(d.frames)
    <3>1. n \in d.synced..Len(d.frames) /\ n \in 0..Len(d.frames) /\ n # Len(d.frames)
      BY <1>2, <1>3, <2>4
    <3>2. OpensAt(d, n)
      BY <1>3, <1>9 DEF OpensAt
    <3>3. Acknowledged(h, f, After(d, n))
      BY <1>1, <3>1, <3>2 DEF Sound
    <3> QED
      BY <1>5, <3>1, <3>3
  <2>5. n = Len(d.frames) + 1 \/ n = Len(d.frames) \/ n < Len(d.frames)
    BY <1>2, <1>3, <2>1
  <2> QED
    BY <2>2, <2>3, <2>4, <2>5
<1>10. e.undone # <<>> => Acknowledged(h, f, e.snap) /\ ApplyAll(e.snap, e.undone) = e.snap
    BY <1>1, <1>3 DEF Sound
<1>11. Sound(e, h, f, b)
    BY <1>9, <1>10 DEF Sound
<1>12. Len(e.frames) = Len(d.frames) + 1 /\ e.frames[Len(e.frames)] = b
    BY <1>3, <1>4
<1>13. Len(e.frames) - 1 = Len(d.frames) /\ Len(d.frames) \in 0..Len(d.frames)
    BY <1>2, <1>12
<1> QED
    BY <1>5, <1>6, <1>11, <1>12, <1>13

\* The last frame, not synced yet, is cut off.
LEMMA SoundCut ==
    ASSUME NEW d \in LogDisks, NEW h \in Seq(LogBatches), NEW f \in 0..Len(h), NEW p \in LogBatches,
           Sound(d, h, f, p), d.synced < Len(d.frames), d.tail # "garbled", NEW e,
           DiskIs(e, d.snap, d.header, SubSeq(d.frames, 1, Len(d.frames) - 1), "whole", d.synced, d.undone)
    PROVE  /\ Sound(e, h, f, p) /\ Len(e.frames) = Len(d.frames) - 1
           /\ Recovered(e) = After(d, Len(d.frames) - 1)
<1>1. d.frames \in Seq(LogBatches) /\ d.synced \in Nat /\ Len(d.frames) \in Nat /\ d.snap \in Entries
    BY DiskParts
<1>2. /\ e.snap = d.snap /\ e.frames = SubSeq(d.frames, 1, Len(d.frames) - 1) /\ e.synced = d.synced
      /\ e.undone = d.undone /\ e.tail = "whole" /\ e.header = d.header
    BY DEF DiskIs
<1>3. Len(d.frames) - 1 \in 0..Len(d.frames)
    BY <1>1
<1>4. /\ Len(SubSeq(d.frames, 1, Len(d.frames) - 1)) = Len(d.frames) - 1
      /\ \A m \in 0..Len(d.frames) - 1 : SubSeq(SubSeq(d.frames, 1, Len(d.frames) - 1), 1, m) = SubSeq(d.frames, 1, m)
    BY <1>1, <1>3, Beginnings
<1>5. \A n \in 0..Len(d.frames) - 1 : After(e, n) = After(d, n)
    BY <1>2, <1>4 DEF After
<1>6. ASSUME NEW n \in e.synced..Len(e.frames), OpensAt(e, n)
      PROVE  Acknowledged(h, f, After(e, n))
  <2>1. n \in d.synced..Len(d.frames) /\ n # Len(d.frames) /\ n \in 0..Len(d.frames) - 1
    BY <1>1, <1>2, <1>4
  <2>2. OpensAt(d, n)
    BY <1>2, <1>6 DEF OpensAt
  <2>3. Acknowledged(h, f, After(d, n))
    BY <2>1, <2>2 DEF Sound
  <2> QED
    BY <1>5, <2>1, <2>3
<1>7. e.undone # <<>> => Acknowledged(h, f, e.snap) /\ ApplyAll(e.snap, e.undone) = e.snap
    BY <1>2 DEF Sound
<1>8. Sound(e, h, f, p)
    BY <1>6, <1>7 DEF Sound
<1>9. Recovered(e) = After(d, Len(d.frames) - 1)
    BY <1>2 DEF Recovered, After
<1> QED
    BY <1>2, <1>4, <1>8, <1>9

\* A snapshot of the history is installed under a synced log that holds it.
LEMMA SoundSnapshot ==
    ASSUME NEW d \in LogDisks, NEW h \in Seq(LogBatches), NEW f \in 0..Len(h), NEW p,
           Recovered(d) = Told(h), d.synced = Len(d.frames), d.undone = <<>>, NEW e,
           DiskIs(e, Told(h), d.header, d.frames, d.tail, d.synced, d.undone)
    PROVE  Sound(e, h, f, p) /\ Recovered(e) = Told(h)
<1>1. /\ e.snap = Told(h) /\ e.frames = d.frames /\ e.synced = d.synced /\ e.undone = <<>> /\ e \in LogDisks
    BY DEF DiskIs
<1>2. d.frames \in Seq(LogBatches) /\ Len(d.frames) \in Nat /\ d.snap \in Entries
    BY DiskParts
<1>3. Recovered(e) = Told(h)
    BY <1>1, <1>2, ReplayedTwice DEF Recovered
<1>4. After(e, Len(e.frames)) = Told(h)
    BY <1>1, <1>3, WholeLog
<1>5. Acknowledged(h, f, Told(h))
    BY ToldAcknowledged
<1>6. \A n \in e.synced..Len(e.frames) : n = Len(e.frames)
    BY <1>1, <1>2
<1> QED
    BY <1>1, <1>3, <1>4, <1>5, <1>6 DEF Sound

\* The log is emptied over a snapshot of the history.
LEMMA SoundTruncate ==
    ASSUME NEW d \in LogDisks, NEW h \in Seq(LogBatches), NEW f \in 0..Len(h), NEW p,
           Recovered(d) = Told(h), d.snap = Told(h), NEW u \in {<<>>, d.frames}, NEW e,
           DiskIs(e, d.snap, "none", <<>>, d.tail, 0, u)
    PROVE  Sound(e, h, f, p) /\ Recovered(e) = Told(h)
<1>1. /\ e.snap = Told(h) /\ e.frames = <<>> /\ e.synced = 0 /\ e.undone = u /\ e \in LogDisks
    BY DEF DiskIs
<1>2. Told(h) \in Entries
    BY ToldState
<1>3. Recovered(e) = Told(h)
    BY <1>1, <1>2, NothingApplied DEF Recovered
<1>4. After(e, 0) = Told(h) /\ Len(e.frames) = 0
    BY <1>1, WholeLog
<1>5. Acknowledged(h, f, Told(h))
    BY ToldAcknowledged
<1>6. u # <<>> => ApplyAll(e.snap, u) = e.snap
    BY <1>1 DEF Recovered
<1>7. \A n \in e.synced..Len(e.frames) : n = 0
    BY <1>1, <1>4
<1> QED
    BY <1>1, <1>3, <1>4, <1>5, <1>6, <1>7 DEF Sound

-----------------------------------------------------------------------------
\* A checkpoint stays what it was while the synced history only grows.
LEMMA DestKept ==
    ASSUME LogShape, CheckpointWhole, hist' \in Seq(LogBatches), floor' \in Nat, floor <= floor', floor <= Len(hist'),
           SubSeq(hist', 1, floor) = SubSeq(hist, 1, floor),
           dest'.parts = 0 \/ (dest'.parts = dest.parts /\ dest'.entries = dest.entries /\ dest'.count = dest.count)
    PROVE  CheckpointWhole'
<1>1. CASE dest'.parts = 0
    BY <1>1 DEF CheckpointWhole
<1>2. CASE dest'.parts # 0 /\ dest.parts # 0 /\ dest'.parts = dest.parts /\ dest'.entries = dest.entries /\ dest'.count = dest.count
  <2>1. dest.parts > 0 /\ dest.count \in Nat /\ floor \in 0..Len(hist) /\ hist \in Seq(LogBatches)
    BY <1>2 DEF LogShape, LogCopies
  <2>2. /\ dest.parts = 3 /\ dest.count <= floor
        /\ dest.entries = ApplyAll(NoEntries, SubSeq(hist, 1, dest.count))
    BY <2>1 DEF CheckpointWhole
  <2>3. SubSeq(SubSeq(hist, 1, floor), 1, dest.count) = SubSeq(hist, 1, dest.count)
    <3>1. dest.count \in 0..floor
      BY <2>1, <2>2
    <3> QED
      BY <2>1, <3>1, Beginnings
  <2>4. SubSeq(SubSeq(hist', 1, floor), 1, dest.count) = SubSeq(hist', 1, dest.count)
    <3>1. dest.count \in 0..floor /\ floor \in 0..Len(hist')
      BY <2>1, <2>2
    <3> QED
      BY <3>1, Beginnings
  <2>5. dest'.entries = ApplyAll(NoEntries, SubSeq(hist', 1, dest'.count))
    BY <1>2, <2>2, <2>3, <2>4
  <2>6. dest'.parts = 3 /\ dest'.count <= floor'
    BY <1>2, <2>1, <2>2
  <2> QED
    BY <2>5, <2>6 DEF CheckpointWhole
<1> QED
    BY <1>1, <1>2

\* The same when neither the history nor the checkpoint changes.
LEMMA DestSame ==
    ASSUME LogShape, CheckpointWhole, hist' = hist, floor' \in floor..Len(hist), dest' = dest
    PROVE  CheckpointWhole'
<1>1. hist' \in Seq(LogBatches) /\ floor' \in Nat /\ floor <= floor' /\ floor <= Len(hist')
    BY DEF LogShape
<1>2. SubSeq(hist', 1, floor) = SubSeq(hist, 1, floor)
    OBVIOUS
<1> QED
    BY <1>1, <1>2, DestKept

\* The parts of the invariant that a step leaves alone.
LEMMA LogStutter == LogInv /\ UNCHANGED logVars => LogInv'
<1> SUFFICES ASSUME LogInv, UNCHANGED logVars PROVE LogInv'
    OBVIOUS
<1> QED
    BY DEF logVars, LogInv, LogShape, MemoryTold, FramesTold, StepFinds, CheckpointWhole

\* Writing a frame, or part of it.
LEMMA AppendStep == ASSUME LogInv, NEW b \in Batches, Append1(b) PROVE LogInv'
<1>1. /\ handle = "open" /\ step = "idle" /\ pend' = b
      /\ mem' = mem /\ handle' = handle /\ dest' = dest /\ staging' = staging /\ hist' = hist /\ floor' = floor
    BY DEF Append1, LogIdle
<1>2. LogShape /\ MemoryTold /\ FramesTold /\ Sound(disk, hist, floor, pend) /\ StepFinds /\ CheckpointWhole
    BY DEF LogInv
<1>3. /\ disk \in LogDisks /\ disk.synced <= Len(disk.frames) /\ floor \in 0..Len(hist) /\ pend \in LogBatches
      /\ hist \in Seq(LogBatches)
    BY <1>2 DEF LogShape
<1>4. b \in LogBatches
    BY RustLogAssumption DEF LogBatches, LogOps
<1>5. Recovered(disk) = Told(hist) /\ disk.tail # "garbled"
    BY <1>1, <1>2 DEF FramesTold, StepFinds
<1>6. MemoryTold' /\ CheckpointWhole'
    BY <1>1, <1>2 DEF MemoryTold, CheckpointWhole
<1>7. CASE disk' = [disk EXCEPT !.frames = Append(disk.frames, b)] /\ step' = "appended"
  <2>1. DiskIs(disk', disk.snap, disk.header, Append(disk.frames, b), disk.tail, disk.synced, disk.undone)
    <3>1. Append(disk.frames, b) \in Seq(LogBatches)
      BY <1>3, <1>4, DiskParts
    <3> QED
      BY <1>3, <1>7, <3>1, DiskFrames
  <2>2. /\ Sound(disk', hist, floor, b) /\ Len(disk'.frames) = Len(disk.frames) + 1 /\ disk'.frames[Len(disk'.frames)] = b
        /\ After(disk', Len(disk'.frames) - 1) = Told(hist)
    BY <1>2, <1>3, <1>4, <1>5, <2>1, SoundAppend
  <2>3. disk' \in LogDisks /\ disk'.synced = disk.synced /\ disk'.tail = disk.tail
    BY <2>1 DEF DiskIs
  <2>4. disk'.synced < Len(disk'.frames)
    BY <1>3, <2>2, <2>3, DiskParts
  <2>5. LogShape'
    BY <1>1, <1>2, <1>4, <1>7, <2>3, <2>4, DiskParts DEF LogShape, LogSteps
  <2>6. FramesTold'
    BY <1>1, <1>7, <2>2, <2>4 DEF FramesTold
  <2>7. StepFinds'
    BY <1>1, <1>5, <1>7, <2>3 DEF StepFinds
  <2>8. Sound(disk', hist', floor', pend')
    BY <1>1, <2>2
  <2> QED
    BY <1>6, <2>5, <2>6, <2>7, <2>8 DEF LogInv
<1>8. CASE disk' = [disk EXCEPT !.tail = "torn"] /\ step' = "failed"
  <2>1. DiskIs(disk', disk.snap, disk.header, disk.frames, "torn", disk.synced, disk.undone)
    BY <1>3, <1>8, DiskTail
  <2>2. /\ disk' \in LogDisks /\ disk'.snap = disk.snap /\ disk'.header = disk.header /\ disk'.frames = disk.frames
        /\ disk'.tail = "torn" /\ disk'.synced = disk.synced /\ disk'.undone = disk.undone
    BY <2>1 DEF DiskIs
  <2>3. Sound(disk, hist, floor, b)
    BY <1>2, <1>3, <1>5, SoundLater
  <2>4. Sound(disk', hist', floor', pend')
    <3>1. \A n \in disk.synced..Len(disk.frames) : OpensAt(disk', n) => OpensAt(disk, n)
      BY <1>5, <2>2 DEF OpensAt
    <3> QED
      BY <1>1, <1>3, <2>2, <2>3, <3>1, SoundSame
  <2>5. LogShape'
    BY <1>1, <1>2, <1>4, <1>8, <2>2 DEF LogShape, LogSteps
  <2>6. FramesTold'
    BY <1>1, <1>5, <1>8, <2>2 DEF FramesTold, Recovered
  <2>7. StepFinds'
    BY <1>1, <1>8, <2>2 DEF StepFinds
  <2> QED
    BY <1>6, <2>4, <2>5, <2>6, <2>7 DEF LogInv
<1> QED
    BY <1>7, <1>8 DEF Append1

\* The log without the frame in flight holds the history.
LEMMA WithoutFrameHolds ==
    ASSUME LogInv, handle = "open", step \in {"appended", "failed"}
    PROVE  /\ WithoutFrame \in LogDisks /\ WithoutFrame.synced <= Len(WithoutFrame.frames) /\ WithoutFrame.tail = "whole"
           /\ Recovered(WithoutFrame) = Told(hist) /\ Sound(WithoutFrame, hist, floor, pend)
<1>1. LogShape /\ FramesTold /\ Sound(disk, hist, floor, pend) /\ StepFinds
    BY DEF LogInv
<1>2. /\ disk \in LogDisks /\ disk.synced <= Len(disk.frames) /\ floor \in 0..Len(hist) /\ pend \in LogBatches
      /\ hist \in Seq(LogBatches) /\ disk.tail # "garbled"
    BY <1>1 DEF LogShape, StepFinds
<1>3. disk.frames \in Seq(LogBatches) /\ Len(disk.frames) \in Nat /\ disk.synced \in Nat
    BY <1>2, DiskParts
<1>4. CASE step = "appended"
  <2>1. disk.synced < Len(disk.frames) /\ After(disk, Len(disk.frames) - 1) = Told(hist)
    BY <1>1, <1>4 DEF FramesTold
  <2>2. SubSeq(disk.frames, 1, Len(disk.frames) - 1) \in Seq(LogBatches)
    <3>1. Len(disk.frames) - 1 \in 0..Len(disk.frames)
      BY <1>3, <2>1
    <3> QED
      BY <1>3, <3>1, Beginnings
  <2>3. WithoutFrame = [disk EXCEPT !.frames = SubSeq(disk.frames, 1, Len(disk.frames) - 1), !.tail = "whole"]
    BY <1>4 DEF WithoutFrame, Front
  <2>4. DiskIs(WithoutFrame, disk.snap, disk.header, SubSeq(disk.frames, 1, Len(disk.frames) - 1), "whole",
               disk.synced, disk.undone)
    BY <1>2, <2>2, <2>3, DiskCut
  <2>5. /\ Sound(WithoutFrame, hist, floor, pend) /\ Len(WithoutFrame.frames) = Len(disk.frames) - 1
        /\ Recovered(WithoutFrame) = After(disk, Len(disk.frames) - 1)
    BY <1>1, <1>2, <2>1, <2>4, SoundCut
  <2>6. WithoutFrame \in LogDisks /\ WithoutFrame.synced = disk.synced /\ WithoutFrame.tail = "whole"
    BY <2>4 DEF DiskIs
  <2> QED
    BY <1>3, <2>1, <2>5, <2>6
<1>5. CASE step = "failed"
  <2>1. WithoutFrame = [disk EXCEPT !.frames = disk.frames, !.tail = "whole"]
    BY <1>5 DEF WithoutFrame
  <2>2. DiskIs(WithoutFrame, disk.snap, disk.header, disk.frames, "whole", disk.synced, disk.undone)
    BY <1>2, <1>3, <2>1, DiskCut
  <2>3. /\ WithoutFrame \in LogDisks /\ WithoutFrame.snap = disk.snap /\ WithoutFrame.header = disk.header
        /\ WithoutFrame.frames = disk.frames /\ WithoutFrame.tail = "whole" /\ WithoutFrame.synced = disk.synced
        /\ WithoutFrame.undone = disk.undone
    BY <2>2 DEF DiskIs
  <2>4. Recovered(WithoutFrame) = Told(hist)
    BY <1>1, <1>5, <2>3 DEF FramesTold, Recovered
  <2>5. \A n \in disk.synced..Len(disk.frames) : OpensAt(WithoutFrame, n) => OpensAt(disk, n)
    BY <1>2, <2>3 DEF OpensAt
  <2>6. Sound(WithoutFrame, hist, floor, pend)
    BY <1>1, <1>2, <2>3, <2>5, SoundSame
  <2> QED
    BY <1>2, <2>3, <2>4, <2>6
<1> QED
    BY <1>4, <1>5

\* A sync of a log that holds the history makes all of the history durable.
LEMMA SyncStep ==
    ASSUME LogShape, CheckpointWhole, NEW d \in LogDisks, Recovered(d) = Told(hist), d.tail # "garbled",
           disk' = SyncedDisk(d), floor' = Len(hist), hist' = hist
    PROVE  /\ disk' \in LogDisks /\ disk'.synced <= Len(disk'.frames) /\ floor' \in 0..Len(hist') /\ disk'.tail # "garbled"
           /\ Recovered(disk') = Told(hist') /\ Sound(disk', hist', floor', pend')
           /\ disk'.frames = d.frames /\ disk'.snap = d.snap /\ disk'.synced = Len(disk'.frames) /\ disk'.undone = <<>>
           /\ dest' = dest => CheckpointWhole'
<1>1. hist \in Seq(LogBatches) /\ Len(hist) \in Nat /\ floor \in 0..Len(hist)
    BY DEF LogShape
<1>2. /\ SyncedDisk(d) \in LogDisks /\ Recovered(SyncedDisk(d)) = Recovered(d)
      /\ SyncedDisk(d).synced = Len(SyncedDisk(d).frames) /\ SyncedDisk(d).tail = d.tail
      /\ Sound(SyncedDisk(d), hist, Len(hist), pend')
      /\ SyncedDisk(d).frames = d.frames /\ SyncedDisk(d).snap = d.snap /\ SyncedDisk(d).undone = <<>>
    BY <1>1, SyncedIsSound
<1>3. disk'.synced <= Len(disk'.frames)
    BY <1>2, DiskParts
<1>4. dest' = dest => CheckpointWhole'
    BY <1>1, DestSame
<1> QED
    BY <1>1, <1>2, <1>3, <1>4

\* Opening: what is read is the history, whatever the tail; an open that writes
\* the header syncs what it found.
LEMMA OpenStep == ASSUME LogInv, OpenGeneration PROVE LogInv'
<1> DEFINE D == [disk EXCEPT !.header = "magic", !.tail = "whole"]
<1>1. /\ handle = "down" /\ Readable(disk) /\ handle' = "open" /\ mem'.entries = Recovered(disk)
      /\ disk' = (IF disk.header = "none" THEN SyncedDisk(D) ELSE D)
      /\ floor' = (IF disk.header = "none" THEN Len(hist) ELSE floor)
      /\ step' = step /\ pend' = pend /\ dest' = dest /\ staging' = staging /\ hist' = hist
    BY DEF OpenGeneration, RecoveredDisk
<1>2. LogShape /\ FramesTold /\ Sound(disk, hist, floor, pend) /\ StepFinds /\ CheckpointWhole
    BY DEF LogInv
<1>3. disk \in LogDisks /\ disk.synced <= Len(disk.frames) /\ floor \in 0..Len(hist)
    BY <1>2 DEF LogShape
<1>4. DiskIs(D, disk.snap, "magic", disk.frames, "whole", disk.synced, disk.undone)
    BY <1>3, DiskOpened
<1> HIDE DEF D
<1>5. /\ D \in LogDisks /\ D.snap = disk.snap /\ D.header = "magic" /\ D.frames = disk.frames
      /\ D.tail = "whole" /\ D.synced = disk.synced /\ D.undone = disk.undone
    BY <1>4 DEF DiskIs
<1>6. step = "idle" /\ pend = <<>>
    BY <1>1, <1>2 DEF StepFinds
<1>7. Recovered(disk) = Told(hist) /\ Recovered(D) = Told(hist)
    BY <1>1, <1>2, <1>5 DEF FramesTold, Recovered
<1>8. /\ disk' \in LogDisks /\ disk'.synced <= Len(disk'.frames) /\ floor' \in 0..Len(hist') /\ disk'.tail # "garbled"
      /\ Recovered(disk') = Told(hist') /\ Sound(disk', hist', floor', pend') /\ CheckpointWhole'
  <2>1. CASE disk.header = "none"
    BY <1>1, <1>2, <1>5, <1>7, <2>1, SyncStep
  <2>2. CASE disk.header # "none"
    <3>1. disk' = D /\ floor' = floor
      BY <1>1, <2>2
    <3>2. \A n \in disk.synced..Len(disk.frames) : OpensAt(disk, n)
      <4>1. disk.tail # "garbled" /\ (disk.header = "magic" \/ disk.frames = <<>>)
        BY <1>1 DEF Readable
      <4>2. disk.frames = <<>> => Len(disk.frames) = 0
        OBVIOUS
      <4> QED
        BY <1>3, <4>1, <4>2, DiskParts DEF OpensAt
    <3>3. Sound(D, hist, floor, pend)
      BY <1>2, <1>3, <1>5, <3>2, SoundSame
    <3>4. CheckpointWhole'
      BY <1>1, <1>2, <3>1 DEF CheckpointWhole
    <3> QED
      BY <1>1, <1>3, <1>5, <1>7, <3>1, <3>3, <3>4
  <2> QED
    BY <2>1, <2>2
<1>9. LogShape'
    BY <1>1, <1>2, <1>8 DEF LogShape
<1>10. MemoryTold' /\ FramesTold' /\ StepFinds'
    BY <1>1, <1>6, <1>7, <1>8 DEF MemoryTold, FramesTold, StepFinds
<1> QED
    BY <1>8, <1>9, <1>10 DEF LogInv

LEMMA RollbackWalStep == ASSUME LogInv, RollbackWal PROVE LogInv'
<1>1. /\ handle = "open" /\ step \in {"appended", "failed"} /\ disk' = SyncedDisk(WithoutFrame) /\ step' = "idle"
      /\ pend' = <<>> /\ floor' = Len(hist)
      /\ mem' = mem /\ handle' = handle /\ dest' = dest /\ staging' = staging /\ hist' = hist
    BY DEF RollbackWal
<1>2. LogShape /\ MemoryTold /\ CheckpointWhole
    BY DEF LogInv
<1>3. WithoutFrame \in LogDisks /\ WithoutFrame.tail # "garbled" /\ Recovered(WithoutFrame) = Told(hist)
    BY <1>1, WithoutFrameHolds
<1>4. /\ disk' \in LogDisks /\ disk'.synced <= Len(disk'.frames) /\ floor' \in 0..Len(hist') /\ disk'.tail # "garbled"
      /\ Recovered(disk') = Told(hist') /\ Sound(disk', hist', floor', pend') /\ CheckpointWhole'
    BY <1>1, <1>2, <1>3, SyncStep
<1>5. LogShape'
    BY <1>1, <1>2, <1>4 DEF LogShape, LogSteps, LogBatches
<1>6. MemoryTold' /\ FramesTold' /\ StepFinds'
    BY <1>1, <1>2, <1>4 DEF MemoryTold, FramesTold, StepFinds
<1> QED
    BY <1>4, <1>5, <1>6 DEF LogInv

\* The whole log, with the frame in flight, makes the history with its batch.
LEMMA AppendedHolds ==
    ASSUME LogInv, handle = "open", step = "appended"
    PROVE  Recovered(disk) = ApplyBatch(Told(hist), pend) /\ Told(Append(hist, pend)) = ApplyBatch(Told(hist), pend)
<1>1. LogShape /\ FramesTold
    BY DEF LogInv
<1>2. disk \in LogDisks /\ pend \in LogBatches /\ hist \in Seq(LogBatches)
    BY <1>1 DEF LogShape
<1> DEFINE F == SubSeq(disk.frames, 1, Len(disk.frames) - 1)
<1>3. /\ Len(disk.frames) > disk.synced /\ disk.frames[Len(disk.frames)] = pend
      /\ ApplyAll(disk.snap, F) = Told(hist)
    BY <1>1 DEF FramesTold, After
<1>4. disk.frames \in Seq(LogBatches) /\ Len(disk.frames) \in Nat /\ disk.synced \in Nat /\ disk.snap \in Entries
    BY <1>2, DiskParts
<1>5. Len(disk.frames) > 0 /\ Len(disk.frames) - 1 \in 0..Len(disk.frames)
    BY <1>3, <1>4
<1>6. disk.frames = Append(F, pend) /\ F \in Seq(LogBatches)
    BY <1>3, <1>4, <1>5, AllButLast, Beginnings
<1> HIDE DEF F
<1>7. ApplyAll(disk.snap, Append(F, pend)) = ApplyBatch(ApplyAll(disk.snap, F), pend)
    BY <1>2, <1>4, <1>6, OneMoreBatch
<1> QED
    BY <1>2, <1>3, <1>6, <1>7, ToldState DEF Recovered
LEMMA PoisonStep == ASSUME LogInv, Poison PROVE LogInv'
<1>1. /\ handle = "open" /\ step \in {"appended", "failed"} /\ handle' = "poisoned" /\ step' = "idle"
      /\ disk' = disk \/ disk' = WithoutFrame
      /\ mem' = mem /\ pend' = pend /\ dest' = dest /\ staging' = staging /\ hist' = hist /\ floor' = floor
    BY DEF Poison
<1>2. LogShape /\ MemoryTold /\ FramesTold /\ Sound(disk, hist, floor, pend) /\ StepFinds /\ CheckpointWhole
    BY DEF LogInv
<1>3. /\ disk \in LogDisks /\ disk.synced <= Len(disk.frames) /\ floor \in 0..Len(hist) /\ pend \in LogBatches
      /\ hist \in Seq(LogBatches) /\ disk.tail # "garbled"
    BY <1>1, <1>2 DEF LogShape, StepFinds
<1>4. Recovered(disk) \in {Told(hist), ApplyBatch(Told(hist), pend)}
  <2>1. CASE step = "failed"
    BY <1>1, <1>2, <2>1 DEF FramesTold
  <2>2. CASE step = "appended"
    BY <1>1, <2>2, AppendedHolds
  <2> QED
    BY <1>1, <2>1, <2>2
<1>5. /\ disk' \in LogDisks /\ disk'.synced <= Len(disk'.frames) /\ disk'.tail # "garbled"
      /\ Recovered(disk') \in {Told(hist), ApplyBatch(Told(hist), pend)} /\ Sound(disk', hist, floor, pend)
  <2>1. CASE disk' = disk
    BY <1>2, <1>3, <1>4, <2>1
  <2>2. CASE disk' = WithoutFrame
    BY <1>1, <2>2, WithoutFrameHolds
  <2> QED
    BY <1>1, <2>1, <2>2
<1>6. LogShape'
    BY <1>1, <1>2, <1>5 DEF LogShape, LogSteps
<1>7. MemoryTold' /\ FramesTold' /\ StepFinds' /\ Sound(disk', hist', floor', pend')
    BY <1>1, <1>2, <1>5 DEF MemoryTold, FramesTold, StepFinds
<1>8. CheckpointWhole'
    BY <1>1, <1>2 DEF CheckpointWhole
<1> QED
    BY <1>6, <1>7, <1>8 DEF LogInv

\* A write is acknowledged once its frame is synced.
LEMMA AcknowledgeStep == ASSUME SyncOnWrite, LogInv, Acknowledge PROVE LogInv'
<1>1. /\ handle = "open" /\ step = "appended" /\ disk' = SyncedDisk(disk) /\ hist' = Append(hist, pend) /\ pend' = <<>>
      /\ floor' = Len(hist') /\ mem'.entries = ApplyBatch(mem.entries, pend) /\ step' \in {"compact", "idle"}
      /\ handle' = handle /\ dest' = dest /\ staging' = staging
    BY DEF Acknowledge
<1>2. LogShape /\ MemoryTold /\ StepFinds /\ CheckpointWhole
    BY DEF LogInv
<1>3. /\ disk \in LogDisks /\ pend \in LogBatches /\ hist \in Seq(LogBatches) /\ floor \in 0..Len(hist)
      /\ disk.tail # "garbled"
    BY <1>1, <1>2 DEF LogShape, StepFinds
<1>4. Recovered(disk) = Told(hist') /\ Told(hist') = ApplyBatch(Told(hist), pend)
    BY <1>1, AppendedHolds
<1>5. /\ hist' \in Seq(LogBatches) /\ Len(hist') = Len(hist) + 1 /\ Len(hist) \in Nat /\ floor' \in 0..Len(hist')
      /\ SubSeq(hist', 1, floor) = SubSeq(hist, 1, floor)
    BY <1>1, <1>3, BeginningOfMore
<1>6. /\ disk' \in LogDisks /\ Recovered(disk') = Told(hist') /\ disk'.synced = Len(disk'.frames) /\ disk'.undone = <<>>
      /\ disk'.tail = disk.tail /\ Sound(disk', hist', floor', pend')
    BY <1>1, <1>3, <1>4, <1>5, SyncedIsSound
<1>7. LogShape'
    BY <1>1, <1>2, <1>5, <1>6, DiskParts DEF LogShape, LogSteps, LogBatches
<1>8. MemoryTold'
    BY <1>1, <1>2, <1>4 DEF MemoryTold
<1>9. FramesTold' /\ StepFinds'
    BY <1>1, <1>3, <1>6 DEF FramesTold, StepFinds
<1>10. CheckpointWhole'
  <2>1. floor' \in Nat /\ floor <= floor' /\ floor <= Len(hist')
    BY <1>1, <1>3, <1>5
  <2> QED
    BY <1>1, <1>2, <1>5, <2>1, DestKept
<1> QED
    BY <1>6, <1>7, <1>8, <1>9, <1>10 DEF LogInv

\* Compaction: the snapshot of memory is renamed into place, or not.
LEMMA InstallStep == ASSUME LogInv, InstallSnapshot PROVE LogInv'
<1>1. /\ handle = "open" /\ step = "compact"
      /\ \/ disk' = disk /\ step' = "idle"
         \/ disk' = [disk EXCEPT !.snap = mem.entries] /\ step' \in {"idle", "installed"}
      /\ mem' = mem /\ handle' = handle /\ pend' = pend /\ dest' = dest /\ staging' = staging /\ hist' = hist /\ floor' = floor
    BY DEF InstallSnapshot
<1>2. LogShape /\ MemoryTold /\ FramesTold /\ Sound(disk, hist, floor, pend) /\ StepFinds /\ CheckpointWhole
    BY DEF LogInv
<1>3. /\ disk \in LogDisks /\ disk.synced <= Len(disk.frames) /\ floor \in 0..Len(hist) /\ hist \in Seq(LogBatches)
      /\ pend = <<>> /\ disk.synced = Len(disk.frames) /\ disk.undone = <<>> /\ disk.tail # "garbled"
      /\ Recovered(disk) = Told(hist) /\ mem.entries = Told(hist)
    BY <1>1, <1>2 DEF LogShape, StepFinds, MemoryTold, FramesTold
<1>4. MemoryTold' /\ CheckpointWhole'
    BY <1>1, <1>2 DEF MemoryTold, CheckpointWhole
<1>5. CASE disk' = disk /\ step' = "idle"
  <2>1. LogShape'
    BY <1>1, <1>2, <1>5 DEF LogShape, LogSteps
  <2>2. FramesTold' /\ StepFinds' /\ Sound(disk', hist', floor', pend')
    BY <1>1, <1>2, <1>3, <1>5 DEF FramesTold, StepFinds
  <2> QED
    BY <1>4, <2>1, <2>2 DEF LogInv
<1>6. CASE disk' = [disk EXCEPT !.snap = mem.entries] /\ step' \in {"idle", "installed"}
  <2>1. DiskIs(disk', Told(hist), disk.header, disk.frames, disk.tail, disk.synced, disk.undone)
    <3>1. Told(hist) \in Entries /\ disk' = [disk EXCEPT !.snap = Told(hist)]
      BY <1>3, <1>6, ToldState
    <3> QED
      BY <1>3, <3>1, DiskSnap
  <2>2. Sound(disk', hist, floor, pend) /\ Recovered(disk') = Told(hist)
    BY <1>3, <2>1, SoundSnapshot
  <2>3. /\ disk' \in LogDisks /\ disk'.snap = Told(hist) /\ disk'.frames = disk.frames /\ disk'.tail = disk.tail
        /\ disk'.synced = disk.synced /\ disk'.undone = disk.undone
    BY <2>1 DEF DiskIs
  <2>4. LogShape'
    BY <1>1, <1>2, <1>6, <2>3 DEF LogShape, LogSteps
  <2>5. FramesTold' /\ StepFinds' /\ Sound(disk', hist', floor', pend')
    BY <1>1, <1>2, <1>3, <1>6, <2>2, <2>3 DEF FramesTold, StepFinds
  <2> QED
    BY <1>4, <2>4, <2>5 DEF LogInv
<1> QED
    BY <1>1, <1>5, <1>6

\* ... and the log is emptied.
LEMMA TruncateStep == ASSUME LogInv, TruncateWal PROVE LogInv'
<1> DEFINE u == IF disk.header = "magic" THEN disk.frames ELSE <<>>
<1>1. /\ handle = "open" /\ step = "installed" /\ step' = "truncated"
      /\ disk' = [disk EXCEPT !.frames = <<>>, !.header = "none", !.synced = 0, !.undone = u]
      /\ mem' = mem /\ handle' = handle /\ pend' = pend /\ dest' = dest /\ staging' = staging /\ hist' = hist /\ floor' = floor
    BY DEF TruncateWal
<1>2. LogShape /\ MemoryTold /\ FramesTold /\ StepFinds /\ CheckpointWhole
    BY DEF LogInv
<1>3. /\ disk \in LogDisks /\ floor \in 0..Len(hist) /\ hist \in Seq(LogBatches)
      /\ pend = <<>> /\ disk.tail # "garbled" /\ disk.snap = Told(hist) /\ Recovered(disk) = Told(hist)
    BY <1>1, <1>2 DEF LogShape, StepFinds, FramesTold
<1>4. u \in Seq(LogBatches) /\ <<>> \in Seq(LogBatches) /\ u \in {<<>>, disk.frames}
    BY <1>3, DiskParts
<1> HIDE DEF u
<1>5. DiskIs(disk', disk.snap, "none", <<>>, disk.tail, 0, u)
    BY <1>1, <1>3, <1>4, DiskTruncated
<1>6. Sound(disk', hist, floor, pend) /\ Recovered(disk') = Told(hist)
    BY <1>3, <1>4, <1>5, SoundTruncate
<1>7. disk' \in LogDisks /\ disk'.snap = disk.snap /\ disk'.frames = <<>> /\ disk'.tail = disk.tail /\ disk'.synced = 0
    BY <1>5 DEF DiskIs
<1>8. LogShape'
    BY <1>1, <1>2, <1>7 DEF LogShape, LogSteps
<1>9. MemoryTold' /\ FramesTold' /\ StepFinds' /\ Sound(disk', hist', floor', pend')
    BY <1>1, <1>2, <1>3, <1>6, <1>7 DEF MemoryTold, FramesTold, StepFinds
<1>10. CheckpointWhole'
    BY <1>1, <1>2 DEF CheckpointWhole
<1> QED
    BY <1>8, <1>9, <1>10 DEF LogInv

LEMMA WriteHeaderStep == ASSUME LogInv, WriteHeader PROVE LogInv'
<1>1. /\ handle = "open" /\ step = "truncated" /\ step' = "idle"
      /\ \/ disk' = SyncedDisk([disk EXCEPT !.header = "magic"]) /\ floor' = Len(hist)
         \/ disk' = disk /\ floor' = floor
      /\ mem' = mem /\ handle' = handle /\ pend' = pend /\ dest' = dest /\ staging' = staging /\ hist' = hist
    BY DEF WriteHeader
<1>2. LogShape /\ MemoryTold /\ FramesTold /\ Sound(disk, hist, floor, pend) /\ StepFinds /\ CheckpointWhole
    BY DEF LogInv
<1>3. /\ disk \in LogDisks /\ disk.synced <= Len(disk.frames) /\ floor \in 0..Len(hist) /\ hist \in Seq(LogBatches)
      /\ pend = <<>> /\ disk.tail # "garbled" /\ Recovered(disk) = Told(hist)
    BY <1>1, <1>2 DEF LogShape, StepFinds, FramesTold
<1>4. MemoryTold'
    BY <1>1, <1>2 DEF MemoryTold
<1>5. CASE disk' = SyncedDisk([disk EXCEPT !.header = "magic"]) /\ floor' = Len(hist)
  <2> DEFINE d == [disk EXCEPT !.header = "magic"]
  <2>1. DiskIs(d, disk.snap, "magic", disk.frames, disk.tail, disk.synced, disk.undone)
    BY <1>3, DiskHeader
  <2> HIDE DEF d
  <2>2. d \in LogDisks /\ Recovered(d) = Told(hist) /\ d.tail # "garbled"
    BY <1>3, <2>1 DEF DiskIs, Recovered
  <2>3. disk' = SyncedDisk(d)
    BY <1>5 DEF d
  <2>4. /\ disk' \in LogDisks /\ disk'.synced <= Len(disk'.frames) /\ floor' \in 0..Len(hist') /\ disk'.tail # "garbled"
        /\ Recovered(disk') = Told(hist') /\ Sound(disk', hist', floor', pend') /\ CheckpointWhole'
    BY <1>1, <1>2, <1>5, <2>2, <2>3, SyncStep
  <2>5. LogShape'
    BY <1>1, <1>2, <2>4 DEF LogShape, LogSteps
  <2>6. FramesTold' /\ StepFinds'
    BY <1>1, <1>3, <2>4 DEF FramesTold, StepFinds
  <2> QED
    BY <1>4, <2>4, <2>5, <2>6 DEF LogInv
<1>6. CASE disk' = disk /\ floor' = floor
  <2>1. LogShape' /\ CheckpointWhole'
    BY <1>1, <1>2, <1>6 DEF LogShape, LogSteps, CheckpointWhole
  <2>2. FramesTold' /\ StepFinds' /\ Sound(disk', hist', floor', pend')
    BY <1>1, <1>2, <1>3, <1>6 DEF FramesTold, StepFinds
  <2> QED
    BY <1>4, <2>1, <2>2 DEF LogInv
<1> QED
    BY <1>1, <1>5, <1>6

LEMMA TakeErrorStep == ASSUME LogInv, TakeMaintenanceError PROVE LogInv'
    BY DEF TakeMaintenanceError, LogInv, LogShape, MemoryTold, FramesTold, StepFinds, CheckpointWhole

LEMMA FlushStep == ASSUME LogInv, Flush PROVE LogInv'
<1>1. /\ handle = "open" /\ step = "idle" /\ disk' = SyncedDisk(disk) /\ floor' = Len(hist)
      /\ mem' = mem /\ handle' = handle /\ step' = step /\ pend' = pend /\ dest' = dest /\ staging' = staging /\ hist' = hist
    BY DEF Flush, LogIdle
<1>2. LogShape /\ MemoryTold /\ FramesTold /\ StepFinds /\ CheckpointWhole
    BY DEF LogInv
<1>3. disk \in LogDisks /\ pend = <<>> /\ disk.tail # "garbled" /\ Recovered(disk) = Told(hist)
    BY <1>1, <1>2 DEF LogShape, StepFinds, FramesTold
<1>4. /\ disk' \in LogDisks /\ disk'.synced <= Len(disk'.frames) /\ floor' \in 0..Len(hist') /\ disk'.tail # "garbled"
      /\ Recovered(disk') = Told(hist') /\ Sound(disk', hist', floor', pend') /\ CheckpointWhole'
    BY <1>1, <1>2, <1>3, SyncStep
<1>5. LogShape'
    BY <1>1, <1>2, <1>4 DEF LogShape
<1>6. MemoryTold' /\ FramesTold' /\ StepFinds'
    BY <1>1, <1>2, <1>3, <1>4 DEF MemoryTold, FramesTold, StepFinds
<1> QED
    BY <1>4, <1>5, <1>6 DEF LogInv

\* Closing, with the sync or without it, and after a failed rollback.
LEMMA CloseStep == ASSUME LogInv, CloseStore PROVE LogInv'
<1>1. /\ handle \in {"open", "poisoned"} /\ step = "idle" /\ handle' = "down" /\ pend' = <<>>
      /\ \/ handle = "open" /\ disk' = SyncedDisk(disk) /\ floor' = Len(hist)
         \/ disk' = disk /\ floor' = floor
      /\ hist' = IF Recovered(disk) = ApplyAll(NoEntries, hist) THEN hist ELSE Append(hist, pend)
      /\ mem' = mem /\ step' = step /\ dest' = dest /\ staging' = staging
    BY DEF CloseStore
<1>2. LogShape /\ FramesTold /\ Sound(disk, hist, floor, pend) /\ StepFinds /\ CheckpointWhole
    BY DEF LogInv
<1>3. /\ disk \in LogDisks /\ disk.synced <= Len(disk.frames) /\ floor \in 0..Len(hist) /\ hist \in Seq(LogBatches)
      /\ pend \in LogBatches /\ disk.tail # "garbled"
    BY <1>1, <1>2 DEF LogShape, StepFinds
<1>4. hist' \in {hist, Append(hist, pend)} /\ Recovered(disk) = Told(hist') /\ (handle = "open" => hist' = hist)
  <2>1. Recovered(disk) \in {Told(hist), ApplyBatch(Told(hist), pend)} /\ (handle = "open" => Recovered(disk) = Told(hist))
    BY <1>1, <1>2 DEF FramesTold
  <2>2. Told(Append(hist, pend)) = ApplyBatch(Told(hist), pend)
    BY <1>3, ToldState
  <2> QED
    BY <1>1, <2>1, <2>2 DEF Told
<1>5. MemoryTold'
    BY <1>1 DEF MemoryTold
<1>6. CASE handle = "open" /\ disk' = SyncedDisk(disk) /\ floor' = Len(hist)
  <2>1. hist' = hist /\ Recovered(disk) = Told(hist)
    BY <1>4, <1>6
  <2>2. /\ disk' \in LogDisks /\ disk'.synced <= Len(disk'.frames) /\ floor' \in 0..Len(hist') /\ disk'.tail # "garbled"
        /\ Recovered(disk') = Told(hist') /\ Sound(disk', hist', floor', pend') /\ CheckpointWhole'
    BY <1>1, <1>2, <1>3, <1>6, <2>1, SyncStep
  <2>3. LogShape'
    BY <1>1, <1>2, <2>1, <2>2 DEF LogShape, LogBatches
  <2>4. FramesTold' /\ StepFinds'
    BY <1>1, <2>2 DEF FramesTold, StepFinds
  <2> QED
    BY <1>5, <2>2, <2>3, <2>4 DEF LogInv
<1>7. CASE disk' = disk /\ floor' = floor
  <2>1. Sound(disk', hist', floor', pend')
    BY <1>1, <1>2, <1>3, <1>4, <1>7, SoundLater
  <2>2. hist' \in Seq(LogBatches) /\ floor \in 0..Len(hist') /\ SubSeq(hist', 1, floor) = SubSeq(hist, 1, floor)
    BY <1>3, <1>4, BeginningOfMore
  <2>3. CheckpointWhole'
    <3>1. floor' \in Nat /\ floor <= floor' /\ floor <= Len(hist')
      BY <1>3, <1>7, <2>2
    <3> QED
      BY <1>1, <1>2, <2>2, <3>1, DestKept
  <2>4. LogShape'
    BY <1>1, <1>2, <1>7, <2>2 DEF LogShape, LogBatches
  <2>5. FramesTold' /\ StepFinds'
    BY <1>1, <1>3, <1>4, <1>7 DEF FramesTold, StepFinds
  <2> QED
    BY <1>5, <2>1, <2>3, <2>4, <2>5 DEF LogInv
<1> QED
    BY <1>1, <1>6, <1>7

LEMMA DropStep == ASSUME LogInv, DropPoisoned PROVE LogInv'
    BY DEF DropPoisoned, LogInv, LogShape, MemoryTold, FramesTold, StepFinds, CheckpointWhole

-----------------------------------------------------------------------------
\* The directories of a checkpoint.
LEMMA CopyTypes ==
    /\ NoDir \in LogCopies /\ NoDir.parts = 0
    /\ \A c \in LogCopies : /\ [c EXCEPT !.durable = TRUE] \in LogCopies
                            /\ [c EXCEPT !.durable = TRUE].parts = c.parts /\ [c EXCEPT !.durable = TRUE].entries = c.entries
                            /\ [c EXCEPT !.durable = TRUE].count = c.count
    /\ \A n \in Nat : /\ [NoDir EXCEPT !.count = n] \in LogCopies /\ [NoDir EXCEPT !.count = n].parts = 0
                     /\ [NoDir EXCEPT !.count = n].count = n
<1>1. NoDir \in LogCopies /\ NoDir.parts = 0
    BY DEF NoDir, LogCopies
<1>2. \A c \in LogCopies : /\ [c EXCEPT !.durable = TRUE] \in LogCopies
                          /\ [c EXCEPT !.durable = TRUE].parts = c.parts /\ [c EXCEPT !.durable = TRUE].entries = c.entries
                          /\ [c EXCEPT !.durable = TRUE].count = c.count
    BY DEF LogCopies
<1>3. ASSUME NEW c \in LogCopies, NEW n \in Nat
      PROVE  [c EXCEPT !.count = n] \in LogCopies /\ [c EXCEPT !.count = n].parts = c.parts /\ [c EXCEPT !.count = n].count = n
    BY DEF LogCopies
<1> QED
    BY <1>1, <1>2, <1>3

LEMMA CheckpointStartStep == ASSUME LogInv, CheckpointStart PROVE LogInv'
<1>1. /\ handle = "open" /\ step = "idle" /\ disk' = SyncedDisk(disk) /\ floor' = Len(hist)
      /\ \/ dest.parts = 0 /\ step' = "staging" /\ staging' = [NoDir EXCEPT !.count = Len(hist)] /\ dest' = dest
         \/ dest' = [dest EXCEPT !.durable = TRUE] /\ step' = step /\ staging' = staging
      /\ mem' = mem /\ handle' = handle /\ pend' = pend /\ hist' = hist
    BY DEF CheckpointStart, LogIdle, NewStaging
<1>2. LogShape /\ MemoryTold /\ FramesTold /\ StepFinds /\ CheckpointWhole
    BY DEF LogInv
<1>3. /\ disk \in LogDisks /\ pend = <<>> /\ disk.tail # "garbled" /\ Recovered(disk) = Told(hist)
      /\ hist \in Seq(LogBatches) /\ Len(hist) \in Nat /\ dest \in LogCopies /\ floor \in 0..Len(hist)
    BY <1>1, <1>2 DEF LogShape, StepFinds, FramesTold
<1>4. /\ disk' \in LogDisks /\ disk'.synced <= Len(disk'.frames) /\ floor' \in 0..Len(hist') /\ disk'.tail # "garbled"
      /\ Recovered(disk') = Told(hist') /\ Sound(disk', hist', floor', pend')
    BY <1>1, <1>2, <1>3, SyncStep
<1>5. /\ dest' \in LogCopies /\ dest'.parts = dest.parts /\ dest'.entries = dest.entries /\ dest'.count = dest.count
      /\ step' = "idle" \/ (step' = "staging" /\ staging'.parts = 0 /\ staging'.count = Len(hist))
      /\ staging' \in LogCopies
    BY <1>1, <1>2, <1>3, CopyTypes DEF LogShape
<1>6. CheckpointWhole'
  <2>1. hist' \in Seq(LogBatches) /\ floor' \in Nat /\ floor <= floor' /\ floor <= Len(hist')
    BY <1>1, <1>3
  <2>2. SubSeq(hist', 1, floor) = SubSeq(hist, 1, floor)
    BY <1>1
  <2> QED
    BY <1>2, <1>5, <2>1, <2>2, DestKept
<1>7. LogShape'
    BY <1>1, <1>2, <1>4, <1>5 DEF LogShape, LogSteps
<1>8. MemoryTold' /\ FramesTold'
    BY <1>1, <1>2, <1>4, <1>5 DEF MemoryTold, FramesTold
<1>9. StepFinds'
    BY <1>1, <1>3, <1>4, <1>5 DEF StepFinds
<1> QED
    BY <1>4, <1>6, <1>7, <1>8, <1>9 DEF LogInv

LEMMA CheckpointBuildStep == ASSUME LogInv, CheckpointBuild PROVE LogInv'
<1>1. /\ handle = "open" /\ step = "staging" /\ staging.parts < 3
      /\ \/ staging' = [staging EXCEPT !.parts = staging.parts + 1, !.entries = mem.entries] /\ step' = step
         \/ staging' = NoDir /\ step' = "idle"
      /\ disk' = disk /\ mem' = mem /\ handle' = handle /\ pend' = pend /\ dest' = dest /\ hist' = hist /\ floor' = floor
    BY DEF CheckpointBuild
<1>2. LogShape /\ MemoryTold /\ FramesTold /\ Sound(disk, hist, floor, pend) /\ StepFinds /\ CheckpointWhole
    BY DEF LogInv
<1>3. /\ staging \in LogCopies /\ pend = <<>> /\ mem.entries = Told(hist) /\ Told(hist) \in Entries
      /\ floor = Len(hist) /\ staging.count = floor /\ disk.tail # "garbled" /\ Recovered(disk) = Told(hist)
    BY <1>1, <1>2, ToldState DEF LogShape, StepFinds, MemoryTold, FramesTold
<1>4. MemoryTold' /\ Sound(disk', hist', floor', pend') /\ CheckpointWhole'
    BY <1>1, <1>2 DEF MemoryTold, CheckpointWhole
<1>5. /\ staging' \in LogCopies
      /\ step' = "idle" \/ (step' = "staging" /\ staging'.count = floor /\ staging'.entries = Told(hist))
  <2>1. CASE staging' = NoDir /\ step' = "idle"
    BY <2>1, CopyTypes
  <2>2. CASE staging' = [staging EXCEPT !.parts = staging.parts + 1, !.entries = mem.entries] /\ step' = step
    <3>1. PICK n \in 0..3 : n = staging.parts + 1
      BY <1>1, <1>3 DEF LogCopies
    <3>2. PICK x \in Entries : x = mem.entries
      BY <1>3
    <3>3. staging' = [staging EXCEPT !.parts = n, !.entries = x]
      BY <2>2, <3>1, <3>2
    <3>4. staging' \in LogCopies /\ staging'.count = staging.count /\ staging'.entries = x
      BY ONLY <1>3, <3>3, n \in 0..3, x \in Entries DEF LogCopies
    <3> QED
      BY <1>1, <1>3, <2>2, <3>2, <3>4
  <2> QED
    BY <1>1, <2>1, <2>2
<1>6. LogShape'
    BY <1>1, <1>2, <1>5 DEF LogShape, LogSteps
<1>7. FramesTold'
    BY <1>1, <1>3, <1>5 DEF FramesTold
<1>8. StepFinds'
    BY <1>1, <1>3, <1>5 DEF StepFinds
<1> QED
    BY <1>4, <1>6, <1>7, <1>8 DEF LogInv

LEMMA CheckpointPublishStep == ASSUME LogInv, CheckpointPublish PROVE LogInv'
<1>1. /\ handle = "open" /\ step = "staging" /\ staging.parts = 3 /\ dest' = staging /\ staging' = NoDir /\ step' = "published"
      /\ disk' = disk /\ mem' = mem /\ handle' = handle /\ pend' = pend /\ hist' = hist /\ floor' = floor
    BY DEF CheckpointPublish
<1>2. LogShape /\ MemoryTold /\ FramesTold /\ Sound(disk, hist, floor, pend) /\ StepFinds
    BY DEF LogInv
<1>3. /\ staging \in LogCopies /\ pend = <<>> /\ floor = Len(hist) /\ staging.count = floor /\ staging.entries = Told(hist)
      /\ hist \in Seq(LogBatches) /\ disk.tail # "garbled" /\ Recovered(disk) = Told(hist) /\ floor \in Nat
    BY <1>1, <1>2 DEF LogShape, StepFinds, FramesTold
<1>4. LogShape'
    BY <1>1, <1>2, <1>3, CopyTypes DEF LogShape, LogSteps
<1>5. MemoryTold' /\ FramesTold' /\ StepFinds' /\ Sound(disk', hist', floor', pend')
    BY <1>1, <1>2, <1>3 DEF MemoryTold, FramesTold, StepFinds
<1>6. CheckpointWhole'
  <2>1. SubSeq(hist, 1, Len(hist)) = hist
    BY <1>3, Beginnings
  <2>2. dest'.entries = ApplyAll(NoEntries, SubSeq(hist', 1, dest'.count))
    BY <1>1, <1>3, <2>1 DEF Told
  <2>3. dest'.parts = 3 /\ dest'.count <= floor'
    BY <1>1, <1>3
  <2> QED
    BY <2>2, <2>3 DEF CheckpointWhole
<1> QED
    BY <1>4, <1>5, <1>6 DEF LogInv

LEMMA CheckpointEndStep == ASSUME LogInv, CheckpointEnd PROVE LogInv'
<1>1. /\ handle = "open" /\ step = "published" /\ step' = "idle"
      /\ dest' = [dest EXCEPT !.durable = TRUE] \/ dest' = dest
      /\ disk' = disk /\ mem' = mem /\ handle' = handle /\ pend' = pend /\ staging' = staging /\ hist' = hist /\ floor' = floor
    BY DEF CheckpointEnd
<1>2. LogShape /\ MemoryTold /\ FramesTold /\ Sound(disk, hist, floor, pend) /\ StepFinds /\ CheckpointWhole
    BY DEF LogInv
<1>3. /\ pend = <<>> /\ dest \in LogCopies /\ hist \in Seq(LogBatches) /\ floor \in 0..Len(hist)
      /\ disk.tail # "garbled" /\ Recovered(disk) = Told(hist)
    BY <1>1, <1>2 DEF LogShape, StepFinds, FramesTold
<1>4. dest' \in LogCopies /\ dest'.parts = dest.parts /\ dest'.entries = dest.entries /\ dest'.count = dest.count
    BY <1>1, <1>3, CopyTypes
<1>5. CheckpointWhole'
    BY <1>1, <1>2, <1>4 DEF CheckpointWhole
<1>6. LogShape'
    BY <1>1, <1>2, <1>4 DEF LogShape, LogSteps
<1>7. MemoryTold' /\ FramesTold' /\ StepFinds' /\ Sound(disk', hist', floor', pend')
    BY <1>1, <1>2, <1>3 DEF MemoryTold, FramesTold, StepFinds
<1> QED
    BY <1>5, <1>6, <1>7 DEF LogInv

-----------------------------------------------------------------------------
\* The history after a crash to d makes what d recovers to, and keeps what was synced.
LEMMA CrashFinds ==
    ASSUME LogInv, NEW d \in LogDisks, CrashTo(d),
           Readable(d) => \E g \in Survivors(hist, floor, pend) : Recovered(d) = Told(g)
    PROVE  /\ hist' \in Seq(LogBatches) /\ floor <= Len(hist') /\ SubSeq(hist', 1, floor) = SubSeq(hist, 1, floor)
           /\ Readable(d) => Recovered(d) = Told(hist')
           /\ ~Readable(d) => hist' = hist
           /\ hist' = Append(hist, pend) \/ (Len(hist') <= Len(hist) /\ hist' = SubSeq(hist, 1, Len(hist')))
           /\ \A g \in Survivors(hist, floor, pend) :
                 Readable(d) /\ Recovered(d) = Told(g) => Len(g) <= Len(hist') /\ Len(g) \in Nat
<1>1. hist \in Seq(LogBatches) /\ floor \in 0..Len(hist) /\ pend \in LogBatches
    BY DEF LogInv, LogShape
<1> DEFINE K == Kept(hist, pend, Recovered(d))
<1>2. hist' = IF Readable(d) /\ K # {} THEN CHOOSE h \in K : \A g \in K : Len(g) <= Len(h) ELSE hist
    BY DEF CrashTo, Kept
<1>3. CASE ~Readable(d)
  <2>1. hist' = hist
    BY <1>2, <1>3
  <2>2. SubSeq(hist, 1, Len(hist)) = hist
    BY <1>1, Beginnings
  <2>3. hist' \in Seq(LogBatches) /\ floor <= Len(hist') /\ Len(hist') <= Len(hist)
    BY <1>1, <2>1
  <2>4. hist' = SubSeq(hist, 1, Len(hist')) /\ SubSeq(hist', 1, floor) = SubSeq(hist, 1, floor)
    BY <2>1, <2>2
  <2> QED
    BY ONLY <1>3, <2>1, <2>3, <2>4
<1>4. CASE Readable(d)
  <2>1. PICK g \in Survivors(hist, floor, pend) : Recovered(d) = Told(g)
    BY <1>4
  <2>2. K # {} /\ K \in SUBSET (Prefixes(hist) \cup {Append(hist, pend)})
    <3>1. g \in K
      <4>1. CASE g = Append(hist, pend)
        BY <2>1, <4>1 DEF Kept, Told
      <4>2. CASE g # Append(hist, pend)
        <5>1. PICK n \in floor..Len(hist) : g = SubSeq(hist, 1, n)
          BY <4>2 DEF Survivors
        <5>2. n \in 0..Len(hist)
          BY <1>1
        <5> QED
          BY <2>1, <5>1, <5>2 DEF Kept, Told, Prefixes
      <4> QED
        BY <4>1, <4>2
    <3> QED
      BY <3>1 DEF Kept
  <2> HIDE DEF K
  <2>3. \E x \in K : \A y \in K : Len(y) <= Len(x)
    BY <1>1, <2>2, LongestKept
  <2>4. hist' = CHOOSE h \in K : \A y \in K : Len(y) <= Len(h)
    BY <1>2, <1>4, <2>2
  <2>5. hist' \in K /\ \A y \in K : Len(y) <= Len(hist')
    BY ONLY <2>3, <2>4
  <2>6. ASSUME NEW a \in Survivors(hist, floor, pend), Recovered(d) = Told(a)
        PROVE  /\ hist' \in Seq(LogBatches) /\ Told(hist') = Recovered(d) /\ Len(a) <= Len(hist') /\ Len(a) \in Nat
               /\ floor <= Len(hist') /\ SubSeq(hist', 1, floor) = SubSeq(hist, 1, floor)
               /\ hist' = Append(hist, pend) \/ (Len(hist') <= Len(hist) /\ hist' = SubSeq(hist, 1, Len(hist')))
    <3>1. PICK c : c = hist'
      OBVIOUS
    <3>2. c \in Kept(hist, pend, Recovered(d)) /\ \A y \in Kept(hist, pend, Recovered(d)) : Len(y) <= Len(c)
      BY <2>5, <3>1 DEF K
    <3>3. /\ c \in Seq(LogBatches) /\ Told(c) = Recovered(d) /\ Len(c) >= Len(a) /\ Len(a) \in Nat /\ floor <= Len(c)
          /\ SubSeq(c, 1, floor) = SubSeq(hist, 1, floor)
          /\ c = Append(hist, pend) \/ (Len(c) <= Len(hist) /\ c = SubSeq(hist, 1, Len(c)))
      BY <1>1, <2>6, <3>2, CrashHistory
    <3>4. Len(c) \in Nat
      BY <3>3
    <3> QED
      BY ONLY <3>1, <3>3, <3>4
  <2>7. /\ hist' \in Seq(LogBatches) /\ Told(hist') = Recovered(d)
        /\ floor <= Len(hist') /\ SubSeq(hist', 1, floor) = SubSeq(hist, 1, floor)
        /\ hist' = Append(hist, pend) \/ (Len(hist') <= Len(hist) /\ hist' = SubSeq(hist, 1, Len(hist')))
    BY <2>1, <2>6
  <2>8. \A a \in Survivors(hist, floor, pend) : Recovered(d) = Told(a) => Len(a) <= Len(hist') /\ Len(a) \in Nat
    BY <2>6
  <2> QED
    BY ONLY <1>4, <2>7, <2>8
<1> QED
    BY <1>3, <1>4

\* A log that is synced and of which an open finds the history is sound.
LEMMA SoundExact ==
    ASSUME NEW d \in LogDisks, NEW h \in Seq(LogBatches), NEW f \in 0..Len(h), NEW p,
           d.synced = Len(d.frames), d.undone = <<>>, Readable(d) => Recovered(d) = Told(h)
    PROVE  Sound(d, h, f, p)
<1>1. Acknowledged(h, f, Told(h))
    BY ToldAcknowledged
<1>2. OpensAt(d, Len(d.frames)) => After(d, Len(d.frames)) = Told(h)
    BY WholeLog
<1>3. \A n \in d.synced..Len(d.frames) : n = Len(d.frames)
    BY DiskParts
<1> QED
    BY <1>1, <1>2, <1>3 DEF Sound

\* A crash leaves a sound log and a history, a process that is down and the checkpoint.
LEMMA CrashLeaves ==
    ASSUME LogInv, NEW d \in LogDisks, d.synced <= Len(d.frames), CrashTo(d),
           hist' \in Seq(LogBatches), floor <= Len(hist'), SubSeq(hist', 1, floor) = SubSeq(hist, 1, floor),
           Readable(d) => Recovered(d) = Told(hist'), Sound(d, hist', floor, <<>>)
    PROVE  LogInv'
<1>1. /\ disk' = d /\ handle' = "down" /\ step' = "idle" /\ pend' = <<>> /\ staging' = staging
      /\ floor' = (IF Len(hist') < floor THEN Len(hist') ELSE floor) /\ dest' \in {dest, NoDir}
    BY DEF CrashTo
<1>2. LogShape /\ CheckpointWhole
    BY DEF LogInv
<1>3. floor \in Nat /\ Len(hist') \in Nat
    BY <1>2 DEF LogShape
<1>4. floor' = floor
    BY <1>1, <1>3
<1>5. dest' \in LogCopies /\ (dest'.parts = 0 \/ dest' = dest)
    BY <1>1, <1>2, CopyTypes DEF LogShape
<1>6. CheckpointWhole'
    BY <1>2, <1>3, <1>4, <1>5, DestKept
<1>7. LogShape'
    BY <1>1, <1>2, <1>3, <1>4, <1>5 DEF LogShape, LogSteps, LogBatches
<1>8. MemoryTold' /\ FramesTold' /\ StepFinds' /\ Sound(disk', hist', floor', pend')
    BY <1>1, <1>4 DEF MemoryTold, FramesTold, StepFinds
<1> QED
    BY <1>6, <1>7, <1>8 DEF LogInv

\* The process is killed: the files stay as they are.
LEMMA KillStep ==
    ASSUME LogInv, handle # "down", CrashTo([disk EXCEPT !.tail = IF step = "failed" THEN "torn" ELSE disk.tail])
    PROVE  LogInv'
<1>1. LogShape /\ FramesTold /\ Sound(disk, hist, floor, pend) /\ StepFinds
    BY DEF LogInv
<1>2. /\ disk \in LogDisks /\ disk.synced <= Len(disk.frames) /\ floor \in 0..Len(hist) /\ hist \in Seq(LogBatches)
      /\ pend \in LogBatches /\ disk.tail # "garbled"
    BY <1>1 DEF LogShape, StepFinds
<1>3. PICK t \in {"whole", "torn", "garbled"} : t = IF step = "failed" THEN "torn" ELSE disk.tail
    BY <1>2, DiskParts
<1>4. PICK d : d = [disk EXCEPT !.tail = t]
    OBVIOUS
<1>5. CrashTo(d)
    BY <1>3, <1>4
<1>6. DiskIs(d, disk.snap, disk.header, disk.frames, t, disk.synced, disk.undone)
    BY <1>2, <1>4, DiskTail
<1>7. /\ d \in LogDisks /\ d.snap = disk.snap /\ d.header = disk.header /\ d.frames = disk.frames
      /\ d.synced = disk.synced /\ d.undone = disk.undone
    BY <1>6 DEF DiskIs
<1>8. Sound(d, hist, floor, pend)
  <2>1. \A n \in disk.synced..Len(disk.frames) : OpensAt(d, n) => OpensAt(disk, n)
    BY <1>2, <1>7 DEF OpensAt
  <2> QED
    BY <1>1, <1>2, <1>7, <2>1, SoundSame
<1>9. PICK g \in {hist, Append(hist, pend)} : Recovered(d) = Told(g)
  <2>1. Recovered(d) = Recovered(disk)
    BY <1>7 DEF Recovered
  <2>2. Recovered(disk) = Told(hist) \/ Recovered(disk) = ApplyBatch(Told(hist), pend)
    BY <1>1, AppendedHolds DEF FramesTold, LogShape
  <2>3. Told(Append(hist, pend)) = ApplyBatch(Told(hist), pend)
    BY <1>2, ToldState
  <2> QED
    BY <2>1, <2>2, <2>3
<1>10. g \in Survivors(hist, floor, pend) /\ Len(g) >= Len(hist) /\ Len(hist) \in Nat
  <2>1. SubSeq(hist, 1, Len(hist)) = hist /\ Len(hist) \in floor..Len(hist)
    BY <1>2, Beginnings
  <2>2. Len(Append(hist, pend)) = Len(hist) + 1 /\ Len(hist) \in Nat
    BY <1>2, BeginningOfMore
  <2>3. g \in Survivors(hist, floor, pend)
    BY <2>1 DEF Survivors
  <2> QED
    BY <2>2, <2>3
<1>11. /\ hist' \in Seq(LogBatches) /\ floor <= Len(hist') /\ SubSeq(hist', 1, floor) = SubSeq(hist, 1, floor)
       /\ Readable(d) => Recovered(d) = Told(hist')
       /\ ~Readable(d) => hist' = hist
       /\ hist' = Append(hist, pend) \/ (Len(hist') <= Len(hist) /\ hist' = SubSeq(hist, 1, Len(hist')))
       /\ Readable(d) => Len(g) <= Len(hist') /\ Len(g) \in Nat
    BY <1>5, <1>7, <1>9, <1>10, CrashFinds
<1>12. hist' \in {hist, Append(hist, pend)}
  <2>1. CASE ~Readable(d)
    BY <1>11, <2>1
  <2>2. CASE Readable(d) /\ hist' # Append(hist, pend)
    <3>1. PICK m : m = Len(hist')
      OBVIOUS
    <3>2. Len(hist') \in Nat
      BY <1>11
    <3>3. m \in Nat /\ m <= Len(hist) /\ Len(g) <= m /\ Len(g) \in Nat /\ hist' = SubSeq(hist, 1, m)
      BY ONLY <1>11, <2>2, <3>1, <3>2
    <3>4. m = Len(hist)
      BY ONLY <1>10, <3>3
    <3>5. SubSeq(hist, 1, Len(hist)) = hist
      BY <1>2, Beginnings
    <3> QED
      BY ONLY <3>3, <3>4, <3>5
  <2> QED
    BY <2>1, <2>2
<1>13. Sound(d, hist', floor, <<>>)
    BY <1>2, <1>7, <1>8, <1>11, <1>12, SoundLater
<1> QED
    BY <1>2, <1>5, <1>7, <1>11, <1>13, CrashLeaves

\* The power goes: the log is cut, or is what it was before the truncation.
LEMMA PowerLossStep == ASSUME LogInv, NEW d \in PowerLoss(disk), CrashTo(d) PROVE LogInv'
<1>1. LogShape /\ Sound(disk, hist, floor, pend)
    BY DEF LogInv
<1>2. /\ disk \in LogDisks /\ disk.synced <= Len(disk.frames) /\ floor \in 0..Len(hist) /\ hist \in Seq(LogBatches)
      /\ pend \in LogBatches
    BY <1>1 DEF LogShape
<1>3. d \in LogDisks /\ d.synced = Len(d.frames) /\ d.undone = <<>>
  <2>1. ASSUME NEW n \in disk.synced..Len(disk.frames), NEW t,
               DiskIs(d, disk.snap, disk.header, SubSeq(disk.frames, 1, n), t, n, <<>>)
        PROVE  d \in LogDisks /\ d.synced = Len(d.frames) /\ d.undone = <<>>
    <3>1. disk.frames \in Seq(LogBatches) /\ n \in 0..Len(disk.frames)
      BY <1>2, DiskParts
    <3>2. Len(SubSeq(disk.frames, 1, n)) = n
      BY <3>1, Beginnings
    <3> QED
      BY <2>1, <3>2 DEF DiskIs
  <2>2. CASE DiskIs(d, disk.snap, "magic", disk.undone, "whole", Len(disk.undone), <<>>)
    BY <2>2 DEF DiskIs
  <2> QED
    BY <1>2, <2>1, <2>2, LossShape
<1>4. Readable(d) => \E g \in Survivors(hist, floor, pend) : Recovered(d) = Told(g)
    BY <1>1, <1>2, LossFinds
<1>5. /\ hist' \in Seq(LogBatches) /\ floor <= Len(hist') /\ SubSeq(hist', 1, floor) = SubSeq(hist, 1, floor)
      /\ Readable(d) => Recovered(d) = Told(hist')
    BY <1>3, <1>4, CrashFinds
<1>6. floor \in 0..Len(hist') /\ d.synced <= Len(d.frames)
    BY <1>2, <1>3, <1>5, DiskParts
<1>7. Sound(d, hist', floor, <<>>)
    BY <1>3, <1>5, <1>6, SoundExact
<1> QED
    BY <1>3, <1>5, <1>6, <1>7, CrashLeaves

LEMMA CrashStep == ASSUME LogInv, Crash PROVE LogInv'
<1>1. /\ handle # "down"
      /\ \/ CrashTo([disk EXCEPT !.tail = IF step = "failed" THEN "torn" ELSE disk.tail])
         \/ \E d \in PowerLoss(disk) : CrashTo(d)
    BY DEF Crash
<1> QED
    BY <1>1, KillStep, PowerLossStep

-----------------------------------------------------------------------------
LEMMA LogInitially == LogInit => LogInv
<1> SUFFICES ASSUME LogInit PROVE LogInv
    OBVIOUS
<1>1. /\ disk = [snap |-> NoEntries, header |-> "none", frames |-> <<>>, tail |-> "whole", synced |-> 0, undone |-> <<>>]
      /\ handle = "down" /\ step = "idle" /\ pend = <<>> /\ dest = NoDir /\ staging = NoDir /\ hist = <<>> /\ floor = 0
    BY DEF LogInit
<1>2. /\ disk \in LogDisks /\ disk.snap = NoEntries /\ disk.frames = <<>> /\ disk.synced = 0 /\ disk.undone = <<>>
      /\ disk.tail = "whole"
    BY <1>1, ToldState DEF LogDisks
<1>3. Recovered(disk) = Told(hist)
    BY <1>1, <1>2 DEF Recovered, Told
<1>4. hist \in Seq(LogBatches) /\ floor \in 0..Len(hist) /\ disk.synced = Len(disk.frames)
    BY <1>1, <1>2
<1>5. Sound(disk, hist, floor, pend)
    BY <1>2, <1>3, <1>4, SoundExact
<1>6. LogShape
    BY <1>1, <1>2, <1>4, CopyTypes DEF LogShape, LogSteps, LogBatches
<1>7. MemoryTold /\ FramesTold /\ StepFinds
    BY <1>1, <1>3 DEF MemoryTold, FramesTold, StepFinds
<1>8. CheckpointWhole
    BY <1>1, CopyTypes DEF CheckpointWhole
<1> QED
    BY <1>5, <1>6, <1>7, <1>8 DEF LogInv

LogSpec == LogInit /\ [][LogNext]_logVars

(* The inductive invariant of the log: with sync_on_write the snapshot, the frames and  *)
(* the acknowledged history stay in step through rollbacks, compactions and crashes.    *)
THEOREM LogInvariant == ASSUME SyncOnWrite PROVE LogSpec => []LogInv
<1>1. LogInv /\ [LogNext]_logVars => LogInv'
    BY OpenStep, AppendStep, RollbackWalStep, PoisonStep, AcknowledgeStep, InstallStep, TruncateStep, WriteHeaderStep,
       TakeErrorStep, FlushStep, CloseStep, DropStep, CheckpointStartStep, CheckpointBuildStep, CheckpointPublishStep,
       CheckpointEndStep, CrashStep, LogStutter DEF LogNext
<1> QED
    BY <1>1, LogInitially, PTL DEF LogSpec

(* With sync_on_write, whatever instant the process is killed or the power goes, an open *)
(* of what is left that succeeds finds a prefix of the acknowledged batches with at      *)
(* least all those synced, and it is refused only for a garbled unsynced tail or a log   *)
(* header lost in a failed compaction (write_with_faults, compact, recover_wal).         *)
THEOREM SyncedLogIsDurable == ASSUME SyncOnWrite PROVE LogSpec => []DurablePrefix
<1>1. ASSUME LogInv PROVE DurablePrefix
  <2>1. LogShape /\ Sound(disk, hist, floor, pend)
    BY <1>1 DEF LogInv
  <2>2. /\ disk \in LogDisks /\ disk.synced <= Len(disk.frames) /\ floor \in 0..Len(hist) /\ hist \in Seq(LogBatches)
        /\ pend \in LogBatches
    BY <2>1 DEF LogShape
  <2>3. ASSUME NEW d \in PowerLoss(disk) \cup {disk}, Readable(d)
        PROVE  \E h \in {SubSeq(hist, 1, n) : n \in floor..Len(hist)} \cup {Append(hist, pend)} :
                   Recovered(d) = ApplyAll(NoEntries, h)
    BY <2>1, <2>2, <2>3, LossFinds DEF Survivors, Told
  <2>4. ASSUME NEW d \in PowerLoss(disk) \cup {disk}, ~Readable(d)
        PROVE  \/ d.tail = "garbled" /\ (disk.tail # "whole" \/ d.frames # disk.frames \/ disk.synced < Len(disk.frames))
               \/ d.header = "none" /\ disk.header = "none"
    <3>1. CASE d = disk
      BY <2>2, <2>4, <3>1, DiskParts DEF Readable
    <3>2. ASSUME NEW n \in disk.synced..Len(disk.frames), NEW t \in Damage(disk, n),
                 DiskIs(d, disk.snap, disk.header, SubSeq(disk.frames, 1, n), t, n, <<>>)
          PROVE  \/ d.tail = "garbled" /\ (disk.tail # "whole" \/ d.frames # disk.frames \/ disk.synced < Len(disk.frames))
                 \/ d.header = "none" /\ disk.header = "none"
      <4>1. d.tail = t /\ d.header = disk.header /\ d.frames = SubSeq(disk.frames, 1, n)
        BY <3>2 DEF DiskIs
      <4>2. disk.frames \in Seq(LogBatches) /\ n \in 0..Len(disk.frames) /\ Len(disk.frames) \in Nat /\ disk.synced \in Nat
        BY <2>2, DiskParts
      <4>3. Len(SubSeq(disk.frames, 1, n)) = n
        BY <4>2, Beginnings
      <4>4. CASE t = "garbled"
        <5>1. disk.tail = "garbled" \/ n # Len(disk.frames) \/ disk.synced # n
          BY <4>4 DEF Damage
        <5>2. n # Len(disk.frames) => SubSeq(disk.frames, 1, n) # disk.frames
          BY <4>3
        <5>3. n = Len(disk.frames) /\ disk.synced # n => disk.synced < Len(disk.frames)
          BY <2>2, <4>2
        <5> QED
          BY <4>1, <4>4, <5>1, <5>2, <5>3
      <4>5. CASE t # "garbled"
        BY <2>2, <2>4, <4>1, <4>5, DiskParts DEF Readable
      <4> QED
        BY <4>4, <4>5
    <3>3. ~DiskIs(d, disk.snap, "magic", disk.undone, "whole", Len(disk.undone), <<>>)
      BY <2>4 DEF DiskIs, Readable
    <3> QED
      BY <2>2, <3>1, <3>2, <3>3, LossShape
  <2> QED
    BY <2>3, <2>4 DEF DurablePrefix
<1> QED
    BY <1>1, LogInvariant, PTL

(* With sync_on_write, a checkpoint directory that exists is complete, holds an           *)
(* acknowledged state, and the source recovers at least that state after any crash        *)
(* (checkpoint_with_faults).                                                              *)
THEOREM CheckpointsAreWhole == ASSUME SyncOnWrite PROVE LogSpec => []CheckpointWhole
<1>1. LogInv => CheckpointWhole
    BY DEF LogInv
<1> QED
    BY <1>1, LogInvariant, PTL

-----------------------------------------------------------------------------
(* The two orders of the engine: that of the entries and that of the market. *)
KeysBelow(S) == [k \in S |-> {j \in S : j < k}]
MarketBelow(S) == [k \in S |-> {j \in S : MarketLess(j, k)}]

\* Any set of keys is in the order of the entries, and InOrder lists it so ...
LEMMA KeysOrdered ==
    ASSUME NEW S \in SUBSET LogKeys
    PROVE  /\ IsFiniteSet(S) /\ TotalOrder(S, KeysBelow(S))
           /\ Arranged(InOrder(S, KeyLess), S, KeysBelow(S))
<1> DEFINE below == KeysBelow(S)
<1>1. IsFiniteSet(S) /\ \A k \in S : k \in Nat
    BY RustLogAssumption, FS_Subset
<1>2. \A k \in S : below[k] = {j \in S : j < k}
    BY DEF KeysBelow
<1> HIDE DEF below
<1>3. TotalOrder(S, below)
  <2>1. \A k \in S : below[k] \in SUBSET S /\ k \notin below[k]
    BY <1>1, <1>2
  <2>2. ASSUME NEW j \in S, NEW k \in S, j \in below[k] PROVE below[j] \subseteq below[k]
    <3>1. j < k
      BY <1>2, <2>2
    <3>2. \A i \in S : i < j => i < k
      BY <1>1, <3>1
    <3> QED
      BY <1>2, <3>2
  <2>3. ASSUME NEW j \in S, NEW k \in S, j # k PROVE j \in below[k] \/ k \in below[j]
    <3>1. j < k \/ k < j
      BY <1>1, <2>3
    <3> QED
      BY <1>2, <3>1
  <2> QED
    BY <2>1, <2>2, <2>3 DEF TotalOrder
<1>4. \A n \in 1..Cardinality(S) : \E k \in S : Cardinality(below[k]) = n - 1
    BY <1>1, <1>3, PlacesCover
<1>5. \A n \in 1..Cardinality(S) : \E k \in S : Cardinality({j \in S : j < k}) = n - 1
    BY <1>2, <1>4
<1> DEFINE at(n) == CHOOSE k \in S : Cardinality({j \in S : j < k}) = n - 1
<1>6. \A n \in 1..Cardinality(S) : at(n) \in S /\ Cardinality({j \in S : j < at(n)}) = n - 1
    BY <1>5
<1>7. InOrder(S, KeyLess) = [n \in 1..Cardinality(S) |-> at(n)]
    BY DEF InOrder, KeyLess
<1> HIDE DEF at
<1>8. \A n \in 1..Cardinality(S) : at(n) \in S /\ Cardinality(below[at(n)]) = n - 1
    BY <1>2, <1>6
<1>9. Arranged(InOrder(S, KeyLess), S, below)
    BY <1>7, <1>8 DEF Arranged
<1> QED
    BY <1>1, <1>3, <1>9 DEF below

\* ... and any set of market keys in that of the market.
LEMMA MarketOrdered ==
    ASSUME NEW S \in SUBSET MarketKeys
    PROVE  /\ IsFiniteSet(S) /\ TotalOrder(S, MarketBelow(S))
           /\ Arranged(InOrder(S, MarketLess), S, MarketBelow(S))
<1> DEFINE below == MarketBelow(S)
<1>1. IsFiniteSet(S) /\ \A k \in S : k \in Nat /\ PriceOf[k] \in Int
    BY RustLogAssumption, FS_Subset
<1>2. \A k \in S : below[k] = {j \in S : MarketLess(j, k)}
    BY DEF MarketBelow
<1> HIDE DEF below
<1>3. TotalOrder(S, below)
  <2>1. \A k \in S : below[k] \in SUBSET S /\ k \notin below[k]
    BY <1>1, <1>2 DEF MarketLess
  <2>2. ASSUME NEW j \in S, NEW k \in S, j \in below[k] PROVE below[j] \subseteq below[k]
    <3>1. MarketLess(j, k)
      BY <1>2, <2>2
    <3>2. \A i \in S : MarketLess(i, j) => MarketLess(i, k)
      BY <1>1, <3>1 DEF MarketLess
    <3> QED
      BY <1>2, <3>2
  <2>3. ASSUME NEW j \in S, NEW k \in S, j # k PROVE j \in below[k] \/ k \in below[j]
    <3>1. MarketLess(j, k) \/ MarketLess(k, j)
      BY <1>1, <2>3 DEF MarketLess
    <3> QED
      BY <1>2, <3>1
  <2> QED
    BY <2>1, <2>2, <2>3 DEF TotalOrder
<1>4. \A n \in 1..Cardinality(S) : \E k \in S : Cardinality(below[k]) = n - 1
    BY <1>1, <1>3, PlacesCover
<1>5. \A n \in 1..Cardinality(S) : \E k \in S : Cardinality({j \in S : MarketLess(j, k)}) = n - 1
    BY <1>2, <1>4
<1> DEFINE at(n) == CHOOSE k \in S : Cardinality({j \in S : MarketLess(j, k)}) = n - 1
<1>6. \A n \in 1..Cardinality(S) : at(n) \in S /\ Cardinality({j \in S : MarketLess(j, at(n))}) = n - 1
    BY <1>5
<1>7. InOrder(S, MarketLess) = [n \in 1..Cardinality(S) |-> at(n)]
    BY DEF InOrder
<1> HIDE DEF at
<1>8. \A n \in 1..Cardinality(S) : at(n) \in S /\ Cardinality(below[at(n)]) = n - 1
    BY <1>2, <1>6
<1>9. Arranged(InOrder(S, MarketLess), S, below)
    BY <1>7, <1>8 DEF Arranged
<1> QED
    BY <1>1, <1>3, <1>9 DEF below

-----------------------------------------------------------------------------
(* A query that is answered in pages. *)

\* What is after the i-th of the rows F.
RowsFrom(i, a, F, U) ==
    /\ a \in F /\ Cardinality(F) \in Nat
    /\ InOrder(U, MarketLess) \in Seq(U) /\ Len(InOrder(U, MarketLess)) = Cardinality(F) - i
    /\ \A n \in 1..Cardinality(F) - i : InOrder(U, MarketLess)[n] = InOrder(F, MarketLess)[i + n]

\* The rows after a key are those of the whole list behind it.
LEMMA RowsBehind ==
    ASSUME NEW F \in SUBSET MarketKeys, NEW i \in 1..Cardinality(F), NEW a, a = InOrder(F, MarketLess)[i],
           NEW U, U = {k \in F : MarketLess(a, k)}
    PROVE  RowsFrom(i, a, F, U)
<1> DEFINE f == InOrder(F, MarketLess)
           g == InOrder(U, MarketLess)
           below == MarketBelow(F)
           above == MarketBelow(U)
<1>1. IsFiniteSet(F) /\ TotalOrder(F, below) /\ Arranged(f, F, below)
    BY MarketOrdered
<1>2. U \in SUBSET F
    OBVIOUS
<1>3. U \in SUBSET MarketKeys
    BY <1>2
<1>4. IsFiniteSet(U) /\ TotalOrder(U, above) /\ Arranged(g, U, above)
    BY <1>3, MarketOrdered
<1>5. /\ \A k \in F : below[k] = {j \in F : MarketLess(j, k)}
      /\ \A k \in U : above[k] = {j \in U : MarketLess(j, k)}
    BY DEF MarketBelow
<1>6. a \in F /\ Cardinality(below[a]) = i - 1 /\ a = f[i]
    BY <1>1 DEF Arranged
<1> HIDE DEF f, g, below, above
<1>7. \A k \in U : above[k] = below[k] \cap U
    BY <1>2, <1>5
<1>8. \A k \in F : k \in U <=> a \in below[k]
    BY <1>5, <1>6
<1>9. ASSUME NEW k \in F, NEW u \in U, u \in below[k] PROVE k \in U
  <2>1. a \in below[u] /\ u \in F
    BY <1>2, <1>8
  <2>2. below[u] \subseteq below[k]
    BY <1>1, <1>9, <2>1 DEF TotalOrder
  <2> QED
    BY <1>8, <2>1, <2>2
<1>10. \A k \in F : \A u \in U : u \in below[k] => k \in U
    BY <1>9
<1> DEFINE d == Cardinality(F \ U)
<1>11. /\ Cardinality(F) \in Nat /\ Cardinality(U) \in Nat /\ d \in Nat
       /\ Cardinality(F) = d + Cardinality(U)
       /\ \A n \in 1..Cardinality(U) : g[n] = f[d + n]
  <2>1. UpperPart(U, above, F, below)
    BY <1>2, <1>7, <1>10 DEF UpperPart
  <2>2. EndOf(g, U, f, F)
    BY <1>1, <1>4, <2>1, UpperArranged
  <2> QED
    BY <2>2 DEF EndOf
<1>12. d = i
  <2>1. F \ U = below[a] \cup {a}
    <3>1. \A k \in F : k \in below[a] \cup {a} => ~(a \in below[k])
      <4> SUFFICES ASSUME NEW k \in F, k \in below[a] \cup {a}, a \in below[k] PROVE FALSE
        OBVIOUS
      <4>1. k # a
        BY <1>1, <1>6 DEF TotalOrder
      <4>2. k \in below[a]
        BY <4>1
      <4>3. below[k] \subseteq below[a]
        BY <1>1, <1>6, <4>2 DEF TotalOrder
      <4> QED
        BY <1>1, <1>6, <4>3 DEF TotalOrder
    <3>2. \A k \in F : ~(a \in below[k]) => k \in below[a] \cup {a}
      BY <1>1, <1>6 DEF TotalOrder
    <3>3. below[a] \subseteq F
      BY <1>1, <1>6 DEF TotalOrder
    <3> QED
      BY <1>2, <1>6, <1>8, <3>1, <3>2, <3>3
  <2>2. a \notin below[a] /\ IsFiniteSet(below[a])
    BY <1>1, <1>6, PlacesCover DEF TotalOrder
  <2>3. Cardinality(below[a] \cup {a}) = Cardinality(below[a]) + 1
    BY <2>2, FS_AddElement
  <2>4. d = Cardinality(below[a]) + 1
    BY <2>1, <2>3
  <2>5. i \in Nat
    BY <1>11
  <2> HIDE DEF d
  <2> QED
    BY <1>6, <2>4, <2>5
<1>13. g \in Seq(U) /\ Len(g) = Cardinality(U)
    BY <1>4, ArrangedAll
<1> HIDE DEF d
<1>14. i \in Nat /\ Cardinality(U) = Cardinality(F) - i
    BY <1>11, <1>12
<1>15. \A n \in 1..Cardinality(F) - i : g[n] = f[i + n]
    BY <1>11, <1>12, <1>14
<1> QED
    BY <1>6, <1>11, <1>13, <1>14, <1>15 DEF RowsFrom, f, g

\* The rows that a query finds.
FoundRows(after, excluded) ==
    {k \in mem.market : (after = 0 \/ MarketLess(after, k)) /\ k # excluded /\ mem.entries[k] # Gone}

\* A query answers with the first of them.
LEMMA RowsAre ==
    ASSUME NEW after, NEW excluded, NEW n \in Nat, FoundRows(after, excluded) \in SUBSET MarketKeys
    PROVE  LET rows == InOrder(FoundRows(after, excluded), MarketLess)
           IN MarketRows(after, excluded, n) = SubSeq(rows, 1, IF n < Len(rows) THEN n ELSE Len(rows))
    BY DEF MarketRows, FoundRows

\* Pages of any size tile the market when the index is exact.
LEMMA PagesAreWhole ==
    ASSUME mem.market = BuildMarketIndex(mem.entries), NEW x
    PROVE  PagesTile(x)
<1> DEFINE M == mem.market
           F == M \ {x}
           f == InOrder(F, MarketLess)
           N == Cardinality(F)
           all == MarketRows(0, x, Cardinality(M))
<1>1. M \in SUBSET MarketKeys /\ \A k \in M : mem.entries[k] # Gone
    BY DEF BuildMarketIndex, Present
<1>2. F \in SUBSET MarketKeys /\ F \in SUBSET M
    BY <1>1
<1>3. IsFiniteSet(M) /\ IsFiniteSet(F)
    BY <1>1, <1>2, MarketOrdered
<1>4. Cardinality(M) \in Nat /\ N \in Nat /\ N <= Cardinality(M)
    BY <1>2, <1>3, FS_Subset, FS_CardinalityType
<1>5. FoundRows(0, x) = F
    BY <1>1 DEF FoundRows
<1>6. /\ f \in Seq(F) /\ Len(f) = N /\ \A n \in 1..N : f[n] \in F
      /\ \A k \in F : \E n \in 1..N : f[n] = k
  <2> DEFINE below == MarketBelow(F)
  <2>1. IsFiniteSet(F) /\ TotalOrder(F, below) /\ Arranged(f, F, below)
    BY <1>2, MarketOrdered
  <2> HIDE DEF f, below, F
  <2>2. f \in Seq(F) /\ Len(f) = Cardinality(F) /\ \A k \in F : \E n \in 1..Cardinality(F) : f[n] = k
    BY <2>1, ArrangedAll
  <2>3. \A n \in 1..Cardinality(F) : f[n] \in F
    BY <2>1 DEF Arranged
  <2> QED
    BY <2>2, <2>3 DEF F, f
<1>7. all = f
  <2>1. all = SubSeq(f, 1, IF Cardinality(M) < Len(f) THEN Cardinality(M) ELSE Len(f))
    BY <1>2, <1>4, <1>5, RowsAre
  <2>2. ~(Cardinality(M) < Len(f))
    <3>1. Len(f) = N
      BY <1>6
    <3> HIDE DEF N, M, f
    <3> QED
      BY <1>4, <3>1
  <2> HIDE DEF all, f
  <2>3. all = SubSeq(f, 1, Len(f))
    BY ONLY <2>1, <2>2
  <2>4. f \in Seq(F)
    BY <1>6
  <2> HIDE DEF F
  <2> QED
    BY ONLY <2>3, <2>4
<1>8. Range(all) = BuildMarketIndex(mem.entries) \ {x}
  <2>1. DOMAIN f = 1..N
    BY <1>6
  <2>2. Range(f) = {f[n] : n \in DOMAIN f}
    BY DEF Range
  <2> HIDE DEF f, N
  <2>3. Range(f) = F
    BY <1>6, <2>1, <2>2
  <2> QED
    BY <1>7, <2>3
<1>9. ASSUME NEW i \in 1..N, NEW n \in 0..N
      PROVE  MarketRows(f[i], x, n) = SubSeq(f, i + 1, IF i + n < N THEN i + n ELSE N)
  <2> DEFINE a == f[i]
             U == {k \in F : MarketLess(a, k)}
             g == InOrder(U, MarketLess)
             m == IF n < N - i THEN n ELSE N - i
  <2>1. /\ a \in F /\ g \in Seq(U) /\ Len(g) = N - i
        /\ \A j \in 1..N - i : g[j] = f[i + j]
    <3>1. a = InOrder(F, MarketLess)[i] /\ i \in 1..Cardinality(F) /\ F \in SUBSET MarketKeys
      BY <1>2
    <3> HIDE DEF F, a, f
    <3>2. U = {k \in F : MarketLess(a, k)}
      OBVIOUS
    <3> HIDE DEF U
    <3>3. RowsFrom(i, a, F, U)
      BY ONLY <3>1, <3>2, RowsBehind
    <3> QED
      BY ONLY <3>3 DEF RowsFrom, g, f, N
  <2>2. a # 0
    BY <1>2, <2>1, RustLogAssumption
  <2>3. FoundRows(a, x) = U
    BY <1>1, <2>2 DEF FoundRows
  <2>4. n \in Nat /\ i \in Nat /\ U \in SUBSET MarketKeys
    <3>1. U \in SUBSET MarketKeys
      BY <1>2
    <3> HIDE DEF N
    <3>2. n \in Nat /\ i \in Nat
      BY <1>4
    <3> QED
      BY <3>1, <3>2
  <2>5. MarketRows(a, x, n) = SubSeq(g, 1, IF n < Len(g) THEN n ELSE Len(g))
    BY <2>3, <2>4, RowsAre
  <2> HIDE DEF a, U, g, f, F, N
  <2>6. MarketRows(a, x, n) = SubSeq(g, 1, m) /\ m \in 0..N - i /\ i + m = (IF i + n < N THEN i + n ELSE N)
    BY <1>4, <2>1, <2>4, <2>5
  <2> HIDE DEF m
  <2>7. m \in 0..Len(g) /\ m \in Nat /\ 1 \in 1..Len(g) + 1
    BY <1>4, <2>1, <2>4, <2>6
  <2>8. SubSeq(g, 1, m) = [j \in 1..m |-> g[j]]
    BY <2>1, <2>7
  <2>9. i + 1 \in 1..Len(f) + 1 /\ i + m \in 0..Len(f) /\ i + 1 <= (i + m) + 1
    BY <1>4, <1>6, <2>4, <2>6
  <2>10. SubSeq(f, i + 1, i + m) = [j \in 1..m |-> f[i + j]]
    BY <1>6, <2>4, <2>7, <2>9
  <2>11. \A j \in 1..m : g[j] = f[i + j]
    BY <1>4, <2>1, <2>4, <2>6
  <2> QED
    BY <2>6, <2>8, <2>10, <2>11 DEF a
<1>10. DOMAIN f = 1..N /\ Len(f) = N
    BY <1>6
<1> HIDE DEF f, N, all, F
<1>11. \A i \in DOMAIN all, n \in 0..Len(all) :
          MarketRows(all[i], x, n) = SubSeq(all, i + 1, IF i + n < Len(all) THEN i + n ELSE Len(all))
    BY <1>7, <1>9, <1>10
<1> QED
    BY <1>8, <1>11 DEF PagesTile, all

-----------------------------------------------------------------------------
(* An iterator that is called until nothing is left. *)

\* An iterator put at another position.
LEMMA Moved ==
    ASSUME NEW it \in [pos : Nat, exhausted : BOOLEAN], NEW v \in Nat
    PROVE  [it EXCEPT !.pos = v] = [pos |-> v, exhausted |-> it.exhausted]
OBVIOUS

\* The iterator after i calls of next, from an entry or from the end ...
Forwards(n, from) ==
    [i \in 0..n + 1 |-> IF i = 0 THEN from
                        ELSE IF ~from.exhausted /\ from.pos + i <= n THEN [pos |-> from.pos + i, exhausted |-> FALSE]
                        ELSE [pos |-> 0, exhausted |-> TRUE]]
LEMMA ForwardCalls ==
    ASSUME NEW n \in Nat, NEW from \in [pos : 0..n, exhausted : BOOLEAN], from.exhausted => from.pos = 0
    PROVE  IteratorCalls(n, from, NextEntry) = Forwards(n, from)
<1> DEFINE Body(g) == [i \in 0..n + 1 |-> IF i = 0 THEN from ELSE NextEntry(g[i - 1], n)]
           at == CHOOSE g : g = Body(g)
           c == Forwards(n, from)
<1>1. IteratorCalls(n, from, NextEntry) = at
    BY DEF IteratorCalls
<1>2. ASSUME NEW i \in 0..n + 1, i # 0 PROVE c[i] = NextEntry(c[i - 1], n)
  <2>1. i - 1 \in 0..n + 1 /\ i \in Nat /\ from.pos \in 0..n /\ from.exhausted \in BOOLEAN
    BY <1>2
  <2>2. c[i] = IF ~from.exhausted /\ from.pos + i <= n THEN [pos |-> from.pos + i, exhausted |-> FALSE]
               ELSE [pos |-> 0, exhausted |-> TRUE]
    BY <1>2 DEF Forwards
  <2>3. c[i - 1] = IF i - 1 = 0 THEN from
                   ELSE IF ~from.exhausted /\ from.pos + (i - 1) <= n THEN [pos |-> from.pos + (i - 1), exhausted |-> FALSE]
                   ELSE [pos |-> 0, exhausted |-> TRUE]
    BY <2>1 DEF Forwards
  <2> HIDE DEF c
  <2>4. CASE from.exhausted
    <3>1. c[i - 1].exhausted /\ c[i - 1] = [pos |-> 0, exhausted |-> TRUE]
      BY <2>1, <2>3, <2>4
    <3> QED
      BY <2>2, <2>4, <3>1 DEF NextEntry
  <2>5. CASE ~from.exhausted /\ from.pos + (i - 1) <= n
    <3>1. c[i - 1] = [pos |-> from.pos + (i - 1), exhausted |-> FALSE]
      <4>1. from = [pos |-> from.pos, exhausted |-> from.exhausted]
        OBVIOUS
      <4>2. CASE i - 1 = 0
        <5>1. from.exhausted = FALSE /\ from.pos + (i - 1) = from.pos
          BY <2>1, <2>5, <4>2
        <5> QED
          BY <2>3, <4>1, <4>2, <5>1
      <4>3. CASE i - 1 # 0
        BY <2>3, <2>5, <4>3
      <4> QED
        BY <4>2, <4>3
    <3>2. CASE from.pos + i <= n
      <4> DEFINE x == from.pos + (i - 1)
                 it == [pos |-> x, exhausted |-> FALSE]
      <4>1. x \in Nat /\ x < n /\ x + 1 = from.pos + i
        BY <2>1, <3>2
      <4>2. c[i] = [pos |-> from.pos + i, exhausted |-> FALSE] /\ c[i - 1] = it
        BY <2>2, <2>5, <3>1, <3>2
      <4> HIDE DEF x
      <4>3. NextEntry(it, n) = [it EXCEPT !.pos = @ + 1]
        BY <4>1 DEF NextEntry
      <4>4. [it EXCEPT !.pos = @ + 1] = [pos |-> x + 1, exhausted |-> FALSE]
        <5>1. it \in [pos : Nat, exhausted : BOOLEAN] /\ it.pos = x /\ it.exhausted = FALSE
          BY <4>1
        <5> HIDE DEF it
        <5>2. x + 1 \in Nat
          BY <4>1
        <5>3. [it EXCEPT !.pos = x + 1] = [pos |-> x + 1, exhausted |-> FALSE]
          <6> DEFINE v == x + 1
          <6>1. v \in Nat
            BY <5>2
          <6> HIDE DEF v
          <6>2. [it EXCEPT !.pos = v] = [pos |-> v, exhausted |-> FALSE]
            BY ONLY <5>1, <6>1, Moved
          <6> QED
            BY <6>2 DEF v
        <5> QED
          BY <5>1, <5>3
      <4> HIDE DEF it
      <4> QED
        BY <4>1, <4>2, <4>3, <4>4
    <3>3. CASE ~(from.pos + i <= n)
      BY <2>1, <2>2, <2>5, <3>1, <3>3 DEF NextEntry
    <3> QED
      BY <3>2, <3>3
  <2>6. CASE ~from.exhausted /\ ~(from.pos + (i - 1) <= n)
    <3>1. i - 1 # 0 /\ ~(from.pos + i <= n)
      BY <2>1, <2>6
    <3>2. c[i - 1] = [pos |-> 0, exhausted |-> TRUE]
      BY <2>3, <2>6, <3>1
    <3> QED
      BY <2>2, <3>1, <3>2 DEF NextEntry
  <2> QED
    BY <2>4, <2>5, <2>6
<1>3. c = Body(c)
  <2>1. DOMAIN c = 0..n + 1 /\ c = [i \in 0..n + 1 |-> c[i]] /\ c[0] = from
    BY DEF Forwards
  <2> HIDE DEF c
  <2> QED
    BY <1>2, <2>1
<1>4. at = Body(at)
    BY <1>3
<1> HIDE DEF at
<1>5. DOMAIN at = 0..n + 1 /\ at = [i \in 0..n + 1 |-> at[i]] /\ at[0] = from
    BY <1>4
<1>6. \A i \in 0..n + 1 : i # 0 => at[i] = NextEntry(at[i - 1], n)
    BY <1>4
<1>7. DOMAIN c = 0..n + 1 /\ c = [i \in 0..n + 1 |-> c[i]] /\ c[0] = from
    BY DEF Forwards
<1> HIDE DEF c, Body
<1>8. \A i \in 0..n + 1 : at[i] = c[i]
  <2> DEFINE bad == {i \in 0..n + 1 : at[i] # c[i]}
  <2> SUFFICES ASSUME bad # {} PROVE FALSE
    OBVIOUS
  <2>1. PICK m \in bad : \A k \in bad : m <= k
    <3>1. bad \in SUBSET Nat
      OBVIOUS
    <3> HIDE DEF bad
    <3> QED
      BY <3>1, LeastNumber
  <2>2. m # 0 /\ m - 1 \in 0..n + 1 /\ ~(m <= m - 1)
    BY <1>5, <1>7
  <2>3. at[m - 1] = c[m - 1]
    BY <2>1, <2>2
  <2>4. at[m] = c[m]
    BY <1>2, <1>6, <2>2, <2>3
  <2> QED
    BY <2>4
<1>9. at = c
    BY <1>5, <1>7, <1>8
<1> QED
    BY <1>1, <1>9 DEF c

\* ... and of previous, from the start.
Backwards(n) ==
    [i \in 0..n + 1 |-> IF i = 0 THEN [pos |-> 0, exhausted |-> FALSE]
                        ELSE IF i <= n THEN [pos |-> (n + 1) - i, exhausted |-> FALSE]
                        ELSE [pos |-> 0, exhausted |-> TRUE]]
LEMMA BackwardCalls ==
    ASSUME NEW n \in Nat
    PROVE  IteratorCalls(n, [pos |-> 0, exhausted |-> FALSE], PreviousEntry) = Backwards(n)
<1> DEFINE from == [pos |-> 0, exhausted |-> FALSE]
           Body(g) == [i \in 0..n + 1 |-> IF i = 0 THEN from ELSE PreviousEntry(g[i - 1], n)]
           at == CHOOSE g : g = Body(g)
           c == Backwards(n)
<1>1. IteratorCalls(n, from, PreviousEntry) = at
    BY DEF IteratorCalls
<1>2. ASSUME NEW i \in 0..n + 1, i # 0 PROVE c[i] = PreviousEntry(c[i - 1], n)
  <2>1. i - 1 \in 0..n + 1 /\ i \in Nat
    BY <1>2
  <2>2. c[i] = IF i <= n THEN [pos |-> (n + 1) - i, exhausted |-> FALSE] ELSE [pos |-> 0, exhausted |-> TRUE]
    BY <1>2 DEF Backwards
  <2>3. c[i - 1] = IF i - 1 = 0 THEN from
                   ELSE IF i - 1 <= n THEN [pos |-> (n + 1) - (i - 1), exhausted |-> FALSE]
                   ELSE [pos |-> 0, exhausted |-> TRUE]
    BY <2>1 DEF Backwards
  <2> HIDE DEF c
  <2>4. CASE i - 1 = 0
    <3>1. c[i - 1] = from /\ (i <= n <=> n > 0) /\ (n + 1) - i = n
      BY <1>2, <2>1, <2>3, <2>4
    <3>2. CASE n > 0
      <4>1. PreviousEntry(from, n) = [from EXCEPT !.pos = n]
        BY <3>2 DEF PreviousEntry
      <4>2. [from EXCEPT !.pos = n] = [pos |-> n, exhausted |-> FALSE]
        <5>1. from \in [pos : Nat, exhausted : BOOLEAN] /\ from.exhausted = FALSE
          OBVIOUS
        <5> HIDE DEF from
        <5> QED
          BY <5>1, Moved
      <4> HIDE DEF from
      <4> QED
        BY <2>2, <3>1, <3>2, <4>1, <4>2
    <3>3. CASE ~(n > 0)
      <4>1. PreviousEntry(from, n) = [pos |-> 0, exhausted |-> TRUE]
        BY <3>3 DEF PreviousEntry
      <4> HIDE DEF from
      <4> QED
        BY <2>2, <3>1, <3>3, <4>1
    <3> QED
      BY <3>2, <3>3
  <2>5. CASE i - 1 # 0
    <3> DEFINE x == (n + 1) - (i - 1)
               it == [pos |-> x, exhausted |-> FALSE]
    <3>1. c[i - 1] = it /\ x \in Nat \ {0} /\ (i <= n <=> x > 1) /\ (n + 1) - i = x - 1
      BY <1>2, <2>1, <2>3, <2>5
    <3> HIDE DEF x
    <3>2. CASE x > 1
      <4>1. PreviousEntry(it, n) = [it EXCEPT !.pos = @ - 1]
        BY <3>1, <3>2 DEF PreviousEntry
      <4>2. [it EXCEPT !.pos = @ - 1] = [pos |-> x - 1, exhausted |-> FALSE]
        <5>1. it \in [pos : Nat, exhausted : BOOLEAN] /\ it.pos = x /\ it.exhausted = FALSE
          BY <3>1
        <5> HIDE DEF it
        <5> DEFINE v == x - 1
        <5>2. v \in Nat
          BY <3>1
        <5> HIDE DEF v
        <5>3. [it EXCEPT !.pos = v] = [pos |-> v, exhausted |-> FALSE]
          BY ONLY <5>1, <5>2, Moved
        <5> QED
          BY <5>1, <5>3 DEF v
      <4> HIDE DEF it
      <4> QED
        BY <2>2, <3>1, <3>2, <4>1, <4>2
    <3>3. CASE ~(x > 1)
      <4>1. PreviousEntry(it, n) = [pos |-> 0, exhausted |-> TRUE]
        BY <3>1, <3>3 DEF PreviousEntry
      <4> HIDE DEF it
      <4> QED
        BY <2>2, <3>1, <3>3, <4>1
    <3> QED
      BY <3>2, <3>3
  <2> QED
    BY <2>4, <2>5
<1>3. c = Body(c)
  <2>1. DOMAIN c = 0..n + 1 /\ c = [i \in 0..n + 1 |-> c[i]] /\ c[0] = from
    BY DEF Backwards
  <2> HIDE DEF c
  <2> QED
    BY <1>2, <2>1
<1>4. at = Body(at)
    BY <1>3
<1> HIDE DEF at
<1>5. DOMAIN at = 0..n + 1 /\ at = [i \in 0..n + 1 |-> at[i]] /\ at[0] = from
    BY <1>4
<1>6. \A i \in 0..n + 1 : i # 0 => at[i] = PreviousEntry(at[i - 1], n)
    BY <1>4
<1>7. DOMAIN c = 0..n + 1 /\ c = [i \in 0..n + 1 |-> c[i]] /\ c[0] = from
    BY DEF Backwards
<1> HIDE DEF c, Body
<1>8. \A i \in 0..n + 1 : at[i] = c[i]
  <2> DEFINE bad == {i \in 0..n + 1 : at[i] # c[i]}
  <2> SUFFICES ASSUME bad # {} PROVE FALSE
    OBVIOUS
  <2>1. PICK m \in bad : \A k \in bad : m <= k
    <3>1. bad \in SUBSET Nat
      OBVIOUS
    <3> HIDE DEF bad
    <3> QED
      BY <3>1, LeastNumber
  <2>2. m # 0 /\ m - 1 \in 0..n + 1 /\ ~(m <= m - 1)
    BY <1>5, <1>7
  <2>3. at[m - 1] = c[m - 1]
    BY <2>1, <2>2
  <2>4. at[m] = c[m]
    BY <1>2, <1>6, <2>2, <2>3
  <2> QED
    BY <2>4
<1>9. at = c
    BY <1>5, <1>7, <1>8
<1> QED
    BY <1>1, <1>9 DEF c

\* The keys behind an entry, one by one; none from the end.
LEMMA WalkForwards ==
    ASSUME NEW S, NEW keys \in Seq(S), NEW from \in [pos : 0..Len(keys), exhausted : BOOLEAN],
           from.exhausted => from.pos = 0
    PROVE  Walk(keys, from, NextEntry)
           = IF from.exhausted THEN <<>> ELSE [i \in 1..Len(keys) - from.pos |-> keys[from.pos + i]]
<1> DEFINE n == Len(keys)
           p == from.pos
           at == Forwards(n, from)
           calls == {i \in 1..n + 1 : \A j \in 1..i : at[j].pos # 0}
           m == IF from.exhausted THEN 0 ELSE n - p
<1>1. n \in Nat /\ p \in 0..n /\ from.exhausted \in BOOLEAN
    OBVIOUS
<1>2. Walk(keys, from, NextEntry) = [i \in 1..Cardinality(calls) |-> keys[at[i].pos]]
  <2>1. IteratorCalls(n, from, NextEntry) = at
    <3>1. from \in [pos : 0..n, exhausted : BOOLEAN]
      OBVIOUS
    <3> HIDE DEF n
    <3> QED
      BY <1>1, <3>1, ForwardCalls
  <2> HIDE DEF at
  <2> QED
    BY <2>1 DEF Walk
<1>3. \A j \in 1..n + 1 : at[j] = IF ~from.exhausted /\ p + j <= n THEN [pos |-> p + j, exhausted |-> FALSE]
                                  ELSE [pos |-> 0, exhausted |-> TRUE]
    BY <1>1 DEF Forwards
<1> HIDE DEF n, p, at
<1>4. m \in 0..n
    BY <1>1
<1>5. \A j \in 1..n + 1 : at[j].pos = IF j <= m THEN p + j ELSE 0
  <2> SUFFICES ASSUME NEW j \in 1..n + 1 PROVE at[j].pos = IF j <= m THEN p + j ELSE 0
    OBVIOUS
  <2>1. j <= m <=> (~from.exhausted /\ p + j <= n)
    BY <1>1
  <2>2. CASE j <= m
    <3>1. at[j] = [pos |-> p + j, exhausted |-> FALSE]
      BY <1>3, <2>1, <2>2
    <3> QED
      BY <2>2, <3>1
  <2>3. CASE ~(j <= m)
    <3>1. at[j] = [pos |-> 0, exhausted |-> TRUE]
      BY <1>3, <2>1, <2>3
    <3> QED
      BY <2>3, <3>1
  <2> QED
    BY <2>2, <2>3
<1> HIDE DEF m
<1>6. calls = 1..m
  <2>1. ASSUME NEW i \in 1..m PROVE i \in calls
    <3>1. i \in 1..n + 1
      BY <1>1, <1>4
    <3>2. ASSUME NEW j \in 1..i PROVE at[j].pos # 0
      <4>1. j \in 1..n + 1 /\ j <= m /\ j >= 1
        BY <1>1, <1>4
      <4>2. at[j].pos = p + j
        BY <1>5, <4>1
      <4> QED
        BY <1>1, <4>1, <4>2
    <3> QED
      BY <3>1, <3>2
  <2>2. ASSUME NEW i \in calls PROVE i \in 1..m
    <3>1. i \in 1..n + 1 /\ at[i].pos # 0
      OBVIOUS
    <3>2. i <= m
      BY <1>5, <3>1
    <3> QED
      BY <1>4, <3>1, <3>2
  <2> QED
    BY <2>1, <2>2
<1>7. Cardinality(calls) = m
  <2>1. m \in Nat /\ m \in Int /\ 1 \in Int
    BY <1>1, <1>4
  <2>2. Cardinality(1..m) = m
    BY <2>1, FS_Interval
  <2> QED
    BY <1>6, <2>2
<1> HIDE DEF calls
<1>8. \A i \in 1..m : i \in 1..n + 1 /\ i <= m
    BY <1>1, <1>4
<1>9. [i \in 1..m |-> keys[at[i].pos]] = [i \in 1..m |-> keys[p + i]]
    BY <1>5, <1>8
<1>10. Walk(keys, from, NextEntry) = [i \in 1..m |-> keys[p + i]]
    BY <1>2, <1>7, <1>9
<1> QED
    BY <1>10 DEF m, n, p

\* All keys from the last one.
LEMMA WalkBackwards ==
    ASSUME NEW S, NEW keys \in Seq(S)
    PROVE  Walk(keys, [pos |-> 0, exhausted |-> FALSE], PreviousEntry) = Reverse(keys)
<1> DEFINE n == Len(keys)
           from == [pos |-> 0, exhausted |-> FALSE]
           at == Backwards(n)
           calls == {i \in 1..n + 1 : \A j \in 1..i : at[j].pos # 0}
<1>1. n \in Nat
    OBVIOUS
<1>2. Walk(keys, from, PreviousEntry) = [i \in 1..Cardinality(calls) |-> keys[at[i].pos]]
  <2>1. IteratorCalls(n, from, PreviousEntry) = at
    <3> HIDE DEF n
    <3> QED
      BY <1>1, BackwardCalls
  <2> HIDE DEF at, from
  <2> QED
    BY <2>1 DEF Walk
<1>3. \A j \in 1..n + 1 : at[j] = IF j <= n THEN [pos |-> (n + 1) - j, exhausted |-> FALSE]
                                  ELSE [pos |-> 0, exhausted |-> TRUE]
    BY <1>1 DEF Backwards
<1> HIDE DEF n, at
<1>4. \A j \in 1..n + 1 : at[j].pos = IF j <= n THEN (n + 1) - j ELSE 0
  <2> SUFFICES ASSUME NEW j \in 1..n + 1 PROVE at[j].pos = IF j <= n THEN (n + 1) - j ELSE 0
    OBVIOUS
  <2>1. CASE j <= n
    <3>1. at[j] = [pos |-> (n + 1) - j, exhausted |-> FALSE]
      BY <1>3, <2>1
    <3> QED
      BY <2>1, <3>1
  <2>2. CASE ~(j <= n)
    <3>1. at[j] = [pos |-> 0, exhausted |-> TRUE]
      BY <1>3, <2>2
    <3> QED
      BY <2>2, <3>1
  <2> QED
    BY <2>1, <2>2
<1>5. calls = 1..n
  <2>1. ASSUME NEW i \in 1..n PROVE i \in calls
    <3>1. i \in 1..n + 1
      BY <1>1
    <3>2. ASSUME NEW j \in 1..i PROVE at[j].pos # 0
      <4>1. j \in 1..n + 1 /\ j <= n /\ j >= 1
        BY <1>1
      <4>2. at[j].pos = (n + 1) - j
        BY <1>4, <4>1
      <4> QED
        BY <1>1, <4>1, <4>2
    <3> QED
      BY <3>1, <3>2
  <2>2. ASSUME NEW i \in calls PROVE i \in 1..n
    <3>1. i \in 1..n + 1 /\ at[i].pos # 0
      OBVIOUS
    <3>2. i <= n
      BY <1>4, <3>1
    <3> QED
      BY <1>1, <3>1, <3>2
  <2> QED
    BY <2>1, <2>2
<1>6. Cardinality(calls) = n
  <2>1. n \in Int /\ 1 \in Int
    BY <1>1
  <2>2. Cardinality(1..n) = n
    BY <1>1, <2>1, FS_Interval
  <2> QED
    BY <1>5, <2>2
<1> HIDE DEF calls
<1>7. \A i \in 1..n : i \in 1..n + 1 /\ i <= n /\ (n + 1) - i = (n - i) + 1
    BY <1>1
<1>8. [i \in 1..n |-> keys[at[i].pos]] = [i \in 1..n |-> keys[(n - i) + 1]]
    BY <1>4, <1>7
<1>9. Reverse(keys) = [i \in 1..n |-> keys[(n - i) + 1]]
    BY DEF Reverse, n
<1> QED
    BY <1>2, <1>6, <1>8, <1>9

\* A list is its first entry and the rest of it.
LEMMA FirstAndRest ==
    ASSUME NEW T, NEW g \in Seq(T), Len(g) >= 1, NEW w \in Seq(T), Len(w) = Len(g) - 1,
           \A i \in 1..Len(w) : w[i] = g[i + 1],
           NEW x \in Seq(T), Len(x) = 1, x[1] = g[1]
    PROVE  x \o w = g
<1>1. Len(g) \in Nat /\ Len(w) \in Nat
    OBVIOUS
<1>2. x \o w \in Seq(T) /\ Len(x \o w) = Len(x) + Len(w)
    BY ONLY x \in Seq(T), w \in Seq(T)
<1>3. Len(x \o w) = Len(g)
    BY <1>1, <1>2
<1>4. ASSUME NEW i \in 1..Len(g) PROVE (x \o w)[i] = g[i]
  <2>0. i \in 1..Len(x) + Len(w) /\ i \in Nat
    BY <1>1
  <2>1. (x \o w)[i] = IF i <= Len(x) THEN x[i] ELSE w[i - Len(x)]
    BY ONLY x \in Seq(T), w \in Seq(T), <2>0
  <2>2. CASE i = 1
    BY ONLY <2>1, <2>2, Len(x) = 1, x[1] = g[1]
  <2>3. CASE i # 1
    <3>1. i - 1 \in 1..Len(w) /\ (i - 1) + 1 = i /\ ~(i <= 1)
      BY <1>1, <2>0, <2>3
    <3>2. w[i - 1] = g[i]
      BY <3>1
    <3> QED
      BY ONLY <2>1, <3>1, <3>2, Len(x) = 1
  <2> QED
    BY <2>2, <2>3
<1> DEFINE y == x \o w
<1>5. y \in Seq(T) /\ Len(y) = Len(g) /\ \A i \in 1..Len(g) : y[i] = g[i]
    BY <1>2, <1>3, <1>4
<1> HIDE DEF y
<1>6. y = g
    BY ONLY <1>5, g \in Seq(T)
<1> QED
    BY <1>6 DEF y

\* A seek stops before as many entries as are below its target.
SeekStops(keys, k, S, U, g) ==
    /\ EndOf(g, U, keys, S) /\ g \in Seq(U) /\ Len(g) = Cardinality(U)
    /\ Cardinality({i \in DOMAIN keys : keys[i] < k}) = Cardinality(S \ U)
LEMMA SeekPlace ==
    ASSUME NEW S \in SUBSET LogKeys, NEW keys, keys = InOrder(S, KeyLess), NEW k \in LogKeys,
           NEW U, U = {j \in S : k <= j}, NEW g, g = InOrder(U, KeyLess)
    PROVE  SeekStops(keys, k, S, U, g)
<1> DEFINE N == Cardinality(S)
           M == Cardinality(U)
           d == Cardinality(S \ U)
           below == KeysBelow(S)
           above == KeysBelow(U)
           D == {i \in DOMAIN keys : keys[i] < k}
<1>1. k \in Nat /\ (\A j \in S : j \in Nat) /\ U \in SUBSET S
    BY RustLogAssumption
<1>2. U \in SUBSET LogKeys
    BY <1>1
<1>3. /\ IsFiniteSet(S) /\ TotalOrder(S, below) /\ Arranged(keys, S, below)
      /\ IsFiniteSet(U) /\ TotalOrder(U, above) /\ Arranged(g, U, above)
    BY <1>2, KeysOrdered
<1>4. (\A j \in S : below[j] = {i \in S : i < j}) /\ (\A j \in U : above[j] = {i \in U : i < j})
    BY DEF KeysBelow
<1> HIDE DEF below, above
<1>5. UpperPart(U, above, S, below)
  <2>1. ASSUME NEW j \in S, NEW u \in U, u \in below[j] PROVE j \in U
    <3>1. k <= u /\ u < j /\ u \in Nat /\ j \in Nat
      BY <1>1, <1>4, <2>1
    <3>2. k <= j
      BY <1>1, <3>1
    <3> QED
      BY <3>2
  <2>2. \A j \in U : above[j] = below[j] \cap U
    BY <1>1, <1>4
  <2> QED
    BY <1>1, <2>1, <2>2 DEF UpperPart
<1>6. EndOf(g, U, keys, S)
    BY <1>3, <1>5, UpperArranged
<1>7. /\ N \in Nat /\ M \in Nat /\ d \in Nat /\ N = d + M /\ \A n \in 1..M : g[n] = keys[d + n]
    BY <1>6 DEF EndOf
<1>8. /\ g \in Seq(U) /\ Len(g) = M /\ \A j \in U : \E n \in 1..M : g[n] = j
    BY ONLY <1>3, ArrangedAll
<1>9. /\ keys \in Seq(S) /\ Len(keys) = N /\ \A m, n \in 1..N : keys[m] \in below[keys[n]] <=> m < n
    BY <1>3, ArrangedAll
<1> HIDE DEF N, M, d
<1>10. DOMAIN keys = 1..N /\ \A i \in 1..N : keys[i] \in S
    BY <1>7, <1>9
<1>11. ASSUME NEW i \in 1..N PROVE keys[i] < k <=> i <= d
  <2>1. keys[i] \in S /\ keys[i] \in Nat /\ i \in Nat /\ (keys[i] < k <=> keys[i] \notin U)
    <3>1. keys[i] \in S /\ keys[i] \in Nat /\ i \in Nat
      <4>1. i \in Nat
        BY ONLY <1>7, i \in 1..N
      <4>2. keys[i] \in S
        BY ONLY <1>10, i \in 1..N
      <4>3. keys[i] \in Nat
        BY ONLY <1>1, <4>2
      <4> QED
        BY ONLY <4>1, <4>2, <4>3
    <3>2. keys[i] \in U <=> k <= keys[i]
      BY <3>1
    <3>3. keys[i] < k <=> ~(k <= keys[i])
      BY <1>1, <3>1
    <3> QED
      BY <3>1, <3>2, <3>3
  <2>2. CASE i <= d
    <3> SUFFICES ASSUME keys[i] \in U PROVE FALSE
      BY <2>1, <2>2
    <3>1. PICK n \in 1..M : g[n] = keys[i]
      BY <1>8
    <3>2. keys[d + n] = keys[i] /\ d + n \in 1..N /\ i < d + n
      BY <1>7, <2>1, <2>2, <3>1
    <3>3. keys[i] \in below[keys[i]]
      BY <1>9, <3>2
    <3> QED
      BY <1>3, <2>1, <3>3 DEF TotalOrder
  <2>3. CASE ~(i <= d)
    <3>1. i - d \in 1..M /\ d + (i - d) = i
      BY <1>7, <2>1, <2>3
    <3>2. g[i - d] = keys[i] /\ g[i - d] \in U
      BY <1>7, <1>8, <3>1
    <3> QED
      BY <2>1, <2>3, <3>2
  <2> QED
    BY <2>2, <2>3
<1>12. D = 1..d
    BY <1>7, <1>10, <1>11
<1>13. Cardinality(1..d) = d
  <2>1. d \in Int /\ 1 \in Int
    BY <1>7
  <2> QED
    BY <1>7, <2>1, FS_Interval
<1> HIDE DEF D
<1>14. Cardinality(D) = d
    BY <1>12, <1>13
<1> QED
    BY <1>6, <1>8, <1>14 DEF SeekStops, D, d, M

\* From where a seek has put it, an iterator lists the entries from its target on.
LEMMA SeekCovers ==
    ASSUME NEW S \in SUBSET LogKeys, NEW keys, keys = InOrder(S, KeyLess), NEW k \in LogKeys,
           NEW it, it = SeekEntry(keys, k)
    PROVE  (IF it.pos = 0 THEN <<>> ELSE <<keys[it.pos]>>) \o Walk(keys, it, NextEntry)
           = InOrder({j \in S : k <= j}, KeyLess)
<1> DEFINE U == {j \in S : k <= j}
           g == InOrder(U, KeyLess)
           N == Cardinality(S)
           M == Cardinality(U)
           d == Cardinality(S \ U)
           D == {i \in DOMAIN keys : keys[i] < k}
<1>1. EndOf(g, U, keys, S) /\ g \in Seq(U) /\ Len(g) = M /\ Cardinality(D) = d
  <2>1. U = {j \in S : k <= j}
    OBVIOUS
  <2> HIDE DEF U
  <2>2. g = InOrder(U, KeyLess)
    OBVIOUS
  <2> HIDE DEF g
  <2>3. SeekStops(keys, k, S, U, g)
    BY <2>1, <2>2, SeekPlace
  <2> QED
    BY ONLY <2>3 DEF SeekStops, D, M, d
<1>2. /\ N \in Nat /\ M \in Nat /\ d \in Nat /\ N = d + M /\ \A n \in 1..M : g[n] = keys[d + n]
  <2> HIDE DEF U, g
  <2> QED
    BY <1>1 DEF EndOf
<1>3. keys \in Seq(S) /\ Len(keys) = N
  <2>1. IsFiniteSet(S) /\ TotalOrder(S, KeysBelow(S)) /\ Arranged(keys, S, KeysBelow(S))
    BY KeysOrdered
  <2> QED
    BY <2>1, ArrangedAll
<1>4. it = IF Cardinality(D) < Len(keys) THEN [pos |-> Cardinality(D) + 1, exhausted |-> FALSE]
           ELSE [pos |-> 0, exhausted |-> TRUE]
    BY DEF SeekEntry
<1> HIDE DEF U, g, N, M, d, D
<1>5. it = IF d < N THEN [pos |-> d + 1, exhausted |-> FALSE] ELSE [pos |-> 0, exhausted |-> TRUE]
    BY <1>1, <1>3, <1>4
<1> DEFINE w == Walk(keys, it, NextEntry)
           a == IF it.pos = 0 THEN <<>> ELSE <<keys[it.pos]>>
<1>6. /\ it \in [pos : 0..Len(keys), exhausted : BOOLEAN]
      /\ it.exhausted => it.pos = 0
  <2>1. CASE d < N
    <3>1. d + 1 \in 0..Len(keys)
      BY <1>2, <1>3, <2>1
    <3> QED
      BY <1>5, <2>1, <3>1
  <2>2. CASE ~(d < N)
    <3>1. 0 \in 0..Len(keys)
      BY <1>2, <1>3
    <3> QED
      BY <1>5, <2>2, <3>1
  <2> QED
    BY <2>1, <2>2
<1>7. w = IF it.exhausted THEN <<>> ELSE [i \in 1..Len(keys) - it.pos |-> keys[it.pos + i]]
    BY <1>3, <1>6, WalkForwards
<1>8. a \o w = g
  <2> HIDE DEF w
  <2>1. CASE d < N
    <3>1. it.pos = d + 1 /\ it.exhausted = FALSE /\ it.pos # 0
      BY <1>2, <1>5, <2>1
    <3>2. w = [i \in 1..N - (d + 1) |-> keys[(d + 1) + i]]
      BY <1>3, <1>7, <3>1
    <3>3. M >= 1 /\ N - (d + 1) = M - 1 /\ 1 \in 1..M
      BY <1>2, <2>1
    <3>4. \A i \in 1..M - 1 : i + 1 \in 1..M /\ d + (i + 1) = (d + 1) + i
      BY <1>2
    <3>5. \A i \in 1..M - 1 : g[i + 1] = keys[(d + 1) + i]
      BY <1>2, <3>4
    <3>6. w = [i \in 1..M - 1 |-> g[i + 1]]
      BY <3>2, <3>3, <3>5
    <3>7. a = <<g[1]>>
      BY <1>2, <3>1, <3>3
    <3>8. \A i \in 1..M : g[i] \in U
      BY <1>1
    <3>9. \A i \in 1..M - 1 : g[i + 1] \in U
      BY <3>4, <3>8
    <3>10. M - 1 \in Nat
      BY <1>2, <3>3
    <3>11. w \in Seq(U) /\ Len(w) = M - 1
      BY <3>6, <3>9, <3>10
    <3>12. \A i \in 1..Len(w) : w[i] = g[i + 1]
      BY <3>6, <3>11
    <3>13. a \in Seq(U) /\ Len(a) = 1 /\ a[1] = g[1]
      BY <3>3, <3>7, <3>8
    <3> HIDE DEF a
    <3>14. Len(g) >= 1 /\ Len(w) = Len(g) - 1
      BY <1>1, <3>3, <3>11
    <3> QED
      BY ONLY <1>1, <3>11, <3>12, <3>13, <3>14, FirstAndRest
  <2>2. CASE ~(d < N)
    <3>1. it.pos = 0 /\ it.exhausted = TRUE
      BY <1>5, <2>2
    <3>2. a = <<>> /\ w = <<>>
      BY <1>7, <3>1
    <3>3. Len(g) = 0
      BY <1>1, <1>2, <2>2
    <3>4. g = <<>>
      BY <1>1, <3>3
    <3> HIDE DEF a
    <3> QED
      BY <3>2, <3>4
  <2> QED
    BY <2>1, <2>2
<1> QED
    BY <1>8 DEF a, w, g, U

\* An iterator over the entries of any map in memory covers them.
LEMMA IteratorsAreWhole == IteratorsCover
<1> DEFINE S == Present(mem.entries)
           keys == InOrder(S, KeyLess)
           fresh == [pos |-> 0, exhausted |-> FALSE]
<1>1. S \in SUBSET LogKeys
    BY DEF Present
<1> HIDE DEF S
<1>2. keys \in Seq(S)
  <2>1. IsFiniteSet(S) /\ TotalOrder(S, KeysBelow(S)) /\ Arranged(keys, S, KeysBelow(S))
    BY <1>1, KeysOrdered
  <2> HIDE DEF keys
  <2> QED
    BY <2>1, ArrangedAll
<1>3. \A k \in LogKeys :
         (IF SeekEntry(keys, k).pos = 0 THEN <<>> ELSE <<keys[SeekEntry(keys, k).pos]>>)
         \o Walk(keys, SeekEntry(keys, k), NextEntry) = InOrder({j \in S : k <= j}, KeyLess)
  <2> TAKE k \in LogKeys
  <2> DEFINE it == SeekEntry(keys, k)
  <2>1. keys = InOrder(S, KeyLess)
    OBVIOUS
  <2> HIDE DEF keys
  <2>2. it = SeekEntry(keys, k)
    OBVIOUS
  <2> HIDE DEF it
  <2>3. (IF it.pos = 0 THEN <<>> ELSE <<keys[it.pos]>>) \o Walk(keys, it, NextEntry) = InOrder({j \in S : k <= j}, KeyLess)
    BY <1>1, <2>1, <2>2, SeekCovers
  <2> QED
    BY <2>3 DEF it
<1> HIDE DEF keys
<1>4. Walk(keys, fresh, PreviousEntry) = Reverse(keys)
    BY <1>2, WalkBackwards
<1>5. Walk(keys, fresh, NextEntry) = keys
  <2>1. fresh \in [pos : 0..Len(keys), exhausted : BOOLEAN] /\ fresh.exhausted = FALSE /\ fresh.pos = 0
    BY <1>2
  <2> HIDE DEF fresh
  <2>2. Walk(keys, fresh, NextEntry) = [i \in 1..Len(keys) - 0 |-> keys[0 + i]]
    BY <1>2, <2>1, WalkForwards
  <2>3. [i \in 1..Len(keys) - 0 |-> keys[0 + i]] = [i \in 1..Len(keys) |-> keys[i]]
    BY <1>2
  <2>4. [i \in 1..Len(keys) |-> keys[i]] = keys
    BY <1>2
  <2> QED
    BY <2>2, <2>3, <2>4
<1> QED
    BY <1>3, <1>4, <1>5 DEF IteratorsCover, keys, S

-----------------------------------------------------------------------------
(* The views of the memory: the market index, the paged queries and the iterators. *)

\* The index is kept in step with the entries while a handle is held.
MarketKept == handle # "down" => mem.market = BuildMarketIndex(mem.entries)

\* A batch moves the index as it moves the entries.
LEMMA MarketBatch ==
    ASSUME NEW e, NEW b
    PROVE  ApplyMarketBatch(BuildMarketIndex(e), b) = BuildMarketIndex(ApplyBatch(e, b))
<1> DEFINE after == ApplyBatch(e, b)
<1>1. \A k \in MarketKeys : k \in LogKeys
    BY RustLogAssumption
<1>2. \A k \in MarketKeys : after[k] = IF OpsOn(b, k) = {} THEN e[k] ELSE b[Max(OpsOn(b, k))].value
    BY <1>1, BatchSets
<1> HIDE DEF after
<1>3. \A k \in MarketKeys : k \in BuildMarketIndex(e) <=> e[k] # Gone
    BY <1>1 DEF BuildMarketIndex, Present
<1>4. \A k \in MarketKeys : k \in BuildMarketIndex(after) <=> after[k] # Gone
    BY <1>1 DEF BuildMarketIndex, Present
<1>5. BuildMarketIndex(after) \in SUBSET MarketKeys
    BY DEF BuildMarketIndex
<1>6. \A k \in MarketKeys : (IF OpsOn(b, k) = {} THEN k \in BuildMarketIndex(e) ELSE b[Max(OpsOn(b, k))].value # Gone)
                            <=> k \in BuildMarketIndex(after)
    BY <1>2, <1>3, <1>4
<1>7. ApplyMarketBatch(BuildMarketIndex(e), b) = BuildMarketIndex(after)
    BY <1>5, <1>6 DEF ApplyMarketBatch
<1> QED
    BY <1>7 DEF after

\* Only an open and an acknowledged write change the memory.
LEMMA MarketSteps == MarketKept /\ [LogNext]_logVars => MarketKept'
<1> SUFFICES ASSUME MarketKept, [LogNext]_logVars PROVE MarketKept'
    OBVIOUS
<1>1. CASE OpenGeneration
    BY <1>1 DEF OpenGeneration, MarketKept
<1>2. CASE Acknowledge
  <2>1. /\ mem.market = BuildMarketIndex(mem.entries)
        /\ mem' = [entries |-> ApplyBatch(mem.entries, pend), market |-> ApplyMarketBatch(mem.market, pend)]
    BY <1>2 DEF Acknowledge, MarketKept
  <2>2. mem'.entries = ApplyBatch(mem.entries, pend) /\ mem'.market = ApplyMarketBatch(mem.market, pend)
    BY <2>1
  <2>3. mem'.market = BuildMarketIndex(mem'.entries)
    BY <2>1, <2>2, MarketBatch
  <2> QED
    BY <2>3 DEF MarketKept
<1>3. CASE mem' = mem /\ (handle' # "down" => handle # "down")
    BY <1>3 DEF MarketKept
<1>4. CASE \E b \in Batches : Append1(b)
    BY <1>3, <1>4 DEF Append1
<1>5. CASE RollbackWal \/ Poison \/ InstallSnapshot \/ TruncateWal \/ WriteHeader \/ TakeMaintenanceError
    BY <1>3, <1>5 DEF RollbackWal, Poison, InstallSnapshot, TruncateWal, WriteHeader, TakeMaintenanceError
<1>6. CASE Flush \/ CloseStore \/ DropPoisoned
    BY <1>3, <1>6 DEF Flush, CloseStore, DropPoisoned
<1>7. CASE CheckpointStart \/ CheckpointBuild \/ CheckpointPublish \/ CheckpointEnd
    BY <1>3, <1>7 DEF CheckpointStart, CheckpointBuild, CheckpointPublish, CheckpointEnd
<1>8. CASE Crash
  <2>1. mem' = mem /\ handle' = "down"
    BY <1>8 DEF Crash, CrashTo
  <2> QED
    BY <1>3, <2>1
<1>9. CASE UNCHANGED logVars
    BY <1>3, <1>9 DEF logVars
<1> QED
    BY <1>1, <1>2, <1>4, <1>5, <1>6, <1>7, <1>8, <1>9 DEF LogNext

(* While a handle is held, the market index that is kept in step batch by batch is the   *)
(* one that an open would build from the entries, with or without sync_on_write          *)
(* (apply_market_batch, open_generation).                                                *)
THEOREM MarketIsIndexed == LogSpec => []MarketKept
<1>1. LogInit => MarketKept
    BY DEF LogInit, MarketKept
<1> QED
    BY <1>1, MarketSteps, PTL DEF LogSpec

(* With sync_on_write, every reader sees an acknowledged state: memory is the history    *)
(* acknowledged, the market index lists the market keys present, pages of any size tile  *)
(* the market without gap or repetition, iterators cover the entries in both directions  *)
(* and from any seek, and a published checkpoint is whole (get, scan,                    *)
(* market_ordered_namespace_from, OrderedIterator, checkpoint_with_faults).              *)
THEOREM LogViewsAreExact == ASSUME SyncOnWrite PROVE LogSpec => []LogViewsExact
<1>1. LogInv /\ MarketKept => LogViewsExact
  <2> SUFFICES ASSUME LogInv, MarketKept PROVE LogViewsExact
    OBVIOUS
  <2>1. MemoryTold /\ CheckpointWhole
    BY DEF LogInv
  <2>2. ASSUME handle \in {"open", "poisoned"}
        PROVE  /\ mem.entries = ApplyAll(NoEntries, hist)
               /\ mem.market = BuildMarketIndex(mem.entries)
               /\ \A excluded \in MarketKeys \cup {0} : PagesTile(excluded)
    <3>1. mem.market = BuildMarketIndex(mem.entries) /\ mem.entries = ApplyAll(NoEntries, hist)
      BY <2>1, <2>2 DEF MarketKept, MemoryTold, Told
    <3> QED
      BY <3>1, PagesAreWhole
  <2>3. MemoryAgrees
    BY <2>2, IteratorsAreWhole DEF MemoryAgrees
  <2> QED
    BY <2>1, <2>3 DEF LogViewsExact
<1> QED
    BY <1>1, LogInvariant, MarketIsIndexed, PTL

\* The memory keeps its shape; a closed store leaves it as it was.
MemoryShape == mem.entries \in Entries /\ mem.market \in SUBSET MarketKeys
LEMMA MemoryShapeSteps == LogInv /\ MemoryShape /\ [LogNext]_logVars => MemoryShape'
<1> SUFFICES ASSUME LogInv, MemoryShape, [LogNext]_logVars PROVE MemoryShape'
    OBVIOUS
<1>1. disk \in LogDisks /\ pend \in LogBatches
    BY DEF LogInv, LogShape
<1>2. CASE OpenGeneration
  <2>1. mem'.entries = Recovered(disk) /\ mem'.market = BuildMarketIndex(Recovered(disk))
    BY <1>2 DEF OpenGeneration
  <2>2. disk.snap \in Entries /\ disk.frames \in Seq(LogBatches)
    BY <1>1, DiskParts
  <2>3. Recovered(disk) \in Entries
    BY <2>2, AllState DEF Recovered
  <2> QED
    BY <2>1, <2>3 DEF MemoryShape, BuildMarketIndex
<1>3. CASE Acknowledge
  <2>1. mem'.entries = ApplyBatch(mem.entries, pend) /\ mem'.market = ApplyMarketBatch(mem.market, pend)
    BY <1>3 DEF Acknowledge
  <2>2. ApplyBatch(mem.entries, pend) \in Entries
    BY <1>1, BatchState DEF MemoryShape
  <2> QED
    BY <2>1, <2>2 DEF MemoryShape, ApplyMarketBatch
<1>4. CASE mem' = mem
    BY <1>4 DEF MemoryShape
<1>5. CASE \E b \in Batches : Append1(b)
    BY <1>4, <1>5 DEF Append1
<1>6. CASE RollbackWal \/ Poison \/ InstallSnapshot \/ TruncateWal \/ WriteHeader \/ TakeMaintenanceError
    BY <1>4, <1>6 DEF RollbackWal, Poison, InstallSnapshot, TruncateWal, WriteHeader, TakeMaintenanceError
<1>7. CASE Flush \/ CloseStore \/ DropPoisoned
    BY <1>4, <1>7 DEF Flush, CloseStore, DropPoisoned
<1>8. CASE CheckpointStart \/ CheckpointBuild \/ CheckpointPublish \/ CheckpointEnd
    BY <1>4, <1>8 DEF CheckpointStart, CheckpointBuild, CheckpointPublish, CheckpointEnd
<1>9. CASE Crash
    BY <1>4, <1>9 DEF Crash, CrashTo
<1>10. CASE UNCHANGED logVars
    BY <1>4, <1>10 DEF logVars
<1> QED
    BY <1>2, <1>3, <1>5, <1>6, <1>7, <1>8, <1>9, <1>10 DEF LogNext

(* With sync_on_write, the log and the memory keep their shapes: what is durable is a     *)
(* beginning of the log, and the floor of what must survive a part of the history.        *)
THEOREM LogTypes == ASSUME SyncOnWrite PROVE LogSpec => []LogTypeOK
<1>1. LogInit => MemoryShape
  <2> SUFFICES ASSUME LogInit PROVE MemoryShape
    OBVIOUS
  <2>1. mem.entries = NoEntries /\ mem.market = {}
    BY DEF LogInit
  <2>2. NoEntries \in Entries
    BY DEF NoEntries, Entries, Gone
  <2> QED
    BY <2>1, <2>2 DEF MemoryShape
<1>2. LogInv /\ MemoryShape => LogTypeOK
  <2> SUFFICES ASSUME LogInv, MemoryShape PROVE LogTypeOK
    OBVIOUS
  <2>1. LogShape
    BY DEF LogInv
  <2>2. disk.snap \in Entries /\ disk.synced \in 0..Len(disk.frames) /\ disk.tail \in {"whole", "torn", "garbled"}
    BY <2>1, DiskParts DEF LogShape
  <2>3. dest.parts \in 0..3 /\ staging.parts \in 0..3
    BY <2>1 DEF LogShape, LogCopies
  <2> QED
    BY <2>1, <2>2, <2>3 DEF LogTypeOK, MemoryShape, LogShape
<1> QED
    BY <1>1, <1>2, LogInvariant, MemoryShapeSteps, PTL DEF LogSpec
=============================================================================
