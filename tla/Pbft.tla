-------------------------------- MODULE Pbft --------------------------------
(***************************************************************************)
(* The PBFT sidecar of a witness (tron-consensus/src/pbft.rs): rounds       *)
(* opened by a PREPREPARE, votes cached until their round exists, the       *)
(* commit certificate, its expiry and its persistence.                      *)
(*                                                                         *)
(* Messages are records; a signature is the witness that made it, and the   *)
(* encoded size of every message is one unit of the byte budgets.  A round  *)
(* is keyed by `no' (view and data type), votes cached early by `no' and    *)
(* witness.                                                                 *)
(***************************************************************************)
EXTENDS Integers, Sequences, FiniteSets, SequencesExt, Sublists

CONSTANTS Witnesses,     \* the addresses that may be in a committee
          NextCommittee, \* the committee that maintenance installs
          Proposer, Proposed, \* who proposes each view, and what
          Views, Datas,  \* block numbers and block ids
          LocalSigners,  \* the keys this node holds, a sequence of witnesses
          Quorum,        \* the configured quorum
          MaxRounds, MaxVotes, MaxRoundBytes, MaxRetained, \* PbftBounds
          RoundTimeout, VoteTtl,  \* in ticks
          MaxTime                 \* bound on the clock

ASSUME PbftAssumption ==
    /\ IsFiniteSet(Witnesses) /\ IsFiniteSet(Views)
    /\ MaxTime \in Nat /\ RoundTimeout \in Nat /\ VoteTtl \in Nat
    /\ Quorum \in Nat \ {0} /\ {MaxRounds, MaxVotes, MaxRoundBytes, MaxRetained} \subseteq Nat
    /\ NextCommittee \subseteq Witnesses
    /\ LocalSigners \in Seq(Witnesses) /\ Proposer \in Witnesses

VARIABLES pbNow,     \* the clock
          committee, \* the witnesses of the current epoch
          expected,  \* the proposal the node expects of each view
          sidecar,   \* the fields of PbftSidecar
          results,   \* the certificates persisted, in order
          latest     \* LATEST_PBFT_BLOCK_NUM
pbftVars == <<pbNow, committee, expected, sidecar, results, latest>>

PbftMsg == [type : {"Preprepare", "Prepare", "Commit", "Request"},
            view : Views, data : Datas, signer : Witnesses]

NoRound == [open |-> FALSE]
Open(r) == r.open
\* What a round holds of the byte budget, and what all of them hold.
RoundBytes(r) == IF Open(r) THEN r.bytes ELSE 0
RoundsBytes(rounds) == SumFunction([v \in Views |-> RoundBytes(rounds[v])])
Identity(m) == <<m.view, m.data>>
QuorumOf(c) == IF Cardinality(c) = 0 THEN 1
               ELSE IF Quorum > Cardinality(c) THEN Cardinality(c) ELSE Quorum

PbftInit ==
    /\ pbNow = 0 /\ latest = 0 /\ results = <<>>
    /\ committee = Witnesses
    /\ expected = [v \in Views |-> [proposer |-> Proposer, data |-> Proposed]]
    /\ sidecar = [rounds |-> [v \in Views |-> NoRound], completed |-> [v \in Views |-> -1],
                  prepares |-> {}, commits |-> {}, retained |-> 0]

-----------------------------------------------------------------------------
(* Every handler maps the sidecar to [s, err, out]: the new sidecar, an      *)
(* error, and the effects, which an error drops.                             *)
Done(s, out) == [s |-> s, err |-> "Ok", out |-> out]
Fail(s, e) == [s |-> s, err |-> e, out |-> <<>>]

ReserveLate(s, roundBytes) == roundBytes + 1 <= MaxRoundBytes /\ s.retained <= MaxRetained
Reserve(s, roundBytes) == roundBytes + 1 <= MaxRoundBytes /\ s.retained + 1 <= MaxRetained

\* expire: rounds past the round timeout, completed rounds and cached votes past the TTL.
Expire(s) ==
    LET old(v) == Open(s.rounds[v]) /\ pbNow - s.rounds[v].at > RoundTimeout
        alive(cache) == {e \in cache : pbNow - e.at <= VoteTtl}
        freed == RoundsBytes([v \in Views |-> IF old(v) THEN s.rounds[v] ELSE NoRound])
    IN  [s EXCEPT !.rounds = [v \in Views |-> IF old(v) THEN NoRound ELSE s.rounds[v]],
                  !.completed = [v \in Views |-> IF pbNow - s.completed[v] > VoteTtl THEN -1 ELSE s.completed[v]],
                  !.prepares = alive(@), !.commits = alive(@),
                  !.retained = @ - freed - Cardinality(s.prepares \ alive(s.prepares))
                                 - Cardinality(s.commits \ alive(s.commits))]

RemoveRoundKeepingBytes(s, v) == [s EXCEPT !.rounds[v] = NoRound]
RemoveRound(s, v) ==
    IF ~Open(s.rounds[v]) THEN s
    ELSE [s EXCEPT !.rounds[v] = NoRound, !.retained = @ - s.rounds[v].bytes]

\* The vote cached under the vote_key of a message.
CachedAs(cache, m) == {e \in cache : e.msg.view = m.view /\ e.msg.signer = m.signer}

\* cache_pending: keyed by vote_key, so a second identity of one witness is an equivocation.
CachePending(s, m, kind) ==
    LET cache == IF kind = "Prepare" THEN s.prepares ELSE s.commits
        same == CachedAs(cache, m)
        add == {[msg |-> m, at |-> pbNow]}
    IN  IF same # {}
        THEN IF \A e \in same : Identity(e.msg) = Identity(m) THEN Done(s, <<>>)
                                                               ELSE Fail(s, "Equivocation")
        ELSE IF Cardinality(cache) >= MaxVotes \/ ~Reserve(s, 0) THEN Fail(s, "Capacity")
        ELSE Done(IF kind = "Prepare"
                  THEN [s EXCEPT !.prepares = @ \cup add, !.retained = @ + 1]
                  ELSE [s EXCEPT !.commits = @ \cup add, !.retained = @ + 1], <<>>)

\* A commit vote counts once its witness has prepared the same proposal.
HasPreparedUnchecked(r, w) == TRUE
HasPrepared(r, w) == w \in r.prepare
CommitVote(s, m, ctx) ==
    LET r == s.rounds[m.view]
        voted == [s EXCEPT !.rounds[m.view].commit = @ \cup {m.signer},
                           !.rounds[m.view].bytes = @ + 1, !.retained = @ + 1]
        certificate == [kind |-> "Commit", view |-> m.view, data |-> m.data,
                        signers |-> r.commit \cup {m.signer}, prepared |-> r.prepare,
                        committee |-> committee, at |-> pbNow]
    IN  IF ~Open(r) THEN CachePending(s, m, "Commit")
        ELSE IF r.data # m.data THEN Fail(s, "ProposalMismatch")
        ELSE IF ~HasPrepared(r, m.signer) THEN CachePending(s, m, "Commit")
        ELSE IF m.signer \in r.commit THEN Done(s, <<>>)
        ELSE IF Cardinality(r.commit) >= MaxVotes \/ ~Reserve(s, r.bytes) THEN Fail(s, "Capacity")
        ELSE IF Cardinality(r.commit) + 1 < QuorumOf(committee) THEN Done(voted, <<>>)
        ELSE Done([RemoveRound(voted, m.view) EXCEPT !.completed[m.view] = pbNow],
                  IF ctx.syncing THEN <<>> ELSE <<certificate>>)

\* An early return of `?': the state reached so far is kept, the effects are lost.
After(r, n) == [n EXCEPT !.out = IF n.err = "Ok" THEN r.out \o n.out ELSE <<>>]
Forward(m) == [kind |-> "Forward", msg |-> m]
Forwarded(r, vote) == [r EXCEPT !.out = Append(@, Forward(vote))]
Signed(m, type, w) == [m EXCEPT !.type = type, !.signer = w]

\* The node's own commits, one for each local key that sits in the committee.
SignCommit(r, m, w, ctx) ==
    LET vote == Signed(m, "Commit", w)
    IN  IF r.err # "Ok" \/ w \notin committee THEN r
        ELSE After(Forwarded(r, vote), CommitVote(r.s, vote, ctx))
SignCommits(r, m, ctx) ==
    LET cast[n \in 0..Len(LocalSigners)] ==
            IF n = 0 THEN r ELSE SignCommit(cast[n - 1], m, LocalSigners[n], ctx)
    IN  cast[Len(LocalSigners)]

PrepareVote(s, m, ctx) ==
    LET r == s.rounds[m.view]
        voted == [s EXCEPT !.rounds[m.view].prepare = @ \cup {m.signer},
                           !.rounds[m.view].bytes = @ + 1, !.retained = @ + 1]
        early == CachedAs(s.commits, m)
        drained == [voted EXCEPT !.commits = @ \ early, !.retained = @ - Cardinality(early)]
        after == IF early = {} THEN Done(voted, <<>>)
                 ELSE CommitVote(drained, (CHOOSE e \in early : TRUE).msg, ctx)
        quiet == \/ after.s.completed[m.view] # -1 \/ r.done \/ ctx.syncing
                 \/ Cardinality(r.prepare) + 1 < QuorumOf(committee)
        marked == [after EXCEPT !.s.rounds[m.view].done = TRUE]
    IN  IF ~Open(r) THEN CachePending(s, m, "Prepare")
        ELSE IF r.data # m.data THEN Fail(s, "ProposalMismatch")
        ELSE IF m.signer \in r.prepare THEN Done(s, <<>>)
        ELSE IF Cardinality(r.prepare) >= MaxVotes \/ ~Reserve(s, r.bytes) THEN Fail(s, "Capacity")
        ELSE IF after.err # "Ok" THEN Fail(after.s, after.err)
        ELSE IF quiet THEN after
        ELSE SignCommits(marked, m, ctx)

\* And its own prepares.
SignPrepare(r, m, w, ctx) ==
    LET vote == Signed(m, "Prepare", w)
    IN  IF r.err # "Ok" \/ w \notin committee THEN r
        ELSE After(Forwarded(r, vote), PrepareVote(r.s, vote, ctx))
SignPrepares(r, m, ctx) ==
    LET cast[n \in 0..Len(LocalSigners)] ==
            IF n = 0 THEN r ELSE SignPrepare(cast[n - 1], m, LocalSigners[n], ctx)
    IN  cast[Len(LocalSigners)]

\* A prepare cached for the proposal leaves the cache and is voted.
ReplayPrepare(r, m, ctx) ==
    LET gone == CachedAs(r.s.prepares, m)
        taken == [r.s EXCEPT !.prepares = @ \ gone, !.retained = @ - Cardinality(gone)]
    IN  IF r.err # "Ok" THEN r ELSE After(r, PrepareVote(taken, m, ctx))
ReplayPrepares(r, votes, ctx) ==
    LET play[n \in 0..Len(votes)] == IF n = 0 THEN r ELSE ReplayPrepare(play[n - 1], votes[n].msg, ctx)
    IN  play[Len(votes)]

\* preprepare: opens the round of the proposal this node expects, casts the local
\* prepares, then replays the prepares cached for that proposal.
Preprepare(s, m, signer, ctx) ==
    LET v == m.view
        opened == [s EXCEPT !.rounds[v] = [open |-> TRUE, at |-> pbNow, data |-> m.data, prepare |-> {},
                                           commit |-> {}, done |-> FALSE, bytes |-> 1],
                            !.retained = @ + 1]
        own == IF ctx.syncing THEN Done(opened, <<>>)
               ELSE SignPrepares(Done(opened, <<>>), m, ctx)
        cached == SetToSeq({e \in own.s.prepares : Identity(e.msg) = Identity(m)})
    IN  IF ctx.chainSwitch THEN Done(RemoveRound(s, v), <<>>)
        ELSE IF expected[v].data # m.data THEN Fail(s, "ProposalMismatch")
        ELSE IF signer \notin {"local", expected[v].proposer} THEN Fail(s, "WrongProposer")
        ELSE IF Open(s.rounds[v])
             THEN IF s.rounds[v].data = m.data THEN Done(s, <<>>) ELSE Fail(s, "ProposalMismatch")
        ELSE IF Cardinality({u \in Views : Open(s.rounds[u])}) >= MaxRounds \/ ~Reserve(s, 0)
             THEN Fail(s, "Capacity")
        ELSE IF own.err # "Ok" THEN Fail(own.s, own.err)
        ELSE ReplayPrepares(own, cached, ctx)

Dispatch(s, m, signer, ctx) ==
    IF s.completed[m.view] # -1 THEN Done(s, <<>>)
    ELSE CASE m.type = "Preprepare" -> Preprepare(s, m, signer, ctx)
           [] m.type = "Prepare" -> PrepareVote(s, m, ctx)
           [] m.type = "Commit" -> CommitVote(s, m, ctx)
           [] OTHER -> Done(s, <<>>)

\* persist_commit: the certificate and the raised cursor in one batch.
Certificates(out) == Sublist(out, {i \in DOMAIN out : out[i].kind = "Commit"})
PersistCommit(out) ==
    LET certs == Certificates(out)
    IN  /\ results' = results \o certs
        /\ latest' = IF certs # <<>> /\ certs[1].view > latest THEN certs[1].view ELSE latest

\* A switch drops the round whether or not the node is syncing.
Contexts == {c \in [syncing : BOOLEAN, chainSwitch : BOOLEAN] : ~(c.syncing /\ c.chainSwitch)}

\* handle: a packet of the network, signed by a member of the active committee.
PbftHandle(m, ctx) ==
    LET s == Expire(sidecar)
        r == IF m.signer \notin committee THEN Fail(s, "NonWitness") ELSE Dispatch(s, m, m.signer, ctx)
    IN  /\ sidecar' = r.s /\ PersistCommit(r.out)
        /\ UNCHANGED <<pbNow, committee, expected>>

PbftLocalPreprepare(m, ctx) ==
    LET s == Expire(sidecar)
        r == IF m.type # "Preprepare" THEN Fail(s, "LocalPreprepareOnly") ELSE Dispatch(s, m, "local", ctx)
    IN  /\ sidecar' = r.s /\ PersistCommit(r.out)
        /\ UNCHANGED <<pbNow, committee, expected>>

\* The clock of the contexts passed in; nothing expires until the next message.
PbftTick ==
    /\ pbNow < MaxTime /\ pbNow' = pbNow + 1
    /\ UNCHANGED <<committee, expected, sidecar, results, latest>>

\* committee(epoch): maintenance replaces the committee that messages of the
\* epoch are checked against, while votes of the old one are cached.
PbftMaintenance ==
    /\ committee # NextCommittee /\ committee' = NextCommittee
    /\ UNCHANGED <<pbNow, expected, sidecar, results, latest>>

PbftNext ==
    \/ \E m \in PbftMsg, ctx \in Contexts : PbftHandle(m, ctx)
    \/ \E type \in {"Preprepare", "Prepare"}, v \in Views, d \in Datas, ctx \in Contexts :
          PbftLocalPreprepare([type |-> type, view |-> v, data |-> d, signer |-> Proposer], ctx)
    \/ PbftTick
    \/ PbftMaintenance

-----------------------------------------------------------------------------
RoundRecord == [open : {TRUE}, at : 0..MaxTime, data : Datas, prepare : SUBSET Witnesses,
                commit : SUBSET Witnesses, done : BOOLEAN, bytes : 0..MaxRoundBytes]
CachedVote == [msg : PbftMsg, at : 0..MaxTime]

PbftTypeOK ==
    /\ pbNow \in 0..MaxTime /\ committee \subseteq Witnesses /\ latest \in Views \cup {0}
    /\ \A v \in Views : sidecar.rounds[v] \in RoundRecord \cup {NoRound}
    /\ sidecar.completed \in [Views -> -1..MaxTime]
    /\ sidecar.prepares \subseteq CachedVote /\ sidecar.commits \subseteq CachedVote
    /\ sidecar.retained \in 0..MaxRetained

(* The byte budget is exact: retained_bytes is what the open rounds and the   *)
(* cached votes hold, over every expiry, replay, early return and completion; *)
(* otherwise the sidecar would refuse every vote forever or exceed its bound. *)
PbftBytesExact ==
    sidecar.retained = Cardinality(sidecar.prepares) + Cardinality(sidecar.commits)
        + RoundsBytes(sidecar.rounds)

(* Every persisted certificate is backed: its signers all prepared the same   *)
(* proposal, they are a quorum, and two certificates of one view are apart by *)
(* more than the completed-round TTL.                                          *)
PbftCertificate ==
    /\ \A i \in DOMAIN results :
          /\ results[i].signers \subseteq results[i].prepared
          /\ Cardinality(results[i].signers) >= QuorumOf(results[i].committee)
    /\ \A i, j \in DOMAIN results :
          (i < j /\ results[i].view = results[j].view) => results[j].at - results[i].at > VoteTtl

(* The sidecar is sound at its limits: its byte budget and its certificates hold     *)
(* together over every expiry, replay and overflow of the vote caches (pbft.rs).     *)
PbftSound == PbftBytesExact /\ PbftCertificate
=============================================================================
