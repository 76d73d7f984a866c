----------------------------- MODULE MCServices -----------------------------
(***************************************************************************)
(* The components around the chain, model-checked in one run.  They share  *)
(* no state with each other in these models, so a behaviour is that of the *)
(* one component `part` names, and the others stay in one initial state.   *)
(***************************************************************************)
EXTENDS Pbft, BackupRole, Dpos, Rewards, Staking, RustLog, StoreFormat, StoreTransaction,
        ApiGateway, Keystore, ReleaseInstall, Network, NodeServices

CONSTANT Parts   \* the components of a run
VARIABLE part

AllParts == {"pbft", "backup", "dpos", "rewards", "staking", "log", "format", "rewrite",
             "api", "keystore", "release", "network", "node"}
ASSUME PartsAssumption == Parts \subseteq AllParts

-----------------------------------------------------------------------------
(* Values of the constants. *)
MCSigners == <<"w1">>
MCPriorities == {[m \in {"a", "b"} |-> IF m = "a" THEN 2 ELSE 1], [m \in {"a", "b"} |-> 0]}
MCIpRank == [m \in {"a", "b"} |-> IF m = "a" THEN 1 ELSE 2]
MCBallots == [{"x"} -> 0..2]
MCStake == [a \in {"a", "b"} |-> IF a = "a" THEN 5 ELSE 2]
MCAllowance == [a \in {"a", "b"} |-> IF a = "a" THEN 1 ELSE 0]
MCPrice == [k \in {2, 3} |-> IF k = 2 THEN 9 ELSE 4]   \* the market order is not the byte order
MCOp(k, v) == [key |-> k, value |-> v]                 \* value 0 deletes
MCBatches == {<<MCOp(2, 1), MCOp(1, 1)>>, <<MCOp(2, 0), MCOp(3, 1)>>, <<MCOp(1, 2)>>}
MCSnapshots == [hash : {TRUE}, signed : BOOLEAN, root : {"good"}, body : {"good", "other", "bad"}]
MCRequest(via, api, method, client, height, ok) ==
    [via |-> via, api |-> api, method |-> method, client |-> client, height |-> height, ok |-> ok]
MCRequests ==
    {MCRequest("grpc", "Wallet", "broadcast_transaction", "p", 0, TRUE),
     MCRequest("http", "Wallet", "broadcast_transaction", "q", 0, FALSE),
     MCRequest("http", "WalletSolidity", "get_now_block", "q", 0, TRUE),
     MCRequest("grpc", "WalletSolidity", "get_block_by_num", "q", 1, TRUE),
     MCRequest("grpc", "Wallet", "scan_shielded_trc20_notes_by_ivk", "p", 0, TRUE),
     MCRequest("json", "Wallet", "eth_getBlockByNumber", "p", 0, TRUE)}

\* Three releases; k3 expires first and is revoked by the second trust store.
MCKeys(revoked) == [k \in {"k1", "k2", "k3"} |->
                       [from |-> 0, until |-> IF k = "k3" THEN 1 ELSE 2, revoked |-> k \in revoked]]
MCRoles == [r \in {"root", "release", "provenance"} |->
               [members |-> IF r = "root" THEN {"k1", "k2"} ELSE {"k1", "k2", "k3"}, threshold |-> 2]]
MCStore(version, revoked) == [version |-> version, expires |-> 2, keys |-> MCKeys(revoked), roles |-> MCRoles]
MCFirstStore == MCStore(1, {})
MCStores == {MCFirstStore, MCStore(2, {"k3"})}
MCUpdates == [store : {MCStore(2, {"k3"})}, signers : {{"k1", "k2"}, {"k1", "k3"}}]
MCKindOf == [node |-> "program", conf |-> "configuration", sbom |-> "sbom", prov |-> "provenance", image |-> "oci"]
MCManifestOf(sequence, signers) ==
    [channel |-> "stable", sequence |-> sequence, minimum |-> 1, platform |-> "x64", signers |-> signers,
     artifacts |-> {[name |-> n, path |-> n, kind |-> MCKindOf[n], digest |-> n] : n \in DOMAIN MCKindOf},
     sbom |-> {<<n, n>> : n \in {"node", "conf", "image"}},
     provenance |-> [signers |-> {"k1", "k2"}, subjects |-> {<<n, n>> : n \in {"node", "conf", "image", "sbom"}}],
     oci |-> {"node"}]
MCManifest == [i \in {"r1", "r2", "r3"} |->
    CASE i = "r1" -> MCManifestOf(1, {"k1", "k2"})
      [] i = "r2" -> MCManifestOf(2, {"k1", "k3"})
      [] i = "r3" -> MCManifestOf(3, {"k1", "k2"})]

\* The two production graphs, and compositions that are refused: one without a service that
\* another needs, one with a service twice, one out of order, one for the other mode.
MCFullGraph == ProductionGraph("Full")
MCCompositions ==
    {[mode |-> m, services |-> ProductionGraph(m)] : m \in {"Full", "Solidity"}}
      \cup {[mode |-> "Full", services |-> g] :
              g \in {RemoveAt(MCFullGraph, 4), Append(MCFullGraph, MCFullGraph[1]), ProductionGraph("Solidity"),
                     ReplaceAt(ReplaceAt(MCFullGraph, 1, MCFullGraph[2]), 2, MCFullGraph[1])}}
MCEvent(kind, removed, height) == [kind |-> kind, removed |-> removed, height |-> height]
\* A reorganization's blocks, a filter's and a contract's events, and a batch that is
\* refused; as history all are older than the plugin wants.
MCEventBatches ==
    {<<MCEvent("block", TRUE, 1), MCEvent("block", FALSE, 1)>>, <<MCEvent("filter", FALSE, 1), MCEvent("log", FALSE, 1)>>,
     <<MCEvent("block", FALSE, 1), MCEvent("block", TRUE, 1)>>}
MCTriggerModes == [k \in Triggers |-> [enabled |-> TRUE, solidified |-> FALSE]]
MCQueueCaps == [history |-> 2, realtime |-> 2, solid |-> 0]

-----------------------------------------------------------------------------
\* Of the servers' modes, a limiter that refuses on a lite full node and one that waits
\* on a Solidity node.
MCGatewayInit ==
    /\ GatewayInit /\ (apiNode = "full") = apiLite /\ (apiMode = "NonBlocking") = apiLite
    /\ views = [u \in Cursors |-> IF u = "Head" /\ apiNode = "full" THEN 1 ELSE 0]
    /\ part = "api" \/ apiLite

Init ==
    /\ part \in Parts
    /\ PbftInit /\ DposInit /\ LogInit /\ RelInit /\ NetInit
    /\ BackupInit /\ (part = "backup" \/ priority = [m \in Members |-> 0])
    /\ RewardInit /\ (part = "rewards" \/ ~delegating)
    /\ StakeInit /\ (part = "staking" \/ {v2Open, newModel} = {FALSE})
    /\ FormatInit /\ (part = "format" \/ root = EmptyRoot)
    /\ TxInit /\ (part = "rewrite" \/ tree.dest = "none")
    /\ KsInit /\ (part = "keystore" \/ ksDir.dest = [f \in Files |-> IF f = "f" THEN 1 ELSE 0])
    /\ MCGatewayInit
    /\ NodeInit /\ (part = "node" \/ [mode |-> graph.mode, services |-> graph.order] = [mode |-> "Full", services |-> MCFullGraph])

consensusVars == <<pbftVars, backupVars, dposVars, rewardVars, stakeVars>>
fileVars == <<logVars, formatVars, txVars, ksVars, relVars>>
servingVars == <<gatewayVars, netVars, nodeVars>>
vars == <<part, consensusVars, fileVars, servingVars>>

Next ==
    \/ part = "pbft" /\ PbftNext
       /\ UNCHANGED <<part, backupVars, dposVars, rewardVars, stakeVars, fileVars, servingVars>>
    \/ part = "backup" /\ BackupNext
       /\ UNCHANGED <<part, pbftVars, dposVars, rewardVars, stakeVars, fileVars, servingVars>>
    \/ part = "dpos" /\ DposNext
       /\ UNCHANGED <<part, pbftVars, backupVars, rewardVars, stakeVars, fileVars, servingVars>>
    \/ part = "rewards" /\ RewardNext
       /\ UNCHANGED <<part, pbftVars, backupVars, dposVars, stakeVars, fileVars, servingVars>>
    \/ part = "staking" /\ StakeNext
       /\ UNCHANGED <<part, pbftVars, backupVars, dposVars, rewardVars, fileVars, servingVars>>
    \/ part = "log" /\ LogNext
       /\ UNCHANGED <<part, consensusVars, formatVars, txVars, ksVars, relVars, servingVars>>
    \/ part = "format" /\ FormatNext
       /\ UNCHANGED <<part, consensusVars, logVars, txVars, ksVars, relVars, servingVars>>
    \/ part = "rewrite" /\ TxNext
       /\ UNCHANGED <<part, consensusVars, logVars, formatVars, ksVars, relVars, servingVars>>
    \/ part = "keystore" /\ KsNext
       /\ UNCHANGED <<part, consensusVars, logVars, formatVars, txVars, relVars, servingVars>>
    \/ part = "release" /\ RelNext
       /\ UNCHANGED <<part, consensusVars, logVars, formatVars, txVars, ksVars, servingVars>>
    \/ part = "api" /\ GatewayNext /\ UNCHANGED <<part, consensusVars, fileVars, netVars, nodeVars>>
    \/ part = "network" /\ NetNext /\ UNCHANGED <<part, consensusVars, fileVars, gatewayVars, nodeVars>>
    \/ part = "node" /\ NodeNext /\ UNCHANGED <<part, consensusVars, fileVars, gatewayVars, netVars>>

Spec == Init /\ [][Next]_vars /\ (part = "backup" => BackupFairness)
NetworkSpec == Init /\ [][Next]_vars /\ NetFairness

(* The state of every component has its shape, with the bounds its code     *)
(* keeps: the sidecar's retained bytes, the guard's seen blocks, the pools'  *)
(* permits, and peers, gossip peers and pending items in step.               *)
TypeOK ==
    CASE part = "pbft" -> PbftTypeOK [] part = "backup" -> BackupTypeOK [] part = "dpos" -> DposTypeOK
      [] part = "rewards" -> RewardTypeOK [] part = "staking" -> StakeTypeOK [] part = "log" -> LogTypeOK
      [] part = "format" -> FormatTypeOK [] part = "rewrite" -> TxTypeOK [] part = "api" -> GatewayTypeOK
      [] part = "keystore" -> KsTypeOK [] part = "release" -> RelTypeOK [] part = "network" -> NetTypeOK
      [] part = "node" -> NodeTypeOK

=============================================================================
