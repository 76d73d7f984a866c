------------------------------- MODULE Network -------------------------------
(***************************************************************************)
(* The peer-to-peer owner of a full node (tron-network/src/production.rs     *)
(* with gossip.rs, handlers.rs, peer.rs and the status check of watchdog.rs, *)
(* wired by tron-node/src/runtime.rs).  Every connection has a dispatcher    *)
(* task; all of them, the watchdog and the shutdown share one state behind a *)
(* std Mutex, which its own holder cannot take again.  A section of the code *)
(* that takes the lock and lets it go without calling out is one action.     *)
(* Sessions and frames are external: a peer may send anything at any time,   *)
(* and a message refused by its handler ends the connection.                 *)
(***************************************************************************)
EXTENDS Integers, FiniteSets

CONSTANTS Remotes,       \* socket addresses, each connected at most once
          Txs, Blocks,   \* inventory items
          LocalHead, RemoteHeads, \* heads in the Hello messages
          AdvTimeout, CommonTimeout, \* ADV_TIMEOUT_MS, COMMON_TIMEOUT_MS
          ProviderTtl,   \* INVENTORY_CACHE_TTL_MS
          MaxNetTime     \* bound of the model

ASSUME NetworkAssumption ==
    /\ LocalHead \in Nat /\ RemoteHeads \subseteq Nat /\ MaxNetTime \in Nat /\ Txs \cap Blocks = {}
    /\ {AdvTimeout, CommonTimeout} \subseteq Nat /\ ProviderTtl \in Nat \ {0}   \* in ticks: 0 is less than one

VARIABLES link,      \* a connection's dispatcher: "new", "attached", "connected" (after the application
                     \* hello), "busy" (in the chain), "relaying", "leaving", "closed" or "aborted"
          peers,     \* PeerManager: remote -> [fromPeer, fromUs: still to sync, since, requests, gone]
          complete,  \* GossipService.peers: remote -> synchronization complete
          providers, \* item -> remote -> when it was last advertised
          pending,   \* items advertised and not held
          lock,      \* the remote whose dispatcher holds the state lock, or Free
          drained,   \* what the lock's holder has still to give to the chain
          doomed,    \* peers the watchdog found timed out and has not told yet
          net,       \* "up", "cancelled", "collected", "joining", "aborting", "stopped" or "failed"
          netTime
netVars == <<link, peers, complete, providers, pending, lock, drained, doomed, net, netTime>>

Items == Txs \cup Blocks
NoEntry == [i \in {} |-> 0]
Free == "free"
RemoveKeys(f, S) == [x \in DOMAIN f \ S |-> f[x]]
Put(f, x, y) == [z \in DOMAIN f \cup {x} |-> IF z = x THEN y ELSE f[z]]

NetInit ==
    /\ link = [r \in Remotes |-> "new"] /\ peers = NoEntry /\ complete = NoEntry
    /\ providers = NoEntry /\ pending = {} /\ lock = Free /\ drained = {} /\ doomed = {}
    /\ net = "up" /\ netTime = 0

-----------------------------------------------------------------------------
\* attach and spawn_session: an address whose session was ever recorded is refused.
Attach(r) ==
    /\ net = "up" /\ lock = Free /\ link[r] = "new" /\ link' = [link EXCEPT ![r] = "attached"]
    /\ UNCHANGED <<peers, complete, providers, pending, lock, drained, doomed, net, netTime>>

\* The dispatcher takes its next message; the application hello comes first.
Handles(r) == net = "up" /\ link[r] = "connected" /\ lock = Free

\* PeerConnection::new and on_connected_heads.
NewPeer(head) ==
    [fromPeer |-> head > LocalHead, fromUs |-> head < LocalHead, since |-> netTime, requests |-> NoEntry, gone |-> FALSE]
SyncFinished(p) == ~p.fromPeer /\ ~p.fromUs
\* A second hello changes what gossip believes, not the peer (PeerManager::add).
Hello(r, head) ==
    /\ net = "up" /\ lock = Free /\ link[r] \in {"attached", "connected"} /\ link' = [link EXCEPT ![r] = "connected"]
    /\ complete' = Put(complete, r, SyncFinished(NewPeer(head)))
    /\ peers' = IF r \in DOMAIN peers THEN peers ELSE Put(peers, r, NewPeer(head))
    /\ UNCHANGED <<providers, pending, lock, drained, doomed, net, netTime>>

\* A chain inventory that is the last one, asked for or not.
LastChainInventory(r) ==
    /\ Handles(r) /\ peers' = [peers EXCEPT ![r].fromPeer = FALSE]
    /\ complete' = Put(complete, r, SyncFinished(peers'[r]))
    /\ UNCHANGED <<link, providers, pending, lock, drained, doomed, net, netTime>>

\* GossipService::purge, by the age of advertisements; nothing is ever cached here.
FreshProviders ==
    LET young(i) == {r \in DOMAIN providers[i] : netTime - providers[i][r] < ProviderTtl}
    IN [i \in {j \in DOMAIN providers : young(j) # {}} |-> [r \in young(i) |-> providers[i][r]]]
\* An item that is pending already is asked for again.
AcceptedAlways(items) == items
\* Of the items advertised, those not pending yet are asked for from this peer.
Accepted(items) == items \ (pending \cap DOMAIN FreshProviders)
\* receive_inventory and the fetch that follows it.  Nothing else ever fetches a pending item.
ReceiveInventory(r, items) ==
    /\ Handles(r) /\ complete[r]
    /\ providers' = [i \in DOMAIN FreshProviders \cup items |->
                        LET old == IF i \in DOMAIN FreshProviders THEN FreshProviders[i] ELSE NoEntry
                        IN IF i \in items THEN Put(old, r, netTime) ELSE old]
    /\ pending' = (pending \cap DOMAIN FreshProviders) \cup items
    /\ peers' = [peers EXCEPT ![r].requests =
                    [i \in DOMAIN @ \cup Accepted(items) |-> IF i \in DOMAIN @ THEN @[i] ELSE netTime]]
    /\ UNCHANGED <<link, complete, lock, drained, doomed, net, netTime>>

-----------------------------------------------------------------------------
\* TransactionHandler::receive and the start of drain, or handle_block_with_engine up to its
\* first call of the chain: requested items only, and the state lock is kept.
GiveToChain(r, items) ==
    /\ Handles(r) /\ items # {} /\ items \subseteq DOMAIN peers[r].requests
    /\ items \subseteq Txs \/ \E b \in Blocks : items = {b}
    /\ peers' = [peers EXCEPT ![r].requests = RemoveKeys(@, items)]
    /\ lock' = r /\ drained' = items /\ link' = [link EXCEPT ![r] = "busy"]
    /\ UNCHANGED <<complete, providers, pending, doomed, net, netTime>>

\* The chain knows or refuses a transaction, or a block does not extend the head the cursors had
\* at start (start_sync does nothing).
ChainDeclines(r, i) ==
    /\ link[r] = "busy" /\ i \in drained /\ drained' = drained \ {i}
    /\ UNCHANGED <<link, peers, complete, providers, pending, lock, doomed, net, netTime>>
\* An invalid block ends the connection.
ChainRefusesBlock(r, b) ==
    /\ link[r] = "busy" /\ b \in drained \cap Blocks /\ drained' = {} /\ lock' = Free
    /\ link' = [link EXCEPT ![r] = "leaving"]
    /\ UNCHANGED <<peers, complete, providers, pending, doomed, net, netTime>>
\* A transaction that entered the pool, or a valid block, is broadcast while the lock is held.
ChainAdmits(r, i) ==
    /\ link[r] = "busy" /\ i \in drained /\ drained' = drained \ {i}
    /\ link' = [link EXCEPT ![r] = "relaying"]
    /\ UNCHANGED <<peers, complete, providers, pending, lock, doomed, net, netTime>>
ChainDone(r) ==
    /\ link[r] = "busy" /\ drained = {} /\ lock' = Free /\ link' = [link EXCEPT ![r] = "connected"]
    /\ UNCHANGED <<peers, complete, providers, pending, drained, doomed, net, netTime>>

\* A PBFT message is forwarded without the lock.
ReceivePbft(r) ==
    /\ Handles(r) /\ link' = [link EXCEPT ![r] = "relaying"]
    /\ UNCHANGED <<peers, complete, providers, pending, lock, drained, doomed, net, netTime>>
\* ProductionNetwork::broadcast takes the lock to read the senders: a caller that holds it waits
\* for itself.
BroadcastMessage(r) ==
    /\ link[r] = "relaying" /\ lock = Free /\ link' = [link EXCEPT ![r] = "connected"]
    /\ UNCHANGED <<peers, complete, providers, pending, lock, drained, doomed, net, netTime>>

-----------------------------------------------------------------------------
\* The dispatcher leaves its loop: the session closed, a message was refused, or the owner stops.
Leave(r) ==
    /\ link[r] \in {"attached", "connected"} /\ link' = [link EXCEPT ![r] = "leaving"]
    /\ UNCHANGED <<peers, complete, providers, pending, lock, drained, doomed, net, netTime>>
\* The end of dispatch: GossipService::disconnect and PeerManager::remove in one section.
Cleanup(r) ==
    /\ link[r] = "leaving" /\ lock = Free /\ link' = [link EXCEPT ![r] = "closed"]
    /\ peers' = RemoveKeys(peers, {r}) /\ complete' = RemoveKeys(complete, {r})
    /\ LET left(i) == DOMAIN providers[i] \ {r}
           kept == {i \in DOMAIN providers : left(i) # {}}
       IN /\ providers' = [i \in kept |-> RemoveKeys(providers[i], {r})] /\ pending' = pending \cap kept
    /\ UNCHANGED <<lock, drained, doomed, net, netTime>>

\* PeerStatusCheck::check, only where discovery runs; a marked peer is not looked at again.
Overdue(p) ==
    \/ p.fromPeer /\ p.since < netTime - CommonTimeout
    \/ \E i \in DOMAIN p.requests : p.requests[i] < netTime - AdvTimeout
WatchdogCheck ==
    LET late == {r \in DOMAIN peers : ~peers[r].gone /\ Overdue(peers[r])}
    IN /\ net = "up" /\ lock = Free /\ doomed = {} /\ late # {} /\ doomed' = late
       /\ peers' = [r \in DOMAIN peers |-> [peers[r] EXCEPT !.gone = @ \/ r \in late]]
       /\ UNCHANGED <<link, complete, providers, pending, lock, drained, net, netTime>>
\* The command ends the session, unless its queue stayed full.
WatchdogTell(r) ==
    /\ net = "up" /\ lock = Free /\ r \in doomed /\ doomed' = doomed \ {r}
    /\ \/ link[r] = "connected" /\ link' = [link EXCEPT ![r] = "leaving"]
       \/ UNCHANGED link
    /\ UNCHANGED <<peers, complete, providers, pending, lock, drained, net, netTime>>

\* shutdown_with_timeout: cancel, tell the sessions, take the tasks, join them.
Cancel ==
    /\ net = "up" /\ net' = "cancelled"
    /\ UNCHANGED <<link, peers, complete, providers, pending, lock, drained, doomed, netTime>>
Collect ==
    /\ lock = Free /\ \/ net = "cancelled" /\ net' = "collected"
                      \/ net = "collected" /\ net' = "joining"
    /\ UNCHANGED <<link, peers, complete, providers, pending, lock, drained, doomed, netTime>>
Ended == \A r \in Remotes : link[r] \in {"new", "closed", "aborted"}
Join ==
    /\ Ended /\ \/ net = "joining" /\ net' = "stopped"
                \/ net = "aborting" /\ net' = "failed"
    /\ UNCHANGED <<link, peers, complete, providers, pending, lock, drained, doomed, netTime>>
\* The deadline: tasks are aborted where they wait for an event, and awaited.
DeadlineElapsed ==
    /\ net = "joining" /\ ~Ended /\ net' = "aborting"
    /\ UNCHANGED <<link, peers, complete, providers, pending, lock, drained, doomed, netTime>>
Abort(r) ==
    /\ net = "aborting" /\ link[r] \in {"attached", "connected"} /\ link' = [link EXCEPT ![r] = "aborted"]
    /\ UNCHANGED <<peers, complete, providers, pending, lock, drained, doomed, net, netTime>>

NetTick ==
    /\ net = "up" /\ netTime < MaxNetTime /\ netTime' = netTime + 1
    /\ UNCHANGED <<link, peers, complete, providers, pending, lock, drained, doomed, net>>

ChainAnswers(r) ==
    \/ \E i \in Items : ChainDeclines(r, i) \/ ChainAdmits(r, i) \/ ChainRefusesBlock(r, i)
    \/ ChainDone(r)
NetNext ==
    \/ \E r \in Remotes :
        \/ Attach(r) \/ LastChainInventory(r) \/ ReceivePbft(r) \/ BroadcastMessage(r)
        \/ Leave(r) \/ Cleanup(r) \/ WatchdogTell(r) \/ Abort(r) \/ ChainAnswers(r)
        \/ \E head \in RemoteHeads : Hello(r, head)
        \/ \E items \in SUBSET Items \ {{}} : ReceiveInventory(r, items) \/ GiveToChain(r, items)
    \/ WatchdogCheck \/ Cancel \/ Collect \/ Join \/ DeadlineElapsed \/ NetTick

\* The chain answers, tasks run, and a cancelled dispatcher leaves at its next turn.
NetFairness ==
    /\ WF_netVars(Collect) /\ WF_netVars(Join)
    /\ \A r \in Remotes : /\ WF_netVars(ChainAnswers(r)) /\ WF_netVars(BroadcastMessage(r)) /\ WF_netVars(Cleanup(r))
                          /\ WF_netVars(net # "up" /\ (Leave(r) \/ Abort(r)))

-----------------------------------------------------------------------------
NetTypeOK ==
    /\ link \in [Remotes -> {"new", "attached", "connected", "busy", "relaying", "leaving", "closed", "aborted"}]
    /\ DOMAIN peers \subseteq Remotes /\ DOMAIN complete = DOMAIN peers /\ pending \subseteq DOMAIN providers
    /\ lock \in Remotes \cup {Free} /\ drained \subseteq Items /\ doomed \subseteq Remotes /\ netTime \in 0..MaxNetTime

(* However advertisements of the same item by several peers, disconnections, expiry *)
(* and the watchdog interleave, an item is asked for from a second peer while a first *)
(* one still owes it only when its advertisement is older than the inventory's time   *)
(* to live: the pending set, the providers and the peers' requests, which different   *)
(* sections change, stay in step (receive_inventory, purge, disconnect).              *)
AskedOnce ==
    \A r, s \in DOMAIN peers : \A i \in DOMAIN peers[r].requests \cap DOMAIN peers[s].requests :
        \/ r = s
        \/ peers[r].requests[i] >= peers[s].requests[i] + ProviderTtl
        \/ peers[s].requests[i] >= peers[r].requests[i] + ProviderTtl

(* A shutdown ends, whatever the peers have sent: every task can be joined or aborted *)
(* (shutdown_with_timeout).                                                            *)
ShutdownEnds == net = "cancelled" ~> net \in {"stopped", "failed"}
=============================================================================
