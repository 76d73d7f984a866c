--------------------------- MODULE NetworkProofs ---------------------------
(***************************************************************************)
(* Proofs about the network state the peer tasks share (Network), for every *)
(* set of peers, transactions and blocks and every timeout: who is asked for *)
(* an advertised item, who has advertised it, and which items are awaited  *)
(* are changed in different critical sections, by peers that may leave or  *)
(* fall silent between any two of them.  The invariant relates the three.  *)
(*                                                                         *)
(* And about the node around it (NodeServices), for every composition of   *)
(* services and every batch of events: one caller starts and stops the      *)
(* graph while blocks fill the event queues, the worker empties them, and   *)
(* outlets and supervised tasks fail at any moment.                         *)
(***************************************************************************)
EXTENDS Network, NodeServices, FiniteSums, TLAPS

\* A request or an advertisement is dated; a peer's state is a record of five fields.
Dated == UNION {[S -> Nat] : S \in SUBSET Items}
PeerStates == [fromPeer : BOOLEAN, fromUs : BOOLEAN, since : Nat, requests : Dated, gone : BOOLEAN]
Linked == \A r \in Remotes : link[r] \in {"connected", "busy", "relaying"} => r \in DOMAIN peers
PeersShape == \A r \in DOMAIN peers : peers[r] \in PeerStates
ProvidersShape == \A i \in DOMAIN providers : \A r \in DOMAIN providers[i] : providers[i][r] \in 0..netTime

Owes(r, i) == r \in DOMAIN peers /\ i \in DOMAIN peers[r].requests
Advertised(r, i, t) == i \in pending /\ i \in DOMAIN providers /\ r \in DOMAIN providers[i] /\ providers[i][r] >= t
\* What a peer owes it has advertised since it was asked, and the item is pending, or the
\* advertisement has outlived its time.
Backed ==
    \A r, i : Owes(r, i) =>
        /\ peers[r].requests[i] \in 0..netTime
        /\ netTime >= peers[r].requests[i] + ProviderTtl \/ Advertised(r, i, peers[r].requests[i])
\* The inductive invariant.
NetInv == NetTypeOK /\ Linked /\ PeersShape /\ ProvidersShape /\ Backed /\ AskedOnce

\* What the assumption on the constants says of the numbers.
LEMMA NetBounds == ProviderTtl \in Nat /\ ProviderTtl > 0 /\ MaxNetTime \in Nat
    BY NetworkAssumption

\* A node that has just started has no peers and asks nobody.
LEMMA NetInvInit == NetInit => NetInv
<1> SUFFICES ASSUME NetInit PROVE NetInv
    OBVIOUS
<1>1. DOMAIN peers = {} /\ DOMAIN complete = {} /\ DOMAIN providers = {}
    BY DEF NetInit, NoEntry
<1>2. NetTypeOK
    BY <1>1, NetBounds DEF NetTypeOK, NetInit
<1>3. Linked
    BY DEF Linked, NetInit
<1> QED
    BY <1>1, <1>2, <1>3 DEF NetInv, PeersShape, ProvidersShape, Backed, Owes, AskedOnce

\* Where neither the requests nor the advertisements change, only the tasks' states matter.
LEMMA RequestsSame ==
    ASSUME NetInv, UNCHANGED <<peers, complete, providers, pending, netTime>>, NetTypeOK', Linked'
    PROVE  NetInv'
<1>1. peers' = peers /\ providers' = providers /\ pending' = pending /\ netTime' = netTime
    OBVIOUS
<1>2. PeersShape' /\ ProvidersShape'
    BY <1>1 DEF NetInv, PeersShape, ProvidersShape
<1>3. Backed'
    BY <1>1 DEF NetInv, Backed, Owes, Advertised
<1>4. AskedOnce'
    BY <1>1 DEF NetInv, AskedOnce
<1> QED
    BY <1>2, <1>3, <1>4 DEF NetInv

\* A step of one dispatcher that leaves the shared state alone.
LEMMA TaskStep ==
    ASSUME NetInv, NEW r \in Remotes, NEW to \in {"new", "attached", "connected", "busy", "relaying", "leaving", "closed", "aborted"},
           to \in {"connected", "busy", "relaying"} => r \in DOMAIN peers,
           link' = [link EXCEPT ![r] = to], UNCHANGED <<peers, complete, providers, pending, netTime>>,
           lock' \in Remotes \cup {Free}, drained' \subseteq Items, doomed' \subseteq Remotes
    PROVE  NetInv'
<1>1. NetTypeOK'
    BY DEF NetInv, NetTypeOK
<1>2. Linked'
    BY DEF NetInv, NetTypeOK, Linked
<1> QED
    BY <1>1, <1>2, RequestsSame

\* A step that changes neither tasks nor requests.
LEMMA SharedStep ==
    ASSUME NetInv, UNCHANGED <<link, peers, complete, providers, pending, netTime>>,
           lock' \in Remotes \cup {Free}, drained' \subseteq Items, doomed' \subseteq Remotes
    PROVE  NetInv'
<1>1. NetTypeOK'
    BY DEF NetInv, NetTypeOK
<1>2. Linked'
    BY DEF NetInv, NetTypeOK, Linked
<1> QED
    BY <1>1, <1>2, RequestsSame

\* Attaching, relaying, leaving, aborting and the chain's answer touch no request.
LEMMA DispatchersKeep ==
    ASSUME NetInv, NEW r \in Remotes,
           \/ Attach(r) \/ ReceivePbft(r) \/ BroadcastMessage(r) \/ Leave(r) \/ Abort(r) \/ ChainAnswers(r) \/ WatchdogTell(r)
    PROVE  NetInv'
<1>1. lock \in Remotes \cup {Free} /\ drained \subseteq Items /\ doomed \subseteq Remotes /\ Free \in Remotes \cup {Free}
    BY DEF NetInv, NetTypeOK
<1>2. CASE Attach(r)
    BY <1>1, <1>2, TaskStep DEF Attach
<1>3. link[r] \in {"connected", "busy", "relaying"} => r \in DOMAIN peers
    BY DEF NetInv, Linked
<1>4. CASE ReceivePbft(r)
    BY <1>1, <1>3, <1>4, TaskStep DEF ReceivePbft, Handles
<1>5. CASE BroadcastMessage(r)
    BY <1>1, <1>3, <1>5, TaskStep DEF BroadcastMessage
<1>6. CASE Leave(r)
    BY <1>1, <1>6, TaskStep DEF Leave
<1>7. CASE Abort(r)
    BY <1>1, <1>7, TaskStep DEF Abort
<1>8. CASE WatchdogTell(r)
  <2>1. CASE link' = [link EXCEPT ![r] = "leaving"]
    BY <1>1, <1>8, <2>1, TaskStep DEF WatchdogTell
  <2>2. CASE UNCHANGED link
    BY <1>1, <1>8, <2>2, SharedStep DEF WatchdogTell
  <2> QED
    BY <1>8, <2>1, <2>2 DEF WatchdogTell
<1>9. CASE ChainDone(r)
    BY <1>1, <1>3, <1>9, TaskStep DEF ChainDone
<1>10. ASSUME NEW i \in Items, ChainDeclines(r, i) PROVE NetInv'
    BY <1>1, <1>10, SharedStep DEF ChainDeclines
<1>11. ASSUME NEW i \in Items, ChainAdmits(r, i) PROVE NetInv'
    BY <1>1, <1>3, <1>11, TaskStep DEF ChainAdmits
<1>12. ASSUME NEW i \in Items, ChainRefusesBlock(r, i) PROVE NetInv'
    BY <1>1, <1>12, TaskStep DEF ChainRefusesBlock
<1> QED
    BY <1>2, <1>4, <1>5, <1>6, <1>7, <1>8, <1>9, <1>10, <1>11, <1>12 DEF ChainAnswers

\* Nor does the owner's shutdown.
LEMMA OwnerKeeps ==
    ASSUME NetInv, Cancel \/ Collect \/ Join \/ DeadlineElapsed
    PROVE  NetInv'
<1>1. lock \in Remotes \cup {Free} /\ drained \subseteq Items /\ doomed \subseteq Remotes
    BY DEF NetInv, NetTypeOK
<1> QED
    BY <1>1, SharedStep DEF Cancel, Collect, Join, DeadlineElapsed

\* Time only brings advertisements nearer to their end.
LEMMA TickKeeps == NetInv /\ NetTick => NetInv'
<1> SUFFICES ASSUME NetInv, NetTick PROVE NetInv'
    OBVIOUS
<1>1. /\ link' = link /\ peers' = peers /\ complete' = complete /\ providers' = providers /\ pending' = pending
      /\ lock' = lock /\ drained' = drained /\ doomed' = doomed /\ netTime' = netTime + 1 /\ netTime < MaxNetTime
    BY DEF NetTick
<1>2. netTime \in Nat
    BY NetBounds DEF NetInv, NetTypeOK
<1>3. NetTypeOK'
    BY <1>1, <1>2, NetBounds DEF NetInv, NetTypeOK
<1>4. Linked' /\ PeersShape' /\ AskedOnce'
    BY <1>1 DEF NetInv, Linked, PeersShape, AskedOnce
<1>5. ProvidersShape'
    BY <1>1, <1>2 DEF NetInv, ProvidersShape
<1>6. Backed'
  <2> SUFFICES ASSUME NEW r, NEW i, Owes(r, i)
               PROVE  /\ peers[r].requests[i] \in 0..netTime + 1
                      /\ netTime + 1 >= peers[r].requests[i] + ProviderTtl \/ Advertised(r, i, peers[r].requests[i])
    BY <1>1 DEF Backed, Owes, Advertised
  <2>1. peers[r].requests[i] \in 0..netTime
        /\ (netTime >= peers[r].requests[i] + ProviderTtl \/ Advertised(r, i, peers[r].requests[i]))
    BY DEF NetInv, Backed
  <2> QED
    BY <1>2, <2>1, NetBounds
<1> QED
    BY <1>3, <1>4, <1>5, <1>6 DEF NetInv

\* Peers may change in everything but their requests, and lose members.
LEMMA RequestsKept ==
    ASSUME NetInv, UNCHANGED <<providers, pending, netTime>>, NetTypeOK', Linked', PeersShape',
           \A r \in DOMAIN peers' : IF r \in DOMAIN peers THEN peers'[r].requests = peers[r].requests ELSE peers'[r].requests = NoEntry
    PROVE  NetInv'
<1>1. \A r, i : Owes(r, i)' => Owes(r, i) /\ peers'[r].requests[i] = peers[r].requests[i]
    BY DEF Owes, NoEntry
<1>2. ProvidersShape'
    BY DEF NetInv, ProvidersShape
<1>3. Backed'
    BY <1>1 DEF NetInv, Backed, Advertised
<1>4. AskedOnce'
  <2> SUFFICES ASSUME NEW r \in DOMAIN peers', NEW s \in DOMAIN peers',
                      NEW i \in DOMAIN peers'[r].requests \cap DOMAIN peers'[s].requests, r # s
               PROVE  \/ peers'[r].requests[i] >= peers'[s].requests[i] + ProviderTtl
                      \/ peers'[s].requests[i] >= peers'[r].requests[i] + ProviderTtl
    BY DEF AskedOnce
  <2>1. Owes(r, i)' /\ Owes(s, i)'
    BY DEF Owes
  <2>2. Owes(r, i) /\ Owes(s, i) /\ peers'[r].requests[i] = peers[r].requests[i] /\ peers'[s].requests[i] = peers[s].requests[i]
    BY <1>1, <2>1
  <2> QED
    BY <2>2 DEF NetInv, AskedOnce, Owes
<1> QED
    BY <1>2, <1>3, <1>4 DEF NetInv

\* A hello adds a peer that owes nothing.
LEMMA HelloKeeps ==
    ASSUME NetInv, NEW r \in Remotes, NEW head \in RemoteHeads, Hello(r, head)
    PROVE  NetInv'
<1>1. /\ link' = [link EXCEPT ![r] = "connected"] /\ UNCHANGED <<providers, pending, lock, drained, doomed, netTime>>
      /\ complete' = Put(complete, r, SyncFinished(NewPeer(head)))
      /\ peers' = IF r \in DOMAIN peers THEN peers ELSE Put(peers, r, NewPeer(head))
    BY DEF Hello
<1>2. DOMAIN peers' = DOMAIN peers \cup {r} /\ DOMAIN complete' = DOMAIN complete \cup {r}
    BY <1>1 DEF Put
<1>3. NewPeer(head) \in PeerStates /\ NewPeer(head).requests = NoEntry
  <2>1. NoEntry \in Dated
    BY DEF NoEntry, Dated
  <2>2. netTime \in Nat /\ (head > LocalHead) \in BOOLEAN /\ (head < LocalHead) \in BOOLEAN
    BY NetBounds DEF NetInv, NetTypeOK
  <2> QED
    BY <2>1, <2>2 DEF NewPeer, PeerStates
<1>4. NetTypeOK'
    BY <1>1, <1>2 DEF NetInv, NetTypeOK
<1>5. Linked'
    BY <1>1, <1>2 DEF NetInv, NetTypeOK, Linked
<1>6. \A s \in DOMAIN peers' : peers'[s] = IF s \in DOMAIN peers THEN peers[s] ELSE NewPeer(head)
    BY <1>1 DEF Put
<1>7. PeersShape'
    BY <1>3, <1>6 DEF NetInv, PeersShape
<1> HIDE DEF NewPeer
<1> QED
    BY <1>1, <1>3, <1>4, <1>5, <1>6, <1>7, RequestsKept

\* The end of a synchronization leaves requests alone.
LEMMA LastChainInventoryKeeps ==
    ASSUME NetInv, NEW r \in Remotes, LastChainInventory(r)
    PROVE  NetInv'
<1>1. /\ peers' = [peers EXCEPT ![r].fromPeer = FALSE] /\ link' = link /\ link[r] = "connected"
      /\ UNCHANGED <<providers, pending, lock, drained, doomed, netTime>>
      /\ complete' = Put(complete, r, SyncFinished(peers'[r]))
    BY DEF LastChainInventory, Handles
<1>2. r \in DOMAIN peers
    BY <1>1 DEF NetInv, Linked
<1>3. DOMAIN peers' = DOMAIN peers /\ DOMAIN complete' = DOMAIN complete
    BY <1>1, <1>2 DEF Put, NetInv, NetTypeOK
<1>4. NetTypeOK' /\ Linked'
    BY <1>1, <1>3 DEF NetInv, NetTypeOK, Linked
<1>5. \A s \in DOMAIN peers : peers[s] \in PeerStates
    BY DEF NetInv, PeersShape
<1>6. \A s \in DOMAIN peers : peers'[s] \in PeerStates /\ peers'[s].requests = peers[s].requests
    BY <1>1, <1>5 DEF PeerStates
<1> QED
    BY <1>1, <1>3, <1>4, <1>6, RequestsKept DEF PeersShape

\* The watchdog marks peers and takes nothing from them.
LEMMA WatchdogKeeps == NetInv /\ WatchdogCheck => NetInv'
<1> SUFFICES ASSUME NetInv, WatchdogCheck PROVE NetInv'
    OBVIOUS
<1> DEFINE late == {r \in DOMAIN peers : ~peers[r].gone /\ Overdue(peers[r])}
<1>1. /\ doomed' = late /\ peers' = [r \in DOMAIN peers |-> [peers[r] EXCEPT !.gone = @ \/ r \in late]]
      /\ UNCHANGED <<link, complete, providers, pending, lock, drained, netTime>>
    BY DEF WatchdogCheck
<1>2. late \subseteq Remotes
    BY DEF NetInv, NetTypeOK
<1> HIDE DEF late
<1>3. DOMAIN peers' = DOMAIN peers
    BY <1>1
<1>4. NetTypeOK' /\ Linked'
    BY <1>1, <1>2, <1>3 DEF NetInv, NetTypeOK, Linked
<1>5. \A s \in DOMAIN peers : peers[s] \in PeerStates
    BY DEF NetInv, PeersShape
<1>6. ASSUME NEW s \in DOMAIN peers PROVE peers'[s] \in PeerStates /\ peers'[s].requests = peers[s].requests
  <2>1. PICK b \in BOOLEAN : b = (peers[s].gone \/ s \in late)
    OBVIOUS
  <2>2. peers'[s] = [peers[s] EXCEPT !.gone = b]
    BY <1>1, <2>1
  <2> QED
    BY <1>5, <2>2 DEF PeerStates
<1> QED
    BY <1>1, <1>3, <1>4, <1>6, RequestsKept DEF PeersShape

\* The end of a connection takes the peer and its own advertisements.
LEMMA CleanupKeeps ==
    ASSUME NetInv, NEW r \in Remotes, Cleanup(r)
    PROVE  NetInv'
<1> DEFINE kept == {i \in DOMAIN providers : DOMAIN providers[i] \ {r} # {}}
<1>1. /\ link' = [link EXCEPT ![r] = "closed"] /\ peers' = RemoveKeys(peers, {r}) /\ complete' = RemoveKeys(complete, {r})
      /\ providers' = [i \in kept |-> RemoveKeys(providers[i], {r})] /\ pending' = pending \cap kept
      /\ UNCHANGED <<lock, drained, doomed, netTime>>
    BY DEF Cleanup
<1>2. DOMAIN peers' = DOMAIN peers \ {r} /\ DOMAIN complete' = DOMAIN complete \ {r} /\ (\A s \in DOMAIN peers' : peers'[s] = peers[s])
    BY <1>1 DEF RemoveKeys
<1>3. DOMAIN providers' = kept /\ kept \subseteq DOMAIN providers
    BY <1>1
<1>4. \A i \in kept : DOMAIN providers'[i] = DOMAIN providers[i] \ {r} /\ \A s \in DOMAIN providers'[i] : providers'[i][s] = providers[i][s]
    BY <1>1 DEF RemoveKeys
<1>5. NetTypeOK' /\ Linked'
    BY <1>1, <1>2, <1>3 DEF NetInv, NetTypeOK, Linked
<1>6. PeersShape' /\ ProvidersShape'
  <2>1. PeersShape'
    BY <1>2 DEF NetInv, PeersShape
  <2>2. ASSUME NEW i \in kept, NEW s \in DOMAIN providers'[i] PROVE providers'[i][s] \in 0..netTime
    BY <1>3, <1>4, <2>2 DEF NetInv, ProvidersShape
  <2> QED
    BY <1>1, <1>3, <2>1, <2>2 DEF ProvidersShape
<1>7. Backed'
  <2> SUFFICES ASSUME NEW s, NEW i, Owes(s, i)'
               PROVE  /\ peers'[s].requests[i] \in 0..netTime'
                      /\ netTime' >= peers'[s].requests[i] + ProviderTtl \/ Advertised(s, i, peers[s].requests[i])'
    BY DEF Backed, Advertised
  <2>1. Owes(s, i) /\ s # r /\ peers'[s] = peers[s]
    BY <1>2 DEF Owes
  <2>2. CASE Advertised(s, i, peers[s].requests[i])
    <3>1. i \in kept
      BY <2>1, <2>2 DEF Advertised
    <3>2. i \in pending' /\ i \in DOMAIN providers' /\ s \in DOMAIN providers'[i] /\ providers'[i][s] >= peers'[s].requests[i]
      BY <1>1, <1>3, <1>4, <2>1, <2>2, <3>1 DEF Advertised
    <3> QED
      BY <1>1, <2>1, <3>2 DEF NetInv, Backed, Advertised
  <2>3. CASE ~Advertised(s, i, peers[s].requests[i])
    BY <1>1, <2>1, <2>3 DEF NetInv, Backed
  <2> QED
    BY <2>2, <2>3
<1>8. AskedOnce'
    BY <1>2 DEF NetInv, AskedOnce
<1> QED
    BY <1>5, <1>6, <1>7, <1>8 DEF NetInv

\* Answered requests leave the peer that was asked.
LEMMA GiveToChainKeeps ==
    ASSUME NetInv, NEW r \in Remotes, NEW items \in SUBSET Items \ {{}}, GiveToChain(r, items)
    PROVE  NetInv'
<1>1. /\ peers' = [peers EXCEPT ![r].requests = RemoveKeys(@, items)] /\ link' = [link EXCEPT ![r] = "busy"] /\ link[r] = "connected"
      /\ lock' = r /\ drained' = items /\ UNCHANGED <<complete, providers, pending, doomed, netTime>>
    BY DEF GiveToChain, Handles
<1>2. r \in DOMAIN peers
    BY <1>1 DEF NetInv, Linked
<1>3. DOMAIN peers' = DOMAIN peers
    BY <1>1
<1>4. NetTypeOK' /\ Linked'
    BY <1>1, <1>2, <1>3 DEF NetInv, NetTypeOK, Linked
<1>5. peers[r] \in PeerStates
    BY <1>2 DEF NetInv, PeersShape
<1>6. RemoveKeys(peers[r].requests, items) \in Dated
  <2>1. PICK S \in SUBSET Items : peers[r].requests \in [S -> Nat]
    BY <1>5 DEF PeerStates, Dated
  <2>2. RemoveKeys(peers[r].requests, items) \in [S \ items -> Nat]
    BY <2>1 DEF RemoveKeys
  <2>3. S \ items \in SUBSET Items
    BY <2>1
  <2> QED
    BY <2>2, <2>3 DEF Dated
<1>7. peers'[r] \in PeerStates /\ peers'[r].requests = RemoveKeys(peers[r].requests, items)
    BY <1>1, <1>2, <1>5, <1>6 DEF PeerStates
<1>8. \A s \in DOMAIN peers : s # r => peers'[s] = peers[s]
    BY <1>1
<1>9. PeersShape' /\ ProvidersShape'
    BY <1>1, <1>3, <1>7, <1>8 DEF NetInv, PeersShape, ProvidersShape
<1>10. \A s, i : Owes(s, i)' => Owes(s, i) /\ peers'[s].requests[i] = peers[s].requests[i]
    BY <1>3, <1>7, <1>8 DEF Owes, RemoveKeys
<1>11. Backed'
    BY <1>1, <1>10 DEF NetInv, Backed, Advertised
<1>12. AskedOnce'
  <2> SUFFICES ASSUME NEW p \in DOMAIN peers', NEW s \in DOMAIN peers',
                      NEW i \in DOMAIN peers'[p].requests \cap DOMAIN peers'[s].requests, p # s
               PROVE  \/ peers'[p].requests[i] >= peers'[s].requests[i] + ProviderTtl
                      \/ peers'[s].requests[i] >= peers'[p].requests[i] + ProviderTtl
    BY DEF AskedOnce
  <2>1. Owes(p, i)' /\ Owes(s, i)'
    BY DEF Owes
  <2>2. Owes(p, i) /\ Owes(s, i) /\ peers'[p].requests[i] = peers[p].requests[i] /\ peers'[s].requests[i] = peers[s].requests[i]
    BY <1>10, <2>1
  <2> QED
    BY <2>2 DEF NetInv, AskedOnce, Owes
<1> QED
    BY <1>4, <1>9, <1>11, <1>12 DEF NetInv

\* What purge keeps: an advertisement younger than the time to live, with its date.
LEMMA Purged ==
    ASSUME NetInv
    PROVE  /\ DOMAIN FreshProviders \subseteq DOMAIN providers
           /\ \A i \in DOMAIN FreshProviders : \A r \in DOMAIN FreshProviders[i] :
                 r \in DOMAIN providers[i] /\ FreshProviders[i][r] = providers[i][r]
           /\ \A i \in DOMAIN providers : \A r \in DOMAIN providers[i] :
                 netTime - providers[i][r] < ProviderTtl => i \in DOMAIN FreshProviders /\ r \in DOMAIN FreshProviders[i]
<1> DEFINE young(i) == {r \in DOMAIN providers[i] : netTime - providers[i][r] < ProviderTtl}
           some == {j \in DOMAIN providers : young(j) # {}}
<1>1. FreshProviders = [i \in some |-> [r \in young(i) |-> providers[i][r]]]
    BY DEF FreshProviders
<1>2. DOMAIN FreshProviders = some
    BY <1>1
<1>3. \A i \in some : DOMAIN FreshProviders[i] = young(i) /\ \A r \in young(i) : FreshProviders[i][r] = providers[i][r]
    BY <1>1
<1> QED
    BY <1>2, <1>3

\* A second peer is asked only where no live advertisement backs the first one's debt.
LEMMA ReceiveInventoryKeeps ==
    ASSUME NetInv, NEW r \in Remotes, NEW items \in SUBSET Items \ {{}}, ReceiveInventory(r, items)
    PROVE  NetInv'
<1> DEFINE F == FreshProviders
           old(i) == IF i \in DOMAIN F THEN F[i] ELSE NoEntry
           asked == Accepted(items)
           req == [i \in DOMAIN peers[r].requests \cup asked |-> IF i \in DOMAIN peers[r].requests THEN peers[r].requests[i] ELSE netTime]
<1>1. /\ link[r] = "connected" /\ link' = link /\ UNCHANGED <<complete, lock, drained, doomed, netTime>>
      /\ providers' = [i \in DOMAIN F \cup items |-> IF i \in items THEN Put(old(i), r, netTime) ELSE old(i)]
      /\ pending' = (pending \cap DOMAIN F) \cup items
      /\ peers' = [peers EXCEPT ![r].requests = req]
    BY DEF ReceiveInventory, Handles
<1>2. r \in DOMAIN peers
    BY <1>1 DEF NetInv, Linked
<1>3. DOMAIN peers' = DOMAIN peers /\ DOMAIN providers' = DOMAIN F \cup items
    BY <1>1
<1>4. NetTypeOK' /\ Linked'
    BY <1>1, <1>3 DEF NetInv, NetTypeOK, Linked
<1>5. netTime \in Nat
    BY NetBounds DEF NetInv, NetTypeOK
<1>6. peers[r] \in PeerStates /\ asked = items \ (pending \cap DOMAIN F)
    BY <1>2 DEF NetInv, PeersShape, Accepted
<1> HIDE DEF F, asked
<1>7. req \in Dated
  <2>1. PICK S \in SUBSET Items : peers[r].requests \in [S -> Nat]
    BY <1>6 DEF PeerStates, Dated
  <2>2. req \in [S \cup asked -> Nat]
    BY <1>5, <2>1
  <2>3. S \cup asked \in SUBSET Items
    BY <1>6, <2>1
  <2> QED
    BY <2>2, <2>3 DEF Dated
<1>8. DOMAIN req = DOMAIN peers[r].requests \cup asked
      /\ (\A i \in DOMAIN peers[r].requests : req[i] = peers[r].requests[i])
      /\ \A i \in asked : i \notin DOMAIN peers[r].requests => req[i] = netTime
    OBVIOUS
<1> HIDE DEF req
<1>9. peers'[r] \in PeerStates /\ peers'[r].requests = req
    BY <1>1, <1>2, <1>6, <1>7 DEF PeerStates
<1>10. \A s \in DOMAIN peers : s # r => peers'[s] = peers[s]
    BY <1>1
<1>11. PeersShape'
    BY <1>3, <1>9, <1>10 DEF NetInv, PeersShape
<1>12. \A i \in DOMAIN providers' : \A s \in DOMAIN providers'[i] :
          \/ s = r /\ i \in items /\ providers'[i][s] = netTime
          \/ i \in DOMAIN F /\ s \in DOMAIN F[i] /\ providers'[i][s] = F[i][s]
    BY <1>1 DEF Put, NoEntry
<1>13. \A i \in DOMAIN F : \A s \in DOMAIN F[i] :
          s \in DOMAIN providers'[i] /\ providers'[i][s] = IF i \in items /\ s = r THEN netTime ELSE F[i][s]
    BY <1>1 DEF Put
<1>14. \A i \in items : r \in DOMAIN providers'[i] /\ providers'[i][r] = netTime
    BY <1>1 DEF Put
<1> HIDE DEF old
<1>15. ProvidersShape'
  <2> SUFFICES ASSUME NEW i \in DOMAIN providers', NEW s \in DOMAIN providers'[i] PROVE providers'[i][s] \in 0..netTime
    BY <1>1 DEF ProvidersShape
  <2>1. CASE providers'[i][s] = netTime
    BY <1>5, <2>1
  <2>2. CASE i \in DOMAIN F /\ s \in DOMAIN F[i] /\ providers'[i][s] = F[i][s]
    <3>1. i \in DOMAIN providers /\ s \in DOMAIN providers[i] /\ F[i][s] = providers[i][s]
      BY <2>2, Purged DEF F
    <3> QED
      BY <2>2, <3>1 DEF NetInv, ProvidersShape
  <2> QED
    BY <1>12, <2>1, <2>2
<1>16. ASSUME NEW s, NEW i, Owes(s, i), netTime < peers[s].requests[i] + ProviderTtl
       PROVE  i \in pending \cap DOMAIN F /\ s \in DOMAIN F[i] /\ F[i][s] >= peers[s].requests[i]
  <2>1. peers[s].requests[i] \in 0..netTime /\ Advertised(s, i, peers[s].requests[i])
    BY <1>5, <1>16, NetBounds DEF NetInv, Backed
  <2>2. i \in pending /\ i \in DOMAIN providers /\ s \in DOMAIN providers[i] /\ providers[i][s] >= peers[s].requests[i] /\ providers[i][s] \in 0..netTime
    BY <2>1 DEF Advertised, NetInv, ProvidersShape
  <2>3. netTime - providers[i][s] < ProviderTtl
    BY <1>5, <1>16, <2>1, <2>2, NetBounds
  <2> QED
    BY <2>2, <2>3, Purged DEF F
<1>17. Backed'
  <2> SUFFICES ASSUME NEW s, NEW i, Owes(s, i)'
               PROVE  /\ peers'[s].requests[i] \in 0..netTime
                      /\ netTime >= peers'[s].requests[i] + ProviderTtl \/ Advertised(s, i, peers[s].requests[i])'
    BY <1>1 DEF Backed, Advertised
  <2>1. CASE Owes(s, i) /\ peers'[s].requests[i] = peers[s].requests[i]
    <3>1. peers[s].requests[i] \in 0..netTime
      BY <2>1 DEF NetInv, Backed
    <3>2. CASE netTime < peers[s].requests[i] + ProviderTtl
      <4>1. i \in pending \cap DOMAIN F /\ s \in DOMAIN F[i] /\ F[i][s] >= peers[s].requests[i]
        BY <1>16, <2>1, <3>2
      <4>2. i \in pending' /\ i \in DOMAIN providers'
        BY <1>1, <1>3, <4>1
      <4>3. s \in DOMAIN providers'[i] /\ providers'[i][s] >= peers[s].requests[i]
        BY <1>5, <1>13, <3>1, <4>1
      <4> QED
        BY <2>1, <3>1, <4>2, <4>3 DEF Advertised
    <3> QED
      BY <1>5, <2>1, <3>1, <3>2, NetBounds
  <2>2. CASE ~(Owes(s, i) /\ peers'[s].requests[i] = peers[s].requests[i])
    <3>1. s = r /\ i \in asked /\ peers'[s].requests[i] = netTime
      BY <1>2, <1>3, <1>8, <1>9, <1>10, <2>2 DEF Owes
    <3>2. i \in items /\ i \in pending' /\ i \in DOMAIN providers'
      BY <1>1, <1>3, <1>6, <3>1
    <3> QED
      BY <1>5, <1>14, <3>1, <3>2 DEF Advertised
  <2> QED
    BY <2>1, <2>2
<1>18. ASSUME NEW s \in DOMAIN peers, s # r, NEW i \in DOMAIN req \cap DOMAIN peers[s].requests
       PROVE  req[i] >= peers[s].requests[i] + ProviderTtl \/ peers[s].requests[i] >= req[i] + ProviderTtl
  <2>1. CASE i \in DOMAIN peers[r].requests
    BY <1>2, <1>8, <1>18, <2>1 DEF NetInv, AskedOnce
  <2>2. CASE i \notin DOMAIN peers[r].requests
    <3>1. i \in asked /\ req[i] = netTime /\ i \notin pending \cap DOMAIN F
      BY <1>6, <1>8, <1>18, <2>2
    <3>2. Owes(s, i) /\ peers[s].requests[i] \in 0..netTime
      BY <1>18 DEF NetInv, Backed, Owes
    <3>3. ~(netTime < peers[s].requests[i] + ProviderTtl)
      BY <1>16, <3>1, <3>2
    <3> QED
      BY <1>5, <3>1, <3>2, <3>3, NetBounds
  <2> QED
    BY <2>1, <2>2
<1>19. AskedOnce'
  <2> SUFFICES ASSUME NEW p \in DOMAIN peers, NEW s \in DOMAIN peers,
                      NEW i \in DOMAIN peers'[p].requests \cap DOMAIN peers'[s].requests, p # s
               PROVE  \/ peers'[p].requests[i] >= peers'[s].requests[i] + ProviderTtl
                      \/ peers'[s].requests[i] >= peers'[p].requests[i] + ProviderTtl
    BY <1>3 DEF AskedOnce
  <2>1. CASE p = r
    BY <1>9, <1>10, <1>18, <2>1
  <2>2. CASE s = r
    BY <1>9, <1>10, <1>18, <2>2
  <2>3. CASE p # r /\ s # r
    BY <1>10, <2>3 DEF NetInv, AskedOnce
  <2> QED
    BY <2>1, <2>2, <2>3
<1> QED
    BY <1>4, <1>11, <1>15, <1>17, <1>19 DEF NetInv

\* Every step keeps the invariant.
LEMMA NetInvKept == NetInv /\ [NetNext]_netVars => NetInv'
<1> SUFFICES ASSUME NetInv, [NetNext]_netVars PROVE NetInv'
    OBVIOUS
<1>1. CASE UNCHANGED netVars
  <2>1. lock \in Remotes \cup {Free} /\ drained \subseteq Items /\ doomed \subseteq Remotes
    BY DEF NetInv, NetTypeOK
  <2> QED
    BY <1>1, <2>1, SharedStep DEF netVars
<1>2. CASE NetNext
    BY <1>2, DispatchersKeep, OwnerKeeps, TickKeeps, HelloKeeps, LastChainInventoryKeeps, WatchdogKeeps, CleanupKeeps,
       GiveToChainKeeps, ReceiveInventoryKeeps DEF NetNext
<1> QED
    BY <1>1, <1>2

NetSpec == NetInit /\ [][NetNext]_netVars

\* The shared state of gossip.rs is always in step: whoever owes an item (receive_inventory)
\* has advertised it since, and the item is pending, or the advertisement is older than
\* purge lets one get; cleanup of a connection, purge, and the delivery of blocks keep it so.
THEOREM NetInvariant == NetSpec => []NetInv
    BY NetInvInit, NetInvKept, PTL DEF NetSpec

\* The maps of peers, providers and pending items keep their types, and tasks their states.
THEOREM NetTypes == NetSpec => []NetTypeOK
<1>1. NetInv => NetTypeOK
    BY DEF NetInv
<1> QED
    BY <1>1, NetInvariant, PTL

\* No item is owed by two peers at once while the first one's advertisement lives, whatever the
\* order of inventories, disconnections, watchdog runs and deliveries (gossip.rs receive_inventory,
\* purge, disconnect), for any number of peers and items.
THEOREM ItemsAskedOnce == NetSpec => []AskedOnce
<1>1. NetInv => AskedOnce
    BY DEF NetInv
<1> QED
    BY <1>1, NetInvariant, PTL

-----------------------------------------------------------------------------
(* The node: the caller, the supervised tasks, the queues and the outlets. *)

NodeSpec == NodeInit /\ [][NodeNext]_nodeVars

\* What the variables are.
ServiceRecords == [name : STRING, deps : SUBSET STRING, modes : SUBSET STRING]
Kinds == Triggers \cup {"filter"}
Events == [seq : Nat, class : Range(QueueClasses), kind : Kinds, height : Nat]
GraphRecords ==
    [state : {"none", "New", "Starting", "Running", "Stopping", "Stopped", "Failed"}, mode : STRING,
     order : Seq(ServiceRecords), started : Seq(ServiceRecords), cancelled : BOOLEAN]
CallRecords ==
    [at : {"idle", "starting", "marking", "stopping"}, i : Nat, phase : {"begin", "drain", "join"},
     why : {"none", "unwind", "startup", "shutdown"}, stopped : SUBSET STRING, left : SUBSET STRING,
     last : {"none", "running", "stopped", "failed"}, calls : Nat]
StatusRecords == [ready : BOOLEAN, healthy : BOOLEAN, ingress : BOOLEAN, fatal : BOOLEAN]
TaskRecords ==
    [pc : {"none", "pass", "tail", "run", "ended", "report", "done"}, ok : BOOLEAN,
     handle : {"none", "held", "taken", "detached"}]
QueueRecords ==
    [accepting : BOOLEAN, next : Nat, items : [Range(QueueClasses) -> Seq(Events)], acked : SUBSET Events]
CourierRecords == [class : 1..3, attempt : Nat, cancelled : BOOLEAN]
OutletRecords ==
    [plugin : {"off", "live", "dead"}, zeromq : {"off", "live", "dead"}, waiting : Seq(Events),
     sent : Seq(Events), told : SUBSET ({"plugin", "zeromq"} \X Nat)]
CallerShape ==
    graph \in GraphRecords /\ nodeCall \in CallRecords /\ nodeStatus \in StatusRecords /\ causes \in Seq(Supervised)
DeliveryShape ==
    /\ queues \in QueueRecords /\ courier \in CourierRecords /\ outlet \in OutletRecords
    /\ tasks \in [Supervised -> TaskRecords]

\* Where the caller is, and how far the graph has come.
ReadinessLast(order) == \A i \in DOMAIN order : order[i].name = "readiness" => i = Len(order)
GraphPlaced ==
    /\ nodeCall.at = "starting" =>
        /\ graph.state = "Starting" /\ nodeCall.i \in 1..Len(graph.order) + 1
        /\ graph.started = SubSeq(graph.order, 1, nodeCall.i - 1)
    /\ nodeCall.at = "marking" => graph.state = "Running"
    /\ nodeCall.at = "stopping" => graph.state = "Stopping" /\ nodeCall.i \in 0..Len(graph.started)
    /\ nodeCall.at = "idle" => graph.state # "Starting"
    /\ graph.state = "Running" => graph.started = graph.order
    /\ graph.state \in {"none", "New"} => graph.started = <<>> /\ nodeCall.at = "idle"
    /\ graph.state = "none" =>
        nodeCall.i = 0 /\ \E c \in Compositions : graph.mode = c.mode /\ graph.order = c.services
    /\ graph.state # "none" => Composable(graph.order) /\ ReadinessLast(graph.order)
    /\ Len(graph.started) <= Len(graph.order) /\ nodeCall.i \in 0..Len(graph.order) + 1

\* What is started can be stopped from its end: dependents come after what they need.
StopOrdered(list) ==
    \A x, y \in DOMAIN list :
        (list[x].name = list[y].name => x = y) /\ (list[x].name \in list[y].deps => x < y)
Visited(list, i) == {list[k].name : k \in (i + 1)..Len(list)}
StopsInOrder ==
    /\ StopOrdered(graph.started)
    /\ nodeCall.at = "stopping" => nodeCall.stopped \cup nodeCall.left = Visited(graph.started, nodeCall.i)
ReadyPlaced ==
    nodeStatus.ready => ~nodeStatus.fatal /\ graph.state \in {"Starting", "Running"} /\ graph.started = graph.order

\* A task that runs belongs to a service that is still to be stopped, or its handle was dropped.
ToStop(s) == (\E k \in DOMAIN graph.started : graph.started[k].name = s) /\ (nodeCall.at = "stopping" => s \notin nodeCall.stopped)
TaskHeld(s) ==
    /\ tasks[s].pc \in {"none", "done"} \/ tasks[s].handle = "detached" \/ ToStop(s)
    /\ tasks[s].handle = "none" => tasks[s].pc \in {"none", "done"}
    /\ tasks[s].handle = "taken" => s = "event-queues" /\ Stopping("event-queues") /\ nodeCall.phase = "join"
    /\ tasks[s].handle = "detached" => s = "event-queues"
TasksHeld == \A s \in Supervised : TaskHeld(s)
Over == graph.state \in {"Stopped", "Failed"}
Reported == nodeCall.last = "stopped" => Over /\ (tasks["event-queues"].handle # "detached" => causes = <<>>)

\* The numbers of one class grow along a list, and from one list to another.
Grows(s) == \A i, j \in DOMAIN s : i < j /\ s[i].class = s[j].class => s[i].seq < s[j].seq
Precedes(s, t) == \A i \in DOMAIN s, j \in DOMAIN t : s[i].class = t[j].class => s[i].seq < t[j].seq
Numbered(s, n) == \A i \in DOMAIN s : s[i].seq < n
Classes == Range(QueueClasses)
QueuesInOrder ==
    \A c \in Classes :
        /\ Len(queues.items[c]) <= QueueCaps[c] /\ Grows(queues.items[c]) /\ Numbered(queues.items[c], queues.next)
        /\ \A i \in DOMAIN queues.items[c] : queues.items[c][i].class = c
        /\ Precedes(outlet.sent, queues.items[c]) /\ Precedes(outlet.waiting, queues.items[c])
OutInOrder ==
    /\ Grows(outlet.sent) /\ Grows(outlet.waiting) /\ Precedes(outlet.sent, outlet.waiting)
    /\ Numbered(outlet.sent, queues.next) /\ Numbered(outlet.waiting, queues.next)
    /\ Len(outlet.waiting) <= SendHwm + 1 /\ courier.attempt \in 0..RetryLimit
Accounted ==
    \A n \in Nat : n < queues.next <=>
        (\E d \in queues.acked : d.seq = n) \/ \E c \in Classes : \E i \in DOMAIN queues.items[c] : queues.items[c][i].seq = n
OutletsUp ==
    tasks["event-queues"].pc = "none" \/ (/\ "plugin" \in Outlets => outlet.plugin # "off"
                                          /\ "zeromq" \in Outlets => outlet.zeromq # "off")
Listed(d, s) == \E i \in DOMAIN s : s[i] = d
AckedTold ==
    /\ \A d \in queues.acked, o \in Outlets :
           d.kind # "filter" /\ (o = "plugin" => Accepts(d)) => <<o, d.seq>> \in outlet.told
    /\ \A d \in queues.acked :
           d.kind # "filter" /\ "zeromq" \in Outlets => Listed(d, outlet.sent) \/ Listed(d, outlet.waiting)

\* The inductive invariant: the caller's part, the tasks', the queues'.
CallerInv == CallerShape /\ GraphPlaced /\ StopsInOrder /\ ReadyPlaced
TaskInv == TasksHeld /\ TasksJoined /\ Reported
QueueInv == QueuesInOrder /\ OutInOrder /\ Accounted /\ OutletsUp /\ AckedTold
NodeInv == CallerInv /\ DeliveryShape /\ TaskInv /\ QueueInv


\* The caller's records after a step, by their fields.
GraphIs(g, state, order, started) ==
    g \in GraphRecords /\ g.state = state /\ g.order = order /\ g.started = started
CallIs(c, at, i, phase, stopped, left, last) ==
    /\ c \in CallRecords /\ c.at = at /\ c.i = i /\ c.phase = phase
    /\ c.stopped = stopped /\ c.left = left /\ c.last = last

\* A record of the caller has its fields' types.
LEMMA CallerFields ==
    ASSUME CallerShape
    PROVE  /\ graph \in GraphRecords /\ nodeCall \in CallRecords /\ nodeStatus \in StatusRecords /\ causes \in Seq(Supervised)
           /\ graph.order \in Seq(ServiceRecords) /\ graph.started \in Seq(ServiceRecords)
           /\ Len(graph.order) \in Nat /\ Len(graph.started) \in Nat
           /\ DOMAIN graph.order = 1..Len(graph.order) /\ DOMAIN graph.started = 1..Len(graph.started)
           /\ nodeCall.i \in Nat /\ nodeCall.stopped \in SUBSET STRING /\ nodeCall.left \in SUBSET STRING
           /\ nodeStatus.ready \in BOOLEAN /\ nodeStatus.fatal \in BOOLEAN
<1>1. graph \in GraphRecords /\ nodeCall \in CallRecords /\ nodeStatus \in StatusRecords /\ causes \in Seq(Supervised)
    BY DEF CallerShape
<1>2. graph.order \in Seq(ServiceRecords) /\ graph.started \in Seq(ServiceRecords)
    BY <1>1 DEF GraphRecords
<1>3. nodeCall.i \in Nat /\ nodeCall.stopped \in SUBSET STRING /\ nodeCall.left \in SUBSET STRING
    BY <1>1 DEF CallRecords
<1>4. nodeStatus.ready \in BOOLEAN /\ nodeStatus.fatal \in BOOLEAN
    BY <1>1 DEF StatusRecords
<1> QED
    BY <1>1, <1>2, <1>3, <1>4

\* The records of services.
LEMMA ServiceFields == \A s \in ServiceRecords : s.name \in STRING /\ s.deps \in SUBSET STRING
BY DEF ServiceRecords

\* A beginning and the next entry are the next beginning.
LEMMA OneMoreStarted ==
    ASSUME NEW S, NEW list \in Seq(S), NEW i \in 1..Len(list)
    PROVE  /\ Append(SubSeq(list, 1, i - 1), list[i]) = SubSeq(list, 1, i)
           /\ Len(SubSeq(list, 1, i)) = i /\ SubSeq(list, 1, i) \in Seq(S) /\ SubSeq(list, 1, Len(list)) = list
OBVIOUS

\* A graph that was composed can be stopped from any beginning of its order.
LEMMA ComposedStops ==
    ASSUME NEW list \in Seq(ServiceRecords), Composable(list), NEW n \in 0..Len(list)
    PROVE  StopOrdered(SubSeq(list, 1, n))
<1> DEFINE b == SubSeq(list, 1, n)
<1>1. DOMAIN b = 1..n /\ \A x \in 1..n : b[x] = list[x] /\ x \in DOMAIN list
    OBVIOUS
<1> HIDE DEF b
<1> SUFFICES ASSUME NEW x \in 1..n, NEW y \in 1..n
             PROVE  (list[x].name = list[y].name => x = y) /\ (list[x].name \in list[y].deps => x < y)
    BY <1>1 DEF StopOrdered, b
<1>2. list[x].name = list[y].name => x = y
    BY <1>1 DEF Composable
<1>3. ASSUME list[x].name \in list[y].deps PROVE x < y
  <2>1. PICK j \in 1..(y - 1) : list[j].name = list[x].name
    BY <1>1, <1>3 DEF Composable
  <2>2. j \in DOMAIN list
    BY <2>1
  <2>3. j = x
    BY <1>1, <2>1, <2>2 DEF Composable
  <2> QED
    BY <2>1, <2>3
<1> QED
    BY <1>2, <1>3

\* Leaving entries out keeps the order of what is left.
LEMMA SublistStops ==
    ASSUME NEW list \in Seq(ServiceRecords), StopOrdered(list), NEW K \in SUBSET DOMAIN list
    PROVE  StopOrdered(Sublist(list, K))
<1>1. PICK pos \in [1..Cardinality(K) -> K] :
        /\ Sublist(list, K) = [n \in 1..Cardinality(K) |-> list[pos[n]]]
        /\ \A m, n \in 1..Cardinality(K) : m < n => pos[m] < pos[n]
    BY SublistIs
<1>2. Cardinality(K) \in Nat
    BY SublistIs
<1> DEFINE N == Cardinality(K)
<1> HIDE DEF N
<1> SUFFICES ASSUME NEW x \in 1..N, NEW y \in 1..N
             PROVE  /\ list[pos[x]].name = list[pos[y]].name => x = y
                    /\ list[pos[x]].name \in list[pos[y]].deps => x < y
    BY <1>1 DEF StopOrdered, N
<1>3. pos[x] \in DOMAIN list /\ pos[y] \in DOMAIN list /\ x \in Nat /\ y \in Nat
    BY <1>1, <1>2 DEF N
<1>4. x < y \/ x = y \/ y < x
    BY <1>3
<1>5. (x < y => pos[x] < pos[y]) /\ (y < x => pos[y] < pos[x])
    BY <1>1 DEF N
<1>6. pos[x] \in Nat /\ pos[y] \in Nat
    BY <1>3
<1>7. list[pos[x]].name = list[pos[y]].name => pos[x] = pos[y]
    BY <1>3 DEF StopOrdered
<1>8. list[pos[x]].name \in list[pos[y]].deps => pos[x] < pos[y]
    BY <1>3 DEF StopOrdered
<1> QED
    BY <1>3, <1>4, <1>5, <1>6, <1>7, <1>8

\* Where a stop begins.
LEMMA StopFromIs ==
    ASSUME CallerShape, NEW why \in {"unwind", "startup", "shutdown"}
    PROVE  CallIs(StopFrom(why), "stopping", Len(graph.started), "begin", {}, {}, nodeCall.last)
<1>1. nodeCall \in CallRecords /\ Len(graph.started) \in Nat /\ {} \in SUBSET STRING
    BY CallerFields
<1> DEFINE n == Len(graph.started)
<1> HIDE DEF n
<1>2. StopFrom(why) = [nodeCall EXCEPT !.at = "stopping", !.i = n, !.phase = "begin", !.why = why, !.stopped = {}, !.left = {}]
    BY DEF StopFrom, n
<1>3. n \in Nat
    BY <1>1 DEF n
<1>4. CallIs(StopFrom(why), "stopping", n, "begin", {}, {}, nodeCall.last)
    BY <1>1, <1>2, <1>3 DEF CallRecords, CallIs
<1> QED
    BY <1>4 DEF n

\* The stop that begins: everything started is still to be visited.
LEMMA StopBegins ==
    ASSUME CallerShape, GraphPlaced, StopsInOrder, graph.state # "none", NEW last,
           GraphIs(graph', "Stopping", graph.order, graph.started),
           CallIs(nodeCall', "stopping", Len(graph.started), "begin", {}, {}, last)
    PROVE  GraphPlaced' /\ StopsInOrder'
<1>1. Len(graph.started) \in Nat /\ Len(graph.order) \in Nat
    BY CallerFields
<1>2. Len(graph.started) \in 0..Len(graph.order) + 1 /\ Len(graph.started) \in 0..Len(graph.started)
    BY <1>1 DEF GraphPlaced
<1>3. GraphPlaced'
    BY <1>2 DEF GraphPlaced, GraphIs, CallIs
<1>4. Visited(graph.started, Len(graph.started)) = {}
    BY <1>1 DEF Visited
<1>5. StopsInOrder'
    BY <1>4 DEF StopsInOrder, GraphIs, CallIs
<1> QED
    BY <1>3, <1>5

\* Steps that leave a part alone keep what is said of it.
LEMMA CallerSame ==
    ASSUME CallerInv, UNCHANGED <<graph, nodeCall, nodeStatus>>, causes' \in Seq(Supervised)
    PROVE  CallerInv'
BY DEF CallerInv, CallerShape, GraphPlaced, StopsInOrder, ReadyPlaced

\* Where the queues and outlets do not change, only the start of the worker matters.
LEMMA QueueSame ==
    ASSUME QueueInv, UNCHANGED <<queues, courier, outlet>>,
           tasks["event-queues"].pc = "none" => tasks'["event-queues"].pc = "none"
    PROVE  QueueInv'
<1>1. OutletsUp'
    BY DEF QueueInv, OutletsUp
<1> QED
    BY <1>1 DEF QueueInv, QueuesInOrder, OutInOrder, Accounted, AckedTold

\* ServiceGraph::new: what was composed is the order.
LEMMA NewGraphStep == ASSUME NodeInv, NewGraph PROVE NodeInv'
<1> DEFINE order == Enabled(graph.order, graph.mode)
<1>1. /\ graph.state = "none" /\ Composable(order) /\ graph' = [graph EXCEPT !.state = "New", !.order = order]
      /\ nodeCall' = nodeCall /\ nodeStatus' = nodeStatus /\ causes' = causes /\ UNCHANGED <<queues, courier, tasks, outlet>>
    BY DEF NewGraph, deliveryVars
<1>2. /\ CallerShape /\ GraphPlaced /\ StopsInOrder /\ ReadyPlaced /\ DeliveryShape
      /\ TasksHeld /\ TasksJoined /\ Reported /\ QueueInv
    BY DEF NodeInv, CallerInv, TaskInv
<1>3. order \in Seq(ServiceRecords) /\ Len(order) \in Nat
  <2> DEFINE K == {i \in DOMAIN graph.order : ServiceEnabled(graph.order[i], graph.mode)}
  <2>1. K \in SUBSET DOMAIN graph.order /\ graph.order \in Seq(ServiceRecords) /\ order = Sublist(graph.order, K)
    BY <1>2, CallerFields DEF Enabled
  <2> HIDE DEF K
  <2> QED
    BY <2>1, SublistType
<1>4. ReadinessLast(order)
  <2>1. PICK c \in Compositions : graph.mode = c.mode /\ graph.order = c.services
    BY <1>1, <1>2 DEF GraphPlaced
  <2>2. order = Enabled(c.services, c.mode)
    BY <2>1
  <2> HIDE DEF order
  <2> QED
    BY <1>1, <2>2, CompositionAssumption DEF ReadinessLast
<1> HIDE DEF order
<1>5. GraphIs(graph', "New", order, graph.started)
    BY <1>1, <1>2, <1>3 DEF CallerShape, GraphRecords, GraphIs
<1>6. graph.started = <<>> /\ Len(graph.started) = 0 /\ nodeCall.at = "idle" /\ nodeCall.i = 0
    BY <1>1, <1>2 DEF GraphPlaced
<1>7. GraphPlaced'
    BY <1>1, <1>3, <1>4, <1>5, <1>6 DEF GraphPlaced, GraphIs
<1>8. StopsInOrder' /\ ReadyPlaced'
    BY <1>1, <1>2, <1>5 DEF StopsInOrder, ReadyPlaced, GraphIs
<1>9. CallerShape'
    BY <1>1, <1>2, <1>5 DEF CallerShape, GraphIs
<1>10. TasksHeld' /\ TasksJoined' /\ Reported'
    BY <1>1, <1>2, <1>5 DEF TasksHeld, TaskHeld, TasksJoined, Reported, ToStop, Over, Stopping, Current, GraphIs
<1>11. DeliveryShape' /\ QueueInv'
    BY <1>1, <1>2, QueueSame DEF DeliveryShape
<1> QED
    BY <1>7, <1>8, <1>9, <1>10, <1>11 DEF NodeInv, CallerInv, TaskInv

\* start: the first service is next.
LEMMA StartNodeStep == ASSUME NodeInv, StartNode PROVE NodeInv'
<1>1. /\ nodeCall.at = "idle" /\ graph.state = "New"
      /\ graph' = [graph EXCEPT !.state = "Starting"] /\ nodeCall' = [nodeCall EXCEPT !.at = "starting", !.i = 1]
      /\ nodeStatus' = nodeStatus /\ causes' = causes /\ UNCHANGED <<queues, courier, tasks, outlet>>
    BY DEF StartNode, deliveryVars
<1>2. /\ CallerShape /\ GraphPlaced /\ StopsInOrder /\ ReadyPlaced /\ DeliveryShape
      /\ TasksHeld /\ TasksJoined /\ Reported /\ QueueInv
    BY DEF NodeInv, CallerInv, TaskInv
<1>3. GraphIs(graph', "Starting", graph.order, graph.started)
    BY <1>1, <1>2 DEF CallerShape, GraphRecords, GraphIs
<1>4. CallIs(nodeCall', "starting", 1, nodeCall.phase, nodeCall.stopped, nodeCall.left, nodeCall.last)
    BY <1>1, <1>2 DEF CallerShape, CallRecords, CallIs
<1>5. graph.started = <<>> /\ SubSeq(graph.order, 1, 1 - 1) = <<>> /\ Len(graph.order) \in Nat /\ 1 \in 1..Len(graph.order) + 1
      /\ 1 \in 0..Len(graph.order) + 1 /\ Len(graph.started) <= Len(graph.order)
    BY <1>1, <1>2, CallerFields DEF GraphPlaced
<1>6. GraphPlaced'
  <2>1. Composable(graph.order) /\ ReadinessLast(graph.order)
    BY <1>1, <1>2 DEF GraphPlaced
  <2> QED
    BY <1>3, <1>4, <1>5, <2>1 DEF GraphPlaced, GraphIs, CallIs
<1>7. StopsInOrder' /\ ReadyPlaced'
    BY <1>1, <1>2, <1>3, <1>4 DEF StopsInOrder, ReadyPlaced, GraphIs, CallIs
<1>8. CallerShape'
    BY <1>1, <1>2, <1>3, <1>4 DEF CallerShape, GraphIs, CallIs
<1>9. TasksHeld' /\ TasksJoined' /\ Reported'
    BY <1>1, <1>2, <1>3, <1>4
       DEF TasksHeld, TaskHeld, TasksJoined, Reported, ToStop, Over, Stopping, Current, GraphIs, CallIs
<1>10. DeliveryShape' /\ QueueInv'
    BY <1>1, <1>2, QueueSame DEF DeliveryShape
<1> QED
    BY <1>6, <1>7, <1>8, <1>9, <1>10 DEF NodeInv, CallerInv, TaskInv

\* The queues' part is about what they and the outlets hold.
LEMMA QueueKept ==
    ASSUME QueueInv, queues'.items = queues.items, queues'.next = queues.next, queues'.acked = queues.acked,
           courier'.attempt = courier.attempt, outlet'.sent = outlet.sent, outlet'.waiting = outlet.waiting,
           outlet'.told = outlet.told, OutletsUp'
    PROVE  QueueInv'
BY DEF QueueInv, QueuesInOrder, OutInOrder, Accounted, AckedTold

\* The delivery's variables have their types.
LEMMA DeliveryFields ==
    ASSUME DeliveryShape
    PROVE  /\ queues \in QueueRecords /\ courier \in CourierRecords /\ outlet \in OutletRecords
           /\ tasks \in [Supervised -> TaskRecords] /\ tasks["event-queues"] \in TaskRecords /\ tasks["replica"] \in TaskRecords
BY DEF DeliveryShape, Supervised

\* What the start of a service leaves of the delivery.
LEMMA StartedDelivery ==
    ASSUME NodeInv, NEW s, Started(s)
    PROVE  /\ DeliveryShape' /\ QueueInv'
           /\ \A t \in Supervised : t # s => tasks'[t] = tasks[t]
           /\ s \in Supervised => tasks'[s].handle = "held"
<1>1. /\ tasks' = IF s \in Supervised
                  THEN [tasks EXCEPT ![s] = [pc |-> IF s = "replica" THEN "run" ELSE "pass", ok |-> TRUE, handle |-> "held"]]
                  ELSE tasks
      /\ s = "event-queues" =>
           /\ queues' = [queues EXCEPT !.accepting = TRUE] /\ courier' = [courier EXCEPT !.cancelled = FALSE]
           /\ outlet' = [outlet EXCEPT !.plugin = IF "plugin" \in Outlets THEN "live" ELSE "off",
                                       !.zeromq = IF "zeromq" \in Outlets THEN "live" ELSE "off"]
      /\ s # "event-queues" => UNCHANGED <<queues, courier, outlet>>
    BY DEF Started
<1>2. DeliveryShape /\ QueueInv
    BY DEF NodeInv
<1>3. queues \in QueueRecords /\ courier \in CourierRecords /\ outlet \in OutletRecords /\ tasks \in [Supervised -> TaskRecords]
    BY <1>2, DeliveryFields
<1>4. /\ tasks' \in [Supervised -> TaskRecords] /\ \A t \in Supervised : t # s => tasks'[t] = tasks[t]
      /\ s \in Supervised => tasks'[s].handle = "held"
  <2> DEFINE r == [pc |-> IF s = "replica" THEN "run" ELSE "pass", ok |-> TRUE, handle |-> "held"]
  <2>1. r \in TaskRecords /\ r.handle = "held"
    BY DEF TaskRecords
  <2>2. tasks' = IF s \in Supervised THEN [tasks EXCEPT ![s] = r] ELSE tasks
    BY <1>1
  <2> HIDE DEF r
  <2> QED
    BY <1>3, <2>1, <2>2
<1>5. CASE s = "event-queues"
  <2>1. /\ queues' \in QueueRecords /\ queues'.items = queues.items /\ queues'.next = queues.next /\ queues'.acked = queues.acked
    BY <1>1, <1>3, <1>5 DEF QueueRecords
  <2>2. courier' \in CourierRecords /\ courier'.attempt = courier.attempt
    BY <1>1, <1>3, <1>5 DEF CourierRecords
  <2>3. /\ outlet' \in OutletRecords /\ outlet'.sent = outlet.sent /\ outlet'.waiting = outlet.waiting
        /\ outlet'.told = outlet.told
        /\ "plugin" \in Outlets => outlet'.plugin = "live"
        /\ "zeromq" \in Outlets => outlet'.zeromq = "live"
    BY <1>1, <1>3, <1>5 DEF OutletRecords
  <2>4. OutletsUp'
    BY <2>3 DEF OutletsUp
  <2> QED
    BY <1>2, <1>4, <2>1, <2>2, <2>3, <2>4, QueueKept DEF DeliveryShape
<1>6. CASE s # "event-queues"
  <2>1. UNCHANGED <<queues, courier, outlet>> /\ tasks'["event-queues"] = tasks["event-queues"]
    BY <1>1, <1>4, <1>6 DEF Supervised
  <2> QED
    BY <1>2, <1>4, <2>1, QueueSame DEF DeliveryShape
<1> QED
    BY <1>5, <1>6

\* While services start, the node is not ready yet.
LEMMA NotReadyYet ==
    ASSUME CallerShape, GraphPlaced, ReadyPlaced, nodeCall.at = "starting", nodeCall.i \in DOMAIN graph.order
    PROVE  /\ nodeCall.i \in 1..Len(graph.order) /\ Len(graph.started) = nodeCall.i - 1 /\ ~nodeStatus.ready
           /\ graph.state = "Starting" /\ graph.started = SubSeq(graph.order, 1, nodeCall.i - 1)
           /\ Composable(graph.order) /\ ReadinessLast(graph.order)
<1>1. /\ graph.state = "Starting" /\ graph.started = SubSeq(graph.order, 1, nodeCall.i - 1)
      /\ Composable(graph.order) /\ ReadinessLast(graph.order)
    BY DEF GraphPlaced
<1>2. graph.order \in Seq(ServiceRecords) /\ nodeCall.i \in 1..Len(graph.order) /\ nodeCall.i \in Nat /\ Len(graph.order) \in Nat
    BY CallerFields
<1>3. Len(SubSeq(graph.order, 1, nodeCall.i - 1)) = nodeCall.i - 1
    BY <1>2
<1>4. graph.started # graph.order
    BY <1>1, <1>2, <1>3
<1> QED
    BY <1>1, <1>2, <1>3, <1>4 DEF ReadyPlaced

\* start: the next service starts and is the last one started, or refuses and everything started is stopped.
LEMMA StartServiceStep == ASSUME NodeInv, StartService PROVE NodeInv'
<1> DEFINE o == graph.order[nodeCall.i]
<1> DEFINE s == o.name
<1>1. /\ nodeCall.at = "starting" /\ nodeCall.i \in DOMAIN graph.order /\ causes' = causes
      /\ \/ /\ s = "readiness" => ~nodeStatus.fatal
            /\ Started(s)
            /\ graph' = [graph EXCEPT !.started = Append(graph.started, o)]
            /\ nodeCall' = [nodeCall EXCEPT !.i = nodeCall.i + 1]
         \/ /\ graph' = [graph EXCEPT !.cancelled = TRUE, !.state = "Stopping"]
            /\ nodeCall' = StopFrom("unwind")
            /\ queues' = [queues EXCEPT !.accepting = TRUE] \/ queues' = queues
            /\ UNCHANGED <<nodeStatus, courier, tasks, outlet>>
    BY DEF StartService
<1>2. /\ CallerShape /\ GraphPlaced /\ StopsInOrder /\ ReadyPlaced /\ DeliveryShape
      /\ TasksHeld /\ TasksJoined /\ Reported /\ QueueInv
    BY DEF NodeInv, CallerInv, TaskInv
<1>3. /\ nodeCall.i \in 1..Len(graph.order) /\ Len(graph.started) = nodeCall.i - 1 /\ ~nodeStatus.ready
      /\ graph.state = "Starting" /\ graph.started = SubSeq(graph.order, 1, nodeCall.i - 1)
      /\ Composable(graph.order) /\ ReadinessLast(graph.order)
    BY <1>1, <1>2, NotReadyYet
<1>4. /\ graph \in GraphRecords /\ nodeCall \in CallRecords /\ nodeStatus \in StatusRecords /\ causes \in Seq(Supervised)
      /\ graph.order \in Seq(ServiceRecords) /\ graph.started \in Seq(ServiceRecords)
      /\ Len(graph.order) \in Nat /\ nodeCall.i \in Nat
    BY <1>2, CallerFields
<1>5. o \in ServiceRecords
    BY <1>1, <1>4
<1>6. nodeCall.last # "stopped"
    BY <1>2, <1>3 DEF Reported, Over
<1> HIDE DEF o
<1>7. CASE /\ s = "readiness" => ~nodeStatus.fatal
           /\ Started(s)
           /\ graph' = [graph EXCEPT !.started = Append(graph.started, o)]
           /\ nodeCall' = [nodeCall EXCEPT !.i = nodeCall.i + 1]
  <2> DEFINE now == SubSeq(graph.order, 1, nodeCall.i)
  <2>1. Append(graph.started, o) = now /\ now \in Seq(ServiceRecords) /\ Len(now) = nodeCall.i
    BY <1>3, <1>4, OneMoreStarted DEF o
  <2>2. GraphIs(graph', "Starting", graph.order, now)
    BY <1>3, <1>4, <1>7, <2>1 DEF GraphRecords, GraphIs
  <2>3. CallIs(nodeCall', "starting", nodeCall.i + 1, nodeCall.phase, nodeCall.stopped, nodeCall.left, nodeCall.last)
    <3>1. nodeCall.i + 1 \in Nat
      BY <1>4
    <3> QED
      BY <1>1, <1>4, <1>7, <3>1 DEF CallRecords, CallIs
  <2>4. StopOrdered(now)
    BY <1>3, <1>4, ComposedStops
  <2>5. /\ nodeCall.i + 1 - 1 = nodeCall.i /\ nodeCall.i + 1 \in 1..Len(graph.order) + 1
        /\ nodeCall.i + 1 \in 0..Len(graph.order) + 1 /\ nodeCall.i <= Len(graph.order)
    BY <1>3, <1>4
  <2>6. GraphPlaced'
    BY <1>3, <2>1, <2>2, <2>3, <2>5 DEF GraphPlaced, GraphIs, CallIs
  <2>7. StopsInOrder'
    BY <2>2, <2>3, <2>4 DEF StopsInOrder, GraphIs, CallIs
  <2>8. nodeStatus' = IF s = "readiness" THEN MarkRunning(nodeStatus) ELSE nodeStatus
    BY <1>7 DEF Started
  <2>9. ASSUME s = "readiness" PROVE ReadyPlaced'
    <3>1. nodeStatus' = Running
      BY <1>7, <2>8, <2>9 DEF MarkRunning
    <3>2. nodeCall.i = Len(graph.order)
      BY <1>1, <1>3, <2>9 DEF ReadinessLast, o
    <3>3. now = graph.order
      BY <1>4, <1>3, <3>2, OneMoreStarted
    <3> QED
      BY <2>2, <3>1, <3>3 DEF Running, StatusRecords, ReadyPlaced, GraphIs
  <2>10. ASSUME s # "readiness" PROVE ReadyPlaced'
    BY <1>3, <1>4, <2>8, <2>10 DEF ReadyPlaced
  <2>11. CallerInv'
    <3>1. nodeStatus' \in StatusRecords
      BY <1>4, <2>8 DEF MarkRunning, Running, StatusRecords
    <3>2. ReadyPlaced'
      BY <2>9, <2>10
    <3>3. CallerShape'
      BY <1>1, <1>4, <2>2, <2>3, <3>1 DEF CallerShape, GraphIs, CallIs
    <3> QED
      BY <2>6, <2>7, <3>2, <3>3 DEF CallerInv
  <2>12. /\ DeliveryShape' /\ QueueInv'
         /\ \A t \in Supervised : t # s => tasks'[t] = tasks[t]
         /\ s \in Supervised => tasks'[s].handle = "held"
    BY <1>7, StartedDelivery
  <2>13. TasksJoined' /\ Reported'
    BY <1>6, <2>2, <2>3 DEF TasksJoined, Reported, GraphIs, CallIs
  <2>14. ASSUME NEW t \in Supervised PROVE TaskHeld(t)'
    <3>1. \A k \in DOMAIN graph.started : k \in DOMAIN now /\ now[k] = graph.started[k]
      BY <1>3, <1>4
    <3>2. nodeCall.i \in DOMAIN now /\ now[nodeCall.i].name = s
      BY <1>3, <1>4, <2>1 DEF o
    <3>3. CASE t = s
      <4>1. ToStop(t)'
        BY <2>2, <2>3, <3>2, <3>3 DEF ToStop, GraphIs, CallIs
      <4> QED
        BY <2>12, <3>3, <4>1 DEF TaskHeld
    <3>4. CASE t # s
      <4>1. tasks'[t] = tasks[t] /\ TaskHeld(t)
        BY <1>2, <2>12, <3>4 DEF TasksHeld
      <4>2. ToStop(t) => ToStop(t)'
        BY <2>2, <2>3, <3>1 DEF ToStop, GraphIs, CallIs
      <4>3. tasks[t].handle # "taken"
        BY <1>1, <4>1 DEF TaskHeld, Stopping
      <4> QED
        BY <4>1, <4>2, <4>3 DEF TaskHeld
    <3> QED
      BY <3>3, <3>4
  <2> QED
    BY <2>11, <2>12, <2>13, <2>14 DEF NodeInv, TaskInv, TasksHeld
<1>8. CASE /\ graph' = [graph EXCEPT !.cancelled = TRUE, !.state = "Stopping"]
           /\ nodeCall' = StopFrom("unwind")
           /\ queues' = [queues EXCEPT !.accepting = TRUE] \/ queues' = queues
           /\ UNCHANGED <<nodeStatus, courier, tasks, outlet>>
  <2>1. GraphIs(graph', "Stopping", graph.order, graph.started)
    BY <1>4, <1>8 DEF GraphRecords, GraphIs
  <2>2. CallIs(nodeCall', "stopping", Len(graph.started), "begin", {}, {}, nodeCall.last)
    BY <1>2, <1>8, StopFromIs
  <2>3. GraphPlaced' /\ StopsInOrder'
    BY <1>2, <1>3, <2>1, <2>2, StopBegins
  <2>4. CallerShape' /\ ReadyPlaced'
    BY <1>1, <1>3, <1>4, <1>8, <2>1, <2>2 DEF CallerShape, ReadyPlaced, GraphIs, CallIs
  <2>5. TasksJoined' /\ Reported'
    BY <1>6, <2>1, <2>2 DEF TasksJoined, Reported, GraphIs, CallIs
  <2>6. ASSUME NEW t \in Supervised PROVE TaskHeld(t)'
    <3>1. TaskHeld(t) /\ tasks'[t] = tasks[t] /\ tasks[t].handle # "taken"
      BY <1>1, <1>2, <1>8 DEF TasksHeld, TaskHeld, Stopping
    <3>2. ToStop(t) => ToStop(t)'
      BY <2>1, <2>2 DEF ToStop, GraphIs, CallIs
    <3> QED
      BY <3>1, <3>2 DEF TaskHeld
  <2>7. /\ queues' \in QueueRecords /\ queues'.items = queues.items /\ queues'.next = queues.next /\ queues'.acked = queues.acked
    BY <1>2, <1>8, DeliveryFields DEF QueueRecords
  <2>8. OutletsUp'
    BY <1>2, <1>8 DEF QueueInv, OutletsUp
  <2>9. DeliveryShape' /\ QueueInv'
    BY <1>2, <1>8, <2>7, <2>8, QueueKept DEF DeliveryShape
  <2> QED
    BY <2>3, <2>4, <2>5, <2>6, <2>9 DEF NodeInv, CallerInv, TaskInv, TasksHeld
<1> QED
    BY <1>1, <1>7, <1>8

\* A step of the caller that leaves the tasks alone keeps what is held, if no service loses its
\* place and no join is going on.
LEMMA TasksStay ==
    ASSUME TasksHeld, tasks' = tasks, \A t \in Supervised : ToStop(t) => ToStop(t)',
           \A t \in Supervised : tasks[t].handle # "taken"
    PROVE  TasksHeld'
<1> SUFFICES ASSUME NEW t \in Supervised PROVE TaskHeld(t)'
    BY DEF TasksHeld
<1>1. TaskHeld(t) /\ tasks'[t] = tasks[t] /\ tasks[t].handle # "taken" /\ (ToStop(t) => ToStop(t)')
    BY DEF TasksHeld
<1> QED
    BY <1>1 DEF TaskHeld

\* A handle is taken only while the delivery service is being stopped.
LEMMA NothingTaken ==
    ASSUME TasksHeld, nodeCall.at # "stopping" \/ nodeCall.i = 0 \/ nodeCall.phase # "join"
    PROVE  \A t \in Supervised : tasks[t].handle # "taken"
BY DEF TasksHeld, TaskHeld, Stopping

\* start: every service is started, and the graph is running.
LEMMA AllStartedStep == ASSUME NodeInv, AllStarted PROVE NodeInv'
<1>1. /\ nodeCall.at = "starting" /\ nodeCall.i > Len(graph.order)
      /\ graph' = [graph EXCEPT !.state = "Running"] /\ nodeCall' = [nodeCall EXCEPT !.at = "marking"]
      /\ nodeStatus' = nodeStatus /\ causes' = causes /\ UNCHANGED <<queues, courier, tasks, outlet>>
    BY DEF AllStarted, deliveryVars
<1>2. /\ CallerShape /\ GraphPlaced /\ StopsInOrder /\ ReadyPlaced /\ DeliveryShape
      /\ TasksHeld /\ TasksJoined /\ Reported /\ QueueInv
    BY DEF NodeInv, CallerInv, TaskInv
<1>3. GraphIs(graph', "Running", graph.order, graph.started)
    BY <1>1, <1>2 DEF CallerShape, GraphRecords, GraphIs
<1>4. CallIs(nodeCall', "marking", nodeCall.i, nodeCall.phase, nodeCall.stopped, nodeCall.left, nodeCall.last)
    BY <1>1, <1>2 DEF CallerShape, CallRecords, CallIs
<1>5. graph.started = graph.order
  <2>1. nodeCall.i \in 1..Len(graph.order) + 1 /\ graph.started = SubSeq(graph.order, 1, nodeCall.i - 1)
    BY <1>1, <1>2 DEF GraphPlaced
  <2>2. graph.order \in Seq(ServiceRecords) /\ Len(graph.order) \in Nat /\ nodeCall.i \in Nat
    BY <1>2, CallerFields
  <2>3. nodeCall.i - 1 = Len(graph.order)
    BY <1>1, <2>1, <2>2
  <2> QED
    BY <2>1, <2>2, <2>3
<1>6. graph.state = "Starting" /\ Composable(graph.order) /\ ReadinessLast(graph.order) /\ nodeCall.last # "stopped"
    BY <1>1, <1>2 DEF GraphPlaced, Reported, Over
<1>7. GraphPlaced'
    BY <1>2, <1>3, <1>4, <1>5, <1>6 DEF GraphPlaced, GraphIs, CallIs
<1>8. StopsInOrder' /\ ReadyPlaced'
    BY <1>1, <1>2, <1>3, <1>4, <1>5 DEF StopsInOrder, ReadyPlaced, GraphIs, CallIs
<1>9. CallerShape'
    BY <1>1, <1>2, <1>3, <1>4 DEF CallerShape, GraphIs, CallIs
<1>10. TasksHeld' /\ TasksJoined' /\ Reported'
  <2>1. \A t \in Supervised : ToStop(t) => ToStop(t)'
    BY <1>3, <1>4 DEF ToStop, GraphIs, CallIs
  <2>2. TasksHeld'
    BY <1>1, <1>2, <2>1, TasksStay, NothingTaken
  <2> QED
    BY <1>3, <1>4, <1>6, <2>2 DEF TasksJoined, Reported, GraphIs, CallIs
<1>11. DeliveryShape' /\ QueueInv'
    BY <1>1, <1>2, QueueSame DEF DeliveryShape
<1> QED
    BY <1>7, <1>8, <1>9, <1>10, <1>11 DEF NodeInv, CallerInv, TaskInv

\* The graph is stopped again, or asked to stop: what both leave.
LEMMA StopStep ==
    ASSUME NodeInv, nodeCall.at # "stopping", graph.state \notin {"none", "Stopped", "Failed"},
           GraphIs(graph', "Stopping", graph.order, graph.started),
           CallIs(nodeCall', "stopping", Len(graph.started), "begin", {}, {}, nodeCall.last),
           nodeStatus' = RevokeReadiness(nodeStatus), causes' = causes, UNCHANGED <<queues, courier, tasks, outlet>>
    PROVE  NodeInv'
<1>2. /\ CallerShape /\ GraphPlaced /\ StopsInOrder /\ ReadyPlaced /\ DeliveryShape
      /\ TasksHeld /\ TasksJoined /\ Reported /\ QueueInv
    BY DEF NodeInv, CallerInv, TaskInv
<1>3. GraphPlaced' /\ StopsInOrder'
    BY <1>2, StopBegins
<1>4. nodeStatus' \in StatusRecords /\ ~nodeStatus'.ready
    BY <1>2 DEF CallerShape, StatusRecords, RevokeReadiness
<1>5. CallerShape' /\ ReadyPlaced'
    BY <1>2, <1>4 DEF CallerShape, ReadyPlaced, GraphIs, CallIs
<1>6. TasksHeld' /\ TasksJoined' /\ Reported'
  <2>1. \A t \in Supervised : ToStop(t) => ToStop(t)'
    BY DEF ToStop, GraphIs, CallIs
  <2>2. TasksHeld'
    BY <1>2, <2>1, TasksStay, NothingTaken
  <2>3. nodeCall.last # "stopped"
    BY <1>2 DEF Reported, Over
  <2> QED
    BY <2>2, <2>3 DEF TasksJoined, Reported, GraphIs, CallIs
<1>7. DeliveryShape' /\ QueueInv'
    BY <1>2, QueueSame DEF DeliveryShape
<1> QED
    BY <1>3, <1>5, <1>6, <1>7 DEF NodeInv, CallerInv, TaskInv

\* start: the node is marked running, or a fatal failure came first and the graph is stopped.
LEMMA FinishStartStep == ASSUME NodeInv, FinishStart PROVE NodeInv'
<1>1. /\ nodeCall.at = "marking" /\ causes' = causes /\ UNCHANGED <<queues, courier, tasks, outlet>>
      /\ nodeStatus.fatal =>
            /\ nodeStatus' = RevokeReadiness(nodeStatus)
            /\ graph' = [graph EXCEPT !.cancelled = TRUE, !.state = "Stopping"] /\ nodeCall' = StopFrom("startup")
      /\ ~nodeStatus.fatal =>
            /\ nodeStatus' = MarkRunning(nodeStatus)
            /\ nodeCall' = [nodeCall EXCEPT !.at = "idle", !.last = "running"] /\ graph' = graph
    BY DEF FinishStart, deliveryVars
<1>2. /\ CallerShape /\ GraphPlaced /\ StopsInOrder /\ ReadyPlaced /\ DeliveryShape
      /\ TasksHeld /\ TasksJoined /\ Reported /\ QueueInv
    BY DEF NodeInv, CallerInv, TaskInv
<1>3. graph.state = "Running"
    BY <1>1, <1>2 DEF GraphPlaced
<1>4. CASE nodeStatus.fatal
  <2>1. GraphIs(graph', "Stopping", graph.order, graph.started)
    BY <1>1, <1>2, <1>4 DEF CallerShape, GraphRecords, GraphIs
  <2>2. CallIs(nodeCall', "stopping", Len(graph.started), "begin", {}, {}, nodeCall.last)
    BY <1>1, <1>2, <1>4, StopFromIs
  <2> QED
    BY <1>1, <1>3, <1>4, <2>1, <2>2, StopStep
<1>5. CASE ~nodeStatus.fatal
  <2>1. CallIs(nodeCall', "idle", nodeCall.i, nodeCall.phase, nodeCall.stopped, nodeCall.left, "running")
    BY <1>1, <1>2, <1>5 DEF CallerShape, CallRecords, CallIs
  <2>2. nodeStatus' = Running /\ graph' = graph
    BY <1>1, <1>5 DEF MarkRunning
  <2>3. GraphPlaced'
    BY <1>2, <1>3, <2>1, <2>2 DEF GraphPlaced, CallIs
  <2>4. StopsInOrder' /\ ReadyPlaced'
    BY <1>2, <1>3, <2>1, <2>2 DEF StopsInOrder, ReadyPlaced, GraphPlaced, CallIs, Running
  <2>5. CallerShape'
    BY <1>1, <1>2, <2>1, <2>2 DEF CallerShape, CallIs, Running, StatusRecords
  <2>6. TasksHeld' /\ TasksJoined' /\ Reported'
    <3>1. \A t \in Supervised : ToStop(t) => ToStop(t)'
      BY <2>1, <2>2 DEF ToStop, CallIs
    <3>2. TasksHeld'
      BY <1>1, <1>2, <3>1, TasksStay, NothingTaken
    <3> QED
      BY <1>3, <2>1, <2>2, <3>2 DEF TasksJoined, Reported, CallIs
  <2>7. DeliveryShape' /\ QueueInv'
    BY <1>1, <1>2, QueueSame DEF DeliveryShape
  <2> QED
    BY <2>3, <2>4, <2>5, <2>6, <2>7 DEF NodeInv, CallerInv, TaskInv
<1> QED
    BY <1>4, <1>5

\* shutdown: the graph begins to stop, or has nothing to stop.
LEMMA ShutdownNodeStep == ASSUME NodeInv, ShutdownNode PROVE NodeInv'
<1> DEFINE up == graph.state \in {"Running", "Stopping"}
<1>1. /\ nodeCall.at = "idle" /\ graph.state # "none" /\ nodeStatus' = RevokeReadiness(nodeStatus)
      /\ UNCHANGED <<queues, courier, tasks, outlet>>
      /\ up => /\ graph' = [graph EXCEPT !.cancelled = TRUE, !.state = "Stopping"] /\ causes' = causes
               /\ nodeCall' = [StopFrom("shutdown") EXCEPT !.calls = StopFrom("shutdown").calls + 1]
      /\ ~up => /\ nodeCall' = [nodeCall EXCEPT !.calls = nodeCall.calls + 1,
                                    !.last = IF graph.state = "New" \/ causes # <<>> THEN "failed" ELSE "stopped"]
                /\ causes' = <<>> /\ graph' = graph
    BY DEF ShutdownNode, deliveryVars
<1>2. /\ CallerShape /\ GraphPlaced /\ StopsInOrder /\ ReadyPlaced /\ DeliveryShape
      /\ TasksHeld /\ TasksJoined /\ Reported /\ QueueInv
    BY DEF NodeInv, CallerInv, TaskInv
<1>3. CASE up
  <2>1. GraphIs(graph', "Stopping", graph.order, graph.started)
    BY <1>1, <1>2, <1>3 DEF CallerShape, GraphRecords, GraphIs
  <2>2. CallIs(nodeCall', "stopping", Len(graph.started), "begin", {}, {}, nodeCall.last)
    <3>1. CallIs(StopFrom("shutdown"), "stopping", Len(graph.started), "begin", {}, {}, nodeCall.last)
      BY <1>2, StopFromIs
    <3>2. StopFrom("shutdown").calls + 1 \in Nat
      BY <3>1 DEF CallIs, CallRecords
    <3>3. nodeCall' = [StopFrom("shutdown") EXCEPT !.calls = StopFrom("shutdown").calls + 1]
      BY <1>1, <1>3
    <3> QED
      BY <3>1, <3>2, <3>3 DEF CallRecords, CallIs
  <2> QED
    BY <1>1, <1>3, <2>1, <2>2, StopStep
<1>4. CASE ~up
  <2>1. graph' = graph /\ causes' = <<>> /\ graph.state \in {"New", "Stopped", "Failed"}
    BY <1>1, <1>2, <1>4, CallerFields DEF GraphPlaced, GraphRecords
  <2>2. /\ nodeCall' \in CallRecords /\ nodeCall'.at = "idle" /\ nodeCall'.i = nodeCall.i /\ nodeCall'.phase = nodeCall.phase
        /\ nodeCall'.stopped = nodeCall.stopped /\ nodeCall'.left = nodeCall.left
        /\ nodeCall'.last = "stopped" => graph.state # "New"
    <3>1. nodeCall.calls + 1 \in Nat
      BY <1>2 DEF CallerShape, CallRecords
    <3> DEFINE l == IF graph.state = "New" \/ causes # <<>> THEN "failed" ELSE "stopped"
    <3>2. nodeCall' = [nodeCall EXCEPT !.calls = nodeCall.calls + 1, !.last = l]
      BY <1>1, <1>4
    <3>3. l \in {"stopped", "failed"} /\ (l = "stopped" => graph.state # "New")
      OBVIOUS
    <3> HIDE DEF l
    <3> QED
      BY <1>1, <1>2, <3>1, <3>2, <3>3 DEF CallerShape, CallRecords
  <2>3. nodeStatus' \in StatusRecords /\ ~nodeStatus'.ready
    BY <1>1, <1>2 DEF CallerShape, StatusRecords, RevokeReadiness
  <2>4. GraphPlaced' /\ StopsInOrder'
    BY <1>1, <1>2, <2>1, <2>2 DEF GraphPlaced, StopsInOrder
  <2>5. CallerShape' /\ ReadyPlaced'
    BY <1>2, <2>1, <2>2, <2>3 DEF CallerShape, ReadyPlaced
  <2>6. TasksHeld' /\ TasksJoined' /\ Reported'
    <3>1. \A t \in Supervised : ToStop(t) => ToStop(t)'
      BY <1>1, <2>1, <2>2 DEF ToStop
    <3>2. TasksHeld'
      BY <1>1, <1>2, <3>1, TasksStay, NothingTaken
    <3> QED
      BY <1>1, <1>2, <2>1, <2>2, <3>2 DEF TasksJoined, Reported, Over
  <2>7. DeliveryShape' /\ QueueInv'
    BY <1>1, <1>2, QueueSame DEF DeliveryShape
  <2> QED
    BY <2>4, <2>5, <2>6, <2>7 DEF NodeInv, CallerInv, TaskInv
<1> QED
    BY <1>3, <1>4

\* The loop over the started services has one more behind it.
LEMMA StoppedCall ==
    ASSUME CallerShape, GraphPlaced, StopsInOrder, nodeCall.at = "stopping", nodeCall.i > 0,
           NEW ok \in BOOLEAN, Stopped(ok), graph' = graph
    PROVE  /\ nodeCall' \in CallRecords /\ nodeCall'.at = "stopping" /\ nodeCall'.i = nodeCall.i - 1 /\ nodeCall'.phase = "begin"
           /\ nodeCall'.last = nodeCall.last
           /\ nodeCall'.stopped = IF ok THEN nodeCall.stopped \cup {Current} ELSE nodeCall.stopped
           /\ GraphPlaced' /\ StopsInOrder'
<1>1. /\ graph.started \in Seq(ServiceRecords) /\ nodeCall.i \in Nat /\ nodeCall.i \in 1..Len(graph.started)
      /\ nodeCall.i \in DOMAIN graph.started /\ Len(graph.started) \in Nat /\ Len(graph.order) \in Nat
      /\ nodeCall.stopped \in SUBSET STRING /\ nodeCall.left \in SUBSET STRING
      /\ nodeCall \in CallRecords /\ graph.state = "Stopping"
  <2>1. nodeCall.i \in 0..Len(graph.started) /\ graph.state = "Stopping"
    BY DEF GraphPlaced
  <2> QED
    BY <2>1, CallerFields
<1>2. Current \in STRING
    BY <1>1, ServiceFields DEF Current
<1> DEFINE now == IF ok THEN nodeCall.stopped \cup {Current} ELSE nodeCall.stopped
<1> DEFINE late == IF ok THEN nodeCall.left ELSE nodeCall.left \cup {Current}
<1>3. nodeCall' = [nodeCall EXCEPT !.i = nodeCall.i - 1, !.phase = "begin", !.stopped = now, !.left = late]
    BY DEF Stopped
<1>4. now \in SUBSET STRING /\ late \in SUBSET STRING /\ nodeCall.i - 1 \in Nat
    BY <1>1, <1>2
<1>5. now \cup late = nodeCall.stopped \cup nodeCall.left \cup {Current}
    OBVIOUS
<1> HIDE DEF now, late
<1>6. /\ nodeCall' \in CallRecords /\ nodeCall'.at = "stopping" /\ nodeCall'.i = nodeCall.i - 1 /\ nodeCall'.phase = "begin"
      /\ nodeCall'.last = nodeCall.last /\ nodeCall'.stopped = now /\ nodeCall'.left = late
    BY <1>1, <1>3, <1>4 DEF CallRecords
<1>7. nodeCall.i - 1 \in 0..Len(graph.started) /\ nodeCall.i - 1 \in 0..Len(graph.order) + 1
    BY <1>1 DEF GraphPlaced
<1>8. GraphPlaced'
    BY <1>1, <1>6, <1>7 DEF GraphPlaced
<1>9. Visited(graph.started, nodeCall.i - 1) = Visited(graph.started, nodeCall.i) \cup {Current}
  <2>1. (nodeCall.i - 1 + 1)..Len(graph.started) = (nodeCall.i + 1)..Len(graph.started) \cup {nodeCall.i}
    BY <1>1
  <2> QED
    BY <2>1 DEF Visited, Current
<1>10. StopsInOrder'
    BY <1>5, <1>6, <1>9 DEF StopsInOrder
<1> QED
    BY <1>6, <1>8, <1>10 DEF now

\* What the loop leaves of the caller's part, whatever it does to the tasks.
LEMMA StoppedCaller ==
    ASSUME NodeInv, nodeCall.at = "stopping", nodeCall.i > 0, NEW ok \in BOOLEAN, Stopped(ok), graph' = graph,
           nodeStatus' \in StatusRecords, nodeStatus'.ready => nodeStatus.ready, causes' = causes
    PROVE  /\ CallerInv' /\ TasksJoined' /\ Reported'
           /\ \A t \in Supervised : ToStop(t) /\ (ok => t # Current) => ToStop(t)'
<1>1. CallerShape /\ GraphPlaced /\ StopsInOrder /\ ReadyPlaced /\ Reported
    BY DEF NodeInv, CallerInv, TaskInv
<1>2. /\ nodeCall' \in CallRecords /\ nodeCall'.at = "stopping" /\ nodeCall'.last = nodeCall.last
      /\ nodeCall'.stopped = (IF ok THEN nodeCall.stopped \cup {Current} ELSE nodeCall.stopped)
      /\ GraphPlaced' /\ StopsInOrder'
    BY <1>1, StoppedCall
<1>3. graph.state = "Stopping" /\ ~nodeStatus.ready /\ nodeCall.last # "stopped"
    BY <1>1 DEF GraphPlaced, ReadyPlaced, Reported, Over
<1>4. CallerShape' /\ ReadyPlaced'
    BY <1>1, <1>2, <1>3 DEF CallerShape, ReadyPlaced
<1>5. TasksJoined' /\ Reported'
    BY <1>2, <1>3 DEF TasksJoined, Reported
<1>6. ASSUME NEW t \in Supervised, ToStop(t), ok => t # Current PROVE ToStop(t)'
    BY <1>2, <1>6 DEF ToStop
<1> QED
    BY <1>2, <1>4, <1>5, <1>6 DEF CallerInv

\* stop_started: a service without a supervised task is stopped, or stays.
LEMMA StopServiceStep == ASSUME NodeInv, StopService PROVE NodeInv'
<1>1. /\ nodeCall.at = "stopping" /\ nodeCall.i > 0 /\ Current \notin Supervised
      /\ Stopped(TRUE) \/ Stopped(FALSE)
      /\ nodeStatus' = (IF Current = "readiness" THEN MarkUnhealthy(RevokeReadiness(nodeStatus)) ELSE nodeStatus)
      /\ graph' = graph /\ causes' = causes /\ UNCHANGED <<queues, courier, tasks, outlet>>
    BY DEF StopService, deliveryVars
<1>2. PICK ok \in BOOLEAN : Stopped(ok)
    BY <1>1
<1>3. nodeStatus' \in StatusRecords /\ (nodeStatus'.ready => nodeStatus.ready)
    BY <1>1 DEF NodeInv, CallerInv, CallerShape, StatusRecords, MarkUnhealthy
<1>4. /\ CallerInv' /\ TasksJoined' /\ Reported'
      /\ \A t \in Supervised : ToStop(t) /\ (ok => t # Current) => ToStop(t)'
    BY <1>1, <1>2, <1>3, StoppedCaller
<1>5. \A t \in Supervised : ToStop(t) => ToStop(t)'
    BY <1>1, <1>4
<1>6. \A t \in Supervised : tasks[t].handle # "taken"
    BY <1>1 DEF NodeInv, TaskInv, TasksHeld, TaskHeld, Stopping
<1>7. TasksHeld'
    BY <1>1, <1>5, <1>6, TasksStay DEF NodeInv, TaskInv
<1>8. DeliveryShape' /\ QueueInv'
    BY <1>1, QueueSame DEF NodeInv, DeliveryShape
<1> QED
    BY <1>4, <1>7, <1>8 DEF NodeInv, TaskInv

\* cancel_ingress of the event queues: no more events, and the worker is cancelled.
LEMMA CloseIngressStep == ASSUME NodeInv, CloseIngress PROVE NodeInv'
<1>1. /\ nodeCall.at = "stopping" /\ nodeCall.i > 0 /\ nodeCall.phase = "begin"
      /\ queues' = [queues EXCEPT !.accepting = FALSE] /\ courier' = [courier EXCEPT !.cancelled = TRUE]
      /\ nodeCall' = [nodeCall EXCEPT !.phase = "drain"]
      /\ UNCHANGED <<graph, nodeStatus, causes, tasks, outlet>>
    BY DEF CloseIngress, Stopping
<1>2. /\ CallerShape /\ GraphPlaced /\ StopsInOrder /\ ReadyPlaced /\ DeliveryShape
      /\ TasksHeld /\ TasksJoined /\ Reported /\ QueueInv
    BY DEF NodeInv, CallerInv, TaskInv
<1>3. CallIs(nodeCall', "stopping", nodeCall.i, "drain", nodeCall.stopped, nodeCall.left, nodeCall.last)
    BY <1>1, <1>2 DEF CallerShape, CallRecords, CallIs
<1>4. CallerInv'
    BY <1>1, <1>2, <1>3 DEF CallerInv, CallerShape, GraphPlaced, StopsInOrder, ReadyPlaced, CallIs
<1>5. TasksHeld' /\ TasksJoined' /\ Reported'
  <2>1. \A t \in Supervised : ToStop(t) => ToStop(t)'
    BY <1>1, <1>3 DEF ToStop, CallIs
  <2>2. TasksHeld'
    BY <1>1, <1>2, <2>1, TasksStay, NothingTaken
  <2> QED
    BY <1>1, <1>2, <1>3, <2>2 DEF TasksJoined, Reported, Over, CallIs
<1>6. queues' \in QueueRecords /\ queues'.items = queues.items /\ queues'.next = queues.next /\ queues'.acked = queues.acked
    BY <1>1, <1>2, DeliveryFields DEF QueueRecords
<1>7. courier' \in CourierRecords /\ courier'.attempt = courier.attempt
    BY <1>1, <1>2, DeliveryFields DEF CourierRecords
<1>8. OutletsUp'
    BY <1>1, <1>2 DEF QueueInv, OutletsUp
<1>9. DeliveryShape' /\ QueueInv'
    BY <1>1, <1>2, <1>6, <1>7, <1>8, QueueKept DEF DeliveryShape
<1> QED
    BY <1>4, <1>5, <1>9 DEF NodeInv, TaskInv

\* A supervised task's handle changes; the task goes on.
HandleIs(s, handle) ==
    /\ tasks' \in [Supervised -> TaskRecords] /\ tasks'[s].handle = handle /\ tasks'[s].pc = tasks[s].pc
    /\ \A t \in Supervised : t # s => tasks'[t] = tasks[t]
\* One task whose handle alone changes.
LEMMA HandleChange ==
    ASSUME DeliveryShape, NEW s \in Supervised, NEW handle \in {"none", "held", "taken", "detached"},
           tasks' = [tasks EXCEPT ![s].handle = handle]
    PROVE  HandleIs(s, handle)
<1>1. tasks \in [Supervised -> TaskRecords] /\ tasks[s] \in TaskRecords
    BY DeliveryFields
<1> DEFINE r == [tasks[s] EXCEPT !.handle = handle]
<1>2. r \in TaskRecords /\ r.handle = handle /\ r.pc = tasks[s].pc
    BY <1>1 DEF TaskRecords
<1>3. tasks' = [tasks EXCEPT ![s] = r]
    OBVIOUS
<1> HIDE DEF r
<1> QED
    BY <1>1, <1>2, <1>3 DEF HandleIs

\* The loop goes on from a supervised service.
LEMMA JoinStep ==
    ASSUME NodeInv, NEW s \in Supervised, Stopping(s), NEW ok \in BOOLEAN, Stopped(ok),
           UNCHANGED <<graph, nodeStatus, causes, queues, courier, outlet>>,
           NEW handle \in {"none", "held", "detached"}, HandleIs(s, handle),
           handle = "none" => tasks[s].pc \in {"none", "done"}, handle = "detached" => s = "event-queues",
           ok \/ tasks[s].handle = "detached" => handle = "detached" \/ tasks[s].pc \in {"none", "done"}
    PROVE  NodeInv'
<1>1. nodeCall.at = "stopping" /\ nodeCall.i > 0 /\ Current = s
    BY DEF Stopping
<1>2. nodeStatus \in StatusRecords /\ TasksHeld /\ DeliveryShape /\ QueueInv
    BY DEF NodeInv, CallerInv, CallerShape, TaskInv
<1>3. /\ CallerInv' /\ TasksJoined' /\ Reported'
      /\ \A t \in Supervised : ToStop(t) /\ (ok => t # Current) => ToStop(t)'
    BY <1>1, <1>2, StoppedCaller
<1>4. ASSUME NEW t \in Supervised PROVE TaskHeld(t)'
  <2>1. TaskHeld(t)
    BY <1>2 DEF TasksHeld
  <2>2. CASE t = s
    <3>1. tasks'[t].handle = handle /\ tasks'[t].pc = tasks[t].pc
      BY <2>2 DEF HandleIs
    <3>2. tasks[t].pc \in {"none", "done"} \/ handle = "detached" \/ ToStop(t)'
      <4>1. CASE tasks[t].handle = "detached"
        BY <1>1, <1>3, <2>1, <2>2, <4>1 DEF TaskHeld
      <4>2. CASE tasks[t].handle # "detached"
        BY <1>1, <1>3, <2>1, <2>2, <4>2 DEF TaskHeld
      <4> QED
        BY <4>1, <4>2
    <3> QED
      BY <2>2, <3>1, <3>2 DEF TaskHeld
  <2>3. CASE t # s
    <3>1. tasks'[t] = tasks[t] /\ (ToStop(t) => ToStop(t)')
      BY <1>1, <1>3, <2>3 DEF HandleIs
    <3>2. tasks[t].handle # "taken"
      BY <1>1, <2>1, <2>3 DEF TaskHeld, Stopping
    <3> QED
      BY <2>1, <3>1, <3>2 DEF TaskHeld
  <2> QED
    BY <2>2, <2>3
<1>5. DeliveryShape' /\ QueueInv'
  <2>1. tasks'["event-queues"].pc = tasks["event-queues"].pc
    BY DEF HandleIs, Supervised
  <2> QED
    BY <1>2, <2>1, QueueSame DEF DeliveryShape, HandleIs
<1> QED
    BY <1>3, <1>4, <1>5 DEF NodeInv, TaskInv, TasksHeld

\* drain of the event queues, and their stop takes the handle of the worker.
LEMMA DrainQueuesStep == ASSUME NodeInv, DrainQueues PROVE NodeInv'
<1> DEFINE s == "event-queues"
<1>1. /\ Stopping(s) /\ nodeCall.phase = "drain"
      /\ UNCHANGED <<graph, nodeStatus, causes, queues, courier, outlet>>
      /\ tasks[s].handle = "held" =>
           tasks' = [tasks EXCEPT ![s].handle = "taken"] /\ nodeCall' = [nodeCall EXCEPT !.phase = "join"]
      /\ tasks[s].handle # "held" => Stopped(TRUE) /\ tasks' = tasks
    BY DEF DrainQueues
<1>2. /\ CallerShape /\ GraphPlaced /\ StopsInOrder /\ ReadyPlaced /\ DeliveryShape
      /\ TasksHeld /\ TasksJoined /\ Reported /\ QueueInv
    BY DEF NodeInv, CallerInv, TaskInv
<1>3. s \in Supervised /\ tasks \in [Supervised -> TaskRecords] /\ tasks[s] \in TaskRecords
    BY <1>2, DeliveryFields DEF Supervised
<1>4. CASE tasks[s].handle = "held"
  <2>1. HandleIs(s, "taken")
    BY <1>1, <1>2, <1>3, <1>4, HandleChange
  <2>2. CallIs(nodeCall', nodeCall.at, nodeCall.i, "join", nodeCall.stopped, nodeCall.left, nodeCall.last)
    BY <1>1, <1>2, <1>4 DEF CallerShape, CallRecords, CallIs
  <2>3. nodeCall.at = "stopping" /\ graph.state = "Stopping"
    BY <1>1, <1>2 DEF Stopping, GraphPlaced
  <2>4. CallerInv'
    BY <1>1, <1>2, <2>2, <2>3 DEF CallerInv, CallerShape, GraphPlaced, StopsInOrder, ReadyPlaced, CallIs
  <2>5. TasksJoined' /\ Reported'
    BY <1>1, <1>2, <2>2, <2>3 DEF TasksJoined, Reported, Over, CallIs
  <2>6. Stopping(s)'
    BY <1>1, <2>2 DEF Stopping, Current, CallIs
  <2>7. ASSUME NEW t \in Supervised PROVE TaskHeld(t)'
    <3>1. TaskHeld(t) /\ (ToStop(t) => ToStop(t)')
      BY <1>1, <1>2, <2>2, <2>3 DEF TasksHeld, ToStop, CallIs
    <3>2. CASE t = s
      BY <1>4, <2>1, <2>2, <2>6, <3>1, <3>2 DEF TaskHeld, HandleIs, CallIs
    <3>3. CASE t # s
      <4>1. tasks'[t] = tasks[t] /\ tasks[t].handle # "taken"
        BY <1>1, <2>1, <3>1, <3>3 DEF TaskHeld, HandleIs
      <4> QED
        BY <3>1, <4>1 DEF TaskHeld
    <3> QED
      BY <3>2, <3>3
  <2>8. DeliveryShape' /\ QueueInv'
    BY <1>1, <1>2, <2>1, QueueSame DEF DeliveryShape, HandleIs
  <2> QED
    BY <2>4, <2>5, <2>7, <2>8 DEF NodeInv, TaskInv, TasksHeld
<1>5. CASE tasks[s].handle # "held"
  <2>1. TaskHeld(s)
    BY <1>2, <1>3 DEF TasksHeld
  <2>2. tasks[s].handle \in {"none", "detached"}
    BY <1>1, <1>3, <1>5, <2>1 DEF TaskHeld, TaskRecords
  <2>3. HandleIs(s, tasks[s].handle) /\ Stopped(TRUE)
    BY <1>1, <1>3, <1>5 DEF HandleIs
  <2>4. tasks[s].handle = "none" => tasks[s].pc \in {"none", "done"}
    BY <2>1 DEF TaskHeld
  <2> QED
    BY <1>1, <1>3, <2>2, <2>3, <2>4, JoinStep
<1> QED
    BY <1>4, <1>5

\* stop of the event queues: the worker has ended.
LEMMA JoinDeliveryStep == ASSUME NodeInv, JoinDelivery PROVE NodeInv'
<1>1. /\ Stopping("event-queues") /\ tasks["event-queues"].pc = "done" /\ Stopped(tasks["event-queues"].ok)
      /\ tasks' = [tasks EXCEPT !["event-queues"].handle = "none"]
      /\ UNCHANGED <<graph, nodeStatus, causes, queues, courier, outlet>>
    BY DEF JoinDelivery
<1>2. DeliveryShape /\ "event-queues" \in Supervised
    BY DEF NodeInv, Supervised
<1>3. tasks["event-queues"].ok \in BOOLEAN
    BY <1>2, DeliveryFields DEF TaskRecords
<1>4. HandleIs("event-queues", "none")
    BY <1>1, <1>2, HandleChange
<1> QED
    BY <1>1, <1>2, <1>3, <1>4, JoinStep

\* stop of the replica: its worker has ended.
LEMMA JoinReplicaStep == ASSUME NodeInv, JoinReplica PROVE NodeInv'
<1> DEFINE ok == tasks["replica"].handle = "none" \/ tasks["replica"].ok
<1>1. /\ Stopping("replica") /\ tasks["replica"].pc = "done" /\ Stopped(ok)
      /\ tasks' = [tasks EXCEPT !["replica"].handle = "none"]
      /\ UNCHANGED <<graph, nodeStatus, causes, queues, courier, outlet>>
    BY DEF JoinReplica
<1>2. DeliveryShape /\ "replica" \in Supervised
    BY DEF NodeInv, Supervised
<1>3. ok \in BOOLEAN
    OBVIOUS
<1>4. HandleIs("replica", "none")
    BY <1>1, <1>2, HandleChange
<1> HIDE DEF ok
<1> QED
    BY <1>1, <1>2, <1>3, <1>4, JoinStep

\* The timeout drops a stop, and with it the handle it had taken.
LEMMA StopTooLateStep == ASSUME NodeInv, StopTooLate PROVE NodeInv'
<1> DEFINE s == Current
<1> DEFINE handle == IF tasks[s].handle = "taken" THEN "detached" ELSE tasks[s].handle
<1>1. /\ s \in {"event-queues", "replica"} /\ Stopping(s) /\ Stopped(FALSE)
      /\ tasks' = [tasks EXCEPT ![s].handle = handle]
      /\ UNCHANGED <<graph, nodeStatus, causes, queues, courier, outlet>>
    BY DEF StopTooLate, Stopping
<1>2. DeliveryShape /\ TasksHeld /\ s \in Supervised
    BY <1>1 DEF NodeInv, TaskInv, Supervised
<1>3. tasks[s] \in TaskRecords /\ TaskHeld(s)
    BY <1>2, DeliveryFields DEF TasksHeld
<1>4. /\ handle \in {"none", "held", "detached"} /\ (handle = "none" => tasks[s].pc \in {"none", "done"})
      /\ handle = "detached" => s = "event-queues"
      /\ tasks[s].handle = "detached" => handle = "detached"
    BY <1>3 DEF TaskHeld, TaskRecords
<1> HIDE DEF handle
<1>5. HandleIs(s, handle)
    BY <1>1, <1>2, <1>4, HandleChange
<1> HIDE DEF s
<1> QED
    BY <1>1, <1>2, <1>4, <1>5, JoinStep

\* stop_started and shutdown return: what was not stopped stays in the graph.
LEMMA FinishStopStep == ASSUME NodeInv, FinishStop PROVE NodeInv'
<1> DEFINE K == {k \in DOMAIN graph.started : graph.started[k].name \notin nodeCall.stopped}
<1> DEFINE remaining == Sublist(graph.started, K)
<1> DEFINE state == IF nodeCall.why = "unwind" /\ nodeCall.left = {} THEN "Failed"
                    ELSE IF remaining = <<>> THEN "Stopped" ELSE graph.state
<1> DEFINE last == IF nodeCall.why = "shutdown" /\ nodeCall.left = {} /\ causes = <<>> THEN "stopped" ELSE "failed"
<1>1. /\ nodeCall.at = "stopping" /\ nodeCall.i = 0
      /\ graph' = [graph EXCEPT !.started = remaining, !.state = state]
      /\ nodeCall' = [nodeCall EXCEPT !.at = "idle", !.last = last]
      /\ causes' = <<>> /\ nodeStatus' = nodeStatus /\ UNCHANGED <<queues, courier, tasks, outlet>>
    BY DEF FinishStop, deliveryVars
<1>2. /\ CallerShape /\ GraphPlaced /\ StopsInOrder /\ ReadyPlaced /\ DeliveryShape
      /\ TasksHeld /\ TasksJoined /\ Reported /\ QueueInv
    BY DEF NodeInv, CallerInv, TaskInv
<1>3. /\ graph.started \in Seq(ServiceRecords) /\ K \in SUBSET DOMAIN graph.started /\ graph.state = "Stopping"
      /\ Len(graph.started) \in Nat /\ Len(graph.order) \in Nat /\ Len(graph.started) <= Len(graph.order)
      /\ DOMAIN graph.started = 1..Len(graph.started)
    BY <1>1, <1>2, CallerFields DEF GraphPlaced
<1>k. \A k \in DOMAIN graph.started : k \in K <=> graph.started[k].name \notin nodeCall.stopped
    OBVIOUS
<1> HIDE DEF K
<1>4. /\ remaining \in Seq(ServiceRecords) /\ Len(remaining) = Cardinality(K) /\ Len(remaining) \in 0..Len(graph.started)
      /\ StopOrdered(remaining)
    BY <1>2, <1>3, SublistType, SublistStops DEF StopsInOrder
<1>5. \A k \in K : \E n \in DOMAIN remaining : remaining[n] = graph.started[k]
    BY <1>3, SublistHas
<1> HIDE DEF remaining
\* what was visited without a failure is everything
<1>6. nodeCall.left = {} => remaining = <<>> /\ \A k \in DOMAIN graph.started : graph.started[k].name \in nodeCall.stopped
  <2> SUFFICES ASSUME nodeCall.left = {}
               PROVE  remaining = <<>> /\ \A k \in DOMAIN graph.started : graph.started[k].name \in nodeCall.stopped
    OBVIOUS
  <2>1. nodeCall.stopped = Visited(graph.started, 0)
    BY <1>1, <1>2 DEF StopsInOrder
  <2>2. \A k \in DOMAIN graph.started : graph.started[k].name \in nodeCall.stopped
    BY <1>3, <2>1 DEF Visited
  <2>3. K = {}
    BY <1>3, <1>k, <2>2
  <2>4. Len(remaining) = 0
    BY <1>4, <2>3, FS_EmptySet
  <2> QED
    BY <1>4, <2>2, <2>4
<1>7. /\ state \in {"Failed", "Stopped", "Stopping"}
      /\ state \in {"Failed", "Stopped"} => nodeCall.left = {} \/ remaining = <<>>
      /\ last \in {"stopped", "failed"} /\ (last = "stopped" => state \in {"Failed", "Stopped"})
    BY <1>3, <1>6
<1> HIDE DEF state, last
<1>8. GraphIs(graph', state, graph.order, remaining)
    BY <1>1, <1>2, <1>4, <1>7 DEF CallerShape, GraphRecords, GraphIs
<1>9. CallIs(nodeCall', "idle", nodeCall.i, nodeCall.phase, nodeCall.stopped, nodeCall.left, last)
    BY <1>1, <1>2, <1>7 DEF CallerShape, CallRecords, CallIs
<1>10. GraphPlaced'
  <2>1. Composable(graph.order) /\ ReadinessLast(graph.order) /\ nodeCall.i \in 0..Len(graph.order) + 1
    BY <1>2, <1>3 DEF GraphPlaced
  <2>2. Len(remaining) <= Len(graph.order)
    BY <1>3, <1>4
  <2> QED
    BY <1>7, <1>8, <1>9, <2>1, <2>2 DEF GraphPlaced, GraphIs, CallIs
<1>11. StopsInOrder' /\ ReadyPlaced' /\ CallerShape'
  <2>1. ~nodeStatus.ready
    BY <1>2, <1>3 DEF ReadyPlaced
  <2>2. <<>> \in Seq(Supervised)
    OBVIOUS
  <2> QED
    BY <1>1, <1>2, <1>4, <1>8, <1>9, <2>1, <2>2 DEF StopsInOrder, ReadyPlaced, CallerShape, GraphIs, CallIs
<1>12. \A t \in Supervised : ToStop(t) => ToStop(t)'
  <2> SUFFICES ASSUME NEW t \in Supervised, ToStop(t) PROVE ToStop(t)'
    OBVIOUS
  <2>1. PICK k \in DOMAIN graph.started : graph.started[k].name = t
    BY DEF ToStop
  <2>2. k \in K
    BY <1>1, <1>k, <2>1 DEF ToStop
  <2>3. \E n \in DOMAIN remaining : remaining[n].name = t
    BY <1>5, <2>1, <2>2
  <2> QED
    BY <1>8, <1>9, <2>3 DEF ToStop, GraphIs, CallIs
<1>13. TasksHeld'
    BY <1>1, <1>2, <1>12, TasksStay, NothingTaken
<1>14. TasksJoined'
  <2> SUFFICES ASSUME state \in {"Failed", "Stopped"}, NEW t \in Supervised
               PROVE  tasks[t].pc \in {"none", "done"} \/ tasks[t].handle = "detached"
    BY <1>1, <1>8 DEF TasksJoined, GraphIs
  <2>1. remaining = <<>>
    BY <1>6, <1>7
  <2>2. ~ToStop(t)'
    BY <1>8, <2>1 DEF ToStop, GraphIs
  <2> QED
    BY <1>2, <1>12, <2>2 DEF TasksHeld, TaskHeld
<1>15. Reported'
    BY <1>1, <1>7, <1>8, <1>9 DEF Reported, Over, GraphIs, CallIs
<1>16. DeliveryShape' /\ QueueInv'
    BY <1>1, <1>2, QueueSame DEF DeliveryShape
<1> QED
    BY <1>10, <1>11, <1>13, <1>14, <1>15, <1>16 DEF NodeInv, CallerInv, TaskInv

\* A supervised task goes on; its handle stays where it is.
PcIs(s) ==
    /\ tasks' \in [Supervised -> TaskRecords] /\ tasks'[s].handle = tasks[s].handle /\ tasks'[s].pc # "none"
    /\ \A t \in Supervised : t # s => tasks'[t] = tasks[t]
\* One task whose place alone changes.
LEMMA PcChange ==
    ASSUME DeliveryShape, NEW s \in Supervised, NEW pc \in {"pass", "tail", "run", "ended", "report", "done"},
           NEW ok \in BOOLEAN,
           \/ tasks' = [tasks EXCEPT ![s].pc = pc, ![s].ok = ok]
           \/ tasks' = [tasks EXCEPT ![s].pc = pc]
    PROVE  PcIs(s)
<1>1. tasks \in [Supervised -> TaskRecords] /\ tasks[s] \in TaskRecords
    BY DeliveryFields
<1> DEFINE r == [tasks[s] EXCEPT !.pc = pc, !.ok = ok]
<1> DEFINE q == [tasks[s] EXCEPT !.pc = pc]
<1>2. r \in TaskRecords /\ r.handle = tasks[s].handle /\ r.pc # "none"
    BY <1>1 DEF TaskRecords
<1>3. q \in TaskRecords /\ q.handle = tasks[s].handle /\ q.pc # "none"
    BY <1>1 DEF TaskRecords
<1>4. tasks' = [tasks EXCEPT ![s] = r] \/ tasks' = [tasks EXCEPT ![s] = q]
    BY <1>1
<1> HIDE DEF r, q
<1> QED
    BY <1>1, <1>2, <1>3, <1>4 DEF PcIs

\* A task that runs and takes a step stays accounted for; after a shutdown that returned Ok only a worker whose handle was dropped can.
LEMMA TaskGoesOn ==
    ASSUME NodeInv, NEW s \in Supervised, tasks[s].pc \notin {"none", "done"}, PcIs(s), UNCHANGED <<graph, nodeCall>>
    PROVE  /\ TasksHeld' /\ TasksJoined'
           /\ tasks["event-queues"].pc = "none" => tasks'["event-queues"].pc = "none"
           /\ nodeCall.last = "stopped" => s = "event-queues" /\ tasks["event-queues"].handle = "detached"
           /\ tasks'["event-queues"].handle = tasks["event-queues"].handle
<1>1. TasksHeld /\ TasksJoined /\ Reported
    BY DEF NodeInv, TaskInv
<1>2. TaskHeld(s)
    BY <1>1 DEF TasksHeld
<1>3. tasks'["event-queues"].handle = tasks["event-queues"].handle
    BY DEF PcIs, Supervised
<1>4. tasks["event-queues"].pc = "none" => tasks'["event-queues"].pc = "none"
    BY DEF PcIs, Supervised
<1>5. Over => tasks[s].handle = "detached" /\ s = "event-queues"
    BY <1>1, <1>2 DEF TasksJoined, TaskHeld, Over
<1>6. ASSUME NEW t \in Supervised PROVE TaskHeld(t)' /\ (Over => tasks'[t].pc \in {"none", "done"} \/ tasks'[t].handle = "detached")
  <2>1. TaskHeld(t) /\ (ToStop(t) => ToStop(t)') /\ (Stopping("event-queues") => Stopping("event-queues")')
    BY <1>1 DEF TasksHeld, ToStop, Stopping, Current
  <2>2. CASE t = s
    <3>1. tasks'[t].handle = tasks[t].handle /\ tasks[t].handle # "none"
      BY <1>2, <2>2 DEF TaskHeld, PcIs
    <3>2. tasks[t].handle = "detached" \/ ToStop(t)'
      BY <2>1, <2>2 DEF TaskHeld
    <3> QED
      BY <1>5, <2>1, <2>2, <3>1, <3>2 DEF TaskHeld
  <2>3. CASE t # s
    <3>1. tasks'[t] = tasks[t]
      BY <2>3 DEF PcIs
    <3> QED
      BY <1>1, <2>1, <3>1 DEF TaskHeld, TasksJoined, Over
  <2> QED
    BY <2>2, <2>3
<1>7. TasksHeld' /\ TasksJoined'
    BY <1>6 DEF TasksHeld, TasksJoined, Over
<1> QED
    BY <1>1, <1>3, <1>4, <1>5, <1>7 DEF Reported

\* What the delivery does leaves the caller alone.
LEMMA CallerRests ==
    ASSUME NodeInv, UNCHANGED graphVars
    PROVE  CallerInv' /\ UNCHANGED <<graph, nodeCall, nodeStatus, causes>>
<1>1. UNCHANGED <<graph, nodeCall, nodeStatus, causes>>
    BY DEF graphVars
<1> QED
    BY <1>1, CallerSame DEF NodeInv, CallerInv, CallerShape

\* Nothing changes for the tasks where neither they nor the caller move.
LEMMA TasksRest ==
    ASSUME NodeInv, UNCHANGED graphVars, tasks' = tasks
    PROVE  TaskInv'
BY DEF NodeInv, TaskInv, TasksHeld, TaskHeld, TasksJoined, Reported, ToStop, Over, Stopping, Current, graphVars

\* The part about the tasks after a step of one of them that leaves the caller alone.
LEMMA TaskRuns ==
    ASSUME NodeInv, UNCHANGED graphVars, NEW s \in Supervised, tasks[s].pc \notin {"none", "done"}, PcIs(s)
    PROVE  TaskInv' /\ (tasks["event-queues"].pc = "none" => tasks'["event-queues"].pc = "none")
<1>1. UNCHANGED <<graph, nodeCall, nodeStatus, causes>>
    BY DEF graphVars
<1>2. /\ TasksHeld' /\ TasksJoined'
      /\ tasks["event-queues"].pc = "none" => tasks'["event-queues"].pc = "none"
      /\ tasks'["event-queues"].handle = tasks["event-queues"].handle
    BY <1>1, TaskGoesOn
<1>3. Reported'
    BY <1>1, <1>2 DEF NodeInv, TaskInv, Reported, Over
<1> QED
    BY <1>2, <1>3 DEF TaskInv

\* The queues and their classes.
LEMMA ClassesAre == /\ Classes = {"history", "realtime", "solid"} /\ DOMAIN QueueClasses = 1..3
                    /\ \A i \in 1..3 : QueueClasses[i] \in Classes
<1>1. DOMAIN QueueClasses = 1..3 /\ QueueClasses[1] = "history" /\ QueueClasses[2] = "realtime" /\ QueueClasses[3] = "solid"
    BY DEF QueueClasses
<1>2. \A i \in 1..3 : i = 1 \/ i = 2 \/ i = 3
    OBVIOUS
<1>3. Classes = {"history", "realtime", "solid"}
    BY <1>1, <1>2 DEF Classes, Range
<1> QED
    BY <1>1, <1>2, <1>3

\* The fields of the queues, the outlets and the worker.
LEMMA QueueFields ==
    ASSUME DeliveryShape
    PROVE  /\ queues.next \in Nat /\ queues.items \in [Classes -> Seq(Events)] /\ queues.acked \in SUBSET Events
           /\ DOMAIN queues.items = Classes /\ \A c \in Classes : queues.items[c] \in Seq(Events) /\ Len(queues.items[c]) \in Nat
           /\ outlet.sent \in Seq(Events) /\ outlet.waiting \in Seq(Events) /\ outlet.told \in SUBSET ({"plugin", "zeromq"} \X Nat)
           /\ Len(outlet.waiting) \in Nat /\ courier.class \in 1..3 /\ courier.attempt \in Nat /\ Class \in Classes
<1>1. queues \in QueueRecords /\ courier \in CourierRecords /\ outlet \in OutletRecords
    BY DeliveryFields
<1>2. queues.next \in Nat /\ queues.items \in [Classes -> Seq(Events)] /\ queues.acked \in SUBSET Events
    BY <1>1 DEF QueueRecords, Classes
<1>3. outlet.sent \in Seq(Events) /\ outlet.waiting \in Seq(Events) /\ outlet.told \in SUBSET ({"plugin", "zeromq"} \X Nat)
    BY <1>1 DEF OutletRecords
<1>4. courier.class \in 1..3 /\ courier.attempt \in Nat
    BY <1>1 DEF CourierRecords
<1>5. Class \in Classes
    BY <1>4, ClassesAre DEF Class
<1> QED
    BY <1>2, <1>3, <1>4, <1>5

\* The fields of an event.
LEMMA EventFields == \A d \in Events : d.seq \in Nat /\ d.class \in Classes /\ d.kind \in Kinds
BY DEF Events, Classes

\* The replica's worker ends.
LEMMA ReplicaEndsStep == ASSUME NodeInv, ReplicaEnds PROVE NodeInv'
<1>1. /\ tasks["replica"].pc = "run" /\ UNCHANGED graphVars /\ UNCHANGED <<queues, courier, outlet>>
      /\ \E ok \in BOOLEAN : tasks' = [tasks EXCEPT !["replica"].pc = "ended", !["replica"].ok = ok]
    BY DEF ReplicaEnds
<1>2. DeliveryShape /\ QueueInv
    BY DEF NodeInv
<1>3. "replica" \in Supervised
    BY DEF Supervised
<1>4. PcIs("replica")
    BY <1>1, <1>2, <1>3, PcChange
<1>5. TaskInv' /\ (tasks["event-queues"].pc = "none" => tasks'["event-queues"].pc = "none")
    BY <1>1, <1>3, <1>4, TaskRuns
<1>6. QueueInv' /\ CallerInv'
    BY <1>1, <1>2, <1>5, QueueSame, CallerRests
<1>7. DeliveryShape'
    BY <1>1, <1>2, <1>4 DEF DeliveryShape, PcIs
<1> QED
    BY <1>5, <1>6, <1>7 DEF NodeInv

\* The supervisor of a task sees it end.
LEMMA SuperviseStep == ASSUME NodeInv, NEW s \in Supervised, Supervise(s) PROVE NodeInv'
<1>1. /\ tasks[s].pc = "ended" /\ UNCHANGED graphVars /\ UNCHANGED <<courier, outlet>>
      /\ tasks' = [tasks EXCEPT ![s].pc = "done"] \/ tasks' = [tasks EXCEPT ![s].pc = "report"]
      /\ queues' = [queues EXCEPT !.accepting = FALSE] \/ queues' = queues
  <2>1. /\ tasks[s].pc = "ended" /\ UNCHANGED graphVars /\ UNCHANGED <<courier, outlet>>
        /\ tasks' = [tasks EXCEPT ![s].pc = IF TokenCancelled(s) THEN "done" ELSE "report"]
        /\ queues' = [queues EXCEPT !.accepting = FALSE] \/ queues' = queues
    BY DEF Supervise
  <2>2. TokenCancelled(s) \/ ~TokenCancelled(s)
    OBVIOUS
  <2> QED
    BY <2>1, <2>2
<1>2. DeliveryShape /\ QueueInv
    BY DEF NodeInv
<1>3. PcIs(s)
    BY <1>1, <1>2, PcChange
<1>4. TaskInv' /\ (tasks["event-queues"].pc = "none" => tasks'["event-queues"].pc = "none")
    BY <1>1, <1>3, TaskRuns
<1>5. /\ queues' \in QueueRecords /\ queues'.items = queues.items /\ queues'.next = queues.next /\ queues'.acked = queues.acked
    BY <1>1, <1>2, DeliveryFields DEF QueueRecords
<1>6. OutletsUp'
    BY <1>1, <1>2, <1>4 DEF QueueInv, OutletsUp
<1>7. QueueInv'
    BY <1>1, <1>2, <1>5, <1>6, QueueKept
<1>8. DeliveryShape'
    BY <1>1, <1>2, <1>3, <1>5 DEF DeliveryShape, PcIs
<1> QED
    BY <1>1, <1>4, <1>7, <1>8, CallerRests DEF NodeInv

\* A fatal failure is reported: the node is not ready any more.
LEMMA ReportFatalStep == ASSUME NodeInv, NEW s \in Supervised, ReportFatal(s) PROVE NodeInv'
<1>1. /\ tasks[s].pc = "report" /\ causes' = Append(causes, s) /\ nodeStatus' = MarkUnhealthy(nodeStatus)
      /\ tasks' = [tasks EXCEPT ![s].pc = "done"] /\ UNCHANGED <<graph, nodeCall, queues, courier, outlet>>
    BY DEF ReportFatal
<1>2. CallerShape /\ GraphPlaced /\ StopsInOrder /\ DeliveryShape /\ QueueInv /\ Reported
    BY DEF NodeInv, CallerInv, TaskInv
<1>3. PcIs(s)
    BY <1>1, <1>2, PcChange
<1>4. /\ TasksHeld' /\ TasksJoined'
      /\ tasks["event-queues"].pc = "none" => tasks'["event-queues"].pc = "none"
      /\ nodeCall.last = "stopped" => s = "event-queues" /\ tasks["event-queues"].handle = "detached"
      /\ tasks'["event-queues"].handle = tasks["event-queues"].handle
    BY <1>1, <1>3, TaskGoesOn
<1>5. Reported'
    BY <1>1, <1>2, <1>4 DEF Reported, Over
<1>6. nodeStatus' \in StatusRecords /\ nodeStatus'.ready = FALSE
    BY <1>1 DEF MarkUnhealthy, StatusRecords
<1>7. CallerShape' /\ ReadyPlaced'
    BY <1>1, <1>2, <1>6 DEF CallerShape, ReadyPlaced
<1>8. GraphPlaced' /\ StopsInOrder'
    BY <1>1, <1>2 DEF GraphPlaced, StopsInOrder
<1>9. QueueInv'
    BY <1>1, <1>2, <1>4, QueueSame
<1>10. DeliveryShape'
    BY <1>1, <1>2, <1>3 DEF DeliveryShape, PcIs
<1> QED
    BY <1>4, <1>5, <1>7, <1>8, <1>9, <1>10 DEF NodeInv, CallerInv, TaskInv

\* Lists without entries, and with their first entry taken.
LEMMA EmptyGrows ==
    \A s, n : Grows(<<>>) /\ Precedes(s, <<>>) /\ Precedes(<<>>, s) /\ Numbered(<<>>, n)
BY DEF Grows, Precedes, Numbered

\* A list without its first entry.
LEMMA TailIs ==
    ASSUME NEW S, NEW s \in Seq(S), s # <<>>
    PROVE  /\ Len(s) \in Nat \ {0} /\ Head(s) = s[1] /\ s[1] \in S /\ 1 \in DOMAIN s /\ Tail(s) \in Seq(S)
           /\ Len(Tail(s)) = Len(s) - 1 /\ Len(Tail(s)) < Len(s)
           /\ \A i \in DOMAIN Tail(s) : i + 1 \in DOMAIN s /\ Tail(s)[i] = s[i + 1] /\ 1 < i + 1 /\ i \in Nat
           /\ \A i \in DOMAIN s : i = 1 \/ (i - 1 \in DOMAIN Tail(s) /\ Tail(s)[i - 1] = s[i])
OBVIOUS

\* It keeps its order, and comes after the entry that was taken.
LEMMA TailGrows ==
    ASSUME NEW s \in Seq(Events), s # <<>>, NEW n
    PROVE  /\ Grows(s) => Grows(Tail(s))
           /\ Grows(s) => \A i \in DOMAIN Tail(s) : Tail(s)[i].class = Head(s).class => Head(s).seq < Tail(s)[i].seq
           /\ Numbered(s, n) => Numbered(Tail(s), n) /\ Head(s).seq < n
           /\ \A t : (Precedes(s, t) => Precedes(Tail(s), t)) /\ (Precedes(t, s) => Precedes(t, Tail(s)))
<1> DEFINE T == Tail(s)
<1>1. /\ Head(s) = s[1] /\ 1 \in DOMAIN s
      /\ \A i \in DOMAIN T : i + 1 \in DOMAIN s /\ T[i] = s[i + 1] /\ 1 < i + 1 /\ i \in Nat
    BY TailIs
<1> HIDE DEF T
<1>2. Grows(s) => Grows(T)
  <2> SUFFICES ASSUME Grows(s), NEW i \in DOMAIN T, NEW j \in DOMAIN T, i < j, T[i].class = T[j].class
               PROVE  T[i].seq < T[j].seq
    BY DEF Grows
  <2>1. i + 1 < j + 1
    BY <1>1
  <2> QED
    BY <1>1, <2>1 DEF Grows
<1>3. Grows(s) => \A i \in DOMAIN T : T[i].class = Head(s).class => Head(s).seq < T[i].seq
    BY <1>1 DEF Grows
<1>4. Numbered(s, n) => Numbered(T, n) /\ Head(s).seq < n
    BY <1>1 DEF Numbered
<1>5. \A t : (Precedes(s, t) => Precedes(T, t)) /\ (Precedes(t, s) => Precedes(t, T))
    BY <1>1 DEF Precedes
<1> QED
    BY <1>2, <1>3, <1>4, <1>5 DEF T

\* A list with one more entry at its end.
LEMMA AppendGrows ==
    ASSUME NEW s \in Seq(Events), NEW d \in Events, NEW n
    PROVE  /\ Append(s, d) \in Seq(Events) /\ Len(Append(s, d)) = Len(s) + 1
           /\ Grows(s) /\ (\A i \in DOMAIN s : s[i].class = d.class => s[i].seq < d.seq) => Grows(Append(s, d))
           /\ Numbered(s, n) /\ d.seq < n => Numbered(Append(s, d), n)
           /\ \A t : Precedes(s, t) /\ (\A j \in DOMAIN t : d.class = t[j].class => d.seq < t[j].seq) => Precedes(Append(s, d), t)
           /\ \A t : Precedes(t, s) /\ (\A j \in DOMAIN t : t[j].class = d.class => t[j].seq < d.seq) => Precedes(t, Append(s, d))
<1> DEFINE A == Append(s, d)
<1>1. /\ A \in Seq(Events) /\ Len(A) = Len(s) + 1 /\ Len(s) \in Nat /\ DOMAIN s = 1..Len(s)
      /\ \A i \in DOMAIN A : i \in Nat /\ ((i \in DOMAIN s /\ A[i] = s[i] /\ i < Len(s) + 1) \/ (i = Len(s) + 1 /\ A[i] = d))
    OBVIOUS
<1> HIDE DEF A
<1>2. Grows(s) /\ (\A i \in DOMAIN s : s[i].class = d.class => s[i].seq < d.seq) => Grows(A)
  <2> SUFFICES ASSUME Grows(s), \A i \in DOMAIN s : s[i].class = d.class => s[i].seq < d.seq,
                      NEW i \in DOMAIN A, NEW j \in DOMAIN A, i < j, A[i].class = A[j].class
               PROVE  A[i].seq < A[j].seq
    BY DEF Grows
  <2>1. i \in DOMAIN s /\ A[i] = s[i]
    BY <1>1
  <2>2. (j \in DOMAIN s /\ A[j] = s[j]) \/ A[j] = d
    BY <1>1
  <2> QED
    BY <2>1, <2>2 DEF Grows
<1>3. Numbered(s, n) /\ d.seq < n => Numbered(A, n)
    BY <1>1 DEF Numbered
<1>4. \A t : Precedes(s, t) /\ (\A j \in DOMAIN t : d.class = t[j].class => d.seq < t[j].seq) => Precedes(A, t)
    BY <1>1 DEF Precedes
<1>5. \A t : Precedes(t, s) /\ (\A j \in DOMAIN t : t[j].class = d.class => t[j].seq < d.seq) => Precedes(t, A)
    BY <1>1 DEF Precedes
<1> QED
    BY <1>1, <1>2, <1>3, <1>4, <1>5 DEF A

\* The same with every condition met.
LEMMA AppendInOrder ==
    ASSUME NEW s \in Seq(Events), NEW d \in Events, NEW n, Grows(s), Numbered(s, n), d.seq < n,
           \A i \in DOMAIN s : s[i].class = d.class => s[i].seq < d.seq
    PROVE  Append(s, d) \in Seq(Events) /\ Grows(Append(s, d)) /\ Numbered(Append(s, d), n)
    BY AppendGrows

\* A list that grows at its end still precedes what its new entry precedes.
LEMMA AppendPrecedes ==
    ASSUME NEW s \in Seq(Events), NEW d \in Events, NEW t, Precedes(s, t),
           \A j \in DOMAIN t : d.class = t[j].class => d.seq < t[j].seq
    PROVE  Precedes(Append(s, d), t)
    BY AppendGrows

\* A list grows at its end by what comes after all that precedes it.
LEMMA PrecedesAppend ==
    ASSUME NEW s \in Seq(Events), NEW d \in Events, NEW t, Precedes(t, s),
           \A j \in DOMAIN t : t[j].class = d.class => t[j].seq < d.seq
    PROVE  Precedes(t, Append(s, d))
    BY AppendGrows

\* A list holds what it held, and what was appended.
LEMMA AppendLists ==
    ASSUME NEW s \in Seq(Events), NEW d \in Events
    PROVE  Listed(d, Append(s, d)) /\ \A x : Listed(x, s) => Listed(x, Append(s, d))
<1> DEFINE A == Append(s, d)
<1>1. Len(s) + 1 \in DOMAIN A /\ A[Len(s) + 1] = d /\ \A i \in DOMAIN s : i \in DOMAIN A /\ A[i] = s[i]
    OBVIOUS
<1> HIDE DEF A
<1>2. Listed(d, A) /\ \A x : Listed(x, s) => Listed(x, A)
    BY <1>1 DEF Listed
<1> QED
    BY <1>2 DEF A

\* What an outlet still holds is kept or dropped; what it took is not forgotten.
LEMMA OutletKept ==
    ASSUME QueueInv, DeliveryShape, queues' = queues, courier' \in CourierRecords, courier'.attempt \in 0..RetryLimit,
           outlet'.sent = outlet.sent, outlet'.waiting = outlet.waiting, outlet.told \subseteq outlet'.told,
           OutletsUp'
    PROVE  QueueInv'
<1>1. QueuesInOrder' /\ OutInOrder'
    BY DEF QueueInv, QueuesInOrder, OutInOrder
<1>2. Accounted' /\ AckedTold'
    BY DEF QueueInv, Accounted, AckedTold
<1> QED
    BY <1>1, <1>2 DEF QueueInv

\* The delivery worker ends, and its outlets with it.
LEMMA WorkerEndsStep ==
    ASSUME NodeInv, tasks["event-queues"].pc \in {"pass", "tail"}, NEW ok \in BOOLEAN, WorkerEnds(ok),
           UNCHANGED graphVars, UNCHANGED <<queues, courier>>
    PROVE  NodeInv'
<1>1. /\ tasks' = [tasks EXCEPT !["event-queues"].pc = "ended", !["event-queues"].ok = ok]
      /\ outlet' = [outlet EXCEPT !.plugin = IF outlet.plugin = "off" THEN outlet.plugin ELSE "dead",
                                  !.zeromq = IF outlet.zeromq = "off" THEN outlet.zeromq ELSE "dead"]
    BY DEF WorkerEnds
<1>2. DeliveryShape /\ QueueInv /\ "event-queues" \in Supervised
    BY DEF NodeInv, Supervised
<1>3. PcIs("event-queues")
    BY <1>1, <1>2, PcChange
<1>4. TaskInv' /\ (tasks["event-queues"].pc = "none" => tasks'["event-queues"].pc = "none")
    BY <1>2, <1>3, TaskRuns
<1>5. outlet \in OutletRecords /\ courier \in CourierRecords
    BY <1>2, DeliveryFields
<1>6. /\ outlet' \in OutletRecords /\ outlet'.sent = outlet.sent /\ outlet'.waiting = outlet.waiting /\ outlet'.told = outlet.told
      /\ outlet.plugin # "off" => outlet'.plugin # "off"
      /\ outlet.zeromq # "off" => outlet'.zeromq # "off"
    BY <1>1, <1>5 DEF OutletRecords
<1>7. OutletsUp'
    BY <1>2, <1>6 DEF QueueInv, OutletsUp
<1>8. QueueInv'
    BY <1>2, <1>5, <1>6, <1>7, OutletKept DEF QueueInv, OutInOrder
<1>9. DeliveryShape'
    BY <1>2, <1>3, <1>6 DEF DeliveryShape, PcIs
<1> QED
    BY <1>4, <1>8, <1>9, CallerRests DEF NodeInv

\* An attempt fails: once more, or the worker's end.
LEMMA DeliverFailsStep == ASSUME NodeInv, DeliverFails PROVE NodeInv'
<1> DEFINE d == Head(queues.items[Class])
<1>1. /\ tasks["event-queues"].pc = "pass" /\ queues.items[Class] # <<>> /\ UNCHANGED graphVars /\ queues' = queues
      /\ \/ /\ courier.attempt < RetryLimit /\ courier' = [courier EXCEPT !.attempt = courier.attempt + 1]
            /\ outlet' = [outlet EXCEPT !.told = ToldPlugin(d)] /\ tasks' = tasks
         \/ WorkerEnds(FALSE) /\ courier' = courier
    BY DEF DeliverFails, Worker
<1>2. DeliveryShape /\ QueueInv
    BY DEF NodeInv
<1>3. CASE WorkerEnds(FALSE) /\ courier' = courier
    BY <1>1, <1>3, WorkerEndsStep
<1>4. CASE /\ courier.attempt < RetryLimit /\ courier' = [courier EXCEPT !.attempt = courier.attempt + 1]
           /\ outlet' = [outlet EXCEPT !.told = ToldPlugin(d)] /\ tasks' = tasks
  <2>1. courier.attempt \in Nat /\ RetryLimit \in Nat /\ courier.attempt + 1 \in 0..RetryLimit /\ courier.attempt + 1 \in Nat
    BY <1>2, <1>4, QueueFields, NodeAssumption
  <2>2. courier \in CourierRecords /\ outlet \in OutletRecords
    BY <1>2, DeliveryFields
  <2>3. courier' \in CourierRecords /\ courier'.attempt = courier.attempt + 1
    BY <1>4, <2>1, <2>2 DEF CourierRecords
  <2>4. d \in Events /\ d.seq \in Nat
    <3>1. queues.items[Class] \in Seq(Events)
      BY <1>2, QueueFields
    <3>2. d \in Events
      BY <1>1, <3>1, TailIs
    <3> QED
      BY <3>2, EventFields
  <2> HIDE DEF d
  <2>5. ToldPlugin(d) \in SUBSET ({"plugin", "zeromq"} \X Nat) /\ outlet.told \subseteq ToldPlugin(d)
    BY <1>2, <2>4, QueueFields DEF ToldPlugin
  <2>6. /\ outlet' \in OutletRecords /\ outlet'.sent = outlet.sent /\ outlet'.waiting = outlet.waiting
        /\ outlet'.told = ToldPlugin(d) /\ outlet'.plugin = outlet.plugin /\ outlet'.zeromq = outlet.zeromq
    BY <1>4, <2>2, <2>5 DEF OutletRecords
  <2>7. OutletsUp'
    BY <1>2, <1>4, <2>6 DEF QueueInv, OutletsUp
  <2>8. QueueInv'
    BY <1>1, <1>2, <2>1, <2>3, <2>5, <2>6, <2>7, OutletKept
  <2>9. DeliveryShape'
    BY <1>1, <1>2, <1>4, <2>3, <2>6 DEF DeliveryShape
  <2> QED
    BY <1>1, <1>4, <2>8, <2>9, CallerRests, TasksRest DEF NodeInv
<1> QED
    BY <1>1, <1>3, <1>4

\* The worker's step to another place of its pass.
LEMMA WorkerMoves ==
    ASSUME NodeInv, tasks["event-queues"].pc \in {"pass", "tail"}, NEW pc \in {"pass", "tail"},
           tasks' = [tasks EXCEPT !["event-queues"].pc = pc] \/ tasks' = tasks,
           courier' \in CourierRecords, courier'.attempt = courier.attempt, UNCHANGED graphVars, UNCHANGED <<queues, outlet>>
    PROVE  NodeInv'
<1>1. DeliveryShape /\ QueueInv /\ "event-queues" \in Supervised
    BY DEF NodeInv, Supervised
<1>2. TaskInv' /\ tasks' \in [Supervised -> TaskRecords]
  <2>1. CASE tasks' = tasks
    BY <1>1, <2>1, TasksRest, DeliveryFields
  <2>2. CASE tasks' = [tasks EXCEPT !["event-queues"].pc = pc]
    <3>1. PcIs("event-queues")
      BY <1>1, <2>2, PcChange
    <3> QED
      BY <1>1, <3>1, TaskRuns DEF PcIs
  <2> QED
    BY <2>1, <2>2
<1>3. OutletsUp'
    BY <1>1 DEF QueueInv, OutletsUp
<1>4. QueueInv'
    BY <1>1, <1>3, QueueKept
<1>5. DeliveryShape'
    BY <1>1, <1>2 DEF DeliveryShape
<1> QED
    BY <1>2, <1>4, <1>5, CallerRests DEF NodeInv

\* A queue is empty: the next one, or the end of the pass.
LEMMA NextClassStep == ASSUME NodeInv, NextClass PROVE NodeInv'
<1> DEFINE later == {c \in DOMAIN QueueClasses : c > courier.class /\ queues.items[QueueClasses[c]] # <<>>}
<1>1. /\ tasks["event-queues"].pc = "pass" /\ UNCHANGED graphVars /\ UNCHANGED <<queues, outlet>>
      /\ \/ later # {} /\ courier' = [courier EXCEPT !.class = Min(later)] /\ tasks' = tasks
         \/ tasks' = [tasks EXCEPT !["event-queues"].pc = "tail"] /\ courier' = [courier EXCEPT !.class = 1]
    BY DEF NextClass, Worker
<1>2. DeliveryShape
    BY DEF NodeInv
<1>3. courier \in CourierRecords
    BY <1>2, DeliveryFields
<1>4. ASSUME later # {} PROVE Min(later) \in 1..3
  <2>1. later \in SUBSET (1..3)
    BY ClassesAre
  <2> HIDE DEF later
  <2>2. PICK m \in later : TRUE
    BY <1>4
  <2>3. \E x \in later : \A y \in later : x <= y
    <3>1. \A x \in later : x = 1 \/ x = 2 \/ x = 3
      BY <2>1
    <3>2. 1 \in later => \A y \in later : 1 <= y
      BY <3>1
    <3>3. 1 \notin later /\ 2 \in later => \A y \in later : 2 <= y
      BY <3>1
    <3>4. 1 \notin later /\ 2 \notin later => 3 \in later /\ \A y \in later : 3 <= y
      BY <2>2, <3>1
    <3> QED
      BY <3>2, <3>3, <3>4
  <2>4. Min(later) \in later
    BY <2>3 DEF Min
  <2> QED
    BY <2>1, <2>4
<1> HIDE DEF later
<1>5. courier' \in CourierRecords /\ courier'.attempt = courier.attempt
    BY <1>1, <1>3, <1>4 DEF CourierRecords
<1> QED
    BY <1>1, <1>5, WorkerMoves

\* After a pass: the worker's end or the next pass.
LEMMA PassDoneStep == ASSUME NodeInv, PassDone PROVE NodeInv'
<1>1. /\ tasks["event-queues"].pc = "tail" /\ UNCHANGED graphVars /\ queues' = queues /\ courier' = courier
      /\ \/ \E ok \in BOOLEAN : WorkerEnds(ok)
         \/ tasks' = [tasks EXCEPT !["event-queues"].pc = "pass"] /\ outlet' = outlet
    BY DEF PassDone, Worker
<1>2. courier \in CourierRecords
    BY DeliveryFields DEF NodeInv
<1>3. CASE \E ok \in BOOLEAN : WorkerEnds(ok)
    BY <1>1, <1>3, WorkerEndsStep
<1>4. CASE tasks' = [tasks EXCEPT !["event-queues"].pc = "pass"] /\ outlet' = outlet
    BY <1>1, <1>2, <1>4, WorkerMoves
<1> QED
    BY <1>1, <1>3, <1>4

\* The publisher sends the first message that waits.
LEMMA SendMessageStep == ASSUME NodeInv, SendMessage PROVE NodeInv'
<1> DEFINE d == Head(outlet.waiting)
<1> DEFINE rest == Tail(outlet.waiting)
<1> DEFINE out == Append(outlet.sent, d)
<1>1. /\ outlet.waiting # <<>> /\ UNCHANGED graphVars /\ UNCHANGED <<queues, courier, tasks>>
      /\ outlet' = [outlet EXCEPT !.waiting = rest, !.sent = out]
    BY DEF SendMessage
<1>2. DeliveryShape /\ QueueInv /\ QueuesInOrder /\ OutInOrder /\ Accounted /\ OutletsUp /\ AckedTold
    BY DEF NodeInv, QueueInv
<1>3. /\ outlet \in OutletRecords /\ outlet.sent \in Seq(Events) /\ outlet.waiting \in Seq(Events) /\ Len(outlet.waiting) \in Nat
      /\ \A c \in Classes : queues.items[c] \in Seq(Events)
    BY <1>2, DeliveryFields, QueueFields
<1>4. /\ d = outlet.waiting[1] /\ d \in Events /\ 1 \in DOMAIN outlet.waiting /\ rest \in Seq(Events)
      /\ Len(rest) < Len(outlet.waiting) /\ Len(rest) \in Nat
    BY <1>1, <1>3, TailIs
<1>14. \A i \in DOMAIN outlet.waiting : i = 1 \/ (i - 1 \in DOMAIN rest /\ rest[i - 1] = outlet.waiting[i])
    BY <1>1, <1>3, TailIs
<1>5. /\ Grows(rest) /\ Numbered(rest, queues.next) /\ d.seq < queues.next
      /\ \A i \in DOMAIN rest : rest[i].class = d.class => d.seq < rest[i].seq
      /\ Precedes(outlet.sent, rest) /\ \A c \in Classes : Precedes(rest, queues.items[c])
    BY <1>1, <1>2, <1>3, TailGrows DEF OutInOrder, QueuesInOrder
<1>6. \A i \in DOMAIN outlet.sent : outlet.sent[i].class = d.class => outlet.sent[i].seq < d.seq
    BY <1>2, <1>4 DEF OutInOrder, Precedes
<1>7. \A c \in Classes : \A j \in DOMAIN queues.items[c] : d.class = queues.items[c][j].class => d.seq < queues.items[c][j].seq
    BY <1>2, <1>4 DEF QueuesInOrder, Precedes
<1> HIDE DEF d, rest
<1>8. /\ out \in Seq(Events) /\ Grows(out) /\ Numbered(out, queues.next) /\ Precedes(out, rest)
      /\ \A c \in Classes : Precedes(out, queues.items[c])
  <2>1. /\ Grows(outlet.sent) /\ Numbered(outlet.sent, queues.next)
        /\ \A c \in Classes : Precedes(outlet.sent, queues.items[c])
    BY <1>2 DEF OutInOrder, QueuesInOrder
  <2>2. out \in Seq(Events) /\ Grows(out) /\ Numbered(out, queues.next)
    BY <1>3, <1>4, <1>5, <1>6, <2>1, AppendInOrder
  <2>3. Precedes(out, rest)
    <3>1. Precedes(outlet.sent, rest) /\ \A j \in DOMAIN rest : d.class = rest[j].class => d.seq < rest[j].seq
      BY <1>5
    <3> QED
      BY <1>3, <1>4, <3>1, AppendPrecedes
  <2>4. ASSUME NEW c \in Classes PROVE Precedes(out, queues.items[c])
    BY <1>3, <1>4, <1>7, <2>1, AppendPrecedes
  <2> QED
    BY <2>2, <2>3, <2>4
<1>15. Listed(d, out) /\ \A x : Listed(x, outlet.sent) => Listed(x, out)
    BY <1>3, <1>4, AppendLists
<1> HIDE DEF out
<1>9. /\ outlet' \in OutletRecords /\ outlet'.sent = out /\ outlet'.waiting = rest
      /\ outlet'.told = outlet.told /\ outlet'.plugin = outlet.plugin /\ outlet'.zeromq = outlet.zeromq
    BY <1>1, <1>3, <1>4, <1>8 DEF OutletRecords
<1>10. QueuesInOrder'
    BY <1>1, <1>2, <1>5, <1>8, <1>9 DEF QueuesInOrder
<1>11. OutInOrder'
  <2>1. SendHwm \in Nat /\ Len(rest) <= SendHwm + 1
    BY <1>2, <1>3, <1>4, NodeAssumption DEF OutInOrder
  <2> QED
    BY <1>1, <1>2, <1>5, <1>8, <1>9, <2>1 DEF OutInOrder
<1>12. Accounted' /\ AckedTold' /\ OutletsUp'
  <2>1. Accounted' /\ OutletsUp'
    BY <1>1, <1>2, <1>9 DEF Accounted, OutletsUp
  <2>2. ASSUME NEW x, Listed(x, outlet.sent) \/ Listed(x, outlet.waiting) PROVE Listed(x, out) \/ Listed(x, rest)
    <3>1. CASE Listed(x, outlet.sent)
      BY <1>15, <3>1
    <3>2. CASE Listed(x, outlet.waiting)
      <4>1. PICK i \in DOMAIN outlet.waiting : outlet.waiting[i] = x
        BY <3>2 DEF Listed
      <4>2. CASE i = 1
        BY <1>4, <1>15, <4>1, <4>2
      <4>3. CASE i # 1
        <5>1. i - 1 \in DOMAIN rest /\ rest[i - 1] = x
          BY <1>14, <4>1, <4>3
        <5> QED
          BY <5>1 DEF Listed
      <4> QED
        BY <4>2, <4>3
    <3> QED
      BY <2>2, <3>1, <3>2
  <2>3. AckedTold'
    BY <1>1, <1>2, <1>9, <2>2 DEF AckedTold
  <2> QED
    BY <2>1, <2>3
<1>13. DeliveryShape'
    BY <1>1, <1>2, <1>9 DEF DeliveryShape
<1> QED
    BY <1>1, <1>10, <1>11, <1>12, <1>13, CallerRests, TasksRest DEF NodeInv, QueueInv

\* The publisher fails with what waits, or the plugin exits.
LEMMA OutletFailsStep == ASSUME NodeInv, OutletFails PROVE NodeInv'
<1>1. /\ UNCHANGED graphVars /\ UNCHANGED <<queues, courier, tasks>>
      /\ \/ outlet' = [outlet EXCEPT !.zeromq = "dead"]
         \/ outlet' = [outlet EXCEPT !.plugin = "dead"]
    BY DEF OutletFails
<1>2. DeliveryShape /\ QueueInv
    BY DEF NodeInv
<1>3. outlet \in OutletRecords /\ courier \in CourierRecords
    BY <1>2, DeliveryFields
<1>4. /\ outlet' \in OutletRecords /\ outlet'.sent = outlet.sent /\ outlet'.waiting = outlet.waiting
      /\ outlet'.told = outlet.told /\ outlet'.plugin \in {outlet.plugin, "dead"} /\ outlet'.zeromq \in {outlet.zeromq, "dead"}
    BY <1>1, <1>3 DEF OutletRecords
<1>5. OutletsUp'
    BY <1>1, <1>2, <1>4 DEF QueueInv, OutletsUp
<1>6. QueueInv'
    BY <1>1, <1>2, <1>3, <1>4, <1>5, OutletKept DEF QueueInv, OutInOrder
<1>7. DeliveryShape'
    BY <1>1, <1>2, <1>4 DEF DeliveryShape
<1> QED
    BY <1>1, <1>6, <1>7, CallerRests, TasksRest DEF NodeInv

\* The queues with one class's list replaced.
LEMMA ItemsReplaced ==
    ASSUME DeliveryShape, NEW c \in Classes, NEW list \in Seq(Events), NEW next \in Nat, NEW acked \in SUBSET Events,
           queues' = [queues EXCEPT !.next = next, !.items[c] = list, !.acked = acked]
    PROVE  /\ queues' \in QueueRecords /\ queues'.next = next /\ queues'.acked = acked
           /\ queues'.items[c] = list /\ \A k \in Classes : k # c => queues'.items[k] = queues.items[k]
<1>1. queues \in QueueRecords /\ queues.items \in [Classes -> Seq(Events)]
    BY DeliveryFields, QueueFields
<1> DEFINE items == [queues.items EXCEPT ![c] = list]
<1>2. items \in [Classes -> Seq(Events)] /\ items[c] = list /\ \A k \in Classes : k # c => items[k] = queues.items[k]
    BY <1>1
<1>3. queues' = [queues EXCEPT !.next = next, !.items = items, !.acked = acked]
    BY <1>1 DEF QueueRecords
<1> HIDE DEF items
<1>4. queues' \in QueueRecords /\ queues'.next = next /\ queues'.acked = acked /\ queues'.items = items
    BY <1>1, <1>2, <1>3 DEF QueueRecords, Classes
<1> QED
    BY <1>2, <1>4

\* The first event of a queue is delivered and acknowledged.
LEMMA DeliverStep == ASSUME NodeInv, Deliver PROVE NodeInv'
<1> DEFINE q == queues.items[Class]
<1> DEFINE d == Head(q)
<1> DEFINE rest == Tail(q)
<1> DEFINE told == ToldPlugin(d) \cup (IF outlet.zeromq = "live" THEN {<<"zeromq", d.seq>>} ELSE {})
<1> DEFINE wait == IF outlet.zeromq = "live" THEN Append(outlet.waiting, d) ELSE outlet.waiting
<1>1. /\ tasks["event-queues"].pc = "pass" /\ q # <<>> /\ UNCHANGED graphVars /\ tasks' = tasks
      /\ d.kind = "filter" \/ ((ToPlugin(d) => outlet.plugin # "dead") /\ (outlet.zeromq = "off" \/ OutletTakes))
      /\ d.kind = "filter" => outlet' = outlet
      /\ d.kind # "filter" => outlet' = [outlet EXCEPT !.told = told, !.waiting = wait]
      /\ queues' = [queues EXCEPT !.items[Class] = rest, !.acked = queues.acked \cup {d}]
      /\ courier' = [courier EXCEPT !.attempt = 0]
    BY DEF Deliver, Worker, AcknowledgeOf
<1>2. DeliveryShape /\ QueueInv /\ QueuesInOrder /\ OutInOrder /\ Accounted /\ OutletsUp /\ AckedTold
    BY DEF NodeInv, QueueInv
<1>3. /\ outlet \in OutletRecords /\ outlet.sent \in Seq(Events) /\ outlet.waiting \in Seq(Events) /\ Len(outlet.waiting) \in Nat
      /\ \A c \in Classes : queues.items[c] \in Seq(Events) /\ Len(queues.items[c]) \in Nat
      /\ Class \in Classes /\ q \in Seq(Events) /\ Len(q) \in Nat
      /\ queues.acked \in SUBSET Events /\ queues.next \in Nat /\ courier \in CourierRecords
      /\ outlet.told \in SUBSET ({"plugin", "zeromq"} \X Nat) /\ queues \in QueueRecords
    BY <1>2, DeliveryFields, QueueFields
<1>4. /\ d = q[1] /\ d \in Events /\ 1 \in DOMAIN q /\ rest \in Seq(Events) /\ Len(rest) < Len(q) /\ Len(rest) \in Nat
      /\ \A i \in DOMAIN rest : i + 1 \in DOMAIN q /\ rest[i] = q[i + 1]
      /\ \A i \in DOMAIN q : i = 1 \/ (i - 1 \in DOMAIN rest /\ rest[i - 1] = q[i])
    BY <1>1, <1>3, TailIs
<1>5. d.seq \in Nat /\ d.class = Class
    BY <1>2, <1>3, <1>4, EventFields DEF QueuesInOrder
<1>6. /\ Grows(rest) /\ Numbered(rest, queues.next) /\ d.seq < queues.next
      /\ \A i \in DOMAIN rest : rest[i].class = d.class => d.seq < rest[i].seq
      /\ Precedes(outlet.sent, rest) /\ Precedes(outlet.waiting, rest)
    BY <1>1, <1>2, <1>3, TailGrows DEF QueuesInOrder
<1>7. /\ \A i \in DOMAIN outlet.sent : outlet.sent[i].class = d.class => outlet.sent[i].seq < d.seq
      /\ \A i \in DOMAIN outlet.waiting : outlet.waiting[i].class = d.class => outlet.waiting[i].seq < d.seq
  <2>1. Precedes(outlet.sent, q) /\ Precedes(outlet.waiting, q)
    BY <1>2, <1>3 DEF QueuesInOrder
  <2> HIDE DEF q, d
  <2> QED
    BY <1>4, <2>1 DEF Precedes
<1>8. /\ queues' \in QueueRecords /\ queues'.next = queues.next /\ queues'.acked = queues.acked \cup {d}
      /\ queues'.items[Class] = rest /\ \A k \in Classes : k # Class => queues'.items[k] = queues.items[k]
  <2> DEFINE acked == queues.acked \cup {d}
  <2>1. acked \in SUBSET Events
    BY <1>3, <1>4
  <2> HIDE DEF rest, acked
  <2>2. queues' = [queues EXCEPT !.next = queues.next, !.items[Class] = rest, !.acked = acked]
    BY <1>1, <1>3 DEF acked, QueueRecords
  <2> QED
    BY <1>2, <1>3, <1>4, <2>1, <2>2, ItemsReplaced DEF acked
<1>9. courier' \in CourierRecords /\ courier'.attempt = 0 /\ 0 \in 0..RetryLimit
  <2>1. courier \in CourierRecords /\ courier' = [courier EXCEPT !.attempt = 0]
    BY <1>1, <1>3
  <2>2. courier' \in CourierRecords /\ courier'.attempt = 0
    BY <2>1 DEF CourierRecords
  <2>3. RetryLimit \in Nat
    BY NodeAssumption
  <2> QED
    BY <2>2, <2>3
<1>10. \A c \in Classes : c # Class => \A j \in DOMAIN queues.items[c] : queues.items[c][j].class # d.class
    BY <1>2, <1>3, <1>5 DEF QueuesInOrder
<1>11. told \in SUBSET ({"plugin", "zeromq"} \X Nat) /\ outlet.told \subseteq told
    BY <1>3, <1>5 DEF ToldPlugin
<1>12. /\ outlet.plugin = "live" /\ ToPlugin(d) => <<"plugin", d.seq>> \in told
       /\ outlet.zeromq = "live" => <<"zeromq", d.seq>> \in told
    BY DEF ToldPlugin
<1>13. rest = Tail(q) /\ d = Head(q)
    OBVIOUS
<1> HIDE DEF d, rest, told
<1>14. /\ wait \in Seq(Events) /\ Grows(wait) /\ Precedes(outlet.sent, wait) /\ Numbered(wait, queues.next)
       /\ Precedes(wait, rest) /\ \A c \in Classes : c # Class => Precedes(wait, queues.items[c])
  <2>1. CASE outlet.zeromq = "live"
    <3>1. wait = Append(outlet.waiting, d)
      BY <2>1
    <3>2. \A c \in Classes : c # Class => Precedes(Append(outlet.waiting, d), queues.items[c])
      <4> SUFFICES ASSUME NEW c \in Classes, c # Class PROVE Precedes(Append(outlet.waiting, d), queues.items[c])
        OBVIOUS
      <4>1. Precedes(outlet.waiting, queues.items[c])
        BY <1>2 DEF QueuesInOrder
      <4>2. \A j \in DOMAIN queues.items[c] : d.class = queues.items[c][j].class => d.seq < queues.items[c][j].seq
        BY <1>10
      <4> QED
        BY <1>3, <1>4, <4>1, <4>2, AppendPrecedes
    <3>3. /\ Append(outlet.waiting, d) \in Seq(Events) /\ Grows(Append(outlet.waiting, d))
          /\ Precedes(outlet.sent, Append(outlet.waiting, d)) /\ Numbered(Append(outlet.waiting, d), queues.next)
          /\ Precedes(Append(outlet.waiting, d), rest)
      <4>1. Grows(outlet.waiting) /\ Numbered(outlet.waiting, queues.next) /\ Precedes(outlet.sent, outlet.waiting)
        BY <1>2 DEF OutInOrder
      <4>2. Append(outlet.waiting, d) \in Seq(Events) /\ Grows(Append(outlet.waiting, d)) /\ Numbered(Append(outlet.waiting, d), queues.next)
        BY <1>3, <1>4, <1>6, <1>7, <4>1, AppendInOrder
      <4>3. Precedes(outlet.sent, Append(outlet.waiting, d))
        BY <1>3, <1>4, <1>7, <4>1, PrecedesAppend
      <4>4. Precedes(outlet.waiting, rest) /\ \A j \in DOMAIN rest : d.class = rest[j].class => d.seq < rest[j].seq
        BY <1>6
      <4>5. Precedes(Append(outlet.waiting, d), rest)
        BY <1>3, <1>4, <4>4, AppendPrecedes
      <4> QED
        BY <4>2, <4>3, <4>5
    <3> QED
      BY <3>1, <3>2, <3>3
  <2>2. CASE outlet.zeromq # "live"
    BY <1>2, <1>3, <1>6, <2>2 DEF OutInOrder, QueuesInOrder
  <2> QED
    BY <2>1, <2>2
<1>15. d.kind # "filter" => Len(wait) <= SendHwm + 1
  <2>1. SendHwm \in Nat
    BY NodeAssumption
  <2>2. Len(Append(outlet.waiting, d)) = Len(outlet.waiting) + 1
    BY <1>3, <1>4
  <2> QED
    BY <1>1, <1>2, <1>3, <2>1, <2>2 DEF OutletTakes, OutInOrder
<1> HIDE DEF wait
<1>16. /\ outlet' \in OutletRecords /\ outlet'.sent = outlet.sent /\ outlet'.waiting \in {outlet.waiting, wait}
       /\ Len(outlet'.waiting) <= SendHwm + 1
       /\ outlet'.plugin = outlet.plugin /\ outlet'.zeromq = outlet.zeromq
       /\ outlet.told \subseteq outlet'.told
       /\ d.kind # "filter" => outlet'.told = told /\ outlet'.waiting = wait
  <2>1. CASE d.kind = "filter"
    BY <1>1, <1>2, <1>3, <2>1 DEF OutInOrder
  <2>2. CASE d.kind # "filter"
    <3>1. /\ outlet' \in OutletRecords /\ outlet'.sent = outlet.sent /\ outlet'.waiting = wait
          /\ outlet'.plugin = outlet.plugin /\ outlet'.zeromq = outlet.zeromq /\ outlet'.told = told
      BY <1>1, <1>3, <1>11, <1>14, <2>2 DEF OutletRecords
    <3> QED
      BY <1>11, <1>15, <2>2, <3>1
  <2> QED
    BY <2>1, <2>2
<1>17. ASSUME NEW c \in Classes
       PROVE  /\ Len(queues'.items[c]) <= QueueCaps[c] /\ Grows(queues'.items[c]) /\ Numbered(queues'.items[c], queues.next)
              /\ \A i \in DOMAIN queues'.items[c] : queues'.items[c][i].class = c
              /\ Precedes(outlet.sent, queues'.items[c]) /\ Precedes(outlet.waiting, queues'.items[c])
              /\ Precedes(wait, queues'.items[c])
  <2>1. CASE c # Class
    BY <1>2, <1>8, <1>14, <2>1 DEF QueuesInOrder
  <2>2. CASE c = Class
    <3>1. QueueCaps[c] \in Nat /\ Len(q) <= QueueCaps[c]
      BY <1>2, <1>3, <2>2, NodeAssumption DEF QueuesInOrder, Classes
    <3>2. \A i \in DOMAIN rest : rest[i].class = c
      BY <1>2, <1>3, <1>4, <2>2 DEF QueuesInOrder
    <3>3. Len(rest) <= QueueCaps[c]
      BY <1>3, <1>4, <3>1
    <3> QED
      BY <1>6, <1>8, <1>14, <2>2, <3>2, <3>3
  <2> QED
    BY <2>1, <2>2
<1>18. QueuesInOrder'
    BY <1>8, <1>16, <1>17 DEF QueuesInOrder
<1>19. OutInOrder'
    BY <1>2, <1>8, <1>9, <1>14, <1>16 DEF OutInOrder
<1>20. Accounted'
  <2> SUFFICES ASSUME NEW n \in Nat
               PROVE  n < queues.next <=>
                        \/ \E x \in queues'.acked : x.seq = n
                        \/ \E c \in Classes : \E i \in DOMAIN queues'.items[c] : queues'.items[c][i].seq = n
    BY <1>8 DEF Accounted
  <2>1. n < queues.next <=>
          \/ \E x \in queues.acked : x.seq = n
          \/ \E c \in Classes : \E i \in DOMAIN queues.items[c] : queues.items[c][i].seq = n
    BY <1>2 DEF Accounted
  <2>2. (\E c \in Classes : \E i \in DOMAIN queues'.items[c] : queues'.items[c][i].seq = n) => n < queues.next
    BY <1>17 DEF Numbered
  <2>3. (\E x \in queues'.acked : x.seq = n) => n < queues.next
    BY <1>6, <1>8, <2>1
  <2>4. (\E x \in queues.acked : x.seq = n) => \E x \in queues'.acked : x.seq = n
    BY <1>8
  <2>5. ASSUME NEW c \in Classes, NEW i \in DOMAIN queues.items[c], queues.items[c][i].seq = n
        PROVE  \/ \E x \in queues'.acked : x.seq = n
               \/ \E k \in Classes : \E j \in DOMAIN queues'.items[k] : queues'.items[k][j].seq = n
    <3>1. CASE c # Class
      <4>1. queues'.items[c] = queues.items[c]
        BY <1>8, <3>1
      <4> QED
        BY <2>5, <4>1
    <3>2. CASE c = Class /\ i = 1
      <4>1. d \in queues'.acked /\ d.seq = n
        BY <1>4, <1>8, <2>5, <3>2
      <4> QED
        BY <4>1
    <3>3. CASE c = Class /\ i # 1
      <4>1. i - 1 \in DOMAIN rest /\ rest[i - 1] = q[i] /\ rest[i - 1].seq = n
        BY <1>4, <2>5, <3>3
      <4>2. i - 1 \in DOMAIN queues'.items[Class] /\ queues'.items[Class][i - 1].seq = n
        BY <1>8, <4>1
      <4> QED
        BY <1>3, <4>2
    <3> QED
      BY <3>1, <3>2, <3>3
  <2> QED
    BY <2>1, <2>2, <2>3, <2>4, <2>5
<1>21. OutletsUp'
    BY <1>1, <1>2, <1>16 DEF OutletsUp
<1>22. AckedTold'
  <2>1. /\ d.kind # "filter" /\ "plugin" \in Outlets /\ Accepts(d) => outlet.plugin = "live"
        /\ d.kind # "filter" /\ "zeromq" \in Outlets => outlet.zeromq = "live"
    <3>1. outlet.plugin \in {"off", "live", "dead"}
      BY <1>3 DEF OutletRecords
    <3> QED
      BY <1>1, <1>2, <3>1 DEF OutletsUp, OutletTakes, ToPlugin
  <2>2. ASSUME NEW x \in queues.acked \cup {d}, NEW o \in Outlets, x.kind # "filter", o = "plugin" => Accepts(x)
        PROVE  <<o, x.seq>> \in outlet'.told
    <3>1. CASE x \in queues.acked
      BY <1>2, <1>16, <2>2, <3>1 DEF AckedTold
    <3>2. CASE x = d
      <4>1. outlet'.told = told
        BY <1>16, <2>2, <3>2
      <4>2. o = "plugin" \/ o = "zeromq"
        BY NodeAssumption
      <4>3. o = "plugin" => ToPlugin(d)
        BY <2>2, <3>2 DEF ToPlugin
      <4> QED
        BY <1>12, <2>1, <2>2, <3>2, <4>1, <4>2, <4>3
    <3> QED
      BY <3>1, <3>2
  <2>3. \A x : Listed(x, outlet.waiting) => Listed(x, outlet'.waiting)
    <3>1. Len(Append(outlet.waiting, d)) = Len(outlet.waiting) + 1
      BY <1>3, <1>4
    <3>2. \A i \in DOMAIN outlet.waiting : i \in DOMAIN wait /\ wait[i] = outlet.waiting[i]
      BY <1>3, <1>4, <3>1 DEF wait
    <3>3. \A x : Listed(x, outlet.waiting) => Listed(x, wait)
      BY <3>2 DEF Listed
    <3> QED
      BY <1>16, <3>3
  <2>4. ASSUME NEW x \in queues.acked \cup {d}, x.kind # "filter", "zeromq" \in Outlets
        PROVE  Listed(x, outlet'.sent) \/ Listed(x, outlet'.waiting)
    <3>1. CASE x \in queues.acked
      BY <1>2, <1>16, <2>3, <2>4, <3>1 DEF AckedTold
    <3>2. CASE x = d
      <4>1. outlet'.waiting = Append(outlet.waiting, d)
        BY <1>16, <2>1, <2>4, <3>2 DEF wait
      <4>2. Len(Append(outlet.waiting, d)) \in DOMAIN Append(outlet.waiting, d) /\ Append(outlet.waiting, d)[Len(Append(outlet.waiting, d))] = d
        BY <1>3, <1>4
      <4> QED
        BY <3>2, <4>1, <4>2 DEF Listed
    <3> QED
      BY <3>1, <3>2
  <2> QED
    BY <1>8, <2>2, <2>4 DEF AckedTold
<1>23. DeliveryShape'
    BY <1>1, <1>2, <1>8, <1>9, <1>16 DEF DeliveryShape
<1> QED
    BY <1>1, <1>18, <1>19, <1>20, <1>21, <1>22, <1>23, CallerRests, TasksRest DEF NodeInv, QueueInv

\* One list after another.
LEMMA JoinedLists ==
    ASSUME NEW s \in Seq(Events), NEW t \in Seq(Events)
    PROVE  /\ s \o t \in Seq(Events) /\ Len(s \o t) = Len(s) + Len(t)
           /\ \A i \in DOMAIN (s \o t) :
                \/ i \in DOMAIN s /\ (s \o t)[i] = s[i] /\ i <= Len(s)
                \/ i - Len(s) \in DOMAIN t /\ (s \o t)[i] = t[i - Len(s)] /\ i > Len(s)
           /\ \A i \in DOMAIN s : i \in DOMAIN (s \o t) /\ (s \o t)[i] = s[i]
           /\ \A i \in DOMAIN t : i + Len(s) \in DOMAIN (s \o t) /\ (s \o t)[i + Len(s)] = t[i]
OBVIOUS

\* Two lists in order, the one before the other, are in order together.
LEMMA JoinedGrows ==
    ASSUME NEW s \in Seq(Events), NEW t \in Seq(Events), Grows(s), Grows(t), Precedes(s, t)
    PROVE  Grows(s \o t)
<1> DEFINE u == s \o t
<1>1. /\ Len(s) \in Nat /\ DOMAIN s \subseteq Nat /\ DOMAIN t \subseteq Nat /\ DOMAIN u \subseteq Nat
      /\ \A i \in DOMAIN u : \/ i \in DOMAIN s /\ u[i] = s[i] /\ i <= Len(s)
                             \/ i - Len(s) \in DOMAIN t /\ u[i] = t[i - Len(s)] /\ i > Len(s)
    BY JoinedLists
<1> HIDE DEF u
<1> SUFFICES ASSUME NEW i \in DOMAIN u, NEW j \in DOMAIN u, i < j, u[i].class = u[j].class PROVE u[i].seq < u[j].seq
    BY DEF Grows, u
<1>2. i \in Nat /\ j \in Nat
    BY <1>1
<1>3. CASE i \in DOMAIN s /\ u[i] = s[i] /\ j \in DOMAIN s /\ u[j] = s[j]
    BY <1>3 DEF Grows
<1>4. CASE i \in DOMAIN s /\ u[i] = s[i] /\ j - Len(s) \in DOMAIN t /\ u[j] = t[j - Len(s)]
    BY <1>4 DEF Precedes
<1>5. CASE i - Len(s) \in DOMAIN t /\ u[i] = t[i - Len(s)] /\ j - Len(s) \in DOMAIN t /\ u[j] = t[j - Len(s)]
  <2>1. i - Len(s) < j - Len(s)
    BY <1>1, <1>2
  <2> QED
    BY <1>5, <2>1 DEF Grows
<1> QED
    BY <1>1, <1>2, <1>3, <1>4, <1>5

\* A batch is numbered from the next number on.
LEMMA FreshEvents ==
    ASSUME NEW batch \in EventBatches, NEW class \in Classes, NEW next \in Nat
    PROVE  LET fresh == [i \in DOMAIN batch |-> [seq |-> next + i - 1, class |-> class, kind |-> batch[i].kind, height |-> batch[i].height]]
           IN  /\ fresh \in Seq(Events) /\ Len(fresh) = Len(batch) /\ Len(batch) \in Nat /\ Grows(fresh)
               /\ Numbered(fresh, next + Len(batch)) /\ DOMAIN fresh = 1..Len(batch)
               /\ \A i \in DOMAIN fresh : fresh[i].class = class /\ fresh[i].seq = next + i - 1 /\ next <= fresh[i].seq
<1> DEFINE rec(i) == [seq |-> next + i - 1, class |-> class, kind |-> batch[i].kind, height |-> batch[i].height]
<1> DEFINE fresh == [i \in DOMAIN batch |-> rec(i)]
<1>1. batch \in Seq([kind : Kinds, removed : BOOLEAN, height : Nat])
    BY NodeAssumption DEF Kinds
<1>2. /\ Len(batch) \in Nat /\ DOMAIN batch = 1..Len(batch)
      /\ \A i \in 1..Len(batch) : batch[i].kind \in Kinds /\ batch[i].height \in Nat
  <2> DEFINE R == [kind : Kinds, removed : BOOLEAN, height : Nat]
  <2>1. \A r \in R : r.kind \in Kinds /\ r.height \in Nat
    OBVIOUS
  <2>2. batch \in Seq(R)
    BY <1>1
  <2> HIDE DEF R
  <2>3. \A i \in 1..Len(batch) : batch[i] \in R
    BY <2>2
  <2> QED
    BY <2>1, <2>2, <2>3
<1>3. ASSUME NEW i \in 1..Len(batch)
      PROVE  rec(i) \in Events /\ rec(i).class = class /\ rec(i).seq = next + i - 1 /\ next <= rec(i).seq
  <2>1. next + i - 1 \in Nat /\ next <= next + i - 1 /\ batch[i].kind \in Kinds /\ batch[i].height \in Nat
    BY <1>2
  <2> QED
    BY <2>1 DEF Events, Classes
<1> HIDE DEF rec
<1>4. fresh \in Seq(Events) /\ Len(fresh) = Len(batch) /\ DOMAIN fresh = 1..Len(batch)
    BY <1>2, <1>3
<1>5. \A i \in DOMAIN fresh : fresh[i].class = class /\ fresh[i].seq = next + i - 1 /\ next <= fresh[i].seq
    BY <1>2, <1>3
<1> HIDE DEF fresh
<1>6. Grows(fresh) /\ Numbered(fresh, next + Len(batch))
  <2>1. \A i \in DOMAIN fresh : i \in 1..Len(batch) /\ fresh[i].seq = next + i - 1
    BY <1>4, <1>5
  <2> QED
    BY <1>2, <2>1 DEF Grows, Numbered
<1>7. fresh = [i \in DOMAIN batch |-> [seq |-> next + i - 1, class |-> class, kind |-> batch[i].kind, height |-> batch[i].height]]
    BY DEF fresh, rec
<1> QED
    BY <1>2, <1>4, <1>5, <1>6, <1>7

\* A batch goes into its queue, numbered from the next number on.
LEMMA PushBatchStep ==
    ASSUME NodeInv, NEW class \in Classes, NEW batch \in EventBatches, PushBatch(class, batch)
    PROVE  NodeInv'
<1> DEFINE fresh == [i \in DOMAIN batch |-> [seq |-> queues.next + i - 1, class |-> class, kind |-> batch[i].kind, height |-> batch[i].height]]
<1> DEFINE q == queues.items[class]
<1> DEFINE joined == q \o fresh
<1> DEFINE next == queues.next + Len(batch)
<1>1. /\ Len(q) + Len(batch) <= QueueCaps[class]
      /\ queues' = [queues EXCEPT !.next = next, !.items[class] = joined]
      /\ UNCHANGED graphVars /\ UNCHANGED <<courier, tasks, outlet>>
    BY DEF PushBatch
<1>2. DeliveryShape /\ QueueInv /\ QueuesInOrder /\ OutInOrder /\ Accounted /\ OutletsUp /\ AckedTold
    BY DEF NodeInv, QueueInv
<1>3. /\ outlet.sent \in Seq(Events) /\ outlet.waiting \in Seq(Events) /\ queues \in QueueRecords
      /\ q \in Seq(Events) /\ Len(q) \in Nat /\ queues.acked \in SUBSET Events /\ queues.next \in Nat
      /\ \A c \in Classes : queues.items[c] \in Seq(Events)
    BY <1>2, DeliveryFields, QueueFields
<1>4. /\ fresh \in Seq(Events) /\ Len(fresh) = Len(batch) /\ Len(batch) \in Nat /\ Grows(fresh)
      /\ Numbered(fresh, next) /\ DOMAIN fresh = 1..Len(batch)
      /\ \A i \in DOMAIN fresh : fresh[i].class = class /\ fresh[i].seq = queues.next + i - 1 /\ queues.next <= fresh[i].seq
    BY <1>3, FreshEvents
<1> HIDE DEF fresh
<1>5. /\ joined \in Seq(Events) /\ Len(joined) = Len(q) + Len(batch)
      /\ \A i \in DOMAIN joined :
            \/ i \in DOMAIN q /\ joined[i] = q[i]
            \/ i - Len(q) \in DOMAIN fresh /\ joined[i] = fresh[i - Len(q)]
      /\ \A i \in DOMAIN q : i \in DOMAIN joined /\ joined[i] = q[i]
      /\ \A i \in DOMAIN fresh : i + Len(q) \in DOMAIN joined /\ joined[i + Len(q)] = fresh[i]
  <2> HIDE DEF q
  <2>1. q \in Seq(Events) /\ fresh \in Seq(Events) /\ Len(fresh) = Len(batch)
    BY <1>3, <1>4
  <2>2. \A i \in DOMAIN joined :
            \/ i \in DOMAIN q /\ joined[i] = q[i]
            \/ i - Len(q) \in DOMAIN fresh /\ joined[i] = fresh[i - Len(q)]
    BY ONLY <2>1, JoinedLists
  <2>3. \A i \in DOMAIN q : i \in DOMAIN joined /\ joined[i] = q[i]
    BY ONLY <2>1, JoinedLists
  <2>4. \A i \in DOMAIN fresh : i + Len(q) \in DOMAIN joined /\ joined[i + Len(q)] = fresh[i]
    BY ONLY <2>1, JoinedLists
  <2>5. joined \in Seq(Events) /\ Len(joined) = Len(q) + Len(batch)
    BY ONLY <2>1, JoinedLists
  <2> QED
    BY <2>2, <2>3, <2>4, <2>5
<1>6. next \in Nat /\ queues.next <= next
    BY <1>3, <1>4
<1>7. \A s : \A i \in DOMAIN fresh : \A j : Numbered(s, queues.next) /\ j \in DOMAIN s /\ s[j].seq \in Nat => s[j].seq < fresh[i].seq
  <2> SUFFICES ASSUME NEW s, NEW i \in DOMAIN fresh, NEW j \in DOMAIN s, Numbered(s, queues.next), s[j].seq \in Nat
               PROVE  s[j].seq < fresh[i].seq
    OBVIOUS
  <2>1. s[j].seq < queues.next /\ queues.next <= fresh[i].seq
    BY <1>4 DEF Numbered
  <2>2. fresh[i].seq \in Nat
    BY <1>4, EventFields
  <2> QED
    BY <1>3, <2>1, <2>2
<1>8. \A s \in Seq(Events) : Numbered(s, queues.next) => Precedes(s, fresh) /\ Numbered(s, next)
  <2> SUFFICES ASSUME NEW s \in Seq(Events), Numbered(s, queues.next) PROVE Precedes(s, fresh) /\ Numbered(s, next)
    OBVIOUS
  <2>1. \A j \in DOMAIN s : s[j].seq \in Nat
    BY EventFields
  <2>2. Numbered(s, next)
    BY <1>3, <1>6, <2>1 DEF Numbered
  <2> QED
    BY <1>7, <2>1, <2>2 DEF Precedes
<1>9. Grows(joined)
    BY <1>2, <1>3, <1>4, <1>8, JoinedGrows DEF QueuesInOrder
<1>10. Numbered(joined, next) /\ \A i \in DOMAIN joined : joined[i].class = class
  <2>1. Numbered(q, next) /\ \A i \in DOMAIN q : q[i].class = class
    BY <1>2, <1>3, <1>8 DEF QueuesInOrder
  <2> HIDE DEF q, joined, next
  <2> QED
    BY <1>4, <1>5, <2>1 DEF Numbered
<1>11. ASSUME NEW s \in Seq(Events), Numbered(s, queues.next), Precedes(s, q) PROVE Precedes(s, joined)
  <2>1. Precedes(s, fresh)
    BY <1>8, <1>11
  <2> HIDE DEF q, joined
  <2> QED
    BY <1>5, <1>11, <2>1 DEF Precedes
<1>12. Precedes(outlet.sent, joined) /\ Precedes(outlet.waiting, joined)
    BY <1>2, <1>3, <1>11 DEF QueuesInOrder, OutInOrder
<1> HIDE DEF joined, next
<1>13. /\ queues' \in QueueRecords /\ queues'.next = next /\ queues'.acked = queues.acked
       /\ queues'.items[class] = joined /\ \A k \in Classes : k # class => queues'.items[k] = queues.items[k]
  <2>1. queues' = [queues EXCEPT !.next = next, !.items[class] = joined, !.acked = queues.acked]
    BY <1>1, <1>3 DEF QueueRecords
  <2> QED
    BY <1>2, <1>3, <1>5, <1>6, <2>1, ItemsReplaced
<1>14. ASSUME NEW c \in Classes
       PROVE  /\ Len(queues'.items[c]) <= QueueCaps[c] /\ Grows(queues'.items[c]) /\ Numbered(queues'.items[c], next)
              /\ \A i \in DOMAIN queues'.items[c] : queues'.items[c][i].class = c
              /\ Precedes(outlet.sent, queues'.items[c]) /\ Precedes(outlet.waiting, queues'.items[c])
  <2>1. CASE c # class
    BY <1>2, <1>3, <1>8, <1>13, <2>1 DEF QueuesInOrder
  <2>2. CASE c = class
    BY <1>1, <1>5, <1>9, <1>10, <1>12, <1>13, <2>2
  <2> QED
    BY <2>1, <2>2
<1>15. QueuesInOrder'
    BY <1>1, <1>13, <1>14 DEF QueuesInOrder
<1>16. OutInOrder'
    BY <1>1, <1>2, <1>3, <1>8, <1>13 DEF OutInOrder
<1>17. Accounted'
  <2> SUFFICES ASSUME NEW n \in Nat
               PROVE  n < next <=>
                        \/ \E x \in queues.acked : x.seq = n
                        \/ \E c \in Classes : \E i \in DOMAIN queues'.items[c] : queues'.items[c][i].seq = n
    BY <1>13 DEF Accounted
  <2>1. n < queues.next <=>
          \/ \E x \in queues.acked : x.seq = n
          \/ \E c \in Classes : \E i \in DOMAIN queues.items[c] : queues.items[c][i].seq = n
    BY <1>2 DEF Accounted
  <2>2. (\E c \in Classes : \E i \in DOMAIN queues'.items[c] : queues'.items[c][i].seq = n) => n < next
    BY <1>14 DEF Numbered
  <2>3. n < queues.next => n < next
    BY <1>3, <1>6
  <2>4. ASSUME NEW c \in Classes, NEW i \in DOMAIN queues.items[c], queues.items[c][i].seq = n
        PROVE  \E k \in Classes : \E j \in DOMAIN queues'.items[k] : queues'.items[k][j].seq = n
    <3>1. i \in DOMAIN queues'.items[c] /\ queues'.items[c][i] = queues.items[c][i]
      BY <1>5, <1>13
    <3> QED
      BY <2>4, <3>1
  <2>5. ASSUME n < next, ~(n < queues.next)
        PROVE  \E k \in Classes : \E j \in DOMAIN queues'.items[k] : queues'.items[k][j].seq = n
    <3> DEFINE i == n - queues.next + 1
    <3>1. i \in 1..Len(batch) /\ queues.next + i - 1 = n
      BY <1>3, <1>4, <2>5 DEF next
    <3> HIDE DEF i
    <3>2. i \in DOMAIN fresh /\ fresh[i].seq = n
      BY <1>4, <3>1
    <3>3. i + Len(q) \in DOMAIN queues'.items[class] /\ queues'.items[class][i + Len(q)].seq = n
      BY <1>5, <1>13, <3>2
    <3> QED
      BY <3>3
  <2> QED
    BY <2>1, <2>2, <2>3, <2>4, <2>5
<1>18. OutletsUp' /\ AckedTold'
    BY <1>1, <1>2, <1>13 DEF OutletsUp, AckedTold
<1>19. DeliveryShape'
    BY <1>1, <1>2, <1>13 DEF DeliveryShape
<1> QED
    BY <1>1, <1>15, <1>16, <1>17, <1>18, <1>19, CallerRests, TasksRest DEF NodeInv, QueueInv

\* Nothing is started and nothing accepted at first.
LEMMA NodeBegins == ASSUME NodeInit PROVE NodeInv
<1> DEFINE none == <<>>
<1>1. PICK c \in Compositions :
        graph = [state |-> "none", mode |-> c.mode, order |-> c.services, started |-> none, cancelled |-> FALSE]
    BY DEF NodeInit
<1>2. /\ nodeCall = NoCall /\ causes = none
      /\ nodeStatus = [ready |-> FALSE, healthy |-> FALSE, ingress |-> FALSE, fatal |-> FALSE]
      /\ queues = [accepting |-> TRUE, next |-> 0, items |-> [k \in Classes |-> none], acked |-> {}]
      /\ courier = [class |-> 1, attempt |-> 0, cancelled |-> FALSE]
      /\ tasks = [s \in Supervised |-> NoTask]
      /\ outlet = [plugin |-> "off", zeromq |-> "off", waiting |-> none, sent |-> none, told |-> {}]
    BY DEF NodeInit, Classes
<1>3. c.mode \in STRING /\ c.services \in Seq(ServiceRecords)
    BY CompositionAssumption DEF ServiceRecords
<1>4. /\ none \in Seq(ServiceRecords) /\ none \in Seq(Events) /\ none \in Seq(Supervised) /\ Len(none) = 0 /\ DOMAIN none = {}
      /\ Len(c.services) \in Nat
    BY <1>3
<1>5. Grows(none) /\ Precedes(none, none) /\ Numbered(none, 0) /\ StopOrdered(none)
    BY <1>4 DEF Grows, Precedes, Numbered, StopOrdered
<1>6. none = <<>>
    OBVIOUS
<1> HIDE DEF none
<1>7. /\ graph \in GraphRecords /\ graph.state = "none" /\ graph.started = none /\ graph.order = c.services
      /\ graph.mode = c.mode
    BY <1>1, <1>3, <1>4 DEF GraphRecords
<1>8. /\ nodeCall \in CallRecords /\ nodeCall.at = "idle" /\ nodeCall.i = 0 /\ nodeCall.last = "none"
    BY <1>2 DEF NoCall, CallRecords
<1>9. nodeStatus \in StatusRecords /\ nodeStatus.ready = FALSE
    BY <1>2 DEF StatusRecords
<1>10. CallerInv
  <2>1. CallerShape
    BY <1>2, <1>4, <1>7, <1>8, <1>9 DEF CallerShape
  <2>2. GraphPlaced
    BY <1>4, <1>6, <1>7, <1>8 DEF GraphPlaced
  <2>3. StopsInOrder /\ ReadyPlaced
    BY <1>5, <1>7, <1>8, <1>9 DEF StopsInOrder, ReadyPlaced
  <2> QED
    BY <2>1, <2>2, <2>3 DEF CallerInv
<1>11. /\ queues \in QueueRecords /\ queues.next = 0 /\ queues.acked = {} /\ \A k \in Classes : queues.items[k] = none
  <2> DEFINE items == [k \in Classes |-> none]
  <2>1. items \in [Classes -> Seq(Events)] /\ \A k \in Classes : items[k] = none
    BY <1>4
  <2>2. queues = [accepting |-> TRUE, next |-> 0, items |-> items, acked |-> {}]
    BY <1>2
  <2> HIDE DEF items
  <2> QED
    BY <2>1, <2>2 DEF QueueRecords, Classes
<1>12. courier \in CourierRecords /\ courier.attempt = 0
    BY <1>2 DEF CourierRecords
<1>13. outlet \in OutletRecords /\ outlet.sent = none /\ outlet.waiting = none
    BY <1>2, <1>4 DEF OutletRecords
<1>14. tasks \in [Supervised -> TaskRecords] /\ \A s \in Supervised : tasks[s].pc = "none" /\ tasks[s].handle = "none"
  <2>1. NoTask \in TaskRecords /\ NoTask.pc = "none" /\ NoTask.handle = "none"
    BY DEF NoTask, TaskRecords
  <2> QED
    BY <1>2, <2>1
<1>15. DeliveryShape
    BY <1>11, <1>12, <1>13, <1>14 DEF DeliveryShape
<1>16. TaskInv
    BY <1>7, <1>8, <1>14 DEF TaskInv, TasksHeld, TaskHeld, TasksJoined, Reported
<1>17. QueueInv
  <2>1. \A k \in Classes : QueueCaps[k] \in Nat
    BY NodeAssumption DEF Classes
  <2>2. QueuesInOrder
    BY <1>4, <1>5, <1>11, <1>13, <2>1 DEF QueuesInOrder
  <2>3. OutInOrder
    BY <1>4, <1>5, <1>11, <1>12, <1>13, NodeAssumption DEF OutInOrder
  <2>4. Accounted /\ AckedTold
    BY <1>4, <1>11 DEF Accounted, AckedTold
  <2>5. OutletsUp
    BY <1>14 DEF OutletsUp, Supervised
  <2> QED
    BY <2>2, <2>3, <2>4, <2>5 DEF QueueInv
<1> QED
    BY <1>10, <1>15, <1>16, <1>17 DEF NodeInv

\* A step that changes nothing keeps it all.
LEMMA NodeRests == ASSUME NodeInv, UNCHANGED nodeVars PROVE NodeInv'
<1>1. UNCHANGED graphVars /\ UNCHANGED <<queues, courier, tasks, outlet>>
    BY DEF nodeVars, graphVars
<1>2. DeliveryShape' /\ QueueInv'
    BY <1>1, QueueSame DEF NodeInv, DeliveryShape
<1> QED
    BY <1>1, <1>2, CallerRests, TasksRest DEF NodeInv

\* The inductive invariant holds whatever the order of the caller's steps, the blocks, the
\* deliveries, the failures of outlets and tasks, and the reports of the supervisors.
THEOREM NodeInvariant == NodeSpec => []NodeInv
<1>1. NodeInit => NodeInv
    BY NodeBegins
<1>2. NodeInv /\ [NodeNext]_nodeVars => NodeInv'
  <2> SUFFICES ASSUME NodeInv, [NodeNext]_nodeVars PROVE NodeInv'
    OBVIOUS
  <2>1. CASE CallerNext
    BY <2>1, NewGraphStep, StartNodeStep, StartServiceStep, AllStartedStep, FinishStartStep, ShutdownNodeStep,
       StopServiceStep, CloseIngressStep, DrainQueuesStep, JoinDeliveryStep, JoinReplicaStep, StopTooLateStep,
       FinishStopStep DEF CallerNext
  <2>2. CASE \E c \in Range(QueueClasses), b \in EventBatches : PushBatch(c, b)
    BY <2>2, PushBatchStep DEF Classes
  <2>3. CASE Deliver \/ DeliverFails \/ NextClass \/ PassDone \/ SendMessage \/ OutletFails \/ ReplicaEnds
    BY <2>3, DeliverStep, DeliverFailsStep, NextClassStep, PassDoneStep, SendMessageStep, OutletFailsStep, ReplicaEndsStep
  <2>4. CASE \E s \in Supervised : Supervise(s) \/ ReportFatal(s)
    BY <2>4, SuperviseStep, ReportFatalStep
  <2>5. CASE UNCHANGED nodeVars
    BY <2>5, NodeRests
  <2> QED
    BY <2>1, <2>2, <2>3, <2>4, <2>5 DEF NodeNext
<1> QED
    BY <1>1, <1>2, PTL DEF NodeSpec

\* The types of the node's state: the place of the caller within the graph's order, the
\* causes, the queues' and the publisher's bounds and the retries of a delivery.
THEOREM NodeTypes == NodeSpec => []NodeTypeOK
<1>1. NodeInv => NodeTypeOK
  <2> SUFFICES ASSUME NodeInv PROVE NodeTypeOK
    OBVIOUS
  <2>1. CallerShape /\ GraphPlaced /\ QueuesInOrder /\ OutInOrder
    BY DEF NodeInv, CallerInv, QueueInv
  <2>2. graph.state \in {"none", "New", "Starting", "Running", "Stopping", "Stopped", "Failed"}
    BY <2>1 DEF CallerShape, GraphRecords
  <2>3. Range(causes) \subseteq Supervised
    BY <2>1 DEF CallerShape, Range
  <2> QED
    BY <2>1, <2>2, <2>3 DEF NodeTypeOK, GraphPlaced, QueuesInOrder, OutInOrder, Classes
<1> QED
    BY <1>1, NodeInvariant, PTL

\* Readiness only while the graph is up, dependents stopped first.
LEMMA CallerSound == ASSUME NodeInv PROVE ReadyWhenUp /\ DependentsFirst
<1>1. CallerShape /\ StopsInOrder /\ ReadyPlaced /\ GraphPlaced
    BY DEF NodeInv, CallerInv
<1>2. ReadyWhenUp
    BY <1>1 DEF ReadyPlaced, ReadyWhenUp
<1>3. ASSUME nodeCall.at = "stopping", nodeCall.i > 0, NEW s \in Range(graph.started), Current \in s.deps
      PROVE  s.name \in nodeCall.stopped \cup nodeCall.left
  <2>1. /\ graph.started \in Seq(ServiceRecords) /\ DOMAIN graph.started = 1..Len(graph.started) /\ Len(graph.started) \in Nat
        /\ nodeCall.i \in Nat
    BY <1>1, CallerFields
  <2>2. nodeCall.i \in 1..Len(graph.started)
    BY <1>1, <1>3, <2>1 DEF GraphPlaced
  <2>3. PICK y \in DOMAIN graph.started : s = graph.started[y]
    BY <1>3 DEF Range
  <2>4. nodeCall.i < y
    BY <1>1, <1>3, <2>1, <2>2, <2>3 DEF StopsInOrder, StopOrdered, Current
  <2>5. y \in (nodeCall.i + 1)..Len(graph.started)
    BY <2>1, <2>3, <2>4
  <2>6. s.name \in Visited(graph.started, nodeCall.i)
    BY <2>3, <2>5 DEF Visited
  <2> QED
    BY <1>1, <1>3, <2>6 DEF StopsInOrder
<1>4. DependentsFirst
    BY <1>3 DEF DependentsFirst
<1> QED
    BY <1>2, <1>4

\* Every accepted event waits or was taken by each outlet it is for, and what ZeroMQ took
\* was sent in order or waits with it.
LEMMA DeliverySound == ASSUME NodeInv PROVE EventsKept /\ EventsSent
<1> DEFINE all == (UNION {Range(queues.items[c]) : c \in DOMAIN queues.items}) \cup queues.acked
<1>1. DeliveryShape /\ QueuesInOrder /\ OutInOrder /\ Accounted /\ AckedTold
    BY DEF NodeInv, QueueInv
<1>2. /\ queues.next \in Nat /\ DOMAIN queues.items = Classes /\ queues.acked \in SUBSET Events
      /\ \A c \in Classes : queues.items[c] \in Seq(Events)
      /\ outlet.sent \in Seq(Events) /\ outlet.waiting \in Seq(Events)
    BY <1>1, QueueFields
<1>3. \A d : d \in all <=> d \in queues.acked \/ \E c \in Classes : \E i \in DOMAIN queues.items[c] : d = queues.items[c][i]
    BY <1>2 DEF Range
<1> HIDE DEF all
<1>4. \A d \in all : d.seq \in Nat
    BY <1>2, <1>3, EventFields
<1>5. \A n \in Nat : n < queues.next <=> \E d \in all : d.seq = n
    BY <1>1, <1>3 DEF Accounted
<1>6. \A n : n \in 0..(queues.next - 1) <=> n \in Nat /\ n < queues.next
    BY <1>2
<1>7. {d.seq : d \in all} = 0..(queues.next - 1)
    BY <1>4, <1>5, <1>6
<1>8. Grows(outlet.sent \o outlet.waiting)
    BY <1>1, <1>2, JoinedGrows DEF OutInOrder
<1>9. EventsKept
    BY <1>1, <1>7 DEF EventsKept, AckedTold, all
<1>10. ASSUME NEW d, Listed(d, outlet.sent) \/ Listed(d, outlet.waiting) PROVE d \in Range(outlet.sent \o outlet.waiting)
  <2>1. \A i \in DOMAIN outlet.sent :
           i \in DOMAIN (outlet.sent \o outlet.waiting) /\ (outlet.sent \o outlet.waiting)[i] = outlet.sent[i]
    BY <1>2, JoinedLists
  <2>2. \A i \in DOMAIN outlet.waiting :
           /\ i + Len(outlet.sent) \in DOMAIN (outlet.sent \o outlet.waiting)
           /\ (outlet.sent \o outlet.waiting)[i + Len(outlet.sent)] = outlet.waiting[i]
    BY <1>2, JoinedLists
  <2> QED
    BY <1>10, <2>1, <2>2 DEF Listed, Range
<1>11. EventsSent
    BY <1>1, <1>8, <1>10 DEF EventsSent, AckedTold, OutInOrder, Grows
<1> QED
    BY <1>9, <1>11

\* Starting, stopping and delivering are sound through refused and late services, fatal
\* failures at any moment and repeated shutdowns, for every composition of services, every
\* plugin configuration, every batch of events and every bound: readiness, the order of
\* stops, tasks joined and failures returned but for a detached delivery task, every
\* accepted event waiting or taken by the outlets it is for, and every event ZeroMQ took
\* sent in order but for the at most SendHwm + 1 that wait when the publisher ends.
THEOREM NodeIsSound == NodeSpec => []NodeSound
<1>1. NodeInv => NodeSound
    BY CallerSound, DeliverySound DEF NodeSound, NodeInv, TaskInv, Reported, FatalsReturned
<1> QED
    BY <1>1, NodeInvariant, PTL
=============================================================================
