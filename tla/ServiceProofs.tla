--------------------------- MODULE ServiceProofs ---------------------------
(***************************************************************************)
(* Proofs about the services around the chain: the API servers             *)
(* (ApiGateway), the keystore directory (Keystore), the release installer  *)
(* (ReleaseInstall) and the backup election (BackupRole), for every set of *)
(* calls, files, releases, members and every limit.  Each of the first     *)
(* three has an inductive invariant that says what every step of an        *)
(* operation finds: which permits a call holds at its place, what the      *)
(* directory looks like before and after each rename of a wallet, which    *)
(* phase of an install has had which effect.                               *)
(***************************************************************************)
EXTENDS ApiGateway, Keystore, ReleaseInstall, BackupRole, FiniteSetTheorems, TLAPS

\* The API servers.
GatewaySpec == GatewayInit /\ [][GatewayNext]_gatewayVars

\* Where a call can be, and which of its jobs occupy a worker.
Stages == {"endpoint", "ip", "global"}
Places == Stages \cup {"idle", "filter", "json", "intercept", "parse", "handle", "read", "queue", "await", "done"}
Live == {"spawned", "checking", "working", "sending"}
CallRow(r) ==
    /\ r = [pc |-> r.pc, req |-> r.req, wait |-> r.wait, slot |-> r.slot, conn |-> r.conn,
            left |-> r.left, key |-> r.key, seen |-> r.seen, told |-> r.told]
    /\ r.pc \in Places /\ r.req \in Requests /\ r.wait \in BOOLEAN /\ r.conn \in BOOLEAN
    /\ r.slot \in Preemptible \cup {"json", "none"} /\ r.key \in 0..MaxHeight /\ r.seen \in 0..MaxHeight
CallsShape == DOMAIN call = Calls /\ \A c \in Calls : CallRow(call[c])
JobsShape == job \in [Calls -> Live \cup {"none", "ended"}]
ViewsShape == views \in [Cursors -> 0..MaxHeight] /\ \A u \in Cursors : views[u] <= views["Head"]

\* What the place of a call says of its permits, its job and its answer.
Placed(r, j) ==
    /\ r.wait => r.pc \in Stages
    /\ r.slot # "none" => r.pc \notin {"idle", "filter", "json", "endpoint", "done"}
    /\ r.conn => r.pc # "idle" /\ r.req.via \in {"http", "json"}
    /\ j # "none" => r.pc \in {"await", "done"}
    /\ j = "ended" => r.pc = "done"
    /\ r.told # "none" => r.pc = "done"
\* A caller that is told anything but a timeout or a hang-up has no job any more.
ToldTruly(r, j, in) ==
    /\ j \in Live /\ r.pc = "done" => r.told \in {"deadline", "dropped"}
    /\ in => j = "ended" /\ r.told \in {"accepted", "deadline", "dropped"}
    /\ r.told = "accepted" => in
\* A reader's last look at the head is at or below what is published now.
UpToDate(r, j, now) ==
    /\ r.pc = "read" \/ j \in Live => r.seen <= now
    /\ r.told = "missing" => r.key > r.seen
CallSound(c) ==
    /\ Placed(call[c], job[c])
    /\ ToldTruly(call[c], job[c], c \in accepted)
    /\ UpToDate(call[c], job[c], views[ReadCursor(c)])
ReadOnly == apiNode = "solidity" => accepted = {} /\ \A c \in Calls : job[c] # "sending"

\* Permits: what is free and what is held add up.
InPool(p) == {c \in Calls : job[c] \in Live /\ Pool(call[c].req) = p}
Holding(s) == {c \in Calls : call[c].slot = s}
Connected(v) == {c \in Calls : call[c].conn /\ call[c].req.via = v}
Permits(free, total, S) == free \in Nat /\ free + Cardinality(S) = total
WorkersCounted == workers \in [{"rpc", "json"} -> Nat] /\ \A p \in {"rpc", "json"} : Permits(workers[p], Workers, InPool(p))
SlotsCounted ==
    slots \in [Preemptible \cup {"json"} -> Nat] /\ \A s \in Preemptible \cup {"json"} : Permits(slots[s], Slots, Holding(s))
ConnsCounted == conns \in [{"http", "json"} -> Nat] /\ \A v \in {"http", "json"} : Permits(conns[v], MaxConnections, Connected(v))

\* The inductive invariant.
GatewayInv ==
    /\ CallsShape /\ JobsShape /\ ViewsShape /\ accepted \subseteq Calls /\ ReadOnly
    /\ \A c \in Calls : CallSound(c)
    /\ WorkersCounted /\ SlotsCounted /\ ConnsCounted

-----------------------------------------------------------------------------
\* What the assumption on the constants says of the numbers.
LEMMA GatewayNumbers ==
    /\ Workers \in Nat /\ Slots \in Nat /\ MaxConnections \in Nat /\ MaxHeight \in Nat /\ MaxHeight > 0
    /\ IsFiniteSet(Calls) /\ "none" \notin Preemptible
    BY GatewayBounds

\* A permit is taken: one more holder, one fewer free.
LEMMA PermitTaken ==
    ASSUME NEW free, NEW total \in Nat, NEW S, IsFiniteSet(S), Permits(free, total, S), free > 0, NEW c, c \notin S
    PROVE  Permits(free - 1, total, S \cup {c})
<1>1. Cardinality(S) \in Nat /\ Cardinality(S \cup {c}) = Cardinality(S) + 1
    BY FS_AddElement, FS_CardinalityType
<1> QED
    BY <1>1 DEF Permits

\* A permit returns: one fewer holder, one more free.
LEMMA PermitReturned ==
    ASSUME NEW free, NEW total \in Nat, NEW S, IsFiniteSet(S), Permits(free, total, S), NEW c, c \in S
    PROVE  Permits(free + 1, total, S \ {c})
<1>1. Cardinality(S) \in Nat /\ Cardinality(S \ {c}) = Cardinality(S) - 1
    BY FS_RemoveElement, FS_CardinalityType
<1> QED
    BY <1>1 DEF Permits

\* The holders of any permit are finitely many calls.
LEMMA HoldersFinite ==
    /\ \A p : IsFiniteSet(InPool(p)) /\ \A s : IsFiniteSet(Holding(s)) /\ \A v : IsFiniteSet(Connected(v))
<1>1. \A S \in SUBSET Calls : IsFiniteSet(S)
    BY GatewayNumbers, FS_Subset
<1> QED
    BY <1>1 DEF InPool, Holding, Connected

\* A cursor is one of the three, and only the head can lead.
LEMMA ReadsACursor == ASSUME NEW c PROVE ReadCursor(c) \in Cursors
<1> DEFINE h == Handler(call[c].req)
           route == IF call[c].req.via = "grpc" THEN "none" ELSE IF apiNode = "full" THEN "Head" ELSE "Solidity"
<1>1. route \in {"none", "Head", "Solidity"}
    OBVIOUS
<1>2. ReadCursor(c) = IF call[c].req.via = "json" THEN "Head" ELSE CursorOf(call[c].req.api, h, route)
    BY DEF ReadCursor
<1> HIDE DEF h, route
<1> QED
    BY <1>1, <1>2 DEF CursorOf, Cursors

\* The cursor depends on the request and on the kind of node.
LEMMA CursorKept ==
    ASSUME NEW c, apiNode' = apiNode, call'[c].req = call[c].req
    PROVE  ReadCursor(c)' = ReadCursor(c)
    BY DEF ReadCursor, Handler, Surface, ServerPlan

-----------------------------------------------------------------------------
\* A step of one call: c becomes r, nothing of another call changes.
CallBecomes(c, r) == DOMAIN call' = Calls /\ call'[c] = r /\ \A d \in Calls \ {c} : call'[d] = call[d]
OthersKept(c) ==
    /\ job' \in [Calls -> Live \cup {"none", "ended"}] /\ \A d \in Calls \ {c} : job'[d] = job[d]
    /\ \A d \in Calls \ {c} : d \in accepted' <=> d \in accepted
    /\ apiNode' = apiNode /\ views' = views

\* Only the call that moves can disturb what is said of each call.
LEMMA CallStep ==
    ASSUME GatewayInv, NEW c \in Calls, NEW r, CallRow(r), CallBecomes(c, r), OthersKept(c),
           Placed(r, job'[c]), ToldTruly(r, job'[c], c \in accepted'), UpToDate(r, job'[c], views[ReadCursor(c)]')
    PROVE  CallsShape' /\ JobsShape' /\ ViewsShape' /\ \A d \in Calls : CallSound(d)'
<1>1. CallsShape' /\ JobsShape' /\ ViewsShape'
    BY DEF GatewayInv, CallsShape, CallBecomes, OthersKept, JobsShape, ViewsShape
<1>2. CallSound(c)'
    BY DEF CallSound, CallBecomes
<1>3. ASSUME NEW d \in Calls \ {c} PROVE CallSound(d)'
  <2>1. call'[d] = call[d] /\ job'[d] = job[d] /\ (d \in accepted' <=> d \in accepted) /\ views' = views /\ apiNode' = apiNode
    BY DEF CallBecomes, OthersKept
  <2>2. views[ReadCursor(d)]' = views[ReadCursor(d)]
    BY <2>1, CursorKept
  <2>3. CallSound(d)
    BY DEF GatewayInv
  <2>4. Placed(call[d], job[d])' /\ ToldTruly(call[d], job[d], d \in accepted)'
    BY <2>1, <2>3 DEF CallSound, Placed, ToldTruly
  <2>5. UpToDate(call[d], job[d], views[ReadCursor(d)])'
    BY <2>1, <2>2, <2>3 DEF CallSound, UpToDate
  <2> QED
    BY <2>4, <2>5 DEF CallSound
<1> QED
    BY <1>1, <1>2, <1>3

\* Endpoint permits: kept, taken for m, or returned.
LEMMA SlotStep ==
    ASSUME GatewayInv, NEW c \in Calls, NEW r, CallBecomes(c, r),
           \/ r.slot = call[c].slot /\ slots' = slots
           \/ /\ call[c].slot = "none" /\ r.slot \in Preemptible \cup {"json"} /\ slots[r.slot] > 0
              /\ slots' = [slots EXCEPT ![r.slot] = @ - 1]
           \/ /\ r.slot = "none"
              /\ slots' = IF call[c].slot = "none" THEN slots ELSE [slots EXCEPT ![call[c].slot] = @ + 1]
    PROVE  SlotsCounted'
<1> DEFINE names == Preemptible \cup {"json"}
<1>1. slots \in [names -> Nat] /\ DOMAIN slots = names /\ (\A s \in names : Permits(slots[s], Slots, Holding(s))) /\ "none" \notin names
    BY GatewayNumbers DEF GatewayInv, SlotsCounted
<1>2. call[c].slot \in names \cup {"none"}
    BY DEF GatewayInv, CallsShape, CallRow
<1>3. ASSUME NEW s \in names PROVE Permits(slots[s], Slots, Holding(s))'
  <2>1. Slots \in Nat /\ IsFiniteSet(Holding(s))
    BY GatewayNumbers, HoldersFinite
  <2>2. CASE r.slot = call[c].slot /\ slots' = slots
    <3>1. Holding(s)' = Holding(s)
      BY <2>2 DEF Holding, CallBecomes
    <3> QED
      BY <2>2, <3>1, <1>1 DEF Permits
  <2>3. CASE call[c].slot = "none" /\ r.slot = s /\ slots[s] > 0 /\ slots' = [slots EXCEPT ![r.slot] = @ - 1]
    <3>1. Holding(s)' = Holding(s) \cup {c} /\ c \notin Holding(s)
      BY <1>1, <2>3 DEF Holding, CallBecomes
    <3>2. slots'[s] = slots[s] - 1
      BY <1>1, <2>3
    <3> QED
      BY <2>1, <2>3, <3>1, <3>2, <1>1, PermitTaken
  <2>4. CASE call[c].slot = "none" /\ r.slot # s /\ slots' = [slots EXCEPT ![r.slot] = @ - 1]
    <3>1. Holding(s)' = Holding(s)
      BY <1>1, <2>4 DEF Holding, CallBecomes
    <3>2. slots'[s] = slots[s]
      BY <1>1, <2>4
    <3> QED
      BY <3>1, <3>2, <1>1
  <2>5. CASE call[c].slot = s /\ r.slot = "none" /\ slots' = [slots EXCEPT ![call[c].slot] = @ + 1]
    <3>1. Holding(s)' = Holding(s) \ {c} /\ c \in Holding(s)
      BY <1>1, <2>5 DEF Holding, CallBecomes
    <3>2. slots'[s] = slots[s] + 1
      BY <1>1, <2>5
    <3> QED
      BY <2>1, <2>5, <3>1, <3>2, <1>1, PermitReturned
  <2>6. CASE call[c].slot # s /\ r.slot = "none" /\ slots' = [slots EXCEPT ![call[c].slot] = @ + 1]
    <3>1. Holding(s)' = Holding(s)
      BY <1>1, <2>6 DEF Holding, CallBecomes
    <3>2. slots'[s] = slots[s]
      BY <1>1, <2>6
    <3> QED
      BY <3>1, <3>2, <1>1
  <2> QED
    BY <1>1, <2>2, <2>3, <2>4, <2>5, <2>6
<1>4. slots' \in [names -> Nat]
  <2>1. \A x \in names : slots'[x] \in Nat
    BY <1>3 DEF Permits
  <2>2. slots' = [x \in names |-> slots'[x]]
    BY <1>1
  <2> QED
    BY <2>1, <2>2
<1> QED
    BY <1>3, <1>4 DEF SlotsCounted

\* Workers: kept, taken, or returned.
LEMMA WorkerStep ==
    ASSUME GatewayInv, NEW c \in Calls, NEW r, CallBecomes(c, r), OthersKept(c),
           \/ workers' = workers /\ job[c] \notin Live /\ job'[c] \notin Live
           \/ workers' = workers /\ r.req = call[c].req /\ (job[c] \in Live <=> job'[c] \in Live)
           \/ /\ r.req = call[c].req /\ job[c] \notin Live /\ job'[c] \in Live /\ workers[Pool(call[c].req)] > 0
              /\ workers' = [workers EXCEPT ![Pool(call[c].req)] = @ - 1]
           \/ /\ r.req = call[c].req /\ job[c] \in Live /\ job'[c] \notin Live
              /\ workers' = [workers EXCEPT ![Pool(call[c].req)] = @ + 1]
    PROVE  WorkersCounted'
<1> DEFINE names == {"rpc", "json"}
           q == Pool(call[c].req)
<1>1. workers \in [names -> Nat] /\ DOMAIN workers = names /\ \A p \in names : Permits(workers[p], Workers, InPool(p))
    BY DEF GatewayInv, WorkersCounted
<1>2. q \in names
    BY DEF Pool
<1>3. ASSUME NEW p \in names PROVE Permits(workers[p], Workers, InPool(p))'
  <2>1. Workers \in Nat /\ IsFiniteSet(InPool(p))
    BY GatewayNumbers, HoldersFinite
  <2>2. \A d \in Calls \ {c} : d \in InPool(p)' <=> d \in InPool(p)
    BY DEF InPool, CallBecomes, OthersKept, Pool
  <2>3. c \in InPool(p) <=> job[c] \in Live /\ q = p
    BY DEF InPool
  <2>4. c \in InPool(p)' <=> job'[c] \in Live /\ Pool(r.req) = p
    BY DEF InPool, CallBecomes, Pool
  <2>5. InPool(p) \subseteq Calls /\ InPool(p)' \subseteq Calls
    BY DEF InPool
  <2> HIDE DEF q
  <2>6. CASE workers' = workers /\ ((c \in InPool(p)') <=> (c \in InPool(p)))
    <3>1. InPool(p)' = InPool(p)
      BY <2>2, <2>5, <2>6
    <3> QED
      BY <2>6, <3>1, <1>1
  <2>7. CASE r.req = call[c].req /\ job[c] \notin Live /\ job'[c] \in Live /\ workers[q] > 0 /\ workers' = [workers EXCEPT ![q] = @ - 1]
    <3>0. Pool(r.req) = q
      BY <2>7 DEF q
    <3>1. CASE p = q
      <4>1. InPool(p)' = InPool(p) \cup {c} /\ c \notin InPool(p)
        BY <2>2, <2>3, <2>4, <2>5, <2>7, <3>0, <3>1
      <4>2. workers'[p] = workers[p] - 1 /\ workers[p] > 0
        BY <1>1, <2>7, <3>1
      <4> QED
        BY <2>1, <4>1, <4>2, <1>1, PermitTaken
    <3>2. CASE p # q
      <4>1. InPool(p)' = InPool(p)
        BY <2>2, <2>3, <2>4, <2>5, <2>7, <3>0, <3>2
      <4>2. workers'[p] = workers[p]
        BY <1>1, <2>7, <3>2
      <4> QED
        BY <4>1, <4>2, <1>1
    <3> QED
      BY <3>1, <3>2
  <2>8. CASE r.req = call[c].req /\ job[c] \in Live /\ job'[c] \notin Live /\ workers' = [workers EXCEPT ![q] = @ + 1]
    <3>1. CASE p = q
      <4>1. InPool(p)' = InPool(p) \ {c} /\ c \in InPool(p)
        BY <2>2, <2>3, <2>4, <2>5, <2>8, <3>1
      <4>2. workers'[p] = workers[p] + 1
        BY <1>1, <2>8, <3>1
      <4> QED
        BY <2>1, <4>1, <4>2, <1>1, PermitReturned
    <3>2. CASE p # q
      <4>1. InPool(p)' = InPool(p)
        BY <2>2, <2>3, <2>4, <2>5, <2>8, <3>2
      <4>2. workers'[p] = workers[p]
        BY <1>1, <2>8, <3>2
      <4> QED
        BY <4>1, <4>2, <1>1
    <3> QED
      BY <3>1, <3>2
  <2>9. workers' = workers /\ r.req = call[c].req /\ (job[c] \in Live <=> job'[c] \in Live) => ((c \in InPool(p)') <=> (c \in InPool(p)))
    BY <2>3, <2>4 DEF q
  <2>10. job[c] \notin Live /\ job'[c] \notin Live => ((c \in InPool(p)') <=> (c \in InPool(p)))
    BY <2>3, <2>4
  <2> QED
    BY <2>6, <2>7, <2>8, <2>9, <2>10 DEF q
<1>4. workers' \in [names -> Nat]
  <2>1. \A x \in names : workers'[x] \in Nat
    BY <1>3 DEF Permits
  <2>2. workers' = [x \in names |-> workers'[x]]
    BY <1>1
  <2> QED
    BY <2>1, <2>2
<1> QED
    BY <1>3, <1>4 DEF WorkersCounted

\* Connections: kept, taken, or given back.
LEMMA ConnStep ==
    ASSUME GatewayInv, NEW c \in Calls, NEW r, CallBecomes(c, r),
           \/ conns' = conns /\ r.req = call[c].req /\ (r.conn <=> call[c].conn)
           \/ conns' = conns /\ ~r.conn /\ ~call[c].conn
           \/ /\ ~call[c].conn /\ r.conn /\ r.req.via \in {"http", "json"} /\ conns[r.req.via] > 0
              /\ conns' = [conns EXCEPT ![r.req.via] = @ - 1]
           \/ /\ call[c].conn /\ ~r.conn /\ conns' = [conns EXCEPT ![call[c].req.via] = @ + 1]
    PROVE  ConnsCounted'
<1> DEFINE names == {"http", "json"}
<1>1. conns \in [names -> Nat] /\ DOMAIN conns = names /\ \A v \in names : Permits(conns[v], MaxConnections, Connected(v))
    BY DEF GatewayInv, ConnsCounted
<1>3. ASSUME NEW v \in names PROVE Permits(conns[v], MaxConnections, Connected(v))'
  <2>1. MaxConnections \in Nat /\ IsFiniteSet(Connected(v))
    BY GatewayNumbers, HoldersFinite
  <2>2. \A d \in Calls \ {c} : d \in Connected(v)' <=> d \in Connected(v)
    BY DEF Connected, CallBecomes
  <2>3. c \in Connected(v) <=> call[c].conn /\ call[c].req.via = v
    BY DEF Connected
  <2>4. c \in Connected(v)' <=> r.conn /\ r.req.via = v
    BY DEF Connected, CallBecomes
  <2>5. Connected(v) \subseteq Calls /\ Connected(v)' \subseteq Calls
    BY DEF Connected
  <2>6. CASE conns'[v] = conns[v] /\ ((c \in Connected(v)') <=> (c \in Connected(v)))
    <3>1. Connected(v)' = Connected(v)
      BY <2>2, <2>5, <2>6
    <3> QED
      BY <2>6, <3>1, <1>1
  <2>7. CASE ~call[c].conn /\ r.conn /\ r.req.via = v /\ conns[v] > 0 /\ conns' = [conns EXCEPT ![r.req.via] = @ - 1]
    <3>1. Connected(v)' = Connected(v) \cup {c} /\ c \notin Connected(v)
      BY <2>2, <2>3, <2>4, <2>5, <2>7
    <3>2. conns'[v] = conns[v] - 1
      BY <1>1, <2>7
    <3> QED
      BY <2>1, <2>7, <3>1, <3>2, <1>1, PermitTaken
  <2>8. CASE call[c].conn /\ ~r.conn /\ call[c].req.via = v /\ conns' = [conns EXCEPT ![call[c].req.via] = @ + 1]
    <3>1. Connected(v)' = Connected(v) \ {c} /\ c \in Connected(v)
      BY <2>2, <2>3, <2>4, <2>5, <2>8
    <3>2. conns'[v] = conns[v] + 1
      BY <1>1, <2>8
    <3> QED
      BY <2>1, <2>8, <3>1, <3>2, <1>1, PermitReturned
  <2>9. \/ conns'[v] = conns[v] /\ ((c \in Connected(v)') <=> (c \in Connected(v)))
        \/ ~call[c].conn /\ r.conn /\ r.req.via = v /\ conns[v] > 0 /\ conns' = [conns EXCEPT ![r.req.via] = @ - 1]
        \/ call[c].conn /\ ~r.conn /\ call[c].req.via = v /\ conns' = [conns EXCEPT ![call[c].req.via] = @ + 1]
    BY <1>1, <2>3, <2>4
  <2> QED
    BY <2>6, <2>7, <2>8, <2>9
<1>4. conns' \in [names -> Nat]
  <2>1. \A x \in names : conns'[x] \in Nat
    BY <1>3 DEF Permits
  <2>2. conns' = [x \in names |-> conns'[x]]
    BY <1>1
  <2> QED
    BY <2>1, <2>2
<1> QED
    BY <1>3, <1>4 DEF ConnsCounted

-----------------------------------------------------------------------------
\* What the invariant says of one call.
LEMMA OneCall ==
    ASSUME GatewayInv, NEW c \in Calls
    PROVE  /\ CallRow(call[c]) /\ DOMAIN call = Calls /\ job \in [Calls -> Live \cup {"none", "ended"}]
           /\ Placed(call[c], job[c]) /\ ToldTruly(call[c], job[c], c \in accepted)
           /\ UpToDate(call[c], job[c], views[ReadCursor(c)])
           /\ views[ReadCursor(c)] \in 0..MaxHeight
    BY ReadsACursor DEF GatewayInv, CallsShape, JobsShape, CallSound, ViewsShape

\* The heights a call remembers are numbers.
LEMMA CallHeights ==
    ASSUME GatewayInv, NEW c \in Calls
    PROVE  call[c].seen \in Nat /\ call[c].key \in Nat /\ views[ReadCursor(c)] \in Nat
<1>1. call[c].seen \in 0..MaxHeight /\ call[c].key \in 0..MaxHeight
    BY DEF GatewayInv, CallsShape, CallRow
<1>2. views[ReadCursor(c)] \in 0..MaxHeight
    BY OneCall
<1> QED
    BY <1>1, <1>2

\* An answer ends the call and returns its endpoint permit.
Done(r, told) ==
    [pc |-> "done", req |-> r.req, wait |-> FALSE, slot |-> "none", conn |-> r.conn,
     left |-> r.left, key |-> r.key, seen |-> r.seen, told |-> told]
LEMMA AnswerEffect ==
    ASSUME GatewayInv, NEW c \in Calls, NEW told, Answer(c, told)
    PROVE  CallRow(Done(call[c], told)) /\ CallBecomes(c, Done(call[c], told)) /\ SlotsCounted'
<1>1. CallRow(call[c]) /\ DOMAIN call = Calls
    BY OneCall
<1>2. CallRow(Done(call[c], told))
    BY <1>1 DEF CallRow, Done, Places
<1>3. CallBecomes(c, Done(call[c], told))
    BY <1>1 DEF CallRow, CallBecomes, Done, Answer
<1>4. SlotsCounted'
    BY <1>3, SlotStep DEF Answer, Done
<1> QED
    BY <1>2, <1>3, <1>4

\* What one call's step must show for the invariant to hold again.
LEMMA StepKeeps ==
    ASSUME GatewayInv, NEW c \in Calls, NEW r, CallRow(r), CallBecomes(c, r), OthersKept(c),
           Placed(r, job'[c]), ToldTruly(r, job'[c], c \in accepted'), UpToDate(r, job'[c], views[ReadCursor(c)]'),
           accepted' \subseteq Calls, ReadOnly', WorkersCounted', SlotsCounted', ConnsCounted'
    PROVE  GatewayInv'
    BY CallStep DEF GatewayInv

\* A call that has no job yet is answered without having been accepted.
LEMMA EarlyAnswer ==
    ASSUME GatewayInv, NEW c \in Calls, NEW told, Answer(c, told), job[c] = "none", told # "accepted",
           told = "missing" => call[c].key > call[c].seen,
           UNCHANGED <<fixed, job, conns, workers, views, accepted>>
    PROVE  GatewayInv'
<1> DEFINE r == Done(call[c], told)
<1>1. CallRow(r) /\ CallBecomes(c, r) /\ SlotsCounted'
    BY AnswerEffect
<1>2. r.pc = "done" /\ r.req = call[c].req /\ r.wait = FALSE /\ r.slot = "none" /\ r.conn = call[c].conn /\ r.told = told
      /\ r.key = call[c].key /\ r.seen = call[c].seen
    BY DEF Done
<1>3. OthersKept(c) /\ job'[c] = "none" /\ accepted' = accepted /\ accepted \subseteq Calls
    BY DEF OthersKept, GatewayInv, JobsShape, fixed
<1> HIDE DEF r
<1>4. Placed(r, job'[c])
    BY <1>2, <1>3, OneCall DEF Placed
<1>5. ToldTruly(r, job'[c], c \in accepted')
    BY <1>2, <1>3, OneCall DEF ToldTruly, Live
<1>6. UpToDate(r, job'[c], views[ReadCursor(c)]')
    BY <1>2, <1>3 DEF UpToDate, Live
<1>7. ReadOnly'
    BY <1>3 DEF GatewayInv, ReadOnly, fixed
<1>8. WorkersCounted' /\ ConnsCounted'
    BY <1>1, <1>2, <1>3, WorkerStep, ConnStep DEF Live
<1> QED
    BY <1>1, <1>3, <1>4, <1>5, <1>6, <1>7, <1>8, StepKeeps

\* A call passes to its next stage.
LEMMA GoesOn ==
    ASSUME GatewayInv, NEW c \in Calls, NEW pc, GoOn(c, pc), job[c] = "none", call[c].pc \notin {"idle", "done"},
           pc \in {"ip", "global", "intercept", "parse", "handle"} \/ (pc = "endpoint" /\ call[c].slot = "none"),
           UNCHANGED <<fixed, job, conns, workers, views, accepted>>
    PROVE  GatewayInv'
<1> DEFINE r == [pc |-> pc, req |-> call[c].req, wait |-> FALSE, slot |-> call[c].slot, conn |-> call[c].conn,
                 left |-> call[c].left, key |-> call[c].key, seen |-> call[c].seen, told |-> call[c].told]
<1>0. CallRow(call[c]) /\ DOMAIN call = Calls
    BY OneCall
<1>1. CallRow(r) /\ CallBecomes(c, r)
    BY <1>0 DEF CallRow, CallBecomes, GoOn, Places, Stages
<1>2. r.pc = pc /\ r.req = call[c].req /\ r.wait = FALSE /\ r.slot = call[c].slot /\ r.conn = call[c].conn /\ r.told = call[c].told
    OBVIOUS
<1>3. OthersKept(c) /\ job'[c] = "none" /\ accepted' = accepted /\ accepted \subseteq Calls /\ slots' = slots
    BY DEF OthersKept, GatewayInv, JobsShape, fixed, GoOn
<1> HIDE DEF r
<1>4. call[c].told = "none" /\ c \notin accepted
    BY OneCall DEF Placed, ToldTruly
<1>5. Placed(r, job'[c]) /\ ToldTruly(r, job'[c], c \in accepted') /\ UpToDate(r, job'[c], views[ReadCursor(c)]')
    BY <1>2, <1>3, <1>4, OneCall DEF Placed, ToldTruly, UpToDate, Live
<1>6. ReadOnly'
    BY <1>3 DEF GatewayInv, ReadOnly, fixed
<1>7. WorkersCounted' /\ ConnsCounted' /\ SlotsCounted'
    BY <1>1, <1>2, <1>3, WorkerStep, ConnStep, SlotStep DEF Live
<1> QED
    BY <1>1, <1>3, <1>5, <1>6, <1>7, StepKeeps

\* The job ends, its permit returns, and a caller that still waits is answered.
LEMMA JobEnds ==
    ASSUME GatewayInv, NEW c \in Calls, NEW told, EndJob(c, told), job[c] \in Live,
           told = "missing" => call[c].key > call[c].seen,
           told = "accepted" => c \in accepted',
           c \in accepted' => told = "accepted" /\ apiNode # "solidity",
           accepted' = accepted \/ accepted' = accepted \cup {c}
    PROVE  GatewayInv'
<1> DEFINE r == IF call[c].pc = "done" THEN call[c] ELSE Done(call[c], told)
<1>0. CallRow(call[c]) /\ DOMAIN call = Calls /\ job \in [Calls -> Live \cup {"none", "ended"}]
    BY OneCall
<1>1. CallRow(r) /\ CallBecomes(c, r) /\ SlotsCounted'
  <2>1. CASE call[c].pc = "done"
    <3>1. call' = call /\ slots' = slots
      BY <2>1 DEF EndJob, Cancelled
    <3>2. CallRow(r) /\ CallBecomes(c, r)
      BY <1>0, <2>1, <3>1 DEF CallBecomes
    <3>3. SlotsCounted'
      BY <2>1, <3>1, <3>2, SlotStep
    <3> QED
      BY <3>2, <3>3
  <2>2. CASE call[c].pc # "done"
    BY <2>2, AnswerEffect DEF EndJob, Cancelled
  <2> QED
    BY <2>1, <2>2
<1>2. /\ r.pc = "done" /\ r.req = call[c].req /\ (r.conn <=> call[c].conn) /\ r.key = call[c].key /\ r.seen = call[c].seen
      /\ r.told = (IF call[c].pc = "done" THEN call[c].told ELSE told)
      /\ r.wait = (IF call[c].pc = "done" THEN call[c].wait ELSE FALSE)
      /\ r.slot = (IF call[c].pc = "done" THEN call[c].slot ELSE "none")
    BY DEF Done
<1>3. job' = [job EXCEPT ![c] = "ended"] /\ workers' = [workers EXCEPT ![Pool(call[c].req)] = @ + 1]
      /\ views' = views /\ conns' = conns /\ apiNode' = apiNode
    BY DEF EndJob, fixed
<1>4. OthersKept(c) /\ job'[c] = "ended" /\ accepted' \subseteq Calls
    BY <1>0, <1>3 DEF OthersKept, GatewayInv
<1> HIDE DEF r
<1>5. Placed(r, job'[c])
    BY <1>2, <1>4, OneCall DEF Placed
<1>6. ToldTruly(r, job'[c], c \in accepted')
    BY <1>2, <1>4, OneCall DEF ToldTruly, Live
<1>7. UpToDate(r, job'[c], views[ReadCursor(c)]')
    BY <1>2, <1>4, OneCall DEF UpToDate, Live
<1>8. ReadOnly'
    BY <1>0, <1>3 DEF GatewayInv, ReadOnly
<1>9. WorkersCounted'
    BY <1>1, <1>2, <1>3, <1>4, WorkerStep DEF Live
<1>10. ConnsCounted'
    BY <1>1, <1>2, <1>3, ConnStep
<1> QED
    BY <1>1, <1>4, <1>5, <1>6, <1>7, <1>8, <1>9, <1>10, StepKeeps

-----------------------------------------------------------------------------
\* A call with a place before its job has none yet, and has been told nothing.
LEMMA BeforeJob ==
    ASSUME GatewayInv, NEW c \in Calls, call[c].pc \notin {"await", "done"}
    PROVE  job[c] = "none" /\ call[c].told = "none" /\ c \notin accepted
    BY OneCall DEF Placed, ToldTruly, Live

\* serve_listener: a connection is counted, or the stream dropped.
LEMMA ArriveKeeps ==
    ASSUME GatewayInv, NEW c \in Calls, NEW q \in Requests, Arrive(c, q)
    PROVE  GatewayInv'
<1> DEFINE r == call'[c]
<1>0. CallRow(call[c]) /\ DOMAIN call = Calls /\ Placed(call[c], job[c])
    BY OneCall
<1>1. q.via \in {"grpc", "http", "json"} /\ q.height \in 0..MaxHeight
    BY GatewayBounds
<1>2. call[c].pc = "idle" /\ job[c] = "none" /\ call[c].told = "none" /\ c \notin accepted
      /\ ~call[c].conn /\ call[c].slot = "none" /\ ~call[c].wait
    BY <1>0, BeforeJob DEF Arrive, Placed, Stages
<1>3. OthersKept(c) /\ job'[c] = "none" /\ accepted' = accepted /\ accepted \subseteq Calls /\ slots' = slots /\ workers' = workers
      /\ apiNode' = apiNode /\ job' = job
    BY <1>2 DEF Arrive, OthersKept, GatewayInv, JobsShape, fixed
<1>4. CASE q.via = "grpc"
  <2>1. r = [pc |-> "endpoint", req |-> q, wait |-> call[c].wait, slot |-> call[c].slot, conn |-> call[c].conn, left |-> call[c].left,
             key |-> q.height, seen |-> call[c].seen, told |-> call[c].told] /\ CallBecomes(c, r) /\ conns' = conns
    BY <1>0, <1>4 DEF Arrive, CallRow, CallBecomes
  <2>2. CallRow(r) /\ r.pc = "endpoint" /\ r.wait = call[c].wait /\ r.slot = "none" /\ ~r.conn /\ r.told = "none"
    BY <1>0, <1>1, <1>2, <2>1 DEF CallRow, Places, Stages
  <2> HIDE DEF r
  <2> QED
    BY <1>2, <1>3, <2>1, <2>2, StepKeeps, SlotStep, WorkerStep, ConnStep
       DEF Placed, ToldTruly, UpToDate, ReadOnly, GatewayInv, Live, Stages
<1>5. CASE q.via # "grpc" /\ conns[q.via] = 0
  <2>1. r = [pc |-> "done", req |-> q, wait |-> call[c].wait, slot |-> call[c].slot, conn |-> call[c].conn, left |-> call[c].left,
             key |-> call[c].key, seen |-> call[c].seen, told |-> "dropped"] /\ CallBecomes(c, r) /\ conns' = conns
    BY <1>0, <1>5 DEF Arrive, CallRow, CallBecomes
  <2>2. CallRow(r) /\ r.pc = "done" /\ r.wait = call[c].wait /\ r.slot = "none" /\ ~r.conn /\ r.told = "dropped"
    BY <1>0, <1>1, <1>2, <2>1 DEF CallRow, Places, Stages
  <2> HIDE DEF r
  <2> QED
    BY <1>2, <1>3, <2>1, <2>2, StepKeeps, SlotStep, WorkerStep, ConnStep
       DEF Placed, ToldTruly, UpToDate, ReadOnly, GatewayInv, Live, Stages
<1>6. CASE q.via # "grpc" /\ conns[q.via] # 0
  <2> DEFINE to == IF q.via = "json" THEN "json" ELSE "filter"
  <2>1. r = [pc |-> to, req |-> q, wait |-> call[c].wait, slot |-> call[c].slot, conn |-> TRUE, left |-> call[c].left,
             key |-> q.height, seen |-> call[c].seen, told |-> call[c].told] /\ CallBecomes(c, r)
        /\ conns' = [conns EXCEPT ![q.via] = @ - 1]
    BY <1>0, <1>6 DEF Arrive, CallRow, CallBecomes
  <2>2. to \in {"json", "filter"}
    OBVIOUS
  <2>3. CallRow(r) /\ r.pc \in {"json", "filter"} /\ r.wait = call[c].wait /\ r.slot = "none" /\ r.conn /\ r.told = "none" /\ r.req = q
    BY <1>0, <1>1, <1>2, <2>1, <2>2 DEF CallRow, Places, Stages
  <2>4. q.via \in {"http", "json"} /\ conns[q.via] \in Nat /\ conns[q.via] > 0
    BY <1>1, <1>6 DEF GatewayInv, ConnsCounted, Permits
  <2> HIDE DEF r
  <2>5. ConnsCounted'
    BY <1>2, <2>1, <2>3, <2>4, ConnStep
  <2> QED
    BY <1>2, <1>3, <2>1, <2>3, <2>4, <2>5, StepKeeps, SlotStep, WorkerStep
       DEF Placed, ToldTruly, UpToDate, ReadOnly, GatewayInv, Live, Stages
<1> QED
    BY <1>4, <1>5, <1>6

\* execute, ApiInterceptors::check, RawUnaryCapture: a call is refused or goes on.
LEMMA FiltersKeep ==
    ASSUME GatewayInv, NEW c \in Calls, HttpFilter(c) \/ Intercept(c) \/ HttpParse(c)
    PROVE  GatewayInv'
<1>1. call[c].pc \in {"filter", "intercept", "parse"} /\ job[c] = "none"
    BY BeforeJob DEF HttpFilter, Intercept, HttpParse
<1>2. UNCHANGED <<fixed, job, conns, workers, views, accepted>>
    BY DEF HttpFilter, Intercept, HttpParse
<1>3. \/ \E told \in {"closed", "malformed", "ok"} : Answer(c, told)
      \/ GoOn(c, "handle") \/ (GoOn(c, "endpoint") /\ call[c].pc = "filter")
    BY DEF HttpFilter, Intercept, HttpParse
<1>4. call[c].pc = "filter" => call[c].slot = "none"
    BY OneCall DEF Placed
<1> QED
    BY <1>1, <1>2, <1>3, <1>4, EarlyAnswer, GoesOn

\* handle: the JSON-RPC permit.
LEMMA JsonAdmitKeeps ==
    ASSUME GatewayInv, NEW c \in Calls, JsonAdmit(c)
    PROVE  GatewayInv'
<1> DEFINE r == call'[c]
<1>0. CallRow(call[c]) /\ DOMAIN call = Calls /\ Placed(call[c], job[c]) /\ call[c].pc = "json"
    BY OneCall DEF JsonAdmit
<1>1. job[c] = "none" /\ call[c].told = "none" /\ c \notin accepted /\ call[c].slot = "none" /\ ~call[c].wait
    BY <1>0, BeforeJob DEF Placed, Stages
<1>2. UNCHANGED <<fixed, job, conns, workers, views, accepted>>
    BY DEF JsonAdmit
<1>3. CASE \E told \in {"overload", "malformed"} : Answer(c, told)
    BY <1>1, <1>2, <1>3, EarlyAnswer
<1>4. CASE slots["json"] # 0 /\ slots' = [slots EXCEPT !["json"] = @ - 1] /\ call' = [call EXCEPT ![c].pc = "queue", ![c].slot = "json"]
  <2>1. r = [pc |-> "queue", req |-> call[c].req, wait |-> call[c].wait, slot |-> "json", conn |-> call[c].conn, left |-> call[c].left,
             key |-> call[c].key, seen |-> call[c].seen, told |-> call[c].told] /\ CallBecomes(c, r)
    BY <1>0, <1>4 DEF CallRow, CallBecomes
  <2>2. CallRow(r) /\ r.pc = "queue" /\ r.wait = FALSE /\ r.slot = "json" /\ r.conn = call[c].conn /\ r.told = "none" /\ r.req = call[c].req
    BY <1>0, <1>1, <2>1 DEF CallRow, Places, Stages
  <2>3. slots["json"] \in Nat /\ slots["json"] > 0
    BY <1>4 DEF GatewayInv, SlotsCounted, Permits
  <2>4. OthersKept(c) /\ job'[c] = "none" /\ accepted' = accepted /\ accepted \subseteq Calls /\ apiNode' = apiNode /\ job' = job
    BY <1>1, <1>2 DEF OthersKept, GatewayInv, JobsShape, fixed
  <2> HIDE DEF r
  <2>5. SlotsCounted'
    BY <1>1, <1>4, <2>1, <2>2, <2>3, SlotStep
  <2> QED
    BY <1>0, <1>1, <1>2, <2>1, <2>2, <2>4, <2>5, StepKeeps, WorkerStep, ConnStep
       DEF Placed, ToldTruly, UpToDate, ReadOnly, GatewayInv, Live
<1> QED
    BY <1>3, <1>4 DEF JsonAdmit

\* ApiRateLimiter::acquire: a waiter takes nothing yet.
LEMMA AcquireKeeps ==
    ASSUME GatewayInv, NEW c \in Calls, Acquire(c)
    PROVE  GatewayInv'
<1> DEFINE r == call'[c]
<1>0. CallRow(call[c]) /\ DOMAIN call = Calls /\ Placed(call[c], job[c]) /\ call[c].pc \in Stages
    BY OneCall DEF Acquire, Stages
<1>1. job[c] = "none" /\ call[c].told = "none" /\ c \notin accepted
    BY <1>0, BeforeJob DEF Stages
<1>2. UNCHANGED <<fixed, job, conns, workers, views, accepted>>
    BY DEF Acquire
<1>3. \/ \E told \in {"internal", "overload"} : Answer(c, told)
      \/ GoOn(c, NextStage(c))
      \/ call' = [call EXCEPT ![c].wait = TRUE] /\ slots' = slots
    BY DEF Acquire
<1>4. NextStage(c) \in {"ip", "global", "intercept", "parse"}
    BY DEF NextStage
<1>5. CASE \E told \in {"internal", "overload"} : Answer(c, told)
    BY <1>1, <1>2, <1>5, EarlyAnswer
<1>6. CASE GoOn(c, NextStage(c))
    BY <1>0, <1>1, <1>2, <1>4, <1>6, GoesOn DEF Stages
<1>7. CASE call' = [call EXCEPT ![c].wait = TRUE] /\ slots' = slots
  <2>1. r = [pc |-> call[c].pc, req |-> call[c].req, wait |-> TRUE, slot |-> call[c].slot, conn |-> call[c].conn, left |-> call[c].left,
             key |-> call[c].key, seen |-> call[c].seen, told |-> call[c].told] /\ CallBecomes(c, r)
    BY <1>0, <1>7 DEF CallRow, CallBecomes
  <2>2. CallRow(r) /\ r.pc = call[c].pc /\ r.slot = call[c].slot /\ r.conn = call[c].conn /\ r.told = "none" /\ r.req = call[c].req
    BY <1>0, <1>1, <2>1 DEF CallRow
  <2>4. OthersKept(c) /\ job'[c] = "none" /\ accepted' = accepted /\ accepted \subseteq Calls /\ apiNode' = apiNode /\ job' = job
    BY <1>1, <1>2 DEF OthersKept, GatewayInv, JobsShape, fixed
  <2> HIDE DEF r
  <2>5. SlotsCounted'
    BY <1>7, <2>1, <2>2, SlotStep
  <2> QED
    BY <1>0, <1>1, <1>2, <2>1, <2>2, <2>4, <2>5, StepKeeps, WorkerStep, ConnStep
       DEF Placed, ToldTruly, UpToDate, ReadOnly, GatewayInv, Live, Stages
<1> QED
    BY <1>3, <1>5, <1>6, <1>7

\* acquire_endpoint: the semaphore of a preemptible endpoint.
LEMMA AcquireSlotKeeps ==
    ASSUME GatewayInv, NEW c \in Calls, AcquireSlot(c)
    PROVE  GatewayInv'
<1> DEFINE r == call'[c]
           m == call[c].req.method
<1>0. CallRow(call[c]) /\ DOMAIN call = Calls /\ Placed(call[c], job[c]) /\ call[c].pc = "endpoint" /\ m \in Preemptible
    BY OneCall DEF AcquireSlot
<1>1. job[c] = "none" /\ call[c].told = "none" /\ c \notin accepted /\ call[c].slot = "none"
    BY <1>0, BeforeJob DEF Placed
<1>2. UNCHANGED <<fixed, job, conns, workers, views, accepted>>
    BY DEF AcquireSlot
<1>3. CASE Answer(c, "overload")
    BY <1>1, <1>2, <1>3, EarlyAnswer
<1>4. CASE slots[m] > 0 /\ slots' = [slots EXCEPT ![m] = @ - 1] /\ call' = [call EXCEPT ![c].pc = "ip", ![c].slot = m]
  <2>1. r = [pc |-> "ip", req |-> call[c].req, wait |-> call[c].wait, slot |-> m, conn |-> call[c].conn, left |-> call[c].left,
             key |-> call[c].key, seen |-> call[c].seen, told |-> call[c].told] /\ CallBecomes(c, r)
    BY <1>0, <1>4 DEF CallRow, CallBecomes
  <2>2. CallRow(r) /\ r.pc = "ip" /\ r.slot = m /\ r.conn = call[c].conn /\ r.told = "none" /\ r.req = call[c].req
    BY <1>0, <1>1, <2>1 DEF CallRow, Places, Stages
  <2>4. OthersKept(c) /\ job'[c] = "none" /\ accepted' = accepted /\ accepted \subseteq Calls /\ apiNode' = apiNode /\ job' = job
    BY <1>1, <1>2 DEF OthersKept, GatewayInv, JobsShape, fixed
  <2> HIDE DEF r
  <2>5. SlotsCounted'
    BY <1>0, <1>1, <1>4, <2>1, <2>2, SlotStep
  <2> HIDE DEF m
  <2> QED
    BY <1>0, <1>1, <1>2, <2>1, <2>2, <2>4, <2>5, StepKeeps, WorkerStep, ConnStep
       DEF Placed, ToldTruly, UpToDate, ReadOnly, GatewayInv, Live, Stages
<1> QED
    BY <1>3, <1>4 DEF AcquireSlot

\* A waiter goes on or gives up.
LEMMA RetryKeeps ==
    ASSUME GatewayInv, NEW c \in Calls, Retry(c)
    PROVE  GatewayInv'
<1>0. call[c].pc \in Stages
    BY OneCall DEF Retry, Placed
<1>1. job[c] = "none"
    BY <1>0, BeforeJob DEF Stages
<1>2. UNCHANGED <<fixed, job, conns, workers, views, accepted>>
    BY DEF Retry
<1>3. Answer(c, "overload") \/ GoOn(c, NextStage(c))
    BY DEF Retry
<1>4. NextStage(c) \in {"ip", "global", "intercept", "parse"}
    BY DEF NextStage
<1> QED
    BY <1>0, <1>1, <1>2, <1>3, <1>4, EarlyAnswer, GoesOn DEF Stages

\* The deadline of the queue.
LEMMA QueueDeadlineKeeps ==
    ASSUME GatewayInv, NEW c \in Calls, QueueDeadline(c)
    PROVE  GatewayInv'
    BY BeforeJob, EarlyAnswer DEF QueueDeadline

-----------------------------------------------------------------------------
\* The steps of Plans read at the cursor; the row after one of them.
LEMMA ReadStepEffect ==
    ASSUME GatewayInv, NEW c \in Calls, ReadStep(c), OthersKept(c), job' = job,
           call[c].pc = "read" \/ job[c] \in Live,
           UNCHANGED <<conns, workers, accepted>>
    PROVE  GatewayInv'
<1> DEFINE r == call'[c]
           now == views[ReadCursor(c)]
<1>0. CallRow(call[c]) /\ DOMAIN call = Calls /\ now \in 0..MaxHeight
    BY OneCall
<1>1. PICK key, seen, left :
         /\ call' = [call EXCEPT ![c].left = left, ![c].key = key, ![c].seen = seen]
         /\ key \in {now, call[c].key} /\ seen \in {now, call[c].seen}
    BY DEF ReadStep
<1>2. r = [pc |-> call[c].pc, req |-> call[c].req, wait |-> call[c].wait, slot |-> call[c].slot, conn |-> call[c].conn, left |-> left,
           key |-> key, seen |-> seen, told |-> call[c].told] /\ CallBecomes(c, r)
    BY <1>0, <1>1 DEF CallRow, CallBecomes
<1>3. key \in 0..MaxHeight /\ seen \in 0..MaxHeight
    BY <1>0, <1>1 DEF CallRow
<1>4. CallRow(r)
    BY <1>0, <1>2, <1>3 DEF CallRow
<1>5. r.pc = call[c].pc /\ r.wait = call[c].wait /\ r.slot = call[c].slot /\ r.conn = call[c].conn /\ r.told = call[c].told
      /\ r.req = call[c].req /\ r.seen = seen
    BY <1>2
<1>6. slots' = slots /\ apiNode' = apiNode /\ views' = views
    BY DEF ReadStep, OthersKept
<1>7. views[ReadCursor(c)]' = now
    BY <1>5, <1>6, CursorKept
<1>8. call[c].seen <= now /\ call[c].told # "missing" /\ now <= now
  <2>1. call[c].seen <= now
    BY OneCall DEF UpToDate
  <2>2. call[c].told # "missing"
    BY OneCall DEF Placed, ToldTruly, Live
  <2> QED
    BY <1>0, <2>1, <2>2
<1>9. seen <= now
    BY <1>1, <1>8
<1> HIDE DEF r, now
<1>10. Placed(r, job'[c]) /\ ToldTruly(r, job'[c], c \in accepted')
    BY <1>5, OneCall DEF Placed, ToldTruly
<1>11. UpToDate(r, job'[c], views[ReadCursor(c)]')
    BY <1>5, <1>7, <1>8, <1>9 DEF UpToDate
<1>12. WorkersCounted' /\ SlotsCounted' /\ ConnsCounted'
    BY <1>2, <1>5, <1>6, WorkerStep, SlotStep, ConnStep
<1> QED
    BY <1>2, <1>4, <1>6, <1>10, <1>11, <1>12, StepKeeps DEF ReadOnly, GatewayInv

\* What is not found now was not visible when the reader last looked.
LEMMA MissingIsNew ==
    ASSUME GatewayInv, NEW c \in Calls, Missing(c), call[c].pc = "read" \/ job[c] \in Live
    PROVE  call[c].key > call[c].seen
<1>1. call[c].seen \in Nat /\ call[c].key \in Nat /\ views[ReadCursor(c)] \in Nat
    BY CallHeights
<1>2. call[c].seen <= views[ReadCursor(c)] /\ call[c].key > views[ReadCursor(c)]
    BY OneCall DEF Missing, UpToDate
<1> QED
    BY <1>1, <1>2

\* A handler on the server's task.
LEMMA ReadKeeps ==
    ASSUME GatewayInv, NEW c \in Calls, Read(c)
    PROVE  GatewayInv'
<1>1. call[c].pc = "read" /\ job[c] = "none"
    BY BeforeJob DEF Read
<1>2. UNCHANGED <<fixed, job, conns, workers, views, accepted>>
    BY DEF Read
<1>3. OthersKept(c)
    BY <1>2 DEF OthersKept, GatewayInv, JobsShape, fixed
<1>4. CASE ReadStep(c)
    BY <1>1, <1>2, <1>3, <1>4, ReadStepEffect
<1>5. CASE Missing(c) /\ Answer(c, "missing")
    BY <1>1, <1>2, <1>5, MissingIsNew, EarlyAnswer
<1>6. CASE \E told \in {"malformed", "ok"} : Answer(c, told)
    BY <1>1, <1>2, <1>6, EarlyAnswer
<1> QED
    BY <1>4, <1>5, <1>6 DEF Read

\* The handler begins: it notes what is visible, and reads or queues.
LEMMA HandleKeeps ==
    ASSUME GatewayInv, NEW c \in Calls, Handle(c)
    PROVE  GatewayInv'
<1> DEFINE r == call'[c]
           now == views[ReadCursor(c)]
<1>0. CallRow(call[c]) /\ DOMAIN call = Calls /\ Placed(call[c], job[c]) /\ call[c].pc = "handle" /\ now \in 0..MaxHeight
    BY OneCall DEF Handle
<1>1. job[c] = "none" /\ call[c].told = "none" /\ c \notin accepted /\ ~call[c].wait
    BY <1>0, BeforeJob DEF Placed, Stages
<1>2. UNCHANGED <<fixed, job, conns, workers, views, accepted>>
    BY DEF Handle
<1>3. CASE Answer(c, "unimplemented")
    BY <1>1, <1>2, <1>3, EarlyAnswer
<1>4. ASSUME NEW pc \in {"queue", "read"}, NEW left, slots' = slots,
             call' = [call EXCEPT ![c].pc = pc, ![c].left = left, ![c].seen = views[ReadCursor(c)]]
      PROVE  GatewayInv'
  <2>1. r = [pc |-> pc, req |-> call[c].req, wait |-> call[c].wait, slot |-> call[c].slot, conn |-> call[c].conn, left |-> left,
             key |-> call[c].key, seen |-> now, told |-> call[c].told] /\ CallBecomes(c, r)
    BY <1>0, <1>4 DEF CallRow, CallBecomes
  <2>2. CallRow(r) /\ r.pc = pc /\ r.wait = FALSE /\ r.slot = call[c].slot /\ r.conn = call[c].conn /\ r.told = "none" /\ r.req = call[c].req
        /\ r.seen = now
    BY <1>0, <1>1, <2>1 DEF CallRow, Places
  <2>3. OthersKept(c) /\ job'[c] = "none" /\ accepted' = accepted /\ accepted \subseteq Calls /\ apiNode' = apiNode /\ job' = job /\ views' = views
    BY <1>1, <1>2 DEF OthersKept, GatewayInv, JobsShape, fixed
  <2>4. views[ReadCursor(c)]' = now
    BY <2>2, <2>3, CursorKept
  <2>5. now <= now
    BY <1>0
  <2> HIDE DEF r, now
  <2>6. SlotsCounted' /\ WorkersCounted' /\ ConnsCounted'
    BY <1>1, <1>2, <1>4, <2>1, <2>2, <2>3, SlotStep, WorkerStep, ConnStep DEF Live
  <2>7. UpToDate(r, job'[c], views[ReadCursor(c)]')
    BY <2>2, <2>4, <2>5 DEF UpToDate
  <2> QED
    BY <1>0, <1>1, <1>2, <2>1, <2>2, <2>3, <2>6, <2>7, StepKeeps DEF Placed, ToldTruly, ReadOnly, GatewayInv, Live
<1> QED
    BY <1>3, <1>4 DEF Handle

\* BlockingExecutor::run: the permit moves into the worker.
LEMMA TakeWorkerKeeps ==
    ASSUME GatewayInv, NEW c \in Calls, TakeWorker(c)
    PROVE  GatewayInv'
<1> DEFINE r == call'[c]
           now == views[ReadCursor(c)]
           left == Steps(call[c].req)
<1>0. CallRow(call[c]) /\ DOMAIN call = Calls /\ Placed(call[c], job[c]) /\ call[c].pc = "queue" /\ now \in 0..MaxHeight
      /\ job \in [Calls -> Live \cup {"none", "ended"}]
    BY OneCall DEF TakeWorker
<1>1. job[c] = "none" /\ call[c].told = "none" /\ c \notin accepted /\ ~call[c].wait
    BY <1>0, BeforeJob DEF Placed, Stages
<1>2. /\ workers[Pool(call[c].req)] > 0 /\ workers' = [workers EXCEPT ![Pool(call[c].req)] = @ - 1]
      /\ job' = [job EXCEPT ![c] = "spawned"]
      /\ call' = [call EXCEPT ![c].pc = "await", ![c].left = left, ![c].seen = now]
      /\ apiNode' = apiNode /\ slots' = slots /\ conns' = conns /\ views' = views /\ accepted' = accepted
    BY DEF TakeWorker, fixed
<1> HIDE DEF left
<1>3. r = [pc |-> "await", req |-> call[c].req, wait |-> call[c].wait, slot |-> call[c].slot, conn |-> call[c].conn, left |-> left,
           key |-> call[c].key, seen |-> now, told |-> call[c].told] /\ CallBecomes(c, r)
    BY <1>0, <1>2 DEF CallRow, CallBecomes
<1>4. CallRow(r) /\ r.pc = "await" /\ r.wait = FALSE /\ r.slot = call[c].slot /\ r.conn = call[c].conn /\ r.told = "none" /\ r.req = call[c].req
      /\ r.seen = now
    BY <1>0, <1>1, <1>3 DEF CallRow, Places
<1>5. OthersKept(c) /\ job'[c] = "spawned" /\ accepted \subseteq Calls
    BY <1>0, <1>2 DEF OthersKept, GatewayInv, Live
<1>6. views[ReadCursor(c)]' = now
    BY <1>2, <1>4, CursorKept
<1>7. now <= now
    BY <1>0
<1> HIDE DEF r, now
<1>8. WorkersCounted'
    BY <1>1, <1>2, <1>3, <1>4, <1>5, WorkerStep DEF Live
<1>9. SlotsCounted' /\ ConnsCounted'
    BY <1>2, <1>3, <1>4, SlotStep, ConnStep
<1>10. UpToDate(r, job'[c], views[ReadCursor(c)]')
    BY <1>4, <1>6, <1>7 DEF UpToDate
<1>11. ReadOnly'
    BY <1>0, <1>2 DEF GatewayInv, ReadOnly
<1>12. Placed(r, job'[c]) /\ ToldTruly(r, job'[c], c \in accepted')
    BY <1>0, <1>1, <1>2, <1>4, <1>5 DEF Placed, ToldTruly, Live
<1> QED
    BY <1>2, <1>3, <1>4, <1>5, <1>8, <1>9, <1>10, <1>11, <1>12, StepKeeps

\* A job that stays in the pool.
LEMMA JobGoesOn ==
    ASSUME GatewayInv, NEW c \in Calls, NEW to \in Live, job[c] \in Live, job' = [job EXCEPT ![c] = to],
           to = "sending" => apiNode # "solidity",
           UNCHANGED <<fixed, call, slots, conns, workers, views, accepted>>
    PROVE  GatewayInv'
<1> DEFINE r == call[c]
<1>0. CallRow(r) /\ DOMAIN call = Calls /\ job \in [Calls -> Live \cup {"none", "ended"}]
    BY OneCall
<1>1. call' = call /\ CallBecomes(c, r) /\ apiNode' = apiNode /\ views' = views
    BY <1>0 DEF CallBecomes, fixed
<1>2. OthersKept(c) /\ job'[c] = to /\ accepted \subseteq Calls
    BY <1>0, <1>1 DEF OthersKept, GatewayInv
<1>3. views[ReadCursor(c)]' = views[ReadCursor(c)]
    BY <1>1, CursorKept
<1>4. Placed(r, job'[c]) /\ ToldTruly(r, job'[c], c \in accepted') /\ UpToDate(r, job'[c], views[ReadCursor(c)]')
    BY <1>2, <1>3, OneCall DEF Placed, ToldTruly, UpToDate, Live
<1>5. ReadOnly'
    BY <1>0, <1>1 DEF GatewayInv, ReadOnly
<1> HIDE DEF r
<1>6. SlotsCounted' /\ ConnsCounted' /\ WorkersCounted'
    BY <1>1, <1>2, SlotStep, ConnStep, WorkerStep DEF r
<1> QED
    BY <1>0, <1>1, <1>2, <1>4, <1>5, <1>6, StepKeeps

\* The worker's own steps.
LEMMA WorkersKeep ==
    ASSUME GatewayInv, NEW c \in Calls, WorkerStart(c) \/ WorkerRead(c) \/ WorkerCheck(c) \/ Submit(c)
    PROVE  GatewayInv'
<1>0. job[c] \in Live /\ c \notin accepted /\ (job[c] = "sending" => apiNode # "solidity")
    BY OneCall DEF WorkerStart, WorkerRead, WorkerCheck, Submit, Live, ToldTruly, GatewayInv, ReadOnly
<1>1. CASE \E told \in {"cancelled", "malformed", "ok", "unavailable", "rejected"} : EndJob(c, told) /\ accepted' = accepted
    BY <1>0, <1>1, JobEnds
<1>2. CASE Missing(c) /\ EndJob(c, "missing") /\ accepted' = accepted
    BY <1>0, <1>2, JobEnds, MissingIsNew
<1>3. CASE job[c] = "sending" /\ EndJob(c, "accepted") /\ accepted' = accepted \cup {c}
    BY <1>0, <1>3, JobEnds
<1>4. CASE /\ \E to \in Live : job' = [job EXCEPT ![c] = to] /\ (to = "sending" => apiNode # "solidity")
           /\ UNCHANGED <<fixed, call, slots, conns, workers, views, accepted>>
    BY <1>0, <1>4, JobGoesOn
<1>5. CASE ReadStep(c) /\ UNCHANGED <<fixed, job, conns, workers, views, accepted>>
  <2>1. OthersKept(c)
    BY <1>5 DEF OthersKept, GatewayInv, JobsShape, fixed
  <2> QED
    BY <1>0, <1>5, <2>1, ReadStepEffect
<1>6. CASE WorkerStart(c)
    BY <1>1, <1>4, <1>6 DEF WorkerStart, Live
<1>7. CASE WorkerRead(c)
    BY <1>1, <1>2, <1>5, <1>7 DEF WorkerRead
<1>8. CASE WorkerCheck(c)
    BY <1>1, <1>4, <1>8 DEF WorkerCheck, Live
<1>9. CASE Submit(c)
    BY <1>1, <1>3, <1>9 DEF Submit
<1> QED
    BY <1>6, <1>7, <1>8, <1>9

\* TimeoutLayer: the caller is told, the worker keeps its permit and goes on.
LEMMA DeadlineKeeps ==
    ASSUME GatewayInv, NEW c \in Calls, Deadline(c)
    PROVE  GatewayInv'
<1> DEFINE r == Done(call[c], "deadline")
<1>0. call[c].pc # "idle" /\ call[c].pc # "done" /\ UNCHANGED <<fixed, job, conns, workers, views, accepted>>
    BY DEF Deadline
<1>1. CallRow(r) /\ CallBecomes(c, r) /\ SlotsCounted'
    BY AnswerEffect DEF Deadline
<1>2. r.pc = "done" /\ r.req = call[c].req /\ r.wait = FALSE /\ r.slot = "none" /\ r.conn = call[c].conn /\ r.told = "deadline"
      /\ r.key = call[c].key /\ r.seen = call[c].seen
    BY DEF Done
<1>3. OthersKept(c) /\ job' = job /\ accepted' = accepted /\ accepted \subseteq Calls /\ views' = views /\ apiNode' = apiNode
    BY <1>0 DEF OthersKept, GatewayInv, JobsShape, fixed
<1> HIDE DEF r
<1>4. views[ReadCursor(c)]' = views[ReadCursor(c)]
    BY <1>1, <1>2, <1>3, CursorKept DEF CallBecomes
<1>5. Placed(r, job'[c]) /\ ToldTruly(r, job'[c], c \in accepted') /\ UpToDate(r, job'[c], views[ReadCursor(c)]')
    BY <1>0, <1>2, <1>3, <1>4, OneCall DEF Placed, ToldTruly, UpToDate
<1>6. WorkersCounted' /\ ConnsCounted'
    BY <1>0, <1>1, <1>2, <1>3, WorkerStep, ConnStep
<1> QED
    BY <1>1, <1>3, <1>5, <1>6, StepKeeps DEF GatewayInv, ReadOnly

\* The connection ends, with or without an answer.
LEMMA HangupKeeps ==
    ASSUME GatewayInv, NEW c \in Calls, Hangup(c)
    PROVE  GatewayInv'
<1> DEFINE r == call'[c]
           told == IF call[c].told = "none" THEN "dropped" ELSE call[c].told
<1>0. CallRow(call[c]) /\ DOMAIN call = Calls /\ Placed(call[c], job[c]) /\ call[c].conn
    BY OneCall DEF Hangup
<1>1. r = [pc |-> "done", req |-> call[c].req, wait |-> FALSE, slot |-> "none", conn |-> FALSE, left |-> call[c].left,
           key |-> call[c].key, seen |-> call[c].seen, told |-> told] /\ CallBecomes(c, r)
    BY <1>0 DEF CallRow, CallBecomes, Hangup
<1>2. CallRow(r)
    BY <1>0, <1>1 DEF CallRow, Places
<1>3. r.pc = "done" /\ r.req = call[c].req /\ r.wait = FALSE /\ r.slot = "none" /\ ~r.conn /\ r.told = told
      /\ r.key = call[c].key /\ r.seen = call[c].seen
    BY <1>1
<1>4. OthersKept(c) /\ job' = job /\ accepted' = accepted /\ accepted \subseteq Calls /\ views' = views /\ apiNode' = apiNode
      /\ workers' = workers
    BY DEF Hangup, OthersKept, GatewayInv, JobsShape, fixed
<1>5. /\ slots' = IF call[c].slot = "none" THEN slots ELSE [slots EXCEPT ![call[c].slot] = @ + 1]
      /\ conns' = [conns EXCEPT ![call[c].req.via] = @ + 1]
    BY DEF Hangup
<1>6. call[c].told # "none" => told = call[c].told /\ call[c].pc = "done"
    BY <1>0 DEF Placed
<1>7. call[c].told = "none" => told = "dropped"
    OBVIOUS
<1> HIDE DEF r, told
<1>8. views[ReadCursor(c)]' = views[ReadCursor(c)]
    BY <1>1, <1>3, <1>4, CursorKept DEF CallBecomes
<1>9. Placed(r, job'[c]) /\ ToldTruly(r, job'[c], c \in accepted') /\ UpToDate(r, job'[c], views[ReadCursor(c)]')
    BY <1>0, <1>3, <1>4, <1>6, <1>7, <1>8, OneCall DEF Placed, ToldTruly, UpToDate
<1>10. WorkersCounted' /\ ConnsCounted' /\ SlotsCounted'
    BY <1>0, <1>1, <1>3, <1>4, <1>5, WorkerStep, ConnStep, SlotStep
<1> QED
    BY <1>1, <1>2, <1>4, <1>9, <1>10, StepKeeps DEF GatewayInv, ReadOnly

\* publish_cursors raises every cursor.
LEMMA PublishKeeps ==
    ASSUME GatewayInv, PublishCursors
    PROVE  GatewayInv'
<1> DEFINE top == views["Head"] + 1
<1>1. /\ views' = [u \in Cursors |-> top] /\ views["Head"] < MaxHeight
      /\ UNCHANGED <<apiNode, call, job, slots, conns, workers, accepted>>
    BY DEF PublishCursors, fixed
<1>2. "Head" \in Cursors /\ views["Head"] \in Nat /\ top \in 0..MaxHeight /\ top <= top /\ \A u \in Cursors : views[u] \in Nat /\ views[u] <= top
    BY <1>1, GatewayNumbers DEF GatewayInv, ViewsShape, Cursors
<1>3. ViewsShape' /\ CallsShape' /\ JobsShape' /\ ReadOnly' /\ (accepted \subseteq Calls)'
    BY <1>1, <1>2 DEF GatewayInv, ViewsShape, CallsShape, JobsShape, ReadOnly
<1>4. WorkersCounted' /\ SlotsCounted' /\ ConnsCounted'
    BY <1>1 DEF GatewayInv, WorkersCounted, SlotsCounted, ConnsCounted, InPool, Holding, Connected, Pool
<1>5. ASSUME NEW c \in Calls PROVE CallSound(c)'
  <2>1. ReadCursor(c)' \in Cursors /\ ReadCursor(c)' = ReadCursor(c)
    BY <1>1, ReadsACursor, CursorKept
  <2>2. views'[ReadCursor(c)'] = top
    BY <1>1, <2>1
  <2>3. call[c].seen \in Nat /\ views[ReadCursor(c)] \in Nat /\ views[ReadCursor(c)] <= top /\ top \in Nat
    <3>1. call[c].seen \in Nat
      BY CallHeights
    <3> QED
      BY <1>2, <3>1, ReadsACursor
  <2> HIDE DEF top
  <2>4. UpToDate(call[c], job[c], views[ReadCursor(c)])'
    BY <1>1, <2>2, <2>3, OneCall DEF UpToDate
  <2> QED
    BY <1>1, <2>4, OneCall DEF CallSound
<1> QED
    BY <1>3, <1>4, <1>5 DEF GatewayInv

\* Steps that change no call: a token is refilled, or nothing happens.
LEMMA GatewayIdle ==
    ASSUME GatewayInv, UNCHANGED <<apiNode, call, job, slots, conns, workers, views, accepted>>
    PROVE  GatewayInv'
<1>1. ASSUME NEW c \in Calls PROVE CallSound(c)'
    BY CursorKept DEF GatewayInv, CallSound
<1> QED
    BY <1>1 DEF GatewayInv, ViewsShape, CallsShape, JobsShape, ReadOnly, WorkersCounted, SlotsCounted, ConnsCounted,
                InPool, Holding, Connected, Pool

\* Every step keeps the invariant.
LEMMA GatewayStep ==
    ASSUME GatewayInv, [GatewayNext]_gatewayVars
    PROVE  GatewayInv'
<1>1. CASE UNCHANGED gatewayVars \/ Refill
    BY <1>1, GatewayIdle DEF gatewayVars, Refill, fixed
<1>2. CASE PublishCursors
    BY <1>2, PublishKeeps
<1>3. ASSUME NEW c \in Calls, \E r \in Requests : Arrive(c, r) PROVE GatewayInv'
    BY <1>3, ArriveKeeps
<1>4. ASSUME NEW c \in Calls,
             \/ HttpFilter(c) \/ JsonAdmit(c)
             \/ Acquire(c) \/ AcquireSlot(c) \/ Retry(c)
             \/ Intercept(c) \/ HttpParse(c) \/ Handle(c) \/ Read(c)
             \/ TakeWorker(c) \/ QueueDeadline(c)
             \/ WorkerStart(c) \/ WorkerRead(c) \/ WorkerCheck(c) \/ Submit(c)
             \/ Deadline(c) \/ Hangup(c)
      PROVE  GatewayInv'
    BY <1>4, FiltersKeep, JsonAdmitKeeps, AcquireKeeps, AcquireSlotKeeps, RetryKeeps, HandleKeeps, ReadKeeps, TakeWorkerKeeps,
       QueueDeadlineKeeps, WorkersKeep, DeadlineKeeps, HangupKeeps
<1> QED
    BY <1>1, <1>2, <1>3, <1>4 DEF GatewayNext

\* A server that has just started: every permit is free.
LEMMA GatewayInitially == GatewayInit => GatewayInv
<1> SUFFICES ASSUME GatewayInit PROVE GatewayInv
    OBVIOUS
<1>1. IdleCall.req \in Requests
    BY GatewayBounds DEF IdleCall
<1>2. IdleCall.pc = "idle" /\ IdleCall.wait = FALSE /\ IdleCall.slot = "none" /\ IdleCall.conn = FALSE /\ IdleCall.key = 0
      /\ IdleCall.seen = 0 /\ IdleCall.told = "none" /\ CallRow(IdleCall)
    BY <1>1, GatewayNumbers DEF IdleCall, CallRow, Places
<1>3. CallsShape /\ JobsShape /\ ReadOnly /\ accepted \subseteq Calls
    BY <1>2 DEF GatewayInit, CallsShape, JobsShape, ReadOnly
<1>4. ViewsShape
    BY GatewayNumbers DEF GatewayInit, ViewsShape
<1>5. ASSUME NEW c \in Calls PROVE CallSound(c)
    BY <1>2 DEF GatewayInit, CallSound, Placed, ToldTruly, UpToDate, Live
<1>6. (\A p : InPool(p) = {}) /\ (\A s \in Preemptible \cup {"json"} : Holding(s) = {}) /\ (\A v : Connected(v) = {})
    BY <1>2, GatewayNumbers DEF GatewayInit, InPool, Holding, Connected, Live
<1>7. Cardinality({}) = 0
    BY FS_EmptySet
<1>8. \A n \in Nat : Permits(n, n, {})
    BY <1>7 DEF Permits
<1>9. WorkersCounted
    BY <1>6, <1>8, GatewayNumbers DEF GatewayInit, WorkersCounted
<1>10. SlotsCounted
    BY <1>6, <1>8, GatewayNumbers DEF GatewayInit, SlotsCounted
<1>11. ConnsCounted
    BY <1>6, <1>8, GatewayNumbers DEF GatewayInit, ConnsCounted
<1> QED
    BY <1>3, <1>4, <1>5, <1>9, <1>10, <1>11 DEF GatewayInv

(* The inductive invariant of the API servers: what the place of a call says of its   *)
(* permits, its job and its answer (http.rs, rpc interceptors, blocking.rs run).       *)
THEOREM GatewayInvariant == GatewaySpec => []GatewayInv
    BY GatewayInitially, GatewayStep, PTL DEF GatewaySpec

(* Every call is at a place of its server, and every permit count stays between zero   *)
(* and its limit, whoever times out or hangs up while a worker still runs              *)
(* (blocking.rs BlockingExecutor::run, ApiRateLimiter, serve_listener).                *)
THEOREM GatewayTypes == GatewaySpec => []GatewayTypeOK
<1>1. GatewayInv => GatewayTypeOK
  <2> SUFFICES ASSUME GatewayInv PROVE GatewayTypeOK
    OBVIOUS
  <2>1. ASSUME NEW free, NEW total \in Nat, NEW S, IsFiniteSet(S), Permits(free, total, S) PROVE free \in 0..total
    BY <2>1, FS_CardinalityType DEF Permits
  <2>2. workers \in [{"rpc", "json"} -> 0..Workers]
    BY <2>1, HoldersFinite, GatewayNumbers DEF GatewayInv, WorkersCounted
  <2>3. slots \in [Preemptible \cup {"json"} -> 0..Slots]
    BY <2>1, HoldersFinite, GatewayNumbers DEF GatewayInv, SlotsCounted
  <2>4. conns \in [{"http", "json"} -> 0..MaxConnections]
    BY <2>1, HoldersFinite, GatewayNumbers DEF GatewayInv, ConnsCounted
  <2> QED
    BY <2>2, <2>3, <2>4 DEF GatewayInv, GatewayTypeOK, CallsShape, CallRow, JobsShape, ViewsShape, Live
<1> QED
    BY <1>1, GatewayInvariant, PTL

(* What a client is told of its broadcast is final, and the work it leaves behind when *)
(* it gives up still counts against the pool (wallet_mutation.rs                       *)
(* broadcast_raw_cancellable, blocking.rs BlockingExecutor::run).                      *)
THEOREM BroadcastsSettled == GatewaySpec => []BroadcastSettled
<1>1. GatewayInv => BroadcastSettled
  <2> SUFFICES ASSUME GatewayInv PROVE BroadcastSettled
    OBVIOUS
  <2>1. BroadcastTold
    BY OneCall DEF GatewayInv, ReadOnly, BroadcastTold, ToldTruly
  <2>2. ASSUME NEW p \in {"rpc", "json"}
        PROVE  Cardinality({c \in Calls : job[c] \notin {"none", "ended"} /\ Pool(call[c].req) = p}) <= Workers
    <3>1. {c \in Calls : job[c] \notin {"none", "ended"} /\ Pool(call[c].req) = p} = InPool(p)
      BY DEF InPool, GatewayInv, JobsShape, Live
    <3>2. Cardinality(InPool(p)) \in Nat /\ Permits(workers[p], Workers, InPool(p))
      BY HoldersFinite, FS_CardinalityType DEF GatewayInv, WorkersCounted
    <3>3. Cardinality(InPool(p)) <= Workers
      BY <3>2, GatewayNumbers DEF Permits
    <3> QED
      BY <3>1, <3>3
  <2> QED
    BY <2>1, <2>2 DEF BroadcastSettled, WorkBounded
<1> QED
    BY <1>1, GatewayInvariant, PTL

(* What was visible at a cursor when the handler looked is never answered as missing,  *)
(* while publish_cursors moves the cursors under it (wallet_query.rs).                 *)
THEOREM AnswersAreFound == GatewaySpec => []AnswersFound
<1>1. GatewayInv => AnswersFound
    BY OneCall DEF AnswersFound, UpToDate
<1> QED
    BY <1>1, GatewayInvariant, PTL

-----------------------------------------------------------------------------
\* The release installer.
RelSpec == RelInit /\ [][RelNext]_relVars

RelPhases == {"Staged", "SlotPublished", "ConfigSlotPublished", "ConfigCurrentPublished", "ReceiptPublished", "CurrentPublished", "Pruned"}
MaybeId == Ids \cup {NoRelease}
LayoutShape ==
    /\ layout = [slots |-> layout.slots, order |-> layout.order, current |-> layout.current, receipt |-> layout.receipt,
                 journal |-> layout.journal]
    /\ layout.slots \in [Trees -> [Ids -> {"none", "staging", "slot", "torn"}]]
    /\ layout.current \in [Trees -> MaybeId] /\ layout.receipt \in MaybeId
OtherShapes ==
    /\ trust \in Stores /\ bundle \in [Ids -> {"good", "edited", "replaced"}] /\ published \in {"none", "partial", "staged"}
\* Where the installer is; a plan, a copy and a new journal are made only without a journal.
InstallerShape ==
    /\ installer = [at |-> installer.at, id |-> installer.id]
    /\ installer.at \in {"idle", "verified", "publish", "before", "plan", "copy", "journal", "advance", "recover"}
    /\ installer.at # "idle" => installer.id \in Ids
    /\ installer.at \in {"plan", "copy", "journal"} => ~Journaled
Newer(i, receipt) == receipt # NoRelease => Sequence(receipt) < Sequence(i)
Copying ==
    /\ installer.at \in {"copy", "journal"} => Newer(installer.id, layout.receipt) /\ installer.id # layout.receipt
    /\ installer.at = "journal" => \A t \in Trees : layout.slots[t][installer.id] = "staging"
JournalShape ==
    Journaled =>
      /\ J = [id |-> J.id, phase |-> J.phase, previous |-> J.previous, previousReceipt |-> J.previousReceipt, prune |-> J.prune]
      /\ J.id \in Ids /\ J.phase \in RelPhases /\ J.previousReceipt \in MaybeId
      /\ J.id # J.previousReceipt /\ Newer(J.id, J.previousReceipt)
      /\ \A t \in Trees : J.previous[t] = J.previousReceipt /\ J.id \notin J.prune[t]
\* What each phase of the journal finds: its own effect, or the state before it.
SlotsByPhase ==
    Journaled =>
      /\ layout.slots["bin"][J.id] \in (IF J.phase = "Staged" THEN {"staging", "slot"} ELSE {"slot"})
      /\ layout.slots["config"][J.id] \in
            (IF J.phase = "Staged" THEN {"staging"} ELSE IF J.phase = "SlotPublished" THEN {"staging", "slot"} ELSE {"slot"})
Either(before, at) == IF J.phase \in before THEN {J.previousReceipt} ELSE IF J.phase = at THEN {J.previousReceipt, J.id} ELSE {J.id}
LinksByPhase ==
    Journaled =>
      /\ layout.current["config"] \in Either({"Staged", "SlotPublished"}, "ConfigSlotPublished")
      /\ layout.receipt \in Either({"Staged", "SlotPublished", "ConfigSlotPublished"}, "ConfigCurrentPublished")
      /\ layout.current["bin"] \in
            Either({"Staged", "SlotPublished", "ConfigSlotPublished", "ConfigCurrentPublished"}, "ReceiptPublished")
SelectedWhole == \A t \in Trees : layout.current[t] # NoRelease => layout.slots[t][layout.current[t]] = "slot"
OneRelease == ~Journaled => \A t \in Trees : layout.current[t] = layout.receipt

\* The inductive invariant.
InstallInv ==
    /\ LayoutShape /\ OtherShapes /\ InstallerShape /\ Copying /\ JournalShape
    /\ SlotsByPhase /\ LinksByPhase /\ SelectedWhole /\ OneRelease

\* The order of the phases.
LEMMA PhaseOrder ==
    /\ NextPhase("Staged") = "SlotPublished" /\ NextPhase("SlotPublished") = "ConfigSlotPublished"
    /\ NextPhase("ConfigSlotPublished") = "ConfigCurrentPublished" /\ NextPhase("ConfigCurrentPublished") = "ReceiptPublished"
    /\ NextPhase("ReceiptPublished") = "CurrentPublished" /\ NextPhase("CurrentPublished") = "Pruned"
    /\ ToSet(InstallPhases) = RelPhases
<1>1. /\ InstallPhases[1] = "Staged" /\ InstallPhases[2] = "SlotPublished" /\ InstallPhases[3] = "ConfigSlotPublished"
      /\ InstallPhases[4] = "ConfigCurrentPublished" /\ InstallPhases[5] = "ReceiptPublished" /\ InstallPhases[6] = "CurrentPublished"
      /\ InstallPhases[7] = "Pruned" /\ Len(InstallPhases) = 7 /\ DOMAIN InstallPhases = 1..7
    BY DEF InstallPhases
<1>2. 2..7 = {2, 3, 4, 5, 6, 7} /\ 1..7 = {1, 2, 3, 4, 5, 6, 7} /\ 2 - 1 = 1 /\ 3 - 1 = 2 /\ 4 - 1 = 3 /\ 5 - 1 = 4 /\ 6 - 1 = 5 /\ 7 - 1 = 6
    OBVIOUS
<1> HIDE DEF InstallPhases
<1>3. ASSUME NEW k \in {2, 3, 4, 5, 6, 7} PROVE NextPhase(InstallPhases[k - 1]) = InstallPhases[k]
  <2>1. \A n \in 2..Len(InstallPhases) : InstallPhases[n - 1] = InstallPhases[k - 1] <=> n = k
    BY <1>1, <1>2
  <2>2. (CHOOSE n \in 2..Len(InstallPhases) : InstallPhases[n - 1] = InstallPhases[k - 1]) = k
    BY <1>1, <1>2, <2>1
  <2> QED
    BY <2>2 DEF NextPhase
<1>4. ToSet(InstallPhases) = RelPhases
    BY <1>1, <1>2 DEF ToSet, RelPhases
<1> QED
    BY <1>1, <1>2, <1>3, <1>4

\* An installation starts with a release of its own or with none.
LEMMA InstallInitially == RelInit => InstallInv
<1> SUFFICES ASSUME RelInit PROVE InstallInv
    OBVIOUS
<1>1. ~Journaled /\ FirstStore \in Stores
    BY ReleaseAssumption DEF RelInit, Journaled
<1>2. LayoutShape /\ OtherShapes /\ InstallerShape /\ Copying
    BY <1>1 DEF RelInit, LayoutShape, OtherShapes, InstallerShape, Copying, MaybeId, Quiet
<1>3. SelectedWhole /\ OneRelease
    BY DEF RelInit, SelectedWhole, OneRelease
<1> QED
    BY <1>1, <1>2, <1>3 DEF InstallInv, JournalShape, SlotsByPhase, LinksByPhase

\* Steps that leave the installation directories alone.
LEMMA LayoutSame ==
    ASSUME InstallInv, layout' = layout, OtherShapes', InstallerShape', Copying'
    PROVE  InstallInv'
    BY DEF InstallInv, LayoutShape, JournalShape, SlotsByPhase, LinksByPhase, SelectedWhole, OneRelease, Journaled, J, Either

\* The operator, the bundle and the planning of an install.
LEMMA OperatorKeeps ==
    ASSUME InstallInv,
           \/ RotateTrust \/ (\E i \in Ids : BundleChanges(i) \/ \E now \in Times : VerifyBundle(i, now))
           \/ BeginPublication \/ StagePublication \/ BeginInstall \/ PlanInstall \/ IoError \/ UNCHANGED relVars
    PROVE  InstallInv'
<1>0. OtherShapes /\ InstallerShape /\ Copying
    BY DEF InstallInv
<1>1. layout' = layout /\ (Journaled' <=> Journaled)
    BY DEF RotateTrust, BundleChanges, VerifyBundle, BeginPublication, StagePublication, BeginInstall, PlanInstall, IoError, relVars,
           Journaled
<1>2. OtherShapes'
  <2>1. CASE RotateTrust
    BY <1>0, <2>1, ReleaseAssumption DEF RotateTrust, OtherShapes
  <2>2. CASE \E i \in Ids : BundleChanges(i)
    BY <1>0, <2>2 DEF BundleChanges, OtherShapes
  <2>3. CASE BeginPublication \/ StagePublication
    BY <1>0, <2>3 DEF BeginPublication, StagePublication, OtherShapes
  <2>4. CASE UNCHANGED <<trust, bundle, published>>
    BY <1>0, <2>4 DEF OtherShapes
  <2> QED
    BY <2>1, <2>2, <2>3, <2>4 DEF VerifyBundle, BeginInstall, PlanInstall, IoError, RelFault, relVars
<1>3. CASE installer' = installer
  <2>1. InstallerShape' /\ Copying'
    BY <1>0, <1>1, <1>3 DEF InstallerShape, Copying
  <2> QED
    BY <1>1, <1>2, <2>1, LayoutSame
<1>4. ASSUME NEW at \in {"idle", "verified", "publish", "before", "plan", "advance", "recover", "copy"}, NEW i,
             at # "idle" => i \in Ids, at \in {"plan", "copy"} => ~Journaled,
             at = "copy" => Newer(i, layout.receipt) /\ i # layout.receipt,
             installer' = [at |-> at, id |-> i]
      PROVE  InstallInv'
  <2>1. installer'.at = at /\ installer'.id = i
    BY <1>4
  <2>2. InstallerShape'
    BY <1>1, <1>4, <2>1 DEF InstallerShape
  <2>3. Copying'
    BY <1>1, <1>4, <2>1 DEF Copying
  <2> QED
    BY <1>1, <1>2, <2>2, <2>3, LayoutSame
<1>5. CASE Stops
    BY <1>4, <1>5 DEF Stops, Quiet
<1>6. \A at : Goes(at) => installer' = [at |-> at, id |-> installer.id]
    BY <1>0 DEF Goes, InstallerShape
<1>7. CASE BeginPublication
    BY <1>0, <1>4, <1>5, <1>6, <1>7 DEF BeginPublication, InstallerShape
<1>8. CASE BeginInstall
    BY <1>0, <1>4, <1>6, <1>8 DEF BeginInstall, InstallerShape
<1>9. CASE PlanInstall
  <2>1. installer.at = "plan" /\ installer.id \in Ids /\ ~Journaled
    BY <1>0, <1>9 DEF PlanInstall, InstallerShape
  <2>2. layout.receipt # NoRelease => layout.receipt \in Ids
    BY DEF InstallInv, LayoutShape, MaybeId
  <2>3. \A i \in Ids : Sequence(i) \in Nat
    BY ReleaseAssumption DEF Sequence
  <2>4. CASE Goes("copy") /\ ~(layout.receipt # NoRelease /\ Sequence(layout.receipt) >= Sequence(installer.id))
    <3>1. Newer(installer.id, layout.receipt)
      BY <2>1, <2>2, <2>3, <2>4 DEF Newer
    <3>2. installer.id # layout.receipt
      BY <2>1, <2>3, <3>1, ReleaseAssumption DEF Newer
    <3> QED
      BY <1>4, <1>6, <2>1, <2>4, <3>1, <3>2
  <2> QED
    BY <1>5, <1>9, <2>4 DEF PlanInstall
<1>10. CASE IoError
  <2>1. Stops \/ (Goes("recover") /\ installer.at = "advance")
    BY <1>10 DEF IoError, AfterError
  <2> QED
    BY <1>0, <1>4, <1>5, <1>6, <2>1 DEF InstallerShape
<1>11. ASSUME NEW i \in Ids, NEW now \in Times, VerifyBundle(i, now) PROVE InstallInv'
  <2>1. installer' = [at |-> "verified", id |-> i]
    BY <1>11 DEF VerifyBundle, Quiet
  <2> QED
    BY <1>4, <2>1
<1> QED
    BY <1>3, <1>5, <1>7, <1>8, <1>9, <1>10, <1>11 DEF RotateTrust, BundleChanges, StagePublication, relVars

\* The copies lie in staging directories of their own.
LEMMA CopyKeeps ==
    ASSUME InstallInv, CopyFiles
    PROVE  InstallInv'
<1> DEFINE i == installer.id
<1>0. installer.at = "copy" /\ i \in Ids /\ ~Journaled /\ Newer(i, layout.receipt) /\ i # layout.receipt
    BY DEF InstallInv, CopyFiles, InstallerShape, Copying
<1>1. OtherShapes'
    BY DEF InstallInv, CopyFiles, OtherShapes
<1>2. CASE Stops /\ layout' = layout
  <2>1. InstallerShape' /\ Copying'
    BY <1>2 DEF Stops, Quiet, InstallerShape, Copying
  <2> QED
    BY <1>1, <1>2, <2>1, LayoutSame
<1>3. ASSUME NEW order, Goes("journal"),
             layout' = [layout EXCEPT !.order = order, !.slots = [t \in Trees |-> [layout.slots[t] EXCEPT ![i] = "staging"]]]
      PROVE  InstallInv'
  <2>1. LayoutShape
    BY DEF InstallInv
  <2>2. /\ layout' = [slots |-> layout'.slots, order |-> layout'.order, current |-> layout'.current, receipt |-> layout'.receipt,
                      journal |-> layout'.journal]
        /\ layout'.slots = [t \in Trees |-> [layout.slots[t] EXCEPT ![i] = "staging"]]
        /\ layout'.current = layout.current /\ layout'.receipt = layout.receipt /\ layout'.journal = layout.journal
    BY <1>3, <2>1 DEF LayoutShape
  <2>3. layout'.slots \in [Trees -> [Ids -> {"none", "staging", "slot", "torn"}]]
    BY <1>0, <2>1, <2>2 DEF LayoutShape
  <2>4. /\ \A t \in Trees : layout'.slots[t][i] = "staging"
        /\ \A t \in Trees, k \in Ids \ {i} : layout'.slots[t][k] = layout.slots[t][k]
    BY <1>0, <2>1, <2>2 DEF LayoutShape
  <2>5. LayoutShape'
    BY <2>1, <2>2, <2>3 DEF LayoutShape
  <2>6. ~Journaled'
    BY <1>0, <2>2 DEF Journaled
  <2>7. installer' = [at |-> "journal", id |-> i]
    BY <1>3 DEF Goes, InstallInv, InstallerShape
  <2>8. InstallerShape' /\ Copying'
    BY <1>0, <2>2, <2>4, <2>6, <2>7 DEF InstallerShape, Copying, Newer
  <2>9. OneRelease'
    BY <1>0, <2>2 DEF OneRelease, InstallInv
  <2>10. SelectedWhole'
    <3>1. \A t \in Trees : layout.current[t] = layout.receipt
      BY <1>0 DEF InstallInv, OneRelease
    <3> QED
      BY <1>0, <2>1, <2>2, <2>4, <3>1 DEF SelectedWhole, InstallInv, LayoutShape, MaybeId
  <2> QED
    BY <1>1, <2>5, <2>6, <2>8, <2>9, <2>10 DEF InstallInv, JournalShape, SlotsByPhase, LinksByPhase
<1> QED
    BY <1>2, <1>3 DEF CopyFiles

\* Only installed slots are planned to be pruned, and the new one is not.
LEMMA JournalKeeps ==
    ASSUME InstallInv, WriteJournal
    PROVE  InstallInv'
<1> DEFINE i == installer.id
           j == [id |-> i, phase |-> "Staged", previous |-> layout.current, previousReceipt |-> layout.receipt,
                 prune |-> [t \in Trees |-> PlanPrune(t)]]
<1>0. installer.at = "journal" /\ i \in Ids /\ ~Journaled /\ Newer(i, layout.receipt) /\ i # layout.receipt
      /\ (\A t \in Trees : layout.slots[t][i] = "staging") /\ (\A t \in Trees : layout.current[t] = layout.receipt) /\ i # NoRelease
    BY ReleaseAssumption DEF InstallInv, WriteJournal, InstallerShape, Copying, OneRelease
<1>1. OtherShapes' /\ LayoutShape
    BY DEF InstallInv, WriteJournal, OtherShapes
<1>2. layout' = [layout EXCEPT !.journal = j] /\ Goes("advance")
    BY DEF WriteJournal
<1>3. \A t \in Trees : i \notin j.prune[t]
  <2>1. \A t \in Trees : i \notin InstalledSlots(t)
    BY <1>0 DEF InstalledSlots
  <2> QED
    BY <2>1 DEF PlanPrune
<1>4. j.id = i /\ j.phase = "Staged" /\ j.previous = layout.current /\ j.previousReceipt = layout.receipt
      /\ j = [id |-> j.id, phase |-> j.phase, previous |-> j.previous, previousReceipt |-> j.previousReceipt, prune |-> j.prune]
    OBVIOUS
<1> HIDE DEF j
<1>5. /\ layout' = [slots |-> layout'.slots, order |-> layout'.order, current |-> layout'.current, receipt |-> layout'.receipt,
                     journal |-> layout'.journal]
      /\ layout'.slots = layout.slots /\ layout'.current = layout.current /\ layout'.receipt = layout.receipt /\ layout'.journal = j
    BY <1>1, <1>2 DEF LayoutShape
<1>6. LayoutShape'
    BY <1>1, <1>5 DEF LayoutShape
<1>7. installer' = [at |-> "advance", id |-> i]
    BY <1>2 DEF Goes, InstallInv, InstallerShape
<1>8. InstallerShape' /\ Copying'
    BY <1>0, <1>7 DEF InstallerShape, Copying
<1>9. JournalShape'
    BY <1>0, <1>1, <1>3, <1>4, <1>5 DEF JournalShape, J, Newer, LayoutShape, RelPhases
<1>10. SlotsByPhase' /\ LinksByPhase'
    BY <1>0, <1>4, <1>5 DEF SlotsByPhase, LinksByPhase, Either, J, Trees
<1>11. SelectedWhole'
    BY <1>5 DEF SelectedWhole, InstallInv
<1>12. OneRelease'
    BY <1>0, <1>4, <1>5 DEF OneRelease, Journaled, NoInstall
<1> QED
    BY <1>1, <1>6, <1>8, <1>9, <1>10, <1>11, <1>12 DEF InstallInv

\* What the invariant says of the journal that is being carried on.
LEMMA Carried ==
    ASSUME InstallInv, Journaled
    PROVE  /\ J.id \in Ids /\ J.id # NoRelease /\ J.phase \in RelPhases /\ J.id # J.previousReceipt
           /\ \A t \in Trees : J.previous[t] = J.previousReceipt /\ J.id \notin J.prune[t]
           /\ layout.slots["bin"][J.id] \in {"staging", "slot"} /\ layout.slots["config"][J.id] \in {"staging", "slot"}
           /\ layout.slots["bin"][J.id] = "slot" \/ J.phase = "Staged"
           /\ layout.slots["config"][J.id] = "slot" \/ J.phase \in {"Staged", "SlotPublished"}
           /\ J.phase = "Staged" => layout.slots["config"][J.id] = "staging"
    BY ReleaseAssumption DEF InstallInv, JournalShape, SlotsByPhase

\* A step of the installation that leaves the journal alone changes slots, a link or the receipt.
LEMMA EffectKeeps ==
    ASSUME InstallInv, Journaled, LayoutShape', layout'.journal = layout.journal,
           UNCHANGED <<trust, bundle, published, installer>>, installer.at \notin {"plan", "copy", "journal"},
           SlotsByPhase', LinksByPhase', SelectedWhole'
    PROVE  InstallInv'
<1>1. OtherShapes' /\ Journaled'
    BY DEF InstallInv, OtherShapes, Journaled
<1>2. InstallerShape' /\ Copying'
    BY DEF InstallInv, InstallerShape, Copying
<1>3. JournalShape'
    BY DEF InstallInv, JournalShape, Journaled, J
<1> QED
    BY <1>1, <1>2, <1>3 DEF InstallInv, OneRelease

\* reconcile_slot, reconcile_current, reconcile_receipt and reconcile_pruning do their effects.
LEMMA PublishStepKeeps ==
    ASSUME InstallInv, PublishStep
    PROVE  InstallInv'
<1> DEFINE i == J.id
           p == J.phase
<1>0. /\ installer.at \in {"advance", "recover", "before"} /\ Journaled /\ ~Reconciled(p) /\ Publishable(p)
      /\ UNCHANGED <<trust, bundle, published, installer>>
    BY DEF PublishStep, Advancing
<1>1. LayoutShape /\ SlotsByPhase /\ LinksByPhase /\ SelectedWhole
    BY DEF InstallInv
<1>2. i \in Ids /\ i # NoRelease /\ p \in RelPhases
    BY <1>0, Carried
<1>3. CASE p \in {"Staged", "SlotPublished"}
  <2>1. layout' = [layout EXCEPT !.slots[SlotOf(p)][i] = "slot"] /\ SlotOf(p) \in Trees
    BY <1>3 DEF PublishStep, SlotOf, Trees
  <2>2. /\ layout' = [slots |-> layout'.slots, order |-> layout'.order, current |-> layout'.current, receipt |-> layout'.receipt,
                       journal |-> layout'.journal]
        /\ layout'.current = layout.current /\ layout'.receipt = layout.receipt /\ layout'.journal = layout.journal
        /\ layout'.slots = [layout.slots EXCEPT ![SlotOf(p)][i] = "slot"]
    BY <1>1, <2>1 DEF LayoutShape
  <2>3. layout'.slots \in [Trees -> [Ids -> {"none", "staging", "slot", "torn"}]]
    BY <1>1, <1>2, <2>1, <2>2 DEF LayoutShape
  <2>4. LayoutShape'
    BY <1>1, <2>2, <2>3 DEF LayoutShape
  <2>5. \A t \in Trees, k \in Ids : layout'.slots[t][k] = IF t = SlotOf(p) /\ k = i THEN "slot" ELSE layout.slots[t][k]
    BY <1>1, <1>2, <2>1, <2>2 DEF LayoutShape
  <2>6. SelectedWhole'
    BY <1>1, <2>2, <2>5 DEF SelectedWhole, LayoutShape, MaybeId
  <2>7. SlotsByPhase'
    BY <1>0, <1>1, <1>2, <1>3, <2>2, <2>5 DEF SlotsByPhase, J, SlotOf, Trees, Journaled
  <2>8. LinksByPhase'
    BY <1>0, <1>1, <2>2 DEF LinksByPhase, Either, J, Journaled
  <2> QED
    BY <1>0, <2>2, <2>4, <2>6, <2>7, <2>8, EffectKeeps
<1>4. CASE p \in {"ConfigSlotPublished", "ReceiptPublished"}
  <2>1. layout' = [layout EXCEPT !.current[LinkOf(p)] = i] /\ LinkOf(p) \in Trees
    BY <1>4 DEF PublishStep, LinkOf, Trees
  <2>2. /\ layout' = [slots |-> layout'.slots, order |-> layout'.order, current |-> layout'.current, receipt |-> layout'.receipt,
                       journal |-> layout'.journal]
        /\ layout'.slots = layout.slots /\ layout'.receipt = layout.receipt /\ layout'.journal = layout.journal
        /\ layout'.current = [layout.current EXCEPT ![LinkOf(p)] = i]
    BY <1>1, <2>1 DEF LayoutShape
  <2>3. layout'.current \in [Trees -> MaybeId]
    BY <1>1, <1>2, <2>1, <2>2 DEF LayoutShape, MaybeId
  <2>4. LayoutShape'
    BY <1>1, <2>2, <2>3 DEF LayoutShape
  <2>5. \A t \in Trees : layout'.current[t] = IF t = LinkOf(p) THEN i ELSE layout.current[t]
    BY <1>1, <1>2, <2>1, <2>2 DEF LayoutShape
  <2>6. \A t \in Trees : layout.slots[t][i] = "slot"
    BY <1>0, <1>4, Carried DEF Trees
  <2>7. SelectedWhole'
    BY <1>1, <2>2, <2>5, <2>6 DEF SelectedWhole
  <2>8. SlotsByPhase'
    BY <1>0, <1>1, <2>2 DEF SlotsByPhase, J, Journaled
  <2>9. LinksByPhase'
    BY <1>0, <1>1, <1>4, <2>2, <2>5 DEF LinksByPhase, Either, J, Journaled, LinkOf, Trees
  <2> QED
    BY <1>0, <2>2, <2>4, <2>7, <2>8, <2>9, EffectKeeps
<1>5. CASE p = "ConfigCurrentPublished"
  <2>1. layout' = [layout EXCEPT !.receipt = i]
    BY <1>5 DEF PublishStep
  <2>2. /\ layout' = [slots |-> layout'.slots, order |-> layout'.order, current |-> layout'.current, receipt |-> layout'.receipt,
                       journal |-> layout'.journal]
        /\ layout'.slots = layout.slots /\ layout'.receipt = i /\ layout'.journal = layout.journal /\ layout'.current = layout.current
    BY <1>1, <2>1 DEF LayoutShape
  <2>3. LayoutShape'
    BY <1>1, <1>2, <2>2 DEF LayoutShape, MaybeId
  <2>4. SelectedWhole' /\ SlotsByPhase'
    BY <1>0, <1>1, <2>2 DEF SelectedWhole, SlotsByPhase, J, Journaled
  <2>5. LinksByPhase'
    BY <1>0, <1>1, <1>5, <2>2 DEF LinksByPhase, Either, J, Journaled
  <2> QED
    BY <1>0, <2>2, <2>3, <2>4, <2>5, EffectKeeps
<1>6. CASE p = "CurrentPublished"
  <2>1. PICK t \in Trees, k \in Ids : k \in J.prune[t] \cap InstalledSlots(t) /\ layout' \in Pruned(t, k)
    BY <1>6 DEF PublishStep
  <2>2. k # i
    BY <1>0, <2>1, Carried
  <2>3. PICK x \in {"torn", "none"} : layout' = [layout EXCEPT !.slots[t][k] = x]
    BY <2>1 DEF Pruned
  <2>4. /\ layout' = [slots |-> layout'.slots, order |-> layout'.order, current |-> layout'.current, receipt |-> layout'.receipt,
                       journal |-> layout'.journal]
        /\ layout'.current = layout.current /\ layout'.receipt = layout.receipt /\ layout'.journal = layout.journal
        /\ layout'.slots = [layout.slots EXCEPT ![t][k] = x]
    BY <1>1, <2>3 DEF LayoutShape
  <2>5. layout'.slots \in [Trees -> [Ids -> {"none", "staging", "slot", "torn"}]]
    BY <1>1, <2>4 DEF LayoutShape
  <2>6. LayoutShape'
    BY <1>1, <2>4, <2>5 DEF LayoutShape
  <2>7. \A u \in Trees : layout'.slots[u][i] = layout.slots[u][i]
    BY <1>1, <1>2, <2>2, <2>4 DEF LayoutShape
  <2>8. \A u \in Trees : layout.current[u] = i
    BY <1>0, <1>1, <1>6 DEF LinksByPhase, Either, Trees
  <2>9. SelectedWhole'
    BY <1>1, <2>4, <2>7, <2>8 DEF SelectedWhole
  <2>10. SlotsByPhase'
    BY <1>0, <1>1, <2>4, <2>7 DEF SlotsByPhase, J, Journaled, Trees
  <2>11. LinksByPhase'
    BY <1>0, <1>1, <2>4 DEF LinksByPhase, Either, J, Journaled
  <2> QED
    BY <1>0, <2>4, <2>6, <2>9, <2>10, <2>11, EffectKeeps
<1> QED
    BY <1>0, <1>2, <1>3, <1>4, <1>5, <1>6 DEF RelPhases, Publishable

\* set_phase follows the effect.
LEMMA RecordKeeps ==
    ASSUME InstallInv, Record
    PROVE  InstallInv'
<1> DEFINE p == J.phase
           q == NextPhase(p)
           j == [J EXCEPT !.phase = q]
<1>0. /\ installer.at \in {"advance", "recover", "before"} /\ Journaled /\ p # "Pruned" /\ Reconciled(p)
      /\ layout' = [layout EXCEPT !.journal.phase = q] /\ UNCHANGED <<trust, bundle, published, installer>>
    BY DEF Record, Advancing
<1>1. LayoutShape /\ SlotsByPhase /\ LinksByPhase /\ SelectedWhole /\ JournalShape
    BY DEF InstallInv
<1>2. J.id \in Ids /\ J.id # NoRelease /\ p \in RelPhases
    BY <1>0, Carried
<1>3. j = [id |-> J.id, phase |-> q, previous |-> J.previous, previousReceipt |-> J.previousReceipt, prune |-> J.prune]
    BY <1>0, <1>1 DEF JournalShape
<1>4. j.id = J.id /\ j.phase = q /\ j.previous = J.previous /\ j.previousReceipt = J.previousReceipt /\ j.prune = J.prune
    BY <1>3
<1>5. /\ layout' = [slots |-> layout'.slots, order |-> layout'.order, current |-> layout'.current, receipt |-> layout'.receipt,
                     journal |-> layout'.journal]
      /\ layout'.slots = layout.slots /\ layout'.current = layout.current /\ layout'.receipt = layout.receipt /\ layout'.journal = j
    BY <1>0, <1>1 DEF LayoutShape, J
<1>6. /\ p = "Staged" => q = "SlotPublished" /\ layout.slots["bin"][J.id] = "slot"
      /\ p = "SlotPublished" => q = "ConfigSlotPublished" /\ layout.slots["config"][J.id] = "slot"
      /\ p = "ConfigSlotPublished" => q = "ConfigCurrentPublished" /\ layout.current["config"] = J.id
      /\ p = "ConfigCurrentPublished" => q = "ReceiptPublished" /\ layout.receipt = J.id
      /\ p = "ReceiptPublished" => q = "CurrentPublished" /\ layout.current["bin"] = J.id
      /\ p = "CurrentPublished" => q = "Pruned"
      /\ q \in RelPhases
    BY <1>0, <1>2, PhaseOrder DEF Reconciled, SlotOf, LinkOf, Whole, RelPhases
<1> HIDE DEF j, q
<1>7. J' = j /\ Journaled'
    BY <1>2, <1>4, <1>5, ReleaseAssumption DEF J, Journaled, NoInstall
<1>8. LayoutShape' /\ OtherShapes' /\ InstallerShape' /\ Copying' /\ SelectedWhole' /\ OneRelease'
  <2>1. LayoutShape'
    BY <1>1, <1>5 DEF LayoutShape
  <2>2. OtherShapes' /\ InstallerShape' /\ Copying'
    BY <1>0 DEF InstallInv, OtherShapes, InstallerShape, Copying
  <2>3. SelectedWhole' /\ OneRelease'
    BY <1>1, <1>5, <1>7 DEF SelectedWhole, OneRelease
  <2> QED
    BY <2>1, <2>2, <2>3
<1>9. JournalShape'
    BY <1>0, <1>1, <1>3, <1>4, <1>6, <1>7 DEF JournalShape, Newer
<1>10. SlotsByPhase'
    BY <1>0, <1>1, <1>2, <1>4, <1>5, <1>6, <1>7 DEF SlotsByPhase, RelPhases
<1>11. LinksByPhase'
    BY <1>0, <1>1, <1>2, <1>4, <1>5, <1>6, <1>7 DEF LinksByPhase, Either, RelPhases
<1> QED
    BY <1>8, <1>9, <1>10, <1>11 DEF InstallInv

\* The journal goes when both selectors and the receipt are of the new release.
LEMMA FinishKeeps ==
    ASSUME InstallInv, FinishInstall
    PROVE  InstallInv'
<1>0. /\ installer.at \in {"advance", "recover", "before"} /\ Journaled /\ J.phase = "Pruned"
      /\ layout' = [layout EXCEPT !.journal = NoInstall] /\ UNCHANGED <<trust, bundle, published>>
      /\ Goes("plan") \/ Stops
    BY DEF FinishInstall, Advancing
<1>1. LayoutShape /\ LinksByPhase /\ SelectedWhole /\ InstallerShape
    BY DEF InstallInv
<1>2. /\ layout' = [slots |-> layout'.slots, order |-> layout'.order, current |-> layout'.current, receipt |-> layout'.receipt,
                     journal |-> layout'.journal]
      /\ layout'.slots = layout.slots /\ layout'.current = layout.current /\ layout'.receipt = layout.receipt /\ layout'.journal = NoInstall
    BY <1>0, <1>1 DEF LayoutShape
<1>3. ~Journaled'
    BY <1>2 DEF Journaled
<1>4. layout.current["bin"] = J.id /\ layout.current["config"] = J.id /\ layout.receipt = J.id
    BY <1>0, <1>1 DEF LinksByPhase, Either
<1>5. LayoutShape' /\ SelectedWhole' /\ OneRelease'
    BY <1>1, <1>2, <1>4 DEF LayoutShape, SelectedWhole, OneRelease, Trees
<1>6. installer' = [at |-> "plan", id |-> installer.id] \/ installer' = [at |-> "idle", id |-> NoRelease]
    BY <1>0, <1>1 DEF Goes, Stops, Quiet, InstallerShape
<1>7. InstallerShape' /\ Copying'
    BY <1>0, <1>1, <1>3, <1>6 DEF InstallerShape, Copying
<1> QED
    BY <1>0, <1>3, <1>5, <1>7 DEF InstallInv, OtherShapes, JournalShape, SlotsByPhase, LinksByPhase

\* The installer is killed: staging directories no journal names are of no use to anybody.
LEMMA KillKeeps ==
    ASSUME InstallInv, KillInstaller
    PROVE  InstallInv'
<1>0. layout' = Abandoned(layout) /\ installer' = [at |-> "idle", id |-> NoRelease] /\ UNCHANGED <<trust, bundle, published>>
    BY DEF KillInstaller, RelFault, Stops, Quiet
<1>1. LayoutShape /\ SlotsByPhase /\ LinksByPhase /\ SelectedWhole /\ JournalShape /\ OneRelease
    BY DEF InstallInv
<1> DEFINE slots1 == [t \in Trees |-> [i \in Ids |->
               IF layout.slots[t][i] = "staging" /\ layout.journal.id # i THEN "none" ELSE layout.slots[t][i]]]
<1>2. /\ layout' = [slots |-> layout'.slots, order |-> layout'.order, current |-> layout'.current, receipt |-> layout'.receipt,
                     journal |-> layout'.journal]
      /\ layout'.slots = slots1 /\ layout'.current = layout.current /\ layout'.receipt = layout.receipt
      /\ layout'.journal = layout.journal
    BY <1>0, <1>1 DEF LayoutShape, Abandoned
<1>3. slots1 \in [Trees -> [Ids -> {"none", "staging", "slot", "torn"}]]
    BY <1>1 DEF LayoutShape
<1>4. LayoutShape'
    BY <1>1, <1>2, <1>3 DEF LayoutShape
<1>5. /\ \A t \in Trees, i \in Ids : layout.slots[t][i] = "slot" => slots1[t][i] = "slot"
      /\ \A t \in Trees, i \in Ids : layout.journal.id = i => slots1[t][i] = layout.slots[t][i]
    OBVIOUS
<1> HIDE DEF slots1
<1>6. SelectedWhole'
    BY <1>1, <1>2, <1>5 DEF SelectedWhole, LayoutShape, MaybeId
<1>7. OneRelease' /\ JournalShape' /\ LinksByPhase'
    BY <1>1, <1>2 DEF OneRelease, JournalShape, LinksByPhase, Either, Journaled, J
<1>8. SlotsByPhase'
    BY <1>1, <1>2, <1>5 DEF SlotsByPhase, JournalShape, Journaled, J, Trees
<1>9. InstallerShape' /\ Copying' /\ OtherShapes'
    BY <1>0 DEF InstallerShape, Copying, OtherShapes, InstallInv
<1> QED
    BY <1>4, <1>6, <1>7, <1>8, <1>9 DEF InstallInv

\* Every step keeps the invariant.
LEMMA InstallStep ==
    ASSUME InstallInv, [RelNext]_relVars
    PROVE  InstallInv'
    BY OperatorKeeps, CopyKeeps, JournalKeeps, PublishStepKeeps, RecordKeeps, FinishKeeps, KillKeeps DEF RelNext

\* The inductive invariant of the release installer: what each phase of the journal finds
\* (release.rs advance_install, recover_install).
THEOREM InstallInvariant == RelSpec => []InstallInv
    BY InstallInitially, InstallStep, PTL DEF RelSpec

\* Every variable of the installer keeps its type, through errors and kills (release.rs).
THEOREM InstallTypes == RelSpec => []RelTypeOK
<1>1. InstallInv => RelTypeOK
    BY PhaseOrder DEF InstallInv, RelTypeOK, LayoutShape, OtherShapes, JournalShape, J, MaybeId
<1> QED
    BY <1>1, InstallInvariant, PTL

\* Whatever step the installer dies in, for any set of releases, the selectors lead to whole
\* slots, nothing older than the receipt is selected and the journal can be carried on
\* (release.rs advance_install, recover_install, reconcile_current, reconcile_pruning).
THEOREM InstallsAreCoherent == RelSpec => []InstallCoherent
<1>1. InstallInv => InstallCoherent
  <2> SUFFICES ASSUME InstallInv PROVE InstallCoherent
    OBVIOUS
  <2>1. \A t \in Trees : layout.current[t] # NoRelease => Whole(t, layout.current[t])
    BY DEF InstallInv, SelectedWhole, Whole
  <2>2. ~Journaled => \A t \in Trees : layout.current[t] = layout.receipt
    BY DEF InstallInv, OneRelease
  <2>3. ASSUME Journaled, J.previousReceipt # NoRelease, NEW t \in Trees
        PROVE  layout.current[t] # NoRelease /\ Sequence(layout.current[t]) >= Sequence(J.previousReceipt)
    <3>1. layout.current[t] \in {J.id, J.previousReceipt}
      BY <2>3 DEF InstallInv, LinksByPhase, Either, Trees
    <3>2. J.id \in Ids /\ J.previousReceipt \in Ids /\ Sequence(J.previousReceipt) < Sequence(J.id) /\ J.id # NoRelease
      BY <2>3, ReleaseAssumption DEF InstallInv, JournalShape, Newer, MaybeId
    <3>3. Sequence(J.id) \in Nat /\ Sequence(J.previousReceipt) \in Nat
      BY <3>2, ReleaseAssumption DEF Sequence
    <3>4. Sequence(J.id) >= Sequence(J.previousReceipt) /\ Sequence(J.previousReceipt) >= Sequence(J.previousReceipt)
      BY <3>2, <3>3
    <3> QED
      BY <2>3, <3>1, <3>2, <3>4
  <2>4. InstallRecovers
    <3> SUFFICES ASSUME Journaled PROVE Reconciled(J.phase) \/ Publishable(J.phase)
      BY DEF InstallRecovers
    <3>1. J.id # NoRelease /\ J.phase \in RelPhases /\ \A t \in Trees : J.previous[t] = J.previousReceipt
      BY Carried
    <3>2. SlotsByPhase /\ LinksByPhase
      BY DEF InstallInv
    <3>3. CASE J.phase \in {"Staged", "SlotPublished"}
      BY <3>1, <3>2, <3>3 DEF Reconciled, Publishable, SlotsByPhase, SlotOf, Whole
    <3>4. CASE J.phase \in {"ConfigSlotPublished", "ReceiptPublished"}
      <4>1. layout.slots["bin"][J.id] = "slot" /\ layout.slots["config"][J.id] = "slot"
        BY <3>2, <3>4 DEF SlotsByPhase
      <4> QED
        BY <3>1, <3>2, <3>4, <4>1 DEF Reconciled, Publishable, LinksByPhase, Either, LinkOf, Whole, ReceiptHolds, Trees
    <3>5. CASE J.phase = "ConfigCurrentPublished"
      BY <3>1, <3>2, <3>5 DEF Reconciled, Publishable, SlotsByPhase, LinksByPhase, Either, Whole
    <3>6. CASE J.phase = "CurrentPublished"
      <4>1. ReceiptHolds(J.id)
        BY <3>1, <3>2, <3>6 DEF SlotsByPhase, LinksByPhase, Either, Whole, ReceiptHolds, Trees
      <4> QED
        BY <3>6, <4>1 DEF Reconciled, Publishable
    <3>7. CASE J.phase = "Pruned"
      BY <3>7 DEF Reconciled
    <3> QED
      BY <3>1, <3>3, <3>4, <3>5, <3>6, <3>7 DEF RelPhases
  <2> QED
    BY <2>1, <2>2, <2>3, <2>4 DEF InstallCoherent
<1> QED
    BY <1>1, InstallInvariant, PTL

-----------------------------------------------------------------------------
\* The keystore directory.
KsSpec == KsInit /\ [][KsNext]_ksVars

KsNumber(n) == Foreign..n
Replacements(n) == [target : Files, orig : KsNumber(n), repl : KsNumber(n)]
KsDirs(n) ==
    [dest : [Files -> KsNumber(n)], tmp : KsNumber(n), backup : KsNumber(n), journal : Replacements(n) \cup {NoReplace},
     pending : Replacements(n) \cup {NoReplace, Torn}, kept : SUBSET KsNumber(n)]
\* Every stored wallet is in the directory, under its name unless a journal says that it was set aside.
KeysHere(d, stored) == \A a \in stored : a[2] \in Everywhere(d)
NamesHeld(d, stored) == \A a \in stored : d.dest[a[1]] # 0 \/ (d.journal.target = a[1] /\ d.journal.orig # 0)
SafeDirs(n, stored) == {d \in KsDirs(n) : KeysHere(d, stored) /\ NamesHeld(d, stored)}

KsShape ==
    /\ wallets \in Seq([key : WalletKeys, password : Passwords])
    /\ readBack \subseteq Files \X (1..Len(wallets))
    /\ ksSaved \subseteq SafeDirs(Len(wallets), readBack) /\ ksDir \in ksSaved /\ ksFaults \in 0..MaxKsFaults
\* The steps of a write: the later ones come after what was published has been read back.
KsPast == {"retain", "rsync", "unlink", "usync", "done"}
KsPlaces == {"temp", "journal", "fill", "rename", "jsync", "backup", "bsync", "publish", "linked", "psync", "validate"} \cup KsPast
OpShape ==
    \/ ksOp = IdleOp
    \/ /\ ksOp = [at |-> ksOp.at, target |-> ksOp.target, wallet |-> ksOp.wallet, over |-> ksOp.over, orig |-> ksOp.orig,
                  journaled |-> ksOp.journaled]
       /\ ksOp.at \in KsPlaces /\ ksOp.target \in Files /\ ksOp.wallet = Len(wallets) /\ ksOp.wallet > 0
       /\ ksOp.over \in BOOLEAN /\ ksOp.journaled \in BOOLEAN /\ ksOp.orig \in KsNumber(Len(wallets)) /\ ksOp.orig # ksOp.wallet
       /\ ksTold = Untold
       /\ IF ksOp.at \in KsPast THEN <<ksOp.target, ksOp.wallet>> \in readBack ELSE \A a \in readBack : a[2] # ksOp.wallet
\* What each step of a write finds in the directory.
Found(named, temporary, aside, jrnl, coming) ==
    /\ ksDir.dest[ksOp.target] = named /\ ksDir.tmp = temporary /\ ksDir.backup = aside
    /\ ksDir.journal = jrnl /\ ksDir.pending = coming
OpFinds ==
    LET w == ksOp.wallet o == ksOp.orig j == TheJournal no == NoReplace IN
    /\ ksOp.at = "temp" => Found(o, 0, 0, no, no) /\ ~ksOp.journaled
    /\ ksOp.at = "journal" => Found(o, w, 0, no, no) /\ ~ksOp.journaled
    /\ ksOp.at = "fill" => Found(o, w, 0, no, Torn) /\ ~ksOp.journaled
    /\ ksOp.at = "rename" => Found(o, w, 0, no, j) /\ ~ksOp.journaled
    /\ ksOp.at = "jsync" => Found(o, w, 0, j, no) /\ ~ksOp.journaled
    /\ ksOp.at = "backup" => Found(o, w, 0, j, no) /\ ksOp.journaled /\ o # 0
    /\ ksOp.at = "bsync" => Found(0, w, o, j, no) /\ ksOp.journaled
    /\ ksOp.at = "publish" => (ksOp.journaled <=> ksOp.over) /\ (IF ksOp.over THEN Found(0, w, o, j, no) ELSE Found(o, w, 0, no, no))
    /\ ksOp.at \in {"journal", "fill", "rename", "jsync", "backup", "bsync"} => ksOp.over
    /\ ksOp.at = "linked" => Found(w, w, 0, no, no) /\ ~ksOp.journaled /\ o = 0
    /\ ksOp.at \in {"psync", "validate"} => Found(w, 0, IF ksOp.journaled THEN o ELSE 0, IF ksOp.journaled THEN j ELSE no, no)
    /\ ksOp.at = "validate" => ksSaved = {ksDir}
    /\ ksOp.at = "retain" => Found(w, 0, o, j, no) /\ ksOp.journaled
    /\ ksOp.at \in {"rsync", "unlink"} => Found(w, 0, 0, j, no) /\ ksOp.journaled
    /\ ksOp.at = "usync" => Found(w, 0, 0, no, no) /\ ksOp.journaled
    /\ ksOp.at = "done" => Found(w, 0, 0, no, no) /\ ~ksOp.journaled /\ ksSaved = {ksDir}
ToldShape == ksTold.what \in {"none", "ok", "failed", "rollback_failed"}

\* The inductive invariant.
KsInv == KsShape /\ OpShape /\ OpFinds /\ ToldShape /\ KeystoreHonest

\* What Kind says of a name.
LEMMA KindSays ==
    ASSUME NEW w, NEW j
    PROVE  /\ Kind(w, j) = "missing" <=> w = 0
           /\ Kind(w, j) = "orig" => w = j.orig /\ w # j.repl /\ w # 0
           /\ Kind(w, j) = "repl" => w = j.repl /\ w # 0
    BY DEF Kind

\* The steps a recovery or a rollback takes, as sequences over a set that has them all.
LEMMA MovesAre ==
    ASSUME NEW S, NEW d \in S, NEW steps \in Seq(S), Unjournaled(Last(<<d>> \o steps)) \in S
    PROVE  /\ Moves(d, steps) \in Seq(S) /\ Len(Moves(d, steps)) >= 2 /\ Moves(d, steps)[1] = d
           /\ Last(Moves(d, steps)) = Unjournaled(Last(<<d>> \o steps))
<1> DEFINE u == Unjournaled(Last(<<d>> \o steps))
           q == <<d>> \o steps
<1>1. q \in Seq(S) /\ Len(q) = Len(steps) + 1 /\ q[1] = d
    OBVIOUS
<1>2. Len(steps) \in Nat
    OBVIOUS
<1>3. Moves(d, steps) = q \o <<u>>
    BY DEF Moves
<1> HIDE DEF u, q
<1>4. u \in S
    BY DEF u, q
<1>5. <<u>> \in Seq(S) /\ Len(<<u>>) = 1 /\ <<u>>[1] = u
    BY <1>4
<1>6. q \o <<u>> \in Seq(S) /\ Len(q \o <<u>>) = Len(q) + 1 /\ (q \o <<u>>)[Len(q) + 1] = u /\ (q \o <<u>>)[1] = d
    BY <1>1, <1>2, <1>5
<1> QED
    BY <1>1, <1>2, <1>3, <1>6 DEF Last, u, q

\* One move and the removal of the journal.
LEMMA MovesOne ==
    ASSUME NEW S, NEW d \in S, NEW x \in S, Unjournaled(x) \in S
    PROVE  /\ Moves(d, <<x>>) \in Seq(S) /\ Moves(d, <<x>>) # <<>> /\ Len(Moves(d, <<x>>)) >= 2 /\ Moves(d, <<x>>)[1] = d
           /\ Last(Moves(d, <<x>>)) = Unjournaled(x)
<1> DEFINE steps == <<x>>
<1>1. steps \in Seq(S) /\ Last(<<d>> \o steps) = x
    BY DEF Last
<1> HIDE DEF steps
<1>2. /\ Moves(d, steps) \in Seq(S) /\ Len(Moves(d, steps)) >= 2 /\ Moves(d, steps)[1] = d
      /\ Last(Moves(d, steps)) = Unjournaled(x)
    BY <1>1, MovesAre
<1>3. Moves(d, steps) # <<>>
    BY <1>2
<1> QED
    BY <1>2, <1>3 DEF steps

\* Two moves and the removal of the journal.
LEMMA MovesTwo ==
    ASSUME NEW S, NEW d \in S, NEW x \in S, NEW y \in S, Unjournaled(y) \in S
    PROVE  /\ Moves(d, <<x, y>>) \in Seq(S) /\ Moves(d, <<x, y>>) # <<>> /\ Len(Moves(d, <<x, y>>)) >= 2 /\ Moves(d, <<x, y>>)[1] = d
           /\ Last(Moves(d, <<x, y>>)) = Unjournaled(y)
<1> DEFINE steps == <<x, y>>
<1>1. steps \in Seq(S) /\ Last(<<d>> \o steps) = y
    BY DEF Last
<1> HIDE DEF steps
<1>2. /\ Moves(d, steps) \in Seq(S) /\ Len(Moves(d, steps)) >= 2 /\ Moves(d, steps)[1] = d
      /\ Last(Moves(d, steps)) = Unjournaled(y)
    BY <1>1, MovesAre
<1>3. Moves(d, steps) # <<>>
    BY <1>2
<1> QED
    BY <1>2, <1>3 DEF steps

\* The removal of the journal alone.
LEMMA MovesNone ==
    ASSUME NEW S, NEW d \in S, Unjournaled(d) \in S
    PROVE  /\ Moves(d, <<>>) \in Seq(S) /\ Moves(d, <<>>) # <<>> /\ Len(Moves(d, <<>>)) >= 2 /\ Moves(d, <<>>)[1] = d
           /\ Last(Moves(d, <<>>)) = Unjournaled(d)
<1> DEFINE steps == <<>>
<1>1. steps \in Seq(S) /\ Last(<<d>> \o steps) = d
    BY DEF Last
<1> HIDE DEF steps
<1>2. /\ Moves(d, steps) \in Seq(S) /\ Len(Moves(d, steps)) >= 2 /\ Moves(d, steps)[1] = d
      /\ Last(Moves(d, steps)) = Unjournaled(d)
    BY <1>1, MovesAre
<1>3. Moves(d, steps) # <<>>
    BY <1>2
<1> QED
    BY <1>2, <1>3 DEF steps

-----------------------------------------------------------------------------
\* No renaming loses a stored wallet.
KsStores(n, stored) == n \in Nat /\ stored \subseteq Files \X (1..n)
\* The numbers a directory may hold.
LEMMA SafeShape ==
    ASSUME NEW n, NEW stored, KsStores(n, stored)
    PROVE  /\ 0 \in KsNumber(n) /\ Foreign \in KsNumber(n) /\ n \in KsNumber(n)
           /\ \A x \in KsNumber(n) : x \in Int
           /\ \A a \in stored : a[1] \in Files /\ a[2] \in KsNumber(n) /\ a[2] # 0 /\ a[2] # Foreign /\ a[2] > 0
    BY DEF KsStores, KsNumber, Foreign

\* A directory is a record of six fields.
LEMMA DirFields ==
    ASSUME NEW n, NEW d \in KsDirs(n)
    PROVE  d = [dest |-> d.dest, tmp |-> d.tmp, backup |-> d.backup, journal |-> d.journal, pending |-> d.pending, kept |-> d.kept]
    BY DEF KsDirs

\* The moves of a directory, field by field.
LEMMA MovedFields ==
    ASSUME NEW d, NEW a, NEW t, NEW b, NEW j, NEW p, NEW k, NEW f,
           d = [dest |-> a, tmp |-> t, backup |-> b, journal |-> j, pending |-> p, kept |-> k]
    PROVE  /\ KeepTmp(d) = [dest |-> a, tmp |-> 0, backup |-> b, journal |-> j, pending |-> p, kept |-> k \cup {t}]
           /\ KeepBackup(d) = [dest |-> a, tmp |-> t, backup |-> 0, journal |-> j, pending |-> p, kept |-> k \cup {b}]
           /\ Swap(d, f) = [dest |-> [a EXCEPT ![f] = b], tmp |-> t, backup |-> a[f], journal |-> j, pending |-> p, kept |-> k]
           /\ Unjournaled(d) = [dest |-> a, tmp |-> t, backup |-> b, journal |-> NoReplace, pending |-> NoReplace, kept |-> k]
<1>1. ASSUME NEW u, u = KeepTmp(d)
      PROVE  u = [dest |-> a, tmp |-> 0, backup |-> b, journal |-> j, pending |-> p, kept |-> k \cup {t}]
    BY <1>1 DEF KeepTmp
<1>2. ASSUME NEW u, u = KeepBackup(d)
      PROVE  u = [dest |-> a, tmp |-> t, backup |-> 0, journal |-> j, pending |-> p, kept |-> k \cup {b}]
    BY <1>2 DEF KeepBackup
<1>3. ASSUME NEW u, u = Swap(d, f)
      PROVE  u = [dest |-> [a EXCEPT ![f] = b], tmp |-> t, backup |-> a[f], journal |-> j, pending |-> p, kept |-> k]
    BY <1>3 DEF Swap
<1>4. ASSUME NEW u, u = Unjournaled(d)
      PROVE  u = [dest |-> a, tmp |-> t, backup |-> b, journal |-> NoReplace, pending |-> NoReplace, kept |-> k]
    BY <1>4 DEF Unjournaled
<1> QED
    BY <1>1, <1>2, <1>3, <1>4

\* The temporary file is left where nobody looks.
LEMMA KeepTmpSafe ==
    ASSUME NEW n, NEW stored, KsStores(n, stored), NEW d \in SafeDirs(n, stored)
    PROVE  /\ KeepTmp(d) \in SafeDirs(n, stored) /\ KeepTmp(d).dest = d.dest
<1> DEFINE e == [dest |-> d.dest, tmp |-> 0, backup |-> d.backup, journal |-> d.journal, pending |-> d.pending, kept |-> d.kept \cup {d.tmp}]
<1>1. d \in KsDirs(n) /\ KeysHere(d, stored) /\ NamesHeld(d, stored)
    BY DEF SafeDirs
<1>2. KeepTmp(d) = e
  <2>1. d = [dest |-> d.dest, tmp |-> d.tmp, backup |-> d.backup, journal |-> d.journal, pending |-> d.pending, kept |-> d.kept]
    BY <1>1, DirFields
  <2> QED
    BY <2>1, MovedFields
<1>3. e \in KsDirs(n)
    BY <1>1, SafeShape DEF KsDirs
<1>4. KeysHere(e, stored) /\ NamesHeld(e, stored)
    BY <1>1 DEF KeysHere, NamesHeld, Everywhere
<1> QED
    BY <1>2, <1>3, <1>4 DEF SafeDirs

\* The file that was set aside is left where nobody looks.
LEMMA KeepBackupSafe ==
    ASSUME NEW n, NEW stored, KsStores(n, stored), NEW d \in SafeDirs(n, stored)
    PROVE  /\ KeepBackup(d) \in SafeDirs(n, stored) /\ KeepBackup(d).dest = d.dest
           /\ KeepBackup(d).tmp = d.tmp /\ KeepBackup(d).backup = 0 /\ KeepBackup(d).journal = d.journal /\ KeepBackup(d).pending = d.pending
<1> DEFINE e == [dest |-> d.dest, tmp |-> d.tmp, backup |-> 0, journal |-> d.journal, pending |-> d.pending, kept |-> d.kept \cup {d.backup}]
<1>1. d \in KsDirs(n) /\ KeysHere(d, stored) /\ NamesHeld(d, stored)
    BY DEF SafeDirs
<1>2. KeepBackup(d) = e
  <2>1. d = [dest |-> d.dest, tmp |-> d.tmp, backup |-> d.backup, journal |-> d.journal, pending |-> d.pending, kept |-> d.kept]
    BY <1>1, DirFields
  <2> QED
    BY <2>1, MovedFields
<1>3. e \in KsDirs(n)
    BY <1>1, SafeShape DEF KsDirs
<1>4. KeysHere(e, stored) /\ NamesHeld(e, stored)
    BY <1>1 DEF KeysHere, NamesHeld, Everywhere
<1> QED
    BY <1>2, <1>3, <1>4 DEF SafeDirs

\* A name and the file set aside change places.
LEMMA SwapSafe ==
    ASSUME NEW n, NEW stored, KsStores(n, stored), NEW d \in SafeDirs(n, stored), NEW f \in Files, d.backup # 0
    PROVE  /\ Swap(d, f) \in SafeDirs(n, stored)
           /\ Swap(d, f).dest[f] = d.backup
           /\ \A g \in Files \ {f} : Swap(d, f).dest[g] = d.dest[g]
<1> DEFINE e == [dest |-> [d.dest EXCEPT ![f] = d.backup], tmp |-> d.tmp, backup |-> d.dest[f], journal |-> d.journal,
                 pending |-> d.pending, kept |-> d.kept]
<1>1. d \in KsDirs(n) /\ KeysHere(d, stored) /\ NamesHeld(d, stored)
    BY DEF SafeDirs
<1>2. Swap(d, f) = e
  <2>1. d = [dest |-> d.dest, tmp |-> d.tmp, backup |-> d.backup, journal |-> d.journal, pending |-> d.pending, kept |-> d.kept]
    BY <1>1, DirFields
  <2> QED
    BY <2>1, MovedFields
<1>3. e \in KsDirs(n)
    BY <1>1 DEF KsDirs
<1>4. d.dest \in [Files -> KsNumber(n)]
    BY <1>1 DEF KsDirs
<1>5. e.dest[f] = d.backup /\ \A g \in Files \ {f} : e.dest[g] = d.dest[g]
    BY <1>4
<1>6. Everywhere(d) \subseteq Everywhere(e)
    BY <1>4, <1>5 DEF Everywhere
<1>7. KeysHere(e, stored)
    BY <1>1, <1>6 DEF KeysHere
<1>8. NamesHeld(e, stored)
    BY <1>1, <1>5, SafeShape DEF NamesHeld
<1> QED
    BY <1>2, <1>3, <1>5, <1>7, <1>8 DEF SafeDirs

\* The journal may go once every stored name holds a file.
LEMMA UnjournaledSafe ==
    ASSUME NEW n, NEW stored, KsStores(n, stored), NEW d \in SafeDirs(n, stored), \A a \in stored : d.dest[a[1]] # 0
    PROVE  /\ Unjournaled(d) \in SafeDirs(n, stored) /\ Unjournaled(d).journal = NoReplace /\ Unjournaled(d).pending = NoReplace
           /\ Unjournaled(d).dest = d.dest /\ Unjournaled(d).tmp = d.tmp /\ Unjournaled(d).backup = d.backup
<1> DEFINE e == [dest |-> d.dest, tmp |-> d.tmp, backup |-> d.backup, journal |-> NoReplace, pending |-> NoReplace, kept |-> d.kept]
<1>1. d \in KsDirs(n) /\ KeysHere(d, stored) /\ NamesHeld(d, stored)
    BY DEF SafeDirs
<1>2. Unjournaled(d) = e
  <2>1. d = [dest |-> d.dest, tmp |-> d.tmp, backup |-> d.backup, journal |-> d.journal, pending |-> d.pending, kept |-> d.kept]
    BY <1>1, DirFields
  <2> QED
    BY <2>1, MovedFields
<1>3. e \in KsDirs(n)
    BY <1>1 DEF KsDirs
<1>4. KeysHere(e, stored) /\ NamesHeld(e, stored)
    BY <1>1 DEF KeysHere, NamesHeld, Everywhere
<1> QED
    BY <1>2, <1>3, <1>4 DEF SafeDirs

-----------------------------------------------------------------------------
\* What a recovery or rollback for journal j may assume: an empty name is the one j set aside.
Explains(j, d, stored) == j.target \in Files /\ \A a \in stored : d.dest[a[1]] = 0 => a[1] = j.target /\ j.orig # 0
Finished(r, d, S) ==
    /\ r \in Seq(S) /\ r # <<>> /\ r[1] = d /\ Last(r) \in S /\ Last(r).journal = NoReplace /\ Last(r).pending = NoReplace

\* A recovery that only leaves the temporary file behind.
LEMMA KeepsTmp ==
    ASSUME NEW n, NEW stored, KsStores(n, stored), NEW d \in SafeDirs(n, stored), \A a \in stored : d.dest[a[1]] # 0
    PROVE  Finished(Moves(d, <<KeepTmp(d)>>), d, SafeDirs(n, stored)) /\ Last(Moves(d, <<KeepTmp(d)>>)).dest = d.dest
<1>1. KeepTmp(d) \in SafeDirs(n, stored) /\ KeepTmp(d).dest = d.dest
    BY KeepTmpSafe
<1>2. Unjournaled(KeepTmp(d)) \in SafeDirs(n, stored) /\ Unjournaled(KeepTmp(d)).journal = NoReplace
      /\ Unjournaled(KeepTmp(d)).pending = NoReplace /\ Unjournaled(KeepTmp(d)).dest = d.dest
    BY <1>1, UnjournaledSafe
<1> QED
    BY <1>1, <1>2, MovesOne DEF Finished

\* A recovery that only leaves the file set aside behind.
LEMMA KeepsBackup ==
    ASSUME NEW n, NEW stored, KsStores(n, stored), NEW d \in SafeDirs(n, stored), \A a \in stored : d.dest[a[1]] # 0
    PROVE  Finished(Moves(d, <<KeepBackup(d)>>), d, SafeDirs(n, stored)) /\ Last(Moves(d, <<KeepBackup(d)>>)).dest = d.dest
<1>1. KeepBackup(d) \in SafeDirs(n, stored) /\ KeepBackup(d).dest = d.dest
    BY KeepBackupSafe
<1>2. Unjournaled(KeepBackup(d)) \in SafeDirs(n, stored) /\ Unjournaled(KeepBackup(d)).journal = NoReplace
      /\ Unjournaled(KeepBackup(d)).pending = NoReplace /\ Unjournaled(KeepBackup(d)).dest = d.dest
    BY <1>1, UnjournaledSafe
<1> QED
    BY <1>1, <1>2, MovesOne DEF Finished

\* A recovery that finds everything done.
LEMMA OnlyUnjournals ==
    ASSUME NEW n, NEW stored, KsStores(n, stored), NEW d \in SafeDirs(n, stored), \A a \in stored : d.dest[a[1]] # 0
    PROVE  Finished(Moves(d, <<>>), d, SafeDirs(n, stored))
    BY UnjournaledSafe, MovesNone DEF Finished

\* The file that was set aside takes its name again.
LEMMA SwapsBack ==
    ASSUME NEW n, NEW stored, KsStores(n, stored), NEW d \in SafeDirs(n, stored), NEW j, Explains(j, d, stored), d.backup # 0
    PROVE  LET s == Swap(d, j.target) IN
           /\ Finished(Moves(d, <<s, KeepTmp(s)>>), d, SafeDirs(n, stored)) /\ Last(Moves(d, <<s, KeepTmp(s)>>)).dest[j.target] = d.backup
           /\ Finished(Moves(d, <<s, KeepBackup(s)>>), d, SafeDirs(n, stored))
           /\ Last(Moves(d, <<s, KeepBackup(s)>>)).dest[j.target] = d.backup
<1>0. ASSUME NEW f \in Files
      PROVE  Swap(d, f) \in SafeDirs(n, stored) /\ Swap(d, f).dest[f] = d.backup /\ \A g \in Files \ {f} : Swap(d, f).dest[g] = d.dest[g]
    BY SwapSafe
<1> DEFINE S == SafeDirs(n, stored)
           s == Swap(d, j.target)
<1>1. s \in S /\ s.dest[j.target] = d.backup /\ \A g \in Files \ {j.target} : s.dest[g] = d.dest[g]
    BY <1>0 DEF Explains
<1>2. \A a \in stored : s.dest[a[1]] # 0
    BY <1>1, SafeShape DEF Explains
<1> HIDE DEF s
<1>3. KeepTmp(s) \in S /\ KeepTmp(s).dest = s.dest /\ KeepBackup(s) \in S /\ KeepBackup(s).dest = s.dest
    BY <1>1, KeepTmpSafe, KeepBackupSafe
<1>4. Unjournaled(KeepTmp(s)) \in S /\ Unjournaled(KeepTmp(s)).journal = NoReplace /\ Unjournaled(KeepTmp(s)).pending = NoReplace
      /\ Unjournaled(KeepTmp(s)).dest = s.dest
    BY <1>2, <1>3, UnjournaledSafe
<1>5. Unjournaled(KeepBackup(s)) \in S /\ Unjournaled(KeepBackup(s)).journal = NoReplace /\ Unjournaled(KeepBackup(s)).pending = NoReplace
      /\ Unjournaled(KeepBackup(s)).dest = s.dest
    BY <1>2, <1>3, UnjournaledSafe
<1> HIDE DEF S
<1>6. Finished(Moves(d, <<s, KeepTmp(s)>>), d, S) /\ Last(Moves(d, <<s, KeepTmp(s)>>)).dest[j.target] = d.backup
  <2> DEFINE m == Moves(d, <<s, KeepTmp(s)>>)
  <2>1. d \in S
    BY DEF S
  <2>2. /\ m \in Seq(S) /\ m # <<>> /\ Len(m) >= 2 /\ m[1] = d /\ Last(m) = Unjournaled(KeepTmp(s))
    BY <1>1, <1>3, <1>4, <2>1, MovesTwo
  <2> HIDE DEF m
  <2>3. Finished(m, d, S) /\ Last(m).dest[j.target] = d.backup
    BY <1>1, <1>4, <2>2 DEF Finished
  <2> QED
    BY <2>3 DEF m
<1>7. Finished(Moves(d, <<s, KeepBackup(s)>>), d, S) /\ Last(Moves(d, <<s, KeepBackup(s)>>)).dest[j.target] = d.backup
  <2> DEFINE m == Moves(d, <<s, KeepBackup(s)>>)
  <2>1. d \in S
    BY DEF S
  <2>2. /\ m \in Seq(S) /\ m # <<>> /\ Len(m) >= 2 /\ m[1] = d /\ Last(m) = Unjournaled(KeepBackup(s))
    BY <1>1, <1>3, <1>5, <2>1, MovesTwo
  <2> HIDE DEF m
  <2>3. Finished(m, d, S) /\ Last(m).dest[j.target] = d.backup
    BY <1>1, <1>5, <2>2 DEF Finished
  <2> QED
    BY <2>3 DEF m
<1> QED
    BY <1>6, <1>7 DEF s, S

\* recover_replacement ends in a safe directory without a journal, by safe steps, or refuses.
LEMMA RecoveryOfSafe ==
    ASSUME NEW n, NEW stored, KsStores(n, stored), NEW d \in SafeDirs(n, stored), NEW j, Explains(j, d, stored),
           RecoveryOf(d, j) # <<>>
    PROVE  Finished(RecoveryOf(d, j), d, SafeDirs(n, stored))
<1> DEFINE k == EntryKinds(d, j)
<1>1. k = <<Kind(d.dest[j.target], j), Kind(d.tmp, j), Kind(d.backup, j)>>
    BY DEF EntryKinds
<1>2. d.dest[j.target] # 0 => \A a \in stored : d.dest[a[1]] # 0
    BY DEF Explains
<1>3. j.orig = 0 => \A a \in stored : d.dest[a[1]] # 0
    BY DEF Explains
<1> HIDE DEF k
<1>4. CASE k = <<"missing", "repl", "orig">>
  <2>1. d.backup # 0
    BY <1>1, <1>4, KindSays
  <2>2. RecoveryOf(d, j) = Moves(d, <<Swap(d, j.target), KeepTmp(Swap(d, j.target))>>)
    BY <1>4 DEF RecoveryOf, k
  <2>3. /\ Finished(Moves(d, <<Swap(d, j.target), KeepTmp(Swap(d, j.target))>>), d, SafeDirs(n, stored))
        /\ Last(Moves(d, <<Swap(d, j.target), KeepTmp(Swap(d, j.target))>>)).dest[j.target] = d.backup
    BY ONLY KsStores(n, stored), d \in SafeDirs(n, stored), Explains(j, d, stored), <2>1, SwapsBack
  <2> QED
    BY <2>1, <2>2, <2>3
<1>5. CASE k = <<"orig", "repl", "missing">> \/ (k = <<"missing", "repl", "missing">> /\ j.orig = 0)
  <2>1. \A a \in stored : d.dest[a[1]] # 0
    BY <1>1, <1>2, <1>3, <1>5, KindSays
  <2>2. RecoveryOf(d, j) = Moves(d, <<KeepTmp(d)>>)
    BY <1>5 DEF RecoveryOf, k
  <2> QED
    BY <2>1, <2>2, KeepsTmp
<1>6. CASE k \in {<<"repl", "missing", "orig">>, <<"orig", "missing", "repl">>}
  <2>1. \A a \in stored : d.dest[a[1]] # 0
    BY <1>1, <1>2, <1>6, KindSays
  <2>2. RecoveryOf(d, j) = Moves(d, <<KeepBackup(d)>>)
    BY <1>6 DEF RecoveryOf, k
  <2> QED
    BY <2>1, <2>2, KeepsBackup
<1>7. CASE k = <<"repl", "missing", "missing">> \/ (k = <<"orig", "missing", "missing">> /\ j.orig # 0)
  <2>1. \A a \in stored : d.dest[a[1]] # 0
    BY <1>1, <1>2, <1>7, KindSays
  <2>2. RecoveryOf(d, j) = Moves(d, <<>>)
    BY <1>7 DEF RecoveryOf, k
  <2> QED
    BY <2>1, <2>2, OnlyUnjournals
<1> QED
    BY <1>4, <1>5, <1>6, <1>7 DEF RecoveryOf, k

\* The recovery of a directory, by the journal it finds.
LEMMA RecoverySafe ==
    ASSUME NEW n, NEW stored, KsStores(n, stored), NEW d \in SafeDirs(n, stored), Recovery(d) # <<>>
    PROVE  Finished(Recovery(d), d, SafeDirs(n, stored))
<1>1. d \in KsDirs(n) /\ NamesHeld(d, stored)
    BY DEF SafeDirs
<1>2. d.journal \in Replacements(n) \cup {NoReplace} /\ d.pending \in Replacements(n) \cup {NoReplace, Torn}
    BY <1>1 DEF KsDirs
<1>3. CASE d.journal # NoReplace /\ Recovery(d) = RecoveryOf(d, d.journal)
  <2>1. d.journal.target \in Files
    BY <1>2, <1>3 DEF Replacements
  <2>2. Explains(d.journal, d, stored)
    BY <1>1, <2>1 DEF NamesHeld, Explains
  <2> QED
    BY <1>3, <2>2, RecoveryOfSafe
<1>4. CASE d.journal = NoReplace /\ d.pending \notin {NoReplace, Torn} /\ Recovery(d) = RecoveryOf(d, d.pending)
  <2>1. d.pending.target \in Files
    BY <1>2, <1>4 DEF Replacements
  <2>2. \A a \in stored : d.dest[a[1]] # 0
    BY <1>1, <1>4 DEF NamesHeld, NoReplace
  <2>3. Explains(d.pending, d, stored)
    BY <2>1, <2>2 DEF Explains
  <2> QED
    BY <1>4, <2>3, RecoveryOfSafe
<1>5. CASE d.journal = NoReplace /\ d.pending = NoReplace /\ Recovery(d) = <<d>>
  <2>1. <<d>> \in Seq(SafeDirs(n, stored)) /\ <<d>> # <<>> /\ <<d>>[1] = d /\ Last(<<d>>) = d
    BY DEF Last
  <2> QED
    BY <1>5, <2>1 DEF Finished
<1> QED
    BY <1>3, <1>4, <1>5 DEF Recovery

\* rollback_replacement likewise; it ends with the wallet the name held before.
LEMMA RollbackSafe ==
    ASSUME NEW n, NEW stored, KsStores(n, stored), NEW d \in SafeDirs(n, stored), NEW j, Explains(j, d, stored),
           Rollback(d, j) # <<>>
    PROVE  /\ Finished(Rollback(d, j), d, SafeDirs(n, stored))
           /\ Last(Rollback(d, j)).dest[j.target] = j.orig /\ j.orig # j.repl
<1> DEFINE k == EntryKinds(d, j)
<1>1. k = <<Kind(d.dest[j.target], j), Kind(d.tmp, j), Kind(d.backup, j)>>
    BY DEF EntryKinds
<1>2. d.dest[j.target] # 0 => \A a \in stored : d.dest[a[1]] # 0
    BY DEF Explains
<1> HIDE DEF k
<1>3. CASE k = <<"orig", "repl", "missing">>
  <2>1. d.dest[j.target] = j.orig /\ d.dest[j.target] # 0 /\ j.orig # j.repl
    BY <1>1, <1>3, KindSays
  <2>2. Rollback(d, j) = Moves(d, <<KeepTmp(d)>>)
    BY <1>3 DEF Rollback, k
  <2> QED
    BY <1>2, <2>1, <2>2, KeepsTmp
<1>4. CASE k = <<"missing", "repl", "orig">>
  <2>1. d.backup = j.orig /\ d.backup # 0 /\ j.orig # j.repl
    BY <1>1, <1>4, KindSays
  <2>2. Rollback(d, j) = Moves(d, <<Swap(d, j.target), KeepTmp(Swap(d, j.target))>>)
    BY <1>4 DEF Rollback, k
  <2>3. /\ Finished(Moves(d, <<Swap(d, j.target), KeepTmp(Swap(d, j.target))>>), d, SafeDirs(n, stored))
        /\ Last(Moves(d, <<Swap(d, j.target), KeepTmp(Swap(d, j.target))>>)).dest[j.target] = d.backup
    BY ONLY KsStores(n, stored), d \in SafeDirs(n, stored), Explains(j, d, stored), <2>1, SwapsBack
  <2> QED
    BY <2>1, <2>2, <2>3
<1>5. CASE k = <<"repl", "missing", "orig">>
  <2>1. d.backup = j.orig /\ d.backup # 0 /\ j.orig # j.repl
    BY <1>1, <1>5, KindSays
  <2>2. Rollback(d, j) = Moves(d, <<Swap(d, j.target), KeepBackup(Swap(d, j.target))>>)
    BY <1>5 DEF Rollback, k
  <2>3. /\ Finished(Moves(d, <<Swap(d, j.target), KeepBackup(Swap(d, j.target))>>), d, SafeDirs(n, stored))
        /\ Last(Moves(d, <<Swap(d, j.target), KeepBackup(Swap(d, j.target))>>)).dest[j.target] = d.backup
    BY ONLY KsStores(n, stored), d \in SafeDirs(n, stored), Explains(j, d, stored), <2>1, SwapsBack
  <2> QED
    BY <2>1, <2>2, <2>3
<1> QED
    BY <1>3, <1>4, <1>5 DEF Rollback, k

-----------------------------------------------------------------------------
\* A new wallet file makes no directory unsafe.
LEMMA SafeDirsGrow ==
    ASSUME NEW n \in Nat, NEW stored
    PROVE  SafeDirs(n, stored) \subseteq SafeDirs(n + 1, stored)
<1>1. KsNumber(n) \subseteq KsNumber(n + 1)
    BY DEF KsNumber, Foreign
<1>2. Replacements(n) \subseteq Replacements(n + 1)
    BY <1>1 DEF Replacements
<1>3. KsDirs(n) \subseteq KsDirs(n + 1)
  <2> SUFFICES ASSUME NEW d \in KsDirs(n) PROVE d \in KsDirs(n + 1)
    OBVIOUS
  <2>1. d = [dest |-> d.dest, tmp |-> d.tmp, backup |-> d.backup, journal |-> d.journal, pending |-> d.pending, kept |-> d.kept]
    BY DirFields
  <2>2. /\ d.dest \in [Files -> KsNumber(n)] /\ d.tmp \in KsNumber(n) /\ d.backup \in KsNumber(n) /\ d.kept \in SUBSET KsNumber(n)
        /\ d.journal \in Replacements(n) \cup {NoReplace} /\ d.pending \in Replacements(n) \cup {NoReplace, Torn}
    BY DEF KsDirs
  <2>3. d.dest \in [Files -> KsNumber(n + 1)]
    BY <1>1, <2>2
  <2> QED
    BY <1>1, <1>2, <2>1, <2>2, <2>3 DEF KsDirs
<1> QED
    BY <1>3 DEF SafeDirs

\* A directory that has every file of a safe one is safe if it accounts for the names.
LEMMA DirUpdate ==
    ASSUME NEW n, NEW stored, NEW d \in SafeDirs(n, stored), NEW e \in KsDirs(n),
           \A s \in stored : s[2] \in Everywhere(d) => s[2] \in Everywhere(e), NamesHeld(e, stored)
    PROVE  e \in SafeDirs(n, stored)
    BY DEF KeysHere, SafeDirs

\* What the invariant says of the directory.
LEMMA KsFacts ==
    ASSUME KsShape
    PROVE  /\ Len(wallets) \in Nat /\ KsStores(Len(wallets), readBack)
           /\ ksDir \in SafeDirs(Len(wallets), readBack) /\ ksDir \in KsDirs(Len(wallets)) /\ NamesHeld(ksDir, readBack)
           /\ ksDir = [dest |-> ksDir.dest, tmp |-> ksDir.tmp, backup |-> ksDir.backup, journal |-> ksDir.journal,
                       pending |-> ksDir.pending, kept |-> ksDir.kept]
           /\ ksDir.dest \in [Files -> KsNumber(Len(wallets))] /\ ksDir.tmp \in KsNumber(Len(wallets)) /\ ksDir.backup \in KsNumber(Len(wallets))
           /\ ksDir.journal \in Replacements(Len(wallets)) \cup {NoReplace}
           /\ ksDir.pending \in Replacements(Len(wallets)) \cup {NoReplace, Torn} /\ ksDir.kept \in SUBSET KsNumber(Len(wallets))
<1>1. Len(wallets) \in Nat /\ KsStores(Len(wallets), readBack)
    BY DEF KsShape, KsStores
<1>2. ksDir \in SafeDirs(Len(wallets), readBack)
    BY DEF KsShape
<1>3. ksDir \in KsDirs(Len(wallets)) /\ NamesHeld(ksDir, readBack)
    BY <1>2 DEF SafeDirs
<1>4. ksDir = [dest |-> ksDir.dest, tmp |-> ksDir.tmp, backup |-> ksDir.backup, journal |-> ksDir.journal,
               pending |-> ksDir.pending, kept |-> ksDir.kept]
    BY <1>3, DirFields
<1>5. /\ ksDir.dest \in [Files -> KsNumber(Len(wallets))] /\ ksDir.tmp \in KsNumber(Len(wallets)) /\ ksDir.backup \in KsNumber(Len(wallets))
      /\ ksDir.journal \in Replacements(Len(wallets)) \cup {NoReplace}
      /\ ksDir.pending \in Replacements(Len(wallets)) \cup {NoReplace, Torn} /\ ksDir.kept \in SUBSET KsNumber(Len(wallets))
    BY <1>3 DEF KsDirs
<1> QED
    BY <1>1, <1>2, <1>3, <1>4, <1>5

\* AnchoredDirectory::open leaves a safe directory with no journal and no file under a random name.
LEMMA OpenedSafe ==
    ASSUME KsShape, Recovery(ksDir) # <<>>
    PROVE  /\ Opened \in SafeDirs(Len(wallets), readBack) /\ Opened.tmp = 0 /\ Opened.backup = 0
           /\ Opened.journal = NoReplace /\ Opened.pending = NoReplace
<1> DEFINE n == Len(wallets)
           d == Last(Recovery(ksDir))
<1>0. KsStores(n, readBack) /\ ksDir \in SafeDirs(n, readBack)
    BY KsFacts
<1>1. d \in SafeDirs(n, readBack) /\ d.journal = NoReplace /\ d.pending = NoReplace
    BY <1>0, RecoverySafe DEF Finished
<1>2. ASSUME NEW u, u = Opened
      PROVE  u = [d EXCEPT !.kept = (d.kept \cup {d.tmp, d.backup}) \ {0}, !.tmp = 0, !.backup = 0]
    BY <1>2 DEF Opened
<1> HIDE DEF n, d
<1>3. d \in KsDirs(n) /\ NamesHeld(d, readBack)
    BY <1>1 DEF SafeDirs
<1>4. d = [dest |-> d.dest, tmp |-> d.tmp, backup |-> d.backup, journal |-> d.journal, pending |-> d.pending, kept |-> d.kept]
    BY <1>3, DirFields
<1>5. PICK a, t, b, k : d = [dest |-> a, tmp |-> t, backup |-> b, journal |-> NoReplace, pending |-> NoReplace, kept |-> k]
    BY <1>1, <1>4
<1>6. a \in [Files -> KsNumber(n)] /\ t \in KsNumber(n) /\ b \in KsNumber(n) /\ k \in SUBSET KsNumber(n)
    BY <1>3, <1>5 DEF KsDirs
<1>7. PICK u : u = Opened
    OBVIOUS
<1>8. u = [d EXCEPT !.kept = (d.kept \cup {d.tmp, d.backup}) \ {0}, !.tmp = 0, !.backup = 0]
    BY <1>2, <1>7
<1>9. u = [dest |-> a, tmp |-> 0, backup |-> 0, journal |-> NoReplace, pending |-> NoReplace, kept |-> (k \cup {t, b}) \ {0}]
    BY <1>5, <1>8
<1>10. \A s \in readBack : s[2] # 0
    BY <1>0, SafeShape
<1>11. \A s \in readBack : s[2] \in Everywhere(d) => s[2] \in Everywhere(u)
    BY <1>5, <1>9, <1>10 DEF Everywhere
<1>12. \A s \in readBack : a[s[1]] # 0
    BY <1>3, <1>5 DEF NamesHeld, NoReplace
<1>13. (k \cup {t, b}) \ {0} \in SUBSET KsNumber(n) /\ 0 \in KsNumber(n)
    BY <1>0, <1>6, SafeShape
<1>14. u \in SafeDirs(n, readBack)
  <2>1. u \in KsDirs(n)
    BY <1>6, <1>9, <1>13 DEF KsDirs
  <2>2. NamesHeld(u, readBack)
    BY <1>9, <1>12 DEF NamesHeld
  <2> QED
    BY <1>1, <1>11, <2>1, <2>2, DirUpdate
<1> QED
    BY <1>7, <1>9, <1>14 DEF n

\* What AfterOpen leaves.
LEMMA AfterOpenSafe ==
    ASSUME KsShape, Opens, AfterOpen
    PROVE  ksSaved' \subseteq SafeDirs(Len(wallets), readBack) /\ ksDir' \in ksSaved' /\ ksDir' = Opened
    BY OpenedSafe DEF KsShape, Opens, AfterOpen

-----------------------------------------------------------------------------
\* A directory with one wallet.
LEMMA KsStart == KsInit => KsInv
<1> SUFFICES ASSUME KsInit PROVE KsInv
    OBVIOUS
<1>1. PICK k \in WalletKeys, p \in Passwords \ ShortPasswords, f \in Files, other \in {0, Foreign} :
        /\ wallets = <<[key |-> k, password |-> p]>> /\ readBack = {<<f, 1>>}
        /\ ksDir = [dest |-> [g \in Files |-> IF g = f THEN 1 ELSE other], tmp |-> 0, backup |-> 0,
                    journal |-> NoReplace, pending |-> NoReplace, kept |-> {}]
        /\ ksSaved = {ksDir} /\ ksOp = IdleOp /\ ksTold = Untold /\ ksFaults = 0
    BY DEF KsInit
<1>2. wallets \in Seq([key : WalletKeys, password : Passwords]) /\ Len(wallets) = 1
    BY <1>1
<1>3. readBack \subseteq Files \X (1..1)
    BY <1>1
<1>4. KsNumber(1) = {-1, 0, 1} /\ Foreign = -1
    BY DEF KsNumber, Foreign
<1>5. ksDir \in KsDirs(1)
    BY <1>1, <1>4 DEF KsDirs
<1>6. KeysHere(ksDir, readBack) /\ NamesHeld(ksDir, readBack)
    BY <1>1 DEF KeysHere, NamesHeld, Everywhere
<1>7. KsShape
    BY <1>1, <1>2, <1>3, <1>5, <1>6, KeystoreAssumption DEF KsShape, SafeDirs
<1>8. OpShape /\ OpFinds /\ ToldShape /\ KeystoreHonest
    BY <1>1 DEF OpShape, OpFinds, IdleOp, ToldShape, Untold, KeystoreHonest
<1> QED
    BY <1>7, <1>8 DEF KsInv

\* An operation that ends before it writes.
LEMMA OpenOnlyStep ==
    ASSUME KsInv, Opens, AfterOpen, UNCHANGED <<ksOp, wallets, readBack, ksFaults>>, ToldShape', KeystoreHonest'
    PROVE  KsInv'
<1>1. KsShape'
    BY AfterOpenSafe DEF KsShape, KsInv
<1>2. OpShape' /\ OpFinds'
    BY DEF Opens, OpShape, OpFinds, IdleOp
<1> QED
    BY <1>1, <1>2 DEF KsInv

\* An operation is declined before it writes.
LEMMA DeclinedStep ==
    ASSUME KsInv, Opens, NEW f \in Files, Declined(f)
    PROVE  KsInv'
<1>1. AfterOpen /\ UNCHANGED <<ksOp, wallets, readBack, ksFaults>>
    BY DEF Declined
<1>2. ksTold' = [what |-> "failed", at |-> "idle", target |-> f, wallet |-> 0, before |-> Opened.dest[f]] /\ ksDir' = Opened
    BY <1>1 DEF Declined, Said, AfterOpen
<1>3. ToldShape' /\ KeystoreHonest'
    BY <1>2 DEF ToldShape, KeystoreHonest
<1> QED
    BY <1>1, <1>3, OpenOnlyStep

\* list_keystores recovers and reads.
LEMMA ListStep ==
    ASSUME KsInv, ListKeystores
    PROVE  KsInv'
<1>1. ksTold' = Untold
    BY DEF ListKeystores
<1>2. ToldShape' /\ KeystoreHonest'
    BY <1>1 DEF ToldShape, KeystoreHonest, Untold
<1> QED
    BY <1>2, OpenOnlyStep DEF ListKeystores

\* The write of a new wallet begins.
LEMMA WriteStep ==
    ASSUME KsInv, Opens, NEW f \in Files, NEW k \in WalletKeys, NEW p \in Passwords, NEW over \in BOOLEAN, WriteWallet(f, k, p, over)
    PROVE  KsInv'
<1> DEFINE n == Len(wallets)
<1>0. KsShape
    BY DEF KsInv
<1>1. n \in Nat /\ wallets \in Seq([key : WalletKeys, password : Passwords]) /\ readBack \subseteq Files \X (1..n) /\ ksFaults \in 0..MaxKsFaults
    BY <1>0 DEF KsShape
<1>2. wallets' = Append(wallets, [key |-> k, password |-> p])
    BY DEF WriteWallet, Create
<1>3. wallets' \in Seq([key : WalletKeys, password : Passwords]) /\ Len(wallets') = n + 1
    BY <1>1, <1>2
<1>4. ksOp' = [IdleOp EXCEPT !.at = "temp", !.target = f, !.wallet = Len(wallets) + 1, !.over = over, !.orig = Opened.dest[f]]
    BY DEF WriteWallet
<1>5. ksOp' = [at |-> "temp", target |-> f, wallet |-> n + 1, over |-> over, orig |-> Opened.dest[f], journaled |-> FALSE]
    BY <1>4 DEF IdleOp
<1>6. /\ AfterOpen /\ ksTold' = Untold /\ readBack' = readBack /\ ksFaults' = ksFaults
    BY DEF WriteWallet
<1>7. /\ Opened \in SafeDirs(n, readBack) /\ Opened.tmp = 0 /\ Opened.backup = 0
      /\ Opened.journal = NoReplace /\ Opened.pending = NoReplace
    BY <1>0, OpenedSafe DEF Opens
<1>8. ksSaved' \subseteq SafeDirs(n, readBack) /\ ksDir' \in ksSaved' /\ ksDir' = Opened
    BY <1>0, <1>6, AfterOpenSafe
<1> HIDE DEF n
<1>9. Opened.dest[f] \in KsNumber(n)
    BY <1>7 DEF SafeDirs, KsDirs
<1>10. Opened.dest[f] \in KsNumber(n + 1) /\ Opened.dest[f] # n + 1
    BY <1>1, <1>9 DEF KsNumber, Foreign
<1>11. \A a \in readBack : a[2] # n + 1
    BY <1>1
<1>12. KsShape'
  <2>1. ksSaved' \subseteq SafeDirs(n + 1, readBack)
    BY <1>1, <1>8, SafeDirsGrow
  <2>2. readBack \subseteq Files \X (1..(n + 1))
    BY <1>1
  <2> QED
    BY <1>1, <1>3, <1>6, <1>8, <2>1, <2>2 DEF KsShape
<1>13. OpShape'
  <2>1. n + 1 > 0
    BY <1>1
  <2> QED
    BY <1>3, <1>5, <1>6, <1>10, <1>11, <2>1 DEF OpShape, KsPlaces, KsPast
<1>14. OpFinds'
    BY <1>5, <1>7, <1>8 DEF OpFinds, Found
<1>15. ToldShape' /\ KeystoreHonest'
    BY <1>6 DEF ToldShape, KeystoreHonest, Untold
<1> QED
    BY <1>12, <1>13, <1>14, <1>15 DEF KsInv

\* Every operation recovers first, and then writes, declines or reads.
LEMMA DispatchSteps ==
    ASSUME KsInv, KsDispatch \/ Overwrite
    PROVE  KsInv'
<1>1. ASSUME NEW f \in Files, NEW k \in WalletKeys, NEW p \in Passwords, NEW over \in BOOLEAN, NewKeystore(f, k, p, over)
      PROVE  KsInv'
    BY <1>1, WriteStep DEF NewKeystore
<1>2. ASSUME NEW f \in Files, NEW k \in WalletKeys, NEW p \in Passwords, NEW force \in BOOLEAN, NEW over \in BOOLEAN,
             ImportKeystore(f, k, p, force, over)
      PROVE  KsInv'
    BY <1>2, WriteStep, DeclinedStep DEF ImportKeystore
<1>3. ASSUME NEW k \in WalletKeys, NEW p \in Passwords, NEW q \in Passwords, UpdateKeystore(k, p, q)
      PROVE  KsInv'
  <2>1. PICK f \in Files : WriteWallet(f, k, q, TRUE) \/ Declined(f)
    BY <1>3 DEF UpdateKeystore
  <2>2. Opens
    BY <1>3 DEF UpdateKeystore
  <2> QED
    BY <2>1, <2>2, WriteStep, DeclinedStep
<1>4. CASE KsDispatch
    BY <1>1, <1>2, <1>3, <1>4, ListStep DEF KsDispatch, DispatchNew, DispatchImport, DispatchUpdate, DispatchList
<1>5. CASE Overwrite
    BY <1>1, <1>2, <1>5 DEF Overwrite
<1> QED
    BY <1>4, <1>5

-----------------------------------------------------------------------------
\* What the invariant says of a write under way.
LEMMA OpFacts ==
    ASSUME KsInv, ksOp.at # "idle"
    PROVE  /\ KsShape /\ OpFinds
           /\ ksOp = [at |-> ksOp.at, target |-> ksOp.target, wallet |-> ksOp.wallet, over |-> ksOp.over, orig |-> ksOp.orig,
                      journaled |-> ksOp.journaled]
           /\ ksOp.at \in KsPlaces /\ ksOp.target \in Files /\ ksOp.wallet = Len(wallets) /\ ksOp.wallet > 0 /\ ksOp.wallet # 0
           /\ ksOp.over \in BOOLEAN /\ ksOp.journaled \in BOOLEAN /\ ksOp.orig \in KsNumber(Len(wallets)) /\ ksOp.orig # ksOp.wallet
           /\ ksTold = Untold
           /\ (IF ksOp.at \in KsPast THEN <<ksOp.target, ksOp.wallet>> \in readBack ELSE \A a \in readBack : a[2] # ksOp.wallet)
           /\ TheJournal \in Replacements(Len(wallets)) /\ TheJournal.target = ksOp.target /\ TheJournal.orig = ksOp.orig
           /\ TheJournal.repl = ksOp.wallet
<1>1. /\ ksOp = [at |-> ksOp.at, target |-> ksOp.target, wallet |-> ksOp.wallet, over |-> ksOp.over, orig |-> ksOp.orig,
                      journaled |-> ksOp.journaled]
           /\ ksOp.at \in KsPlaces /\ ksOp.target \in Files /\ ksOp.wallet = Len(wallets) /\ ksOp.wallet > 0
           /\ ksOp.over \in BOOLEAN /\ ksOp.journaled \in BOOLEAN /\ ksOp.orig \in KsNumber(Len(wallets)) /\ ksOp.orig # ksOp.wallet
           /\ ksTold = Untold
           /\ (IF ksOp.at \in KsPast THEN <<ksOp.target, ksOp.wallet>> \in readBack ELSE \A a \in readBack : a[2] # ksOp.wallet)
    BY DEF KsInv, OpShape, IdleOp
<1>2. KsShape /\ OpFinds
    BY DEF KsInv
<1>3. Len(wallets) \in KsNumber(Len(wallets)) /\ Len(wallets) \in Nat
    BY <1>2, KsFacts, SafeShape
<1>4. ksOp.wallet # 0
    BY <1>1, <1>3
<1>5. /\ TheJournal \in Replacements(Len(wallets)) /\ TheJournal.target = ksOp.target /\ TheJournal.orig = ksOp.orig
      /\ TheJournal.repl = ksOp.wallet
    BY <1>1, <1>3 DEF TheJournal, Replacements
<1> QED
    BY <1>1, <1>2, <1>4, <1>5

\* One change of the directory, and one fsync of it, by the write under way.
LEMMA MoveStep ==
    ASSUME KsInv, NEW from, NEW to \in KsPlaces, NEW d, from # "idle", from \in KsPast <=> to \in KsPast,
           KsMove(from, to, d), d \in SafeDirs(Len(wallets), readBack), OpFinds'
    PROVE  KsInv'
<1>1. /\ ksOp.at = from /\ ksOp' = [ksOp EXCEPT !.at = to] /\ ksDir' = d /\ ksSaved' = ksSaved \cup {d}
      /\ wallets' = wallets /\ ksTold' = ksTold /\ readBack' = readBack /\ ksFaults' = ksFaults
    BY DEF KsMove
<1>2. ksTold = Untold
    BY <1>1, OpFacts
<1>3. KsShape'
    BY <1>1 DEF KsShape, KsInv
<1>4. ksOp' = [at |-> to, target |-> ksOp.target, wallet |-> ksOp.wallet, over |-> ksOp.over, orig |-> ksOp.orig, journaled |-> ksOp.journaled]
    BY <1>1, OpFacts
<1>5. OpShape'
  <2>1. /\ ksOp'.at = to /\ ksOp'.target = ksOp.target /\ ksOp'.wallet = ksOp.wallet /\ ksOp'.over = ksOp.over /\ ksOp'.orig = ksOp.orig
        /\ ksOp'.journaled = ksOp.journaled
    BY <1>4
  <2>2. ksOp' = [at |-> ksOp'.at, target |-> ksOp'.target, wallet |-> ksOp'.wallet, over |-> ksOp'.over, orig |-> ksOp'.orig,
                 journaled |-> ksOp'.journaled]
    BY <1>4, <2>1
  <2> QED
    BY <1>1, <1>2, <2>1, <2>2, OpFacts DEF OpShape
<1>6. ToldShape' /\ KeystoreHonest'
    BY <1>1, <1>2 DEF ToldShape, KeystoreHonest, Untold
<1> QED
    BY <1>3, <1>5, <1>6 DEF KsInv

\* One fsync.
LEMMA SyncStep ==
    ASSUME KsInv, NEW from, NEW to \in KsPlaces, NEW journaled \in BOOLEAN, from # "idle", from \in KsPast <=> to \in KsPast,
           KsSync(from, to, journaled), OpFinds'
    PROVE  KsInv'
<1>1. /\ ksOp.at = from /\ ksOp' = [ksOp EXCEPT !.at = to, !.journaled = journaled] /\ ksDir' = ksDir /\ ksSaved' = {ksDir}
      /\ wallets' = wallets /\ ksTold' = ksTold /\ readBack' = readBack /\ ksFaults' = ksFaults
    BY DEF KsSync
<1>2. ksTold = Untold
    BY <1>1, OpFacts
<1>3. KsShape'
    BY <1>1 DEF KsShape, KsInv
<1>4. ksOp' = [at |-> to, target |-> ksOp.target, wallet |-> ksOp.wallet, over |-> ksOp.over, orig |-> ksOp.orig, journaled |-> journaled]
    BY <1>1, OpFacts
<1>5. OpShape'
  <2>1. /\ ksOp'.at = to /\ ksOp'.target = ksOp.target /\ ksOp'.wallet = ksOp.wallet /\ ksOp'.over = ksOp.over /\ ksOp'.orig = ksOp.orig
        /\ ksOp'.journaled = journaled
    BY <1>4
  <2>2. ksOp' = [at |-> ksOp'.at, target |-> ksOp'.target, wallet |-> ksOp'.wallet, over |-> ksOp'.over, orig |-> ksOp'.orig,
                 journaled |-> ksOp'.journaled]
    BY <1>4, <2>1
  <2> QED
    BY <1>1, <1>2, <2>1, <2>2, OpFacts DEF OpShape
<1>6. ToldShape' /\ KeystoreHonest'
    BY <1>1, <1>2 DEF ToldShape, KeystoreHonest, Untold
<1> QED
    BY <1>3, <1>5, <1>6 DEF KsInv

\* The write's own record keeps everything but where it is.
LEMMA OpMoves ==
    ASSUME KsInv, NEW from, NEW to, NEW d, from # "idle", KsMove(from, to, d)
    PROVE  /\ ksOp'.at = to /\ ksOp'.target = ksOp.target /\ ksOp'.wallet = ksOp.wallet /\ ksOp'.over = ksOp.over /\ ksOp'.orig = ksOp.orig
           /\ ksOp'.journaled = ksOp.journaled /\ TheJournal' = TheJournal /\ ksDir' = d /\ ksOp.at = from
<1>1. ksOp.at = from /\ ksOp' = [ksOp EXCEPT !.at = to] /\ ksDir' = d
    BY DEF KsMove
<1>2. ksOp' = [at |-> to, target |-> ksOp.target, wallet |-> ksOp.wallet, over |-> ksOp.over, orig |-> ksOp.orig, journaled |-> ksOp.journaled]
    BY <1>1, OpFacts
<1> QED
    BY <1>1, <1>2 DEF TheJournal

\* Likewise for an fsync.
LEMMA OpSyncs ==
    ASSUME KsInv, NEW from, NEW to, NEW journaled, from # "idle", KsSync(from, to, journaled)
    PROVE  /\ ksOp'.at = to /\ ksOp'.target = ksOp.target /\ ksOp'.wallet = ksOp.wallet /\ ksOp'.over = ksOp.over /\ ksOp'.orig = ksOp.orig
           /\ ksOp'.journaled = journaled /\ TheJournal' = TheJournal /\ ksDir' = ksDir /\ ksSaved' = {ksDir} /\ ksOp.at = from
<1>1. ksOp.at = from /\ ksOp' = [ksOp EXCEPT !.at = to, !.journaled = journaled] /\ ksDir' = ksDir /\ ksSaved' = {ksDir}
    BY DEF KsSync
<1>2. ksOp' = [at |-> to, target |-> ksOp.target, wallet |-> ksOp.wallet, over |-> ksOp.over, orig |-> ksOp.orig, journaled |-> journaled]
    BY <1>1, OpFacts
<1> QED
    BY <1>1, <1>2 DEF TheJournal

-----------------------------------------------------------------------------
\* The wallet is written under a random name.
LEMMA WriteTemporaryStep == ASSUME KsInv, WriteTemporary PROVE KsInv'
<1> DEFINE n == Len(wallets)
           to == IF ksOp.over THEN "journal" ELSE "publish"
<1>1. PICK e : e = [ksDir EXCEPT !.tmp = ksOp.wallet]
    OBVIOUS
<1>2. KsMove("temp", to, e)
    BY <1>1 DEF WriteTemporary
<1>3. ksOp.at = "temp"
    BY <1>2 DEF KsMove
<1>4. Found(ksOp.orig, 0, 0, NoReplace, NoReplace) /\ ~ksOp.journaled
    BY <1>3, OpFacts DEF OpFinds
<1>5. e = [dest |-> ksDir.dest, tmp |-> ksOp.wallet, backup |-> ksDir.backup, journal |-> ksDir.journal, pending |-> ksDir.pending,
           kept |-> ksDir.kept]
    BY <1>1, <1>3, OpFacts, KsFacts
<1>6. e \in SafeDirs(n, readBack)
  <2>1. \A s \in readBack : s[2] \in Everywhere(ksDir) => s[2] \in Everywhere(e)
    BY <1>3, <1>4, <1>5, OpFacts, KsFacts, SafeShape DEF Everywhere, Found
  <2>2. ksOp.wallet \in KsNumber(n)
    BY <1>3, OpFacts, KsFacts, SafeShape
  <2>3. e \in KsDirs(n)
    BY <1>3, <1>5, <2>2, OpFacts, KsFacts DEF KsDirs
  <2>4. NamesHeld(e, readBack)
    BY <1>3, <1>5, OpFacts, KsFacts DEF NamesHeld
  <2>5. ksDir \in SafeDirs(n, readBack)
    BY <1>3, OpFacts, KsFacts
  <2> QED
    BY <2>1, <2>3, <2>4, <2>5, DirUpdate
<1>7. OpFinds'
  <2>1. /\ ksOp'.at = to /\ ksOp'.target = ksOp.target /\ ksOp'.wallet = ksOp.wallet /\ ksOp'.over = ksOp.over /\ ksOp'.orig = ksOp.orig
        /\ ksOp'.journaled = ksOp.journaled /\ TheJournal' = TheJournal /\ ksDir' = e
    BY <1>2, OpMoves
  <2>2. ksOp.over \in BOOLEAN
    BY <1>3, OpFacts
  <2> QED
    BY <1>4, <1>5, <2>1, <2>2 DEF OpFinds, Found
<1>8. to \in KsPlaces
    BY DEF KsPlaces
<1> QED
    BY <1>2, <1>6, <1>7, <1>8, MoveStep DEF KsPast

\* write_replace_journal: created, filled, renamed and synced.
LEMMA JournalStep == ASSUME KsInv, WriteReplaceJournal PROVE KsInv'
<1> DEFINE n == Len(wallets)
<1>1. CASE KsMove("journal", "fill", [ksDir EXCEPT !.pending = Torn])
  <2>1. PICK e : e = [ksDir EXCEPT !.pending = Torn]
    OBVIOUS
  <2>2. KsMove("journal", "fill", e)
    BY <1>1, <2>1
  <2>3. ksOp.at = "journal"
    BY <2>2 DEF KsMove
  <2>4. Found(ksOp.orig, ksOp.wallet, 0, NoReplace, NoReplace) /\ ~ksOp.journaled /\ ksOp.over
    BY <2>3, OpFacts DEF OpFinds
  <2>5. e = [dest |-> ksDir.dest, tmp |-> ksDir.tmp, backup |-> ksDir.backup, journal |-> ksDir.journal, pending |-> Torn, kept |-> ksDir.kept]
    BY <2>1, <2>3, OpFacts, KsFacts
  <2>6. e \in SafeDirs(n, readBack)
    <3>1. \A s \in readBack : s[2] \in Everywhere(ksDir) => s[2] \in Everywhere(e)
      BY <2>5 DEF Everywhere
    <3>2. e \in KsDirs(n)
      BY <2>3, <2>5, OpFacts, KsFacts DEF KsDirs
    <3>3. NamesHeld(e, readBack)
      BY <2>3, <2>5, OpFacts, KsFacts DEF NamesHeld
    <3>4. ksDir \in SafeDirs(n, readBack)
      BY <2>3, OpFacts, KsFacts
    <3> QED
      BY <3>1, <3>2, <3>3, <3>4, DirUpdate
  <2>7. OpFinds'
    <3>1. /\ ksOp'.at = "fill" /\ ksOp'.target = ksOp.target /\ ksOp'.wallet = ksOp.wallet /\ ksOp'.over = ksOp.over /\ ksOp'.orig = ksOp.orig
          /\ ksOp'.journaled = ksOp.journaled /\ TheJournal' = TheJournal /\ ksDir' = e
      BY <2>2, OpMoves
    <3> QED
      BY <2>4, <2>5, <3>1 DEF OpFinds, Found
  <2> QED
    BY <2>2, <2>6, <2>7, MoveStep DEF KsPlaces, KsPast
<1>2. CASE KsMove("fill", "rename", [ksDir EXCEPT !.pending = TheJournal])
  <2>1. PICK e : e = [ksDir EXCEPT !.pending = TheJournal]
    OBVIOUS
  <2>2. KsMove("fill", "rename", e)
    BY <1>2, <2>1
  <2>3. ksOp.at = "fill"
    BY <2>2 DEF KsMove
  <2>4. Found(ksOp.orig, ksOp.wallet, 0, NoReplace, Torn) /\ ~ksOp.journaled /\ ksOp.over
    BY <2>3, OpFacts DEF OpFinds
  <2>5. e = [dest |-> ksDir.dest, tmp |-> ksDir.tmp, backup |-> ksDir.backup, journal |-> ksDir.journal, pending |-> TheJournal,
             kept |-> ksDir.kept]
    BY <2>1, <2>3, OpFacts, KsFacts
  <2>6. e \in SafeDirs(n, readBack)
    <3>1. \A s \in readBack : s[2] \in Everywhere(ksDir) => s[2] \in Everywhere(e)
      BY <2>5 DEF Everywhere
    <3>2. e \in KsDirs(n)
      BY <2>3, <2>5, OpFacts, KsFacts DEF KsDirs
    <3>3. NamesHeld(e, readBack)
      BY <2>3, <2>5, OpFacts, KsFacts DEF NamesHeld
    <3>4. ksDir \in SafeDirs(n, readBack)
      BY <2>3, OpFacts, KsFacts
    <3> QED
      BY <3>1, <3>2, <3>3, <3>4, DirUpdate
  <2>7. OpFinds'
    <3>1. /\ ksOp'.at = "rename" /\ ksOp'.target = ksOp.target /\ ksOp'.wallet = ksOp.wallet /\ ksOp'.over = ksOp.over /\ ksOp'.orig = ksOp.orig
          /\ ksOp'.journaled = ksOp.journaled /\ TheJournal' = TheJournal /\ ksDir' = e
      BY <2>2, OpMoves
    <3> QED
      BY <2>4, <2>5, <3>1 DEF OpFinds, Found
  <2> QED
    BY <2>2, <2>6, <2>7, MoveStep DEF KsPlaces, KsPast
<1>3. CASE KsMove("rename", "jsync", [ksDir EXCEPT !.pending = NoReplace, !.journal = TheJournal])
  <2>1. PICK e : e = [ksDir EXCEPT !.pending = NoReplace, !.journal = TheJournal]
    OBVIOUS
  <2>2. KsMove("rename", "jsync", e)
    BY <1>3, <2>1
  <2>3. ksOp.at = "rename"
    BY <2>2 DEF KsMove
  <2>4. Found(ksOp.orig, ksOp.wallet, 0, NoReplace, TheJournal) /\ ~ksOp.journaled /\ ksOp.over
    BY <2>3, OpFacts DEF OpFinds
  <2>5. e = [dest |-> ksDir.dest, tmp |-> ksDir.tmp, backup |-> ksDir.backup, journal |-> TheJournal, pending |-> NoReplace,
             kept |-> ksDir.kept]
    BY <2>1, <2>3, OpFacts, KsFacts
  <2>6. e \in SafeDirs(n, readBack)
    <3>1. \A s \in readBack : s[2] \in Everywhere(ksDir) => s[2] \in Everywhere(e)
      BY <2>5 DEF Everywhere
    <3>2. \A s \in readBack : ksDir.dest[s[1]] # 0
      BY <2>3, <2>4, OpFacts, KsFacts DEF NamesHeld, Found, NoReplace
    <3>3. e \in KsDirs(n)
      BY <2>3, <2>5, OpFacts, KsFacts DEF KsDirs
    <3>4. NamesHeld(e, readBack)
      BY <2>5, <3>2 DEF NamesHeld
    <3>5. ksDir \in SafeDirs(n, readBack)
      BY <2>3, OpFacts, KsFacts
    <3> QED
      BY <3>1, <3>3, <3>4, <3>5, DirUpdate
  <2>7. OpFinds'
    <3>1. /\ ksOp'.at = "jsync" /\ ksOp'.target = ksOp.target /\ ksOp'.wallet = ksOp.wallet /\ ksOp'.over = ksOp.over /\ ksOp'.orig = ksOp.orig
          /\ ksOp'.journaled = ksOp.journaled /\ TheJournal' = TheJournal /\ ksDir' = e
      BY <2>2, OpMoves
    <3> QED
      BY <2>4, <2>5, <3>1 DEF OpFinds, Found
  <2> QED
    BY <2>2, <2>6, <2>7, MoveStep DEF KsPlaces, KsPast
<1>4. CASE KsSync("jsync", IF ksOp.orig # 0 THEN "backup" ELSE "publish", TRUE)
  <2> DEFINE to == IF ksOp.orig # 0 THEN "backup" ELSE "publish"
  <2>1. KsSync("jsync", to, TRUE) /\ to \in KsPlaces
    BY <1>4 DEF KsPlaces
  <2>2. ksOp.at = "jsync"
    BY <2>1 DEF KsSync
  <2>3. Found(ksOp.orig, ksOp.wallet, 0, TheJournal, NoReplace) /\ ksOp.over
    BY <2>2, OpFacts DEF OpFinds
  <2>4. OpFinds'
    <3>1. /\ ksOp'.at = to /\ ksOp'.target = ksOp.target /\ ksOp'.wallet = ksOp.wallet /\ ksOp'.over = ksOp.over /\ ksOp'.orig = ksOp.orig
          /\ ksOp'.journaled = TRUE /\ TheJournal' = TheJournal /\ ksDir' = ksDir
      BY <2>1, OpSyncs
    <3> QED
      BY <2>3, <3>1 DEF OpFinds, Found
  <2> QED
    BY <2>1, <2>4, SyncStep DEF KsPast
<1> QED
    BY <1>1, <1>2, <1>3, <1>4 DEF WriteReplaceJournal

\* The original is set aside, and the directory synced.
LEMMA SetAsideStep == ASSUME KsInv, SetAside PROVE KsInv'
<1> DEFINE n == Len(wallets)
<1>1. CASE KsMove("backup", "bsync", [ksDir EXCEPT !.backup = ksDir.dest[ksOp.target], !.dest[ksOp.target] = 0])
  <2>1. PICK e : e = [ksDir EXCEPT !.backup = ksDir.dest[ksOp.target], !.dest[ksOp.target] = 0]
    OBVIOUS
  <2>2. KsMove("backup", "bsync", e)
    BY <1>1, <2>1
  <2>3. ksOp.at = "backup"
    BY <2>2 DEF KsMove
  <2>4. Found(ksOp.orig, ksOp.wallet, 0, TheJournal, NoReplace) /\ ksOp.journaled /\ ksOp.orig # 0 /\ ksOp.over
    BY <2>3, OpFacts DEF OpFinds
  <2>5. PICK a : a = [ksDir.dest EXCEPT ![ksOp.target] = 0]
    OBVIOUS
  <2>6. ksDir = [dest |-> ksDir.dest, tmp |-> ksDir.tmp, backup |-> ksDir.backup, journal |-> ksDir.journal, pending |-> ksDir.pending,
                 kept |-> ksDir.kept]
    BY <2>3, OpFacts, KsFacts
  <2>7. e = [dest |-> a, tmp |-> ksDir.tmp, backup |-> ksDir.dest[ksOp.target], journal |-> ksDir.journal, pending |-> ksDir.pending,
             kept |-> ksDir.kept]
    BY <2>1, <2>5, <2>6
  <2>8. /\ a \in [Files -> KsNumber(n)] /\ a[ksOp.target] = 0 /\ ksDir.dest[ksOp.target] \in KsNumber(n)
        /\ \A g \in Files \ {ksOp.target} : a[g] = ksDir.dest[g]
    BY <2>3, <2>5, OpFacts, KsFacts, SafeShape
  <2>9. e \in SafeDirs(n, readBack)
    <3>1. \A s \in readBack : s[2] \in Everywhere(ksDir) => s[2] \in Everywhere(e)
      <4>1. \A s \in readBack : s[2] # 0
        BY <2>3, OpFacts, KsFacts, SafeShape
      <4> QED
        BY <2>4, <2>7, <2>8, <4>1 DEF Everywhere, Found
    <3>2. \A s \in readBack : a[s[1]] # 0 \/ (TheJournal.target = s[1] /\ TheJournal.orig # 0)
      <4>1. \A s \in readBack : s[1] \in Files
        BY <2>3, OpFacts, KsFacts, SafeShape
      <4>2. TheJournal.target = ksOp.target /\ TheJournal.orig = ksOp.orig /\ NamesHeld(ksDir, readBack) /\ ksDir.journal = TheJournal
        BY <2>3, <2>4, OpFacts, KsFacts DEF Found
      <4> QED
        BY <2>4, <2>8, <4>1, <4>2 DEF NamesHeld
    <3>3. ksDir.journal = TheJournal
      BY <2>4 DEF Found
    <3>4. /\ KsStores(n, readBack) /\ ksDir \in SafeDirs(n, readBack) /\ ksDir.tmp \in KsNumber(n) /\ ksDir.journal \in Replacements(n) \cup {NoReplace}
          /\ ksDir.pending \in Replacements(n) \cup {NoReplace, Torn} /\ ksDir.kept \in SUBSET KsNumber(n)
      BY <2>3, OpFacts, KsFacts
    <3>5. \A s \in readBack : a[s[1]] # 0 \/ (ksDir.journal.target = s[1] /\ ksDir.journal.orig # 0)
      BY <3>2, <3>3
    <3>6. e \in KsDirs(n)
      BY <2>7, <2>8, <3>4 DEF KsDirs
    <3>7. NamesHeld(e, readBack)
      BY <2>7, <3>5 DEF NamesHeld
    <3> QED
      BY <3>1, <3>4, <3>6, <3>7, DirUpdate
  <2>10. OpFinds'
    <3>1. /\ ksOp'.at = "bsync" /\ ksOp'.target = ksOp.target /\ ksOp'.wallet = ksOp.wallet /\ ksOp'.over = ksOp.over /\ ksOp'.orig = ksOp.orig
          /\ ksOp'.journaled = ksOp.journaled /\ TheJournal' = TheJournal /\ ksDir' = e
      BY <2>2, OpMoves
    <3> QED
      BY <2>4, <2>7, <2>8, <3>1 DEF OpFinds, Found
  <2> QED
    BY <2>2, <2>9, <2>10, MoveStep DEF KsPlaces, KsPast
<1>2. CASE KsSync("bsync", "publish", TRUE)
  <2>1. ksOp.at = "bsync"
    BY <1>2 DEF KsSync
  <2>2. Found(0, ksOp.wallet, ksOp.orig, TheJournal, NoReplace) /\ ksOp.over
    BY <2>1, OpFacts DEF OpFinds
  <2>3. OpFinds'
    <3>1. /\ ksOp'.at = "publish" /\ ksOp'.target = ksOp.target /\ ksOp'.wallet = ksOp.wallet /\ ksOp'.over = ksOp.over /\ ksOp'.orig = ksOp.orig
          /\ ksOp'.journaled = TRUE /\ TheJournal' = TheJournal /\ ksDir' = ksDir
      BY <1>2, OpSyncs
    <3> QED
      BY <2>2, <3>1 DEF OpFinds, Found
  <2> QED
    BY <1>2, <2>3, SyncStep DEF KsPlaces, KsPast
<1> QED
    BY <1>1, <1>2 DEF SetAside

\* A wallet gets a name that was free: the directory it gives, whatever the temporary name then holds.
LEMMA Published ==
    ASSUME KsInv, ksOp.at = "publish", ksOp.over \/ ksDir.dest[ksOp.target] = 0, NEW t \in {0, ksOp.wallet}, NEW e,
           e = [ksDir EXCEPT !.dest[ksOp.target] = ksOp.wallet, !.tmp = t]
    PROVE  /\ ksDir.dest[ksOp.target] = 0 /\ ksDir.tmp = ksOp.wallet /\ (ksOp.journaled <=> ksOp.over)
           /\ e.dest[ksOp.target] = ksOp.wallet /\ e.tmp = t /\ e.pending = NoReplace /\ e.backup = (IF ksOp.journaled THEN ksOp.orig ELSE 0)
           /\ e.journal = (IF ksOp.journaled THEN TheJournal ELSE NoReplace) /\ e \in SafeDirs(Len(wallets), readBack)
           /\ (~ksOp.over => ksOp.orig = 0)
<1> DEFINE n == Len(wallets)
<1>3. /\ ksDir.dest[ksOp.target] = 0 /\ ksDir.tmp = ksOp.wallet /\ ksDir.pending = NoReplace /\ (ksOp.journaled <=> ksOp.over)
      /\ ksDir.backup = (IF ksOp.journaled THEN ksOp.orig ELSE 0) /\ ksDir.journal = (IF ksOp.journaled THEN TheJournal ELSE NoReplace)
      /\ (~ksOp.over => ksOp.orig = 0)
  <2>1. /\ (ksOp.journaled <=> ksOp.over)
        /\ (IF ksOp.over THEN Found(0, ksOp.wallet, ksOp.orig, TheJournal, NoReplace)
            ELSE Found(ksOp.orig, ksOp.wallet, 0, NoReplace, NoReplace))
    BY OpFacts DEF OpFinds
  <2> QED
    BY <2>1 DEF Found
<1>4. PICK a : a = [ksDir.dest EXCEPT ![ksOp.target] = ksOp.wallet]
    OBVIOUS
<1>5. ksDir = [dest |-> ksDir.dest, tmp |-> ksDir.tmp, backup |-> ksDir.backup, journal |-> ksDir.journal, pending |-> ksDir.pending,
               kept |-> ksDir.kept]
    BY OpFacts, KsFacts
<1>6. e = [dest |-> a, tmp |-> t, backup |-> ksDir.backup, journal |-> ksDir.journal, pending |-> ksDir.pending, kept |-> ksDir.kept]
    BY <1>4, <1>5
<1>7. ksOp.wallet \in KsNumber(n) /\ ksOp.wallet # 0 /\ t \in KsNumber(n)
    BY OpFacts, KsFacts, SafeShape
<1>8. /\ a \in [Files -> KsNumber(n)] /\ a[ksOp.target] = ksOp.wallet /\ ksOp.target \in Files
      /\ \A g \in Files \ {ksOp.target} : a[g] = ksDir.dest[g]
    BY <1>4, <1>7, OpFacts, KsFacts
<1>9. e \in SafeDirs(n, readBack)
  <2>1. \A s \in readBack : s[2] # 0 /\ s[1] \in Files
    BY OpFacts, KsFacts, SafeShape
  <2>2. \A s \in readBack : s[2] \in Everywhere(ksDir) => s[2] \in Everywhere(e)
    BY ONLY <1>3, <1>6, <1>8, <2>1 DEF Everywhere
  <2>3. \A s \in readBack : a[s[1]] # 0 \/ (ksDir.journal.target = s[1] /\ ksDir.journal.orig # 0)
    BY <1>7, <1>8, <2>1, OpFacts, KsFacts DEF NamesHeld
  <2>4. /\ KsStores(n, readBack) /\ ksDir \in SafeDirs(n, readBack) /\ ksDir.backup \in KsNumber(n) /\ ksDir.journal \in Replacements(n) \cup {NoReplace}
        /\ ksDir.pending \in Replacements(n) \cup {NoReplace, Torn} /\ ksDir.kept \in SUBSET KsNumber(n)
    BY OpFacts, KsFacts
  <2>5. e \in KsDirs(n)
    BY <1>6, <1>7, <1>8, <2>4 DEF KsDirs
  <2>6. NamesHeld(e, readBack)
    BY ONLY <1>6, <2>3 DEF NamesHeld
  <2> QED
    BY <2>2, <2>4, <2>5, <2>6, DirUpdate
<1> QED
    BY ONLY <1>3, <1>6, <1>8, <1>9

\* The temporary file is renamed to its name, or linked under it.
LEMMA KsPublishStep == ASSUME KsInv, PublishWallet PROVE KsInv'
<1>0. ksOp.at = "publish" /\ (ksOp.over \/ ksDir.dest[ksOp.target] = 0)
    BY DEF PublishWallet
<1>1. CASE KsMove("publish", "psync", [ksDir EXCEPT !.dest[ksOp.target] = ksOp.wallet, !.tmp = 0])
  <2>1. PICK e : e = [ksDir EXCEPT !.dest[ksOp.target] = ksOp.wallet, !.tmp = 0]
    OBVIOUS
  <2>2. KsMove("publish", "psync", e)
    BY <1>1, <2>1
  <2>3. PICK t \in {0, ksOp.wallet} : t = 0
    OBVIOUS
  <2>4. /\ e.dest[ksOp.target] = ksOp.wallet /\ e.tmp = 0 /\ e.pending = NoReplace /\ e.backup = (IF ksOp.journaled THEN ksOp.orig ELSE 0)
        /\ e.journal = (IF ksOp.journaled THEN TheJournal ELSE NoReplace) /\ e \in SafeDirs(Len(wallets), readBack)
    BY <1>0, <2>1, <2>3, Published
  <2>5. OpFinds'
    <3>1. /\ ksOp'.at = "psync" /\ ksOp'.target = ksOp.target /\ ksOp'.wallet = ksOp.wallet /\ ksOp'.over = ksOp.over /\ ksOp'.orig = ksOp.orig
          /\ ksOp'.journaled = ksOp.journaled /\ TheJournal' = TheJournal /\ ksDir' = e
      BY <2>2, OpMoves
    <3> QED
      BY <2>4, <3>1 DEF OpFinds, Found
  <2> QED
    BY <2>2, <2>4, <2>5, MoveStep DEF KsPlaces, KsPast
<1>2. CASE ~ksOp.over /\ KsMove("publish", "linked", [ksDir EXCEPT !.dest[ksOp.target] = ksOp.wallet])
  <2>1. PICK e : e = [ksDir EXCEPT !.dest[ksOp.target] = ksOp.wallet, !.tmp = ksOp.wallet]
    OBVIOUS
  <2>2. PICK t \in {0, ksOp.wallet} : t = ksOp.wallet
    OBVIOUS
  <2>3. /\ e.dest[ksOp.target] = ksOp.wallet /\ e.tmp = ksOp.wallet /\ e.pending = NoReplace /\ e.backup = (IF ksOp.journaled THEN ksOp.orig ELSE 0)
        /\ e.journal = (IF ksOp.journaled THEN TheJournal ELSE NoReplace) /\ e \in SafeDirs(Len(wallets), readBack)
        /\ (ksOp.journaled <=> ksOp.over) /\ ksOp.orig = 0 /\ ksDir.tmp = ksOp.wallet
    BY <1>0, <1>2, <2>1, <2>2, Published
  <2>4. e = [ksDir EXCEPT !.dest[ksOp.target] = ksOp.wallet]
    <3>1. ksDir = [dest |-> ksDir.dest, tmp |-> ksDir.tmp, backup |-> ksDir.backup, journal |-> ksDir.journal, pending |-> ksDir.pending,
                   kept |-> ksDir.kept]
      BY <1>0, OpFacts, KsFacts
    <3> QED
      BY <2>1, <2>3, <3>1
  <2>5. KsMove("publish", "linked", e)
    BY <1>2, <2>4
  <2>6. OpFinds'
    <3>1. /\ ksOp'.at = "linked" /\ ksOp'.target = ksOp.target /\ ksOp'.wallet = ksOp.wallet /\ ksOp'.over = ksOp.over /\ ksOp'.orig = ksOp.orig
          /\ ksOp'.journaled = ksOp.journaled /\ TheJournal' = TheJournal /\ ksDir' = e
      BY <2>5, OpMoves
    <3> QED
      BY <1>2, <2>3, <3>1 DEF OpFinds, Found
  <2> QED
    BY <2>3, <2>5, <2>6, MoveStep DEF KsPlaces, KsPast
<1> QED
    BY <1>1, <1>2 DEF PublishWallet

\* The temporary name of a write without a journal is unlinked: no wallet read back is under it.
LEMMA TmpRemoved ==
    ASSUME KsInv, ksOp.at # "idle", ~ksOp.journaled, ksDir.tmp # 0, NEW e, e = [ksDir EXCEPT !.tmp = 0]
    PROVE  /\ e \in SafeDirs(Len(wallets), readBack) /\ e.dest = ksDir.dest /\ e.tmp = 0 /\ e.backup = ksDir.backup
           /\ e.journal = ksDir.journal /\ e.pending = ksDir.pending
           /\ IF ksOp.at = "linked" THEN ksDir.dest[ksOp.target] = ksOp.wallet /\ ksOp.orig = 0 ELSE ksDir.dest[ksOp.target] = ksOp.orig
<1> DEFINE n == Len(wallets)
<1>0. KsShape /\ KsStores(n, readBack) /\ ksDir \in SafeDirs(n, readBack)
    BY KsFacts DEF KsInv
<1>1. ksDir.tmp = ksOp.wallet /\ ksOp.at \notin KsPast
    BY OpFacts DEF OpFinds, Found, KsPlaces, KsPast
<1>2. IF ksOp.at = "linked" THEN ksDir.dest[ksOp.target] = ksOp.wallet /\ ksOp.orig = 0 ELSE ksDir.dest[ksOp.target] = ksOp.orig
    BY OpFacts DEF OpFinds, Found, KsPlaces, KsPast
<1>3. e = [dest |-> ksDir.dest, tmp |-> 0, backup |-> ksDir.backup, journal |-> ksDir.journal, pending |-> ksDir.pending, kept |-> ksDir.kept]
    BY <1>0, KsFacts
<1>4. \A s \in readBack : s[2] \in Everywhere(ksDir) => s[2] \in Everywhere(e)
    BY <1>1, <1>3, OpFacts DEF Everywhere
<1>5. 0 \in KsNumber(n)
    BY <1>0, SafeShape
<1>6. /\ ksDir.dest \in [Files -> KsNumber(n)] /\ ksDir.backup \in KsNumber(n) /\ ksDir.journal \in Replacements(n) \cup {NoReplace}
      /\ ksDir.pending \in Replacements(n) \cup {NoReplace, Torn} /\ ksDir.kept \in SUBSET KsNumber(n)
    BY <1>0, KsFacts
<1>7. \A s \in readBack : ksDir.dest[s[1]] # 0 \/ (ksDir.journal.target = s[1] /\ ksDir.journal.orig # 0)
    BY <1>0, KsFacts DEF NamesHeld
<1>8. e \in KsDirs(n)
    BY <1>3, <1>5, <1>6 DEF KsDirs
<1>9. NamesHeld(e, readBack)
    BY <1>3, <1>7 DEF NamesHeld
<1>10. e \in SafeDirs(n, readBack)
    BY <1>0, <1>4, <1>8, <1>9, DirUpdate
<1> QED
    BY <1>2, <1>3, <1>10

\* The first of the two links of a published wallet is unlinked.
LEMMA UnlinkTemporaryStep == ASSUME KsInv, UnlinkTemporary PROVE KsInv'
<1>1. PICK e : e = [ksDir EXCEPT !.tmp = 0]
    OBVIOUS
<1>2. KsMove("linked", "psync", e)
    BY <1>1 DEF UnlinkTemporary
<1>3. ksOp.at = "linked"
    BY <1>2 DEF KsMove
<1>4. Found(ksOp.wallet, ksOp.wallet, 0, NoReplace, NoReplace) /\ ~ksOp.journaled /\ ksOp.wallet # 0
    BY <1>3, OpFacts DEF OpFinds
<1>5. /\ e \in SafeDirs(Len(wallets), readBack) /\ e.dest = ksDir.dest /\ e.tmp = 0 /\ e.backup = ksDir.backup
      /\ e.journal = ksDir.journal /\ e.pending = ksDir.pending
    BY <1>1, <1>3, <1>4, TmpRemoved DEF Found
<1>6. OpFinds'
  <2>1. /\ ksOp'.at = "psync" /\ ksOp'.target = ksOp.target /\ ksOp'.wallet = ksOp.wallet /\ ksOp'.over = ksOp.over /\ ksOp'.orig = ksOp.orig
        /\ ksOp'.journaled = ksOp.journaled /\ TheJournal' = TheJournal /\ ksDir' = e
    BY <1>2, OpMoves
  <2> QED
    BY <1>4, <1>5, <2>1 DEF OpFinds, Found
<1> QED
    BY <1>2, <1>5, <1>6, MoveStep DEF KsPlaces, KsPast

\* The publication is synced.
LEMMA SyncPublicationStep == ASSUME KsInv, SyncPublication PROVE KsInv'
<1>1. KsSync("psync", "validate", ksOp.journaled)
    BY DEF SyncPublication
<1>2. ksOp.at = "psync"
    BY <1>1 DEF KsSync
<1>3. /\ Found(ksOp.wallet, 0, IF ksOp.journaled THEN ksOp.orig ELSE 0, IF ksOp.journaled THEN TheJournal ELSE NoReplace, NoReplace)
      /\ ksOp.journaled \in BOOLEAN
    BY <1>2, OpFacts DEF OpFinds
<1>4. OpFinds'
  <2>1. /\ ksOp'.at = "validate" /\ ksOp'.target = ksOp.target /\ ksOp'.wallet = ksOp.wallet /\ ksOp'.over = ksOp.over /\ ksOp'.orig = ksOp.orig
        /\ ksOp'.journaled = ksOp.journaled /\ TheJournal' = TheJournal /\ ksDir' = ksDir /\ ksSaved' = {ksDir}
    BY <1>1, OpSyncs
  <2> QED
    BY <1>3, <2>1 DEF OpFinds, Found
<1> QED
    BY <1>1, <1>3, <1>4, SyncStep DEF KsPlaces, KsPast

\* The published wallet is read back: a power loss can no longer take it away.
LEMMA ReadBackStep == ASSUME KsInv, ReadBack PROVE KsInv'
<1> DEFINE n == Len(wallets)
           to == IF ksDir.backup # 0 THEN "retain" ELSE IF ksOp.journaled THEN "unlink" ELSE "done"
<1>1. /\ ksOp.at = "validate" /\ ksOp' = [ksOp EXCEPT !.at = to] /\ readBack' = readBack \cup {<<ksOp.target, ksOp.wallet>>}
      /\ ksDir' = ksDir /\ ksSaved' = ksSaved /\ wallets' = wallets /\ ksTold' = ksTold /\ ksFaults' = ksFaults
    BY DEF ReadBack
<1>2. /\ Found(ksOp.wallet, 0, IF ksOp.journaled THEN ksOp.orig ELSE 0, IF ksOp.journaled THEN TheJournal ELSE NoReplace, NoReplace)
      /\ ksSaved = {ksDir} /\ ksOp.journaled \in BOOLEAN
    BY <1>1, OpFacts DEF OpFinds
<1>3. /\ ksOp.target \in Files /\ ksOp.wallet = n /\ ksOp.wallet > 0 /\ ksOp.wallet # 0 /\ n \in Nat /\ ksTold = Untold
      /\ ksOp.orig \in KsNumber(n) /\ ksOp.orig # ksOp.wallet /\ ksOp.over \in BOOLEAN
    BY <1>1, OpFacts, KsFacts
<1>4. ksDir \in KsDirs(n) /\ KeysHere(ksDir, readBack) /\ NamesHeld(ksDir, readBack)
    BY <1>1, OpFacts, KsFacts DEF SafeDirs
<1>5. KsShape
    BY DEF KsInv
<1>6. ksOp' = [at |-> to, target |-> ksOp.target, wallet |-> ksOp.wallet, over |-> ksOp.over, orig |-> ksOp.orig, journaled |-> ksOp.journaled]
    BY <1>1, OpFacts
<1>7. to \in KsPast
    BY DEF KsPast
<1> HIDE DEF n
<1>8. KeysHere(ksDir, readBack') /\ NamesHeld(ksDir, readBack')
    BY <1>1, <1>2, <1>3, <1>4 DEF KeysHere, NamesHeld, Everywhere, Found
<1>9. readBack' \subseteq Files \X (1..n)
    BY <1>1, <1>3, <1>5 DEF KsShape, n
<1>10. KsShape'
  <2>1. ksDir \in SafeDirs(n, readBack')
    BY <1>4, <1>8 DEF SafeDirs
  <2> QED
    BY <1>1, <1>2, <1>5, <1>9, <2>1 DEF KsShape, n
<1>11. TheJournal' = TheJournal
    BY <1>6 DEF TheJournal
<1>12. OpFinds'
    BY <1>1, <1>2, <1>6, <1>11 DEF OpFinds, Found
<1> HIDE DEF to
<1>13. OpShape'
  <2>1. /\ ksOp'.at = to /\ ksOp'.target = ksOp.target /\ ksOp'.wallet = ksOp.wallet /\ ksOp'.over = ksOp.over /\ ksOp'.orig = ksOp.orig
        /\ ksOp'.journaled = ksOp.journaled
    BY <1>6
  <2>2. ksOp' = [at |-> ksOp'.at, target |-> ksOp'.target, wallet |-> ksOp'.wallet, over |-> ksOp'.over, orig |-> ksOp'.orig,
                 journaled |-> ksOp'.journaled]
    BY <1>6, <2>1
  <2>3. <<ksOp.target, ksOp.wallet>> \in readBack'
    BY <1>1
  <2> QED
    BY <1>1, <1>2, <1>3, <1>7, <2>1, <2>2, <2>3 DEF OpShape, KsPlaces, n
<1>14. ToldShape' /\ KeystoreHonest'
    BY <1>1, <1>3 DEF ToldShape, KeystoreHonest, Untold
<1> QED
    BY <1>10, <1>12, <1>13, <1>14 DEF KsInv

\* The file set aside is retained and the journal unlinked, a sync after each.
LEMMA CleanUpStep == ASSUME KsInv, CleanUp PROVE KsInv'
<1> DEFINE n == Len(wallets)
<1>1. CASE KsMove("retain", "rsync", KeepBackup(ksDir))
  <2>1. ksOp.at = "retain"
    BY <1>1 DEF KsMove
  <2>2. Found(ksOp.wallet, 0, ksOp.orig, TheJournal, NoReplace) /\ ksOp.journaled
    BY <2>1, OpFacts DEF OpFinds
  <2>3. /\ KeepBackup(ksDir) \in SafeDirs(n, readBack) /\ KeepBackup(ksDir).dest = ksDir.dest
        /\ KeepBackup(ksDir).tmp = ksDir.tmp /\ KeepBackup(ksDir).backup = 0 /\ KeepBackup(ksDir).journal = ksDir.journal
        /\ KeepBackup(ksDir).pending = ksDir.pending
    BY <2>1, OpFacts, KsFacts, KeepBackupSafe
  <2>4. OpFinds'
    <3>1. /\ ksOp'.at = "rsync" /\ ksOp'.target = ksOp.target /\ ksOp'.wallet = ksOp.wallet /\ ksOp'.over = ksOp.over /\ ksOp'.orig = ksOp.orig
          /\ ksOp'.journaled = ksOp.journaled /\ TheJournal' = TheJournal /\ ksDir' = KeepBackup(ksDir)
      BY <1>1, OpMoves
    <3> QED
      BY <2>2, <2>3, <3>1 DEF OpFinds, Found
  <2> QED
    BY <1>1, <2>3, <2>4, MoveStep DEF KsPlaces, KsPast
<1>2. CASE KsSync("rsync", "unlink", TRUE)
  <2>1. ksOp.at = "rsync"
    BY <1>2 DEF KsSync
  <2>2. Found(ksOp.wallet, 0, 0, TheJournal, NoReplace)
    BY <2>1, OpFacts DEF OpFinds
  <2>3. OpFinds'
    <3>1. /\ ksOp'.at = "unlink" /\ ksOp'.target = ksOp.target /\ ksOp'.wallet = ksOp.wallet /\ ksOp'.over = ksOp.over /\ ksOp'.orig = ksOp.orig
          /\ ksOp'.journaled = TRUE /\ TheJournal' = TheJournal /\ ksDir' = ksDir
      BY <1>2, OpSyncs
    <3> QED
      BY <2>2, <3>1 DEF OpFinds, Found
  <2> QED
    BY <1>2, <2>3, SyncStep DEF KsPlaces, KsPast
<1>3. CASE KsMove("unlink", "usync", Unjournaled(ksDir))
  <2>1. ksOp.at = "unlink"
    BY <1>3 DEF KsMove
  <2>2. Found(ksOp.wallet, 0, 0, TheJournal, NoReplace) /\ ksOp.journaled
    BY <2>1, OpFacts DEF OpFinds
  <2>3. \A a \in readBack : ksDir.dest[a[1]] # 0
    BY <2>1, <2>2, OpFacts, KsFacts DEF NamesHeld, Found
  <2>4. /\ Unjournaled(ksDir) \in SafeDirs(n, readBack) /\ Unjournaled(ksDir).journal = NoReplace /\ Unjournaled(ksDir).pending = NoReplace
        /\ Unjournaled(ksDir).dest = ksDir.dest /\ Unjournaled(ksDir).tmp = ksDir.tmp /\ Unjournaled(ksDir).backup = ksDir.backup
    BY <2>1, <2>3, OpFacts, KsFacts, UnjournaledSafe
  <2>5. OpFinds'
    <3>1. /\ ksOp'.at = "usync" /\ ksOp'.target = ksOp.target /\ ksOp'.wallet = ksOp.wallet /\ ksOp'.over = ksOp.over /\ ksOp'.orig = ksOp.orig
          /\ ksOp'.journaled = ksOp.journaled /\ TheJournal' = TheJournal /\ ksDir' = Unjournaled(ksDir)
      BY <1>3, OpMoves
    <3> QED
      BY <2>2, <2>4, <3>1 DEF OpFinds, Found
  <2> QED
    BY <1>3, <2>4, <2>5, MoveStep DEF KsPlaces, KsPast
<1>4. CASE KsSync("usync", "done", FALSE)
  <2>1. ksOp.at = "usync"
    BY <1>4 DEF KsSync
  <2>2. Found(ksOp.wallet, 0, 0, NoReplace, NoReplace)
    BY <2>1, OpFacts DEF OpFinds
  <2>3. OpFinds'
    <3>0. PICK b \in BOOLEAN : ~b /\ KsSync("usync", "done", b)
      BY <1>4
    <3>1. /\ ksOp'.at = "done" /\ ksOp'.target = ksOp.target /\ ksOp'.wallet = ksOp.wallet /\ ksOp'.over = ksOp.over /\ ksOp'.orig = ksOp.orig
          /\ ksOp'.journaled = b /\ TheJournal' = TheJournal /\ ksDir' = ksDir /\ ksSaved' = {ksDir}
      BY <3>0, OpSyncs
    <3> QED
      BY <2>2, <3>0, <3>1 DEF OpFinds, Found
  <2> QED
    BY <1>4, <2>3, SyncStep DEF KsPlaces, KsPast
<1> QED
    BY <1>1, <1>2, <1>3, <1>4 DEF CleanUp

\* Success is reported of a directory that a power loss cannot change.
LEMMA StoredStep == ASSUME KsInv, Stored PROVE KsInv'
<1>1. /\ ksOp.at = "done" /\ ksOp' = IdleOp /\ readBack' = readBack
      /\ ksTold' = [what |-> "ok", at |-> "done", target |-> ksOp.target, wallet |-> ksOp.wallet, before |-> ksOp.orig]
      /\ ksDir' = ksDir /\ ksSaved' = ksSaved /\ wallets' = wallets /\ ksFaults' = ksFaults
    BY DEF Stored
<1>2. ksSaved = {ksDir} /\ ksDir.dest[ksOp.target] = ksOp.wallet
    BY <1>1, OpFacts DEF OpFinds, Found
<1>3. <<ksOp.target, ksOp.wallet>> \in readBack
    BY <1>1, OpFacts DEF KsPast
<1>4. KsShape'
    BY <1>1 DEF KsShape, KsInv
<1>5. OpShape' /\ OpFinds' /\ ToldShape'
    BY <1>1 DEF OpShape, OpFinds, IdleOp, ToldShape
<1>6. KeystoreHonest'
    BY <1>1, <1>2, <1>3 DEF KeystoreHonest
<1> QED
    BY <1>4, <1>5, <1>6 DEF KsInv

-----------------------------------------------------------------------------
\* An operation answers an error.
LEMMA AnsweredStep ==
    ASSUME KsInv, NEW what \in {"failed", "rollback_failed"}, NEW d, NEW s, Answered(what, d, s), ksFaults' \in 0..MaxKsFaults,
           s \subseteq SafeDirs(Len(wallets), readBack), d \in s,
           what = "failed" => IF ksOp.at = "linked" THEN ksOp.orig = 0 /\ \A e \in s : e.dest[ksOp.target] = ksOp.wallet
                              ELSE d.dest[ksOp.target] = ksOp.orig /\ \A e \in s : e.dest[ksOp.target] # ksOp.wallet
    PROVE  KsInv'
<1>1. /\ ksDir' = d /\ ksSaved' = s /\ ksOp' = IdleOp /\ wallets' = wallets /\ readBack' = readBack
      /\ ksTold' = [what |-> what, at |-> ksOp.at, target |-> ksOp.target, wallet |-> ksOp.wallet, before |-> ksOp.orig]
    BY DEF Answered
<1>2. KsShape'
    BY <1>1 DEF KsShape, KsInv
<1>3. OpShape' /\ OpFinds' /\ ToldShape'
    BY <1>1 DEF OpShape, OpFinds, IdleOp, ToldShape
<1>4. KeystoreHonest'
    BY <1>1 DEF KeystoreHonest
<1> QED
    BY <1>2, <1>3, <1>4 DEF KsInv

\* While a replacement is journaled, its journal explains the name it emptied.
LEMMA JournalExplains ==
    ASSUME KsInv, ksOp.journaled
    PROVE  ksOp.at # "idle" /\ Explains(TheJournal, ksDir, readBack)
<1>1. ksOp.at # "idle"
    BY DEF KsInv, OpShape, IdleOp, KsPlaces, KsPast
<1>2. ksDir.journal \in {TheJournal, NoReplace}
    BY <1>1, OpFacts DEF OpFinds, Found, KsPlaces, KsPast
<1> QED
    BY <1>1, <1>2, OpFacts, KsFacts DEF Explains, NamesHeld, NoReplace

\* A failed write is rolled back by its journal, or its temporary file unlinked.
LEMMA UndoStep ==
    ASSUME KsInv, Undo, ksOp.at \notin {"idle", "temp", "done"}, ksFaults' \in 0..MaxKsFaults
    PROVE  KsInv'
<1> DEFINE n == Len(wallets)
<1>0. KsShape /\ KsStores(n, readBack) /\ ksDir \in SafeDirs(n, readBack) /\ ksSaved \subseteq SafeDirs(n, readBack) /\ ksDir \in ksSaved
    BY KsFacts DEF KsInv, KsShape
<1>1. CASE Answered("rollback_failed", ksDir, ksSaved)
    BY <1>0, <1>1, AnsweredStep
<1>2. CASE ksOp.journaled /\ ~Answered("rollback_failed", ksDir, ksSaved)
  <2>1. PICK r : r = Rollback(ksDir, TheJournal)
    OBVIOUS
  <2>2. r # <<>> /\ Answered("failed", Last(r), {Last(r)})
    BY <1>2, <2>1 DEF Undo
  <2>3. Explains(TheJournal, ksDir, readBack)
    BY <1>2, JournalExplains
  <2>4. Finished(r, ksDir, SafeDirs(n, readBack)) /\ Last(r).dest[TheJournal.target] = TheJournal.orig
    BY <1>0, <2>1, <2>2, <2>3, RollbackSafe
  <2>5. Last(r) \in SafeDirs(n, readBack) /\ Last(r).dest[ksOp.target] = ksOp.orig /\ ksOp.orig # ksOp.wallet
    BY <2>4, OpFacts DEF Finished
  <2>6. ksOp.at # "linked"
    BY <1>2, OpFacts DEF OpFinds
  <2> QED
    BY <2>2, <2>5, <2>6, AnsweredStep
<1>3. CASE ~ksOp.journaled /\ ksDir.tmp # 0
  <2>1. PICK e : e = [ksDir EXCEPT !.tmp = 0]
    OBVIOUS
  <2>2. Answered("failed", e, {e})
    BY <1>3, <2>1 DEF Undo
  <2>3. /\ e \in SafeDirs(n, readBack) /\ e.dest = ksDir.dest
        /\ IF ksOp.at = "linked" THEN ksDir.dest[ksOp.target] = ksOp.wallet /\ ksOp.orig = 0 ELSE ksDir.dest[ksOp.target] = ksOp.orig
    BY <1>3, <2>1, TmpRemoved
  <2>4. ksOp.orig # ksOp.wallet
    BY OpFacts
  <2> QED
    BY <2>2, <2>3, <2>4, AnsweredStep
<1>4. CASE ~ksOp.journaled /\ ksDir.tmp = 0
    BY <1>1, <1>4 DEF Undo
<1> QED
    BY <1>1, <1>2, <1>3, <1>4

\* Faults are counted to their bound.
LEMMA KsFaultCounts ==
    ASSUME KsInv
    PROVE  (KsFault => ksFaults' \in 0..MaxKsFaults) /\ (UNCHANGED ksFaults => ksFaults' \in 0..MaxKsFaults)
    BY KeystoreAssumption DEF KsInv, KsShape, KsFault

\* The directory, or the disk, refuses a step.
LEMMA FailureStep == ASSUME KsInv, Refused \/ IoFails PROVE KsInv'
    BY UndoStep, KsFaultCounts DEF Refused, IoFails

\* Where a recovery or a rollback stops, the two directories about its last move are safe.
LEMMA StopsSafe ==
    ASSUME NEW S, NEW r \in Seq(S), NEW i \in 1..Len(r), r[1] = ksDir, ksDir \in ksSaved, ksSaved \subseteq S
    PROVE  r[i] \in StopsAt(r, i) /\ StopsAt(r, i) \subseteq S
<1>1. CASE i = 1
    BY <1>1 DEF StopsAt
<1>2. CASE i # 1
  <2>1. i - 1 \in 1..Len(r)
    BY <1>2
  <2> QED
    BY <1>2, <2>1 DEF StopsAt
<1> QED
    BY <1>1, <1>2

\* A rollback stops half way.
LEMMA RollbackStopsStep == ASSUME KsInv, RollbackStops PROVE KsInv'
<1> DEFINE S == SafeDirs(Len(wallets), readBack)
<1>1. PICK r : r = Rollback(ksDir, TheJournal)
    OBVIOUS
<1>2. PICK i \in 1..Len(r) : Answered("rollback_failed", r[i], StopsAt(r, i))
    BY <1>1 DEF RollbackStops
<1>3. ksOp.journaled /\ ksFaults' \in 0..MaxKsFaults
    BY KsFaultCounts DEF RollbackStops
<1>4. KsStores(Len(wallets), readBack) /\ ksDir \in S /\ ksSaved \subseteq S /\ ksDir \in ksSaved
    BY KsFacts DEF KsInv, KsShape
<1>5. r # <<>>
    BY <1>2
<1>6. Finished(r, ksDir, S)
    BY <1>1, <1>3, <1>4, <1>5, JournalExplains, RollbackSafe
<1>7. r[i] \in StopsAt(r, i) /\ StopsAt(r, i) \subseteq S
    BY <1>4, <1>6, StopsSafe DEF Finished
<1> QED
    BY <1>2, <1>3, <1>7, AnsweredStep

\* The removal of the temporary file stops half way.
LEMMA RemovalStopsStep == ASSUME KsInv, RemovalStops PROVE KsInv'
<1>1. PICK e : e = [ksDir EXCEPT !.tmp = 0]
    OBVIOUS
<1>2. PICK d \in {ksDir, e} : Answered("rollback_failed", d, ksSaved \cup {d})
    BY <1>1 DEF RemovalStops
<1>3. ksOp.at # "idle" /\ ~ksOp.journaled /\ ksDir.tmp # 0 /\ ksFaults' \in 0..MaxKsFaults
    BY KsFaultCounts DEF RemovalStops
<1>4. e \in SafeDirs(Len(wallets), readBack)
    BY <1>1, <1>3, TmpRemoved
<1>5. ksSaved \subseteq SafeDirs(Len(wallets), readBack) /\ ksDir \in ksSaved
    BY DEF KsInv, KsShape
<1> QED
    BY <1>2, <1>3, <1>4, <1>5, AnsweredStep

\* A step that leaves no write under way and nothing told.
LEMMA QuietStep ==
    ASSUME KsInv, ksOp' = IdleOp, ksTold' = Untold, UNCHANGED <<wallets, readBack>>, ksFaults' \in 0..MaxKsFaults,
           ksDir' \in ksSaved', ksSaved' \subseteq SafeDirs(Len(wallets), readBack)
    PROVE  KsInv'
<1>1. KsShape'
    BY DEF KsShape, KsInv
<1>2. OpShape' /\ OpFinds' /\ ToldShape' /\ KeystoreHonest'
    BY DEF OpShape, OpFinds, IdleOp, ToldShape, KeystoreHonest, Untold
<1> QED
    BY <1>1, <1>2 DEF KsInv

\* A recovery stops half way.
LEMMA RecoveryStopsStep == ASSUME KsInv, RecoveryStops PROVE KsInv'
<1> DEFINE S == SafeDirs(Len(wallets), readBack)
<1>1. PICK r : r = Recovery(ksDir)
    OBVIOUS
<1>2. PICK i \in 2..Len(r) : ksDir' = r[i] /\ ksSaved' = StopsAt(r, i)
    BY <1>1 DEF RecoveryStops
<1>3. ksOp' = IdleOp /\ ksTold' = Untold /\ UNCHANGED <<wallets, readBack>> /\ ksFaults' \in 0..MaxKsFaults
    BY KsFaultCounts DEF RecoveryStops
<1>4. KsStores(Len(wallets), readBack) /\ ksDir \in S /\ ksSaved \subseteq S /\ ksDir \in ksSaved
    BY KsFacts DEF KsInv, KsShape
<1>5. r # <<>>
    BY <1>2
<1>6. Finished(r, ksDir, S)
    BY <1>1, <1>4, <1>5, RecoverySafe
<1>7. i \in 1..Len(r)
    BY <1>2, <1>6 DEF Finished
<1>8. r[i] \in StopsAt(r, i) /\ StopsAt(r, i) \subseteq S
    BY <1>4, <1>6, <1>7, StopsSafe DEF Finished
<1> QED
    BY <1>2, <1>3, <1>8, QuietStep

\* The process dies, with or without the machine.
LEMMA KsCrashStep == ASSUME KsInv, KsCrash PROVE KsInv'
<1>1. ksSaved \subseteq SafeDirs(Len(wallets), readBack) /\ ksDir \in ksSaved
    BY DEF KsInv, KsShape
<1>2. ksDir' \in ksSaved' /\ ksSaved' \subseteq SafeDirs(Len(wallets), readBack)
    BY <1>1 DEF KsCrash
<1> QED
    BY <1>2, KsFaultCounts, QuietStep DEF KsCrash

\* A wallet's mode is loosened.
LEMMA ChmodStep == ASSUME KsInv, Chmod PROVE KsInv'
<1>1. UNCHANGED <<ksDir, ksSaved, ksOp, wallets, ksTold, readBack>> /\ ksFaults' \in 0..MaxKsFaults
    BY KsFaultCounts DEF Chmod
<1>2. KsShape' /\ OpShape'
    BY <1>1 DEF KsInv, KsShape, OpShape
<1>3. OpFinds'
    BY <1>1 DEF KsInv, OpFinds, Found, TheJournal
<1>4. ToldShape' /\ KeystoreHonest'
    BY <1>1 DEF KsInv, ToldShape, KeystoreHonest
<1> QED
    BY <1>2, <1>3, <1>4 DEF KsInv

\* Nothing happens.
LEMMA KsStutter == ASSUME KsInv, UNCHANGED ksVars PROVE KsInv'
<1>1. UNCHANGED <<ksDir, ksSaved, ksOp, wallets, ksTold, readBack, ksFaults>>
    BY DEF ksVars
<1>2. KsShape' /\ OpShape'
    BY <1>1 DEF KsInv, KsShape, OpShape
<1>3. OpFinds'
    BY <1>1 DEF KsInv, OpFinds, Found, TheJournal
<1>4. ToldShape' /\ KeystoreHonest'
    BY <1>1 DEF KsInv, ToldShape, KeystoreHonest
<1> QED
    BY <1>2, <1>3, <1>4 DEF KsInv

(* The inductive invariant of the keystore directory, whatever is written, fails,  *)
(* is rolled back, crashes or is recovered (keystore_store.rs).                     *)
THEOREM KeystoreInvariant == KsSpec => []KsInv
<1>1. KsInv /\ [KsNext]_ksVars => KsInv'
    BY DispatchSteps, WriteTemporaryStep, JournalStep, SetAsideStep, KsPublishStep, UnlinkTemporaryStep, SyncPublicationStep, ReadBackStep,
       CleanUpStep, StoredStep, FailureStep, RollbackStopsStep, RemovalStopsStep, RecoveryStopsStep, KsCrashStep, ChmodStep, KsStutter DEF KsNext
<1> QED
    BY KsStart, <1>1, PTL DEF KsSpec

(* The directory a power loss may leave holds wallet files that were written, and   *)
(* the operation under way writes the newest one (keystore_store.rs).               *)
THEOREM KeystoreTypes == KsSpec => []KsTypeOK
<1>1. ASSUME KsInv PROVE KsTypeOK
  <2>1. KsShape /\ OpShape /\ ToldShape
    BY <1>1 DEF KsInv
  <2>2. ksOp.wallet \in 0..Len(wallets)
    <3>1. Len(wallets) \in Nat
      BY <2>1, KsFacts
    <3>2. CASE ksOp = IdleOp
      BY <3>1, <3>2 DEF IdleOp
    <3>3. CASE ksOp # IdleOp
      BY <2>1, <3>1, <3>3 DEF OpShape
    <3> QED
      BY <3>2, <3>3
  <2>3. ASSUME NEW d \in ksSaved
        PROVE  {d.dest[f] : f \in Files} \cup {d.tmp, d.backup} \cup d.kept \subseteq Foreign..Len(wallets)
    <3>1. d \in KsDirs(Len(wallets))
      BY <2>1 DEF KsShape, SafeDirs
    <3> QED
      BY <3>1 DEF KsDirs, KsNumber
  <2> QED
    BY <2>1, <2>2, <2>3 DEF KsTypeOK, KsShape, ToldShape
<1> QED
    BY <1>1, KeystoreInvariant, PTL

(* No wallet that was read back after its publication is lost, no name that held    *)
(* one is left empty once recovery has run, and no answer turns false after a power *)
(* loss; the one plain error that leaves the new wallet under its name is the       *)
(* unlinkat that follows linkat (atomic_write_wallet_in_parent,                     *)
(* rollback_replacement, recover_replacement).                                      *)
THEOREM WalletsAreSafe == KsSpec => []WalletsSafe
<1>1. ASSUME KsInv PROVE WalletsSafe
  <2>1. ASSUME NEW d \in ksSaved PROVE KeysHere(d, readBack) /\ NamesHeld(d, readBack)
    BY <1>1 DEF KsInv, KsShape, SafeDirs
  <2>2. WalletSurvives
    BY <2>1 DEF WalletSurvives, KeysHere, NamesHeld, NoReplace
  <2> QED
    BY <1>1, <2>2 DEF WalletsSafe, KsInv
<1> QED
    BY <1>1, KeystoreInvariant, PTL

-----------------------------------------------------------------------------
(* The backup election. *)

BackupSpec == BackupInit /\ [][BackupNext]_backupVars
Roles == {"INIT", "SLAVER", "MASTER"}

(* Whatever is lost, replayed, closed, restarted or resolved wrongly, only members that  *)
(* run have beaten in an interval, every datagram is between members, and a silence is   *)
(* never counted past the timeout that ends it (backup.rs).                              *)
THEOREM BackupTypes == BackupSpec => []BackupTypeOK
<1>1. BackupInit => BackupTypeOK
  BY BackupAssumption DEF BackupInit, BackupTypeOK
<1>2. BackupTypeOK /\ [BackupNext]_backupVars => BackupTypeOK'
  <2> SUFFICES ASSUME BackupTypeOK, [BackupNext]_backupVars PROVE BackupTypeOK'
    OBVIOUS
  <2>0. /\ running \subseteq Members /\ beaten \subseteq running
        /\ role \in [Members -> Roles]
        /\ silence \in [Members -> 0..TimeoutUnits + 1] /\ TimeoutUnits \in Nat \ {0} /\ MaxFaults \in Nat
        /\ flight \subseteq Datagram /\ replayed \subseteq Datagram
        /\ allowed \in [Members -> SUBSET Members] /\ faults \in 0..MaxFaults
        /\ priority \in Priorities /\ open \in [Members -> SUBSET Members]
    BY BackupAssumption DEF BackupTypeOK, Roles
  <2>1. ASSUME NEW m \in Members, Beat(m) PROVE BackupTypeOK'
    <3>1. Tick(m).role \in Roles /\ Tick(m).silence \in 0..TimeoutUnits + 1
      BY <2>0 DEF Tick, Roles
    <3>2. Outbound(m, Tick(m).role) \subseteq Datagram
      <4>1. \A n \in allowed[m], b \in BOOLEAN : [from |-> m, to |-> n, flag |-> b] \in Datagram
        BY <2>0 DEF Datagram
      <4>2. (Tick(m).role = "MASTER") \in BOOLEAN
        OBVIOUS
      <4> QED
        BY <4>1, <4>2 DEF Outbound
    <3>3. /\ role' \in [Members -> Roles] /\ silence' \in [Members -> 0..TimeoutUnits + 1]
          /\ flight' \subseteq Datagram /\ beaten' \subseteq running'
      BY <2>0, <2>1, <3>1, <3>2 DEF Beat
    <3> QED
      BY <2>0, <2>1, <3>3 DEF Beat, BackupTypeOK, Roles
  <2>2. ASSUME NEW m \in Members, Refresh(m) \/ Close(m) \/ Start(m) \/ Reboot(m) PROVE BackupTypeOK'
    <3>1. CASE Refresh(m)
      BY <2>0, <3>1 DEF Refresh, BackupTypeOK, Roles
    <3>2. CASE Close(m)
      BY <2>0, <3>2 DEF Close, BackupFault, BackupTypeOK, Roles
    <3>3. CASE Start(m)
      BY <2>0, <3>3 DEF Start, BackupTypeOK, Roles
    <3>4. CASE Reboot(m)
      <4>1. /\ role' \in [Members -> Roles] /\ silence' \in [Members -> 0..TimeoutUnits + 1]
            /\ allowed' \in [Members -> SUBSET Members] /\ open' \in [Members -> SUBSET Members]
        BY <2>0, <3>4 DEF Reboot, Roles
      <4> QED
        BY <2>0, <3>4, <4>1 DEF Reboot, BackupTypeOK, Roles
    <3> QED
      BY <2>2, <3>1, <3>2, <3>3, <3>4
  <2>3. ASSUME NEW m \in Members, NEW n \in Members, WrongAnswer(m, n) PROVE BackupTypeOK'
    BY <2>0, <2>3 DEF WrongAnswer, BackupFault, BackupTypeOK, Roles
  <2>4. ASSUME NEW d \in Datagram, NEW fresh, Receive(d, fresh) PROVE BackupTypeOK'
    <3>1. role' \in [Members -> Roles] /\ silence' \in [Members -> 0..TimeoutUnits + 1]
      <4>1. CASE OnKeepAlive(d.to, d)
        <5>1. PICK v : role' = [role EXCEPT ![d.to] = v] /\ v \in {"SLAVER", role[d.to]}
          BY <4>1 DEF OnKeepAlive
        <5>2. d.to \in Members
          BY DEF Datagram
        <5>3. v \in Roles
          BY <2>0, <5>1, <5>2 DEF Roles
        <5>4. role' \in [Members -> Roles]
          BY <2>0, <5>1, <5>3
        <5> QED
          BY <2>0, <4>1, <5>4 DEF OnKeepAlive
      <4>2. CASE UNCHANGED <<role, silence>>
        BY <2>0, <4>2
      <4> QED
        BY <2>4, <4>1, <4>2 DEF Receive
    <3>2. flight' \subseteq Datagram /\ replayed' \subseteq Datagram
      BY <2>0, <2>4 DEF Receive
    <3>3. open' \in [Members -> SUBSET Members]
      <4>1. CASE fresh
        <5>1. open' = [open EXCEPT ![d.to] = @ \ {d.from}]
          BY <2>4, <4>1 DEF Receive
        <5> QED
          BY <2>0, <5>1
      <4>2. CASE ~fresh
        BY <2>0, <2>4, <4>2 DEF Receive
      <4> QED
        BY <4>1, <4>2
    <3>4. faults' \in 0..MaxFaults
      BY <2>0, <2>4 DEF Receive, BackupFault
    <3>5. UNCHANGED <<priority, running, beaten, allowed>>
      BY <2>4 DEF Receive
    <3> QED
      BY <2>0, <3>1, <3>2, <3>3, <3>4, <3>5 DEF BackupTypeOK, Roles
  <2>5. ASSUME NEW d, Lose(d) PROVE BackupTypeOK'
    BY <2>0, <2>5 DEF Lose, BackupFault, BackupTypeOK, Roles
  <2>6. ASSUME Interval PROVE BackupTypeOK'
    <3>1. silence' \in [Members -> 0..TimeoutUnits + 1]
      BY <2>0, <2>6 DEF Interval
    <3> QED
      BY <2>0, <2>6, <3>1 DEF Interval, BackupTypeOK, Roles
  <2>7. ASSUME UNCHANGED backupVars PROVE BackupTypeOK'
    BY <2>0, <2>7 DEF backupVars, BackupTypeOK, Roles
  <2> QED
    BY <2>0, <2>1, <2>2, <2>3, <2>4, <2>5, <2>6, <2>7 DEF BackupNext
<1> QED
  BY <1>1, <1>2, PTL DEF BackupSpec
=============================================================================
