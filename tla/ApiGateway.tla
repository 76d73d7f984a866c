----------------------------- MODULE ApiGateway -----------------------------
(***************************************************************************)
(* The API servers (tron-apis) from the connection to the answer, for the  *)
(* calls RpcCatalog describes.  gRPC passes the rate limiter, then the     *)
(* interceptors, then the capture of the raw broadcast (interceptors.rs);  *)
(* HTTP passes its filters, then the limiter, then the body and the parser *)
(* (http_router.rs); JSON-RPC has its own permit (jsonrpc_server.rs).      *)
(* Handlers read on the server's task or hand their work to a bounded pool *)
(* of blocking workers (blocking.rs).  A caller may be told that its time  *)
(* is over, or hang up, at every point; a worker that has started goes on. *)
(* Deadlines are not clocked: a wait may end at any moment.                *)
(***************************************************************************)
EXTENDS RpcCatalog, Integers, SequencesExt

CONSTANTS
    Calls,          \* one client call each
    Requests,       \* records [via, api, method, client, height, ok]
    Workers,        \* BlockingExecutor permits, per pool
    Slots,          \* permits of a Preemptible endpoint and of the JSON-RPC handler
    MaxConnections, \* ConnectionCap, per HTTP server
    Preemptible,    \* methods limited by concurrency
    IpLimited,      \* methods limited per client
    MaxBuckets,     \* RateMapLimits::max_entries
    Disabled,       \* methods switched off by configuration
    MaxHeight       \* bound on the published heights

ASSUME GatewayBounds ==
    /\ {Workers, Slots, MaxConnections, MaxBuckets, MaxHeight} \subseteq Nat \ {0}
    /\ IsFiniteSet(Calls) /\ Requests # {} /\ "none" \notin Preemptible
    /\ \A r \in Requests : r.via \in {"grpc", "http", "json"} /\ r.height \in 0..MaxHeight

VARIABLES
    apiNode,        \* "full" or "solidity": the services, and whether execution is present
    apiMode,        \* AcquireMode
    apiLite,        \* lite node whose history is closed
    call, job, spent, buckets, slots, conns, workers, views, accepted

gatewayVars ==
    <<apiNode, apiMode, apiLite, call, job, spent, buckets, slots, conns, workers, views, accepted>>
fixed == <<apiNode, apiMode, apiLite>>
limiter == <<spent, buckets>>

Cursors == {"Head", "Solidity", "Pbft"}
Pool(r) == IF r.via = "json" THEN "json" ELSE "rpc"

\* The services of the node's servers.
ServerPlan == IF apiNode = "full" THEN "Full" ELSE "StandaloneSolidity"
Surface == IF apiNode = "full" THEN "Full" ELSE "Solidity"
Served(r) ==
    CASE r.via = "json" -> apiNode = "full"
      [] r.via = "http" -> r.method \in DOMAIN HttpRoutes(Surface)
      [] OTHER -> /\ r.api \in DOMAIN GrpcServices(ServerPlan)
                  /\ r.method \in DOMAIN GrpcServices(ServerPlan)[r.api]
Handler(r) ==
    CASE r.via = "json" -> Blocking("eth_getBlockByNumber")
      [] r.via = "http" -> HttpRoutes(Surface)[r.method]
      [] OTHER -> GrpcServices(ServerPlan)[r.api][r.method]
Steps(r) == IF r.via = "json" THEN <<"latest", "get">> ELSE Plans[Handler(r).op]
ReadCursorSplit(c) == IF Len(call[c].left) = 1 THEN "Solidity" ELSE "Head"
ReadCursor(c) ==
    LET r == call[c].req IN
    IF r.via = "json" THEN "Head"
    ELSE CursorOf(r.api, Handler(r), IF r.via = "grpc" THEN "none"
                                     ELSE IF apiNode = "full" THEN "Head" ELSE "Solidity")

IdleCall == [pc |-> "idle", req |-> CHOOSE r \in Requests : TRUE, wait |-> FALSE, slot |-> "none",
         conn |-> FALSE, left |-> <<>>, key |-> 0, seen |-> 0, told |-> "none"]

\* CursorSet::reconstruct: both other cursors are at or below the head.
GatewayInit ==
    /\ apiNode \in {"full", "solidity"}
    /\ apiMode \in {"Blocking", "NonBlocking"}
    /\ apiLite \in BOOLEAN
    /\ call = [c \in Calls |-> IdleCall]
    /\ job = [c \in Calls |-> "none"]
    /\ spent = {} /\ buckets = <<>>
    /\ slots = [s \in Preemptible \cup {"json"} |-> Slots]
    /\ conns = [v \in {"http", "json"} |-> MaxConnections]
    /\ workers = [p \in {"rpc", "json"} |-> Workers]
    /\ views \in {v \in [Cursors -> 0..1] : \A u \in Cursors : v[u] <= v["Head"]}
    /\ accepted = {}

-----------------------------------------------------------------------------
\* The answer drops the request's future: the endpoint permit returns.
Answer(c, told) ==
    /\ call' = [call EXCEPT ![c].pc = "done", ![c].told = told, ![c].wait = FALSE,
                            ![c].slot = "none"]
    /\ slots' = IF call[c].slot = "none" THEN slots ELSE [slots EXCEPT ![call[c].slot] = @ + 1]

GoOn(c, pc) == call' = [call EXCEPT ![c].pc = pc, ![c].wait = FALSE] /\ UNCHANGED slots

\* serve_listener: over the cap the stream is dropped.
Arrive(c, r) ==
    /\ call[c].pc = "idle" /\ Served(r)
    /\ IF r.via = "grpc"
       THEN call' = [call EXCEPT ![c].req = r, ![c].key = r.height, ![c].pc = "endpoint"]
            /\ UNCHANGED conns
       ELSE IF conns[r.via] = 0
       THEN call' = [call EXCEPT ![c].req = r, ![c].pc = "done", ![c].told = "dropped"]
            /\ UNCHANGED conns
       ELSE /\ conns' = [conns EXCEPT ![r.via] = @ - 1]
            /\ call' = [call EXCEPT ![c].req = r, ![c].key = r.height, ![c].conn = TRUE,
                                    ![c].pc = IF r.via = "json" THEN "json" ELSE "filter"]
    /\ UNCHANGED <<fixed, job, limiter, slots, workers, views, accepted>>

\* execute: the switched-off and history paths and an oversized body are
\* answered before a token is spent.
HttpFilter(c) ==
    /\ call[c].pc = "filter"
    /\ LET r == call[c].req IN
       IF r.method \in Disabled \/ (apiLite /\ r.method \in LiteHttp) THEN Answer(c, "closed")
       ELSE \/ r.ok = FALSE /\ Answer(c, "malformed")
            \/ GoOn(c, "endpoint")
    /\ UNCHANGED <<fixed, job, limiter, conns, workers, views, accepted>>

\* handle: the JSON-RPC permit is taken without waiting.
JsonAdmit(c) ==
    /\ call[c].pc = "json"
    /\ IF slots["json"] = 0 THEN Answer(c, "overload")
       ELSE IF ~call[c].req.ok THEN Answer(c, "malformed")
       ELSE /\ slots' = [slots EXCEPT !["json"] = @ - 1]
            /\ call' = [call EXCEPT ![c].pc = "queue", ![c].slot = "json"]
    /\ UNCHANGED <<fixed, job, limiter, conns, workers, views, accepted>>

-----------------------------------------------------------------------------
\* The bucket of each stage of ApiRateLimiter::acquire.
BucketOf(c) ==
    LET r == call[c].req IN
    CASE call[c].pc = "endpoint" -> IF r.method \in IpLimited
                                    THEN [map |-> r.method, key |-> r.client]
                                    ELSE [map |-> "default_endpoints", key |-> r.method]
      [] call[c].pc = "ip" -> [map |-> "global_ips", key |-> r.client]
      [] OTHER -> [map |-> "none", key |-> "global"]
NextStage(c) ==
    CASE call[c].pc = "endpoint" -> "ip"
      [] call[c].pc = "ip" -> "global"
      [] OTHER -> IF call[c].req.via = "grpc" THEN "intercept" ELSE "parse"

\* RateMap::bucket: entries nobody waits on may have idled out; a full map
\* gives up its least recently used such entry, with the tokens it had spent.
Held == {BucketOf(d) : d \in {d \in Calls : call[d].wait}}
Unheld(b) == {i \in DOMAIN buckets : buckets[i].map = b.map /\ buckets[i] \notin Held}
Without(gone) == SelectSeq(buckets, LAMBDA e : e \notin gone)
Lookup(b) ==
    IF b.map = "none" THEN {buckets}
    ELSE LET after(gone) ==
               LET kept == Without(gone)
                   same == {i \in DOMAIN kept : kept[i].map = b.map}
                   free == {i \in same : kept[i] \notin Held}
               IN IF Contains(kept, b) THEN {Append(Remove(kept, b), b)}
                  ELSE IF Cardinality(same) < MaxBuckets THEN {Append(kept, b)}
                  ELSE IF free = {} THEN {<<>>}
                  ELSE {Append(RemoveAt(kept, CHOOSE i \in free : \A j \in free : i <= j), b)}
         IN UNION {after({buckets[i] : i \in gone}) : gone \in SUBSET Unheld(b)}
Fresh(found) == {b \in spent : b.map = "none" \/ Contains(found, b)}

\* One stage: without a token the non-blocking mode refuses and the blocking
\* mode waits.  Tokens spent at an earlier stage are not given back.
Acquire(c) ==
    /\ call[c].pc \in {"endpoint", "ip", "global"} /\ ~call[c].wait
    /\ ~(call[c].pc = "endpoint" /\ call[c].req.method \in Preemptible)
    /\ \E found \in Lookup(BucketOf(c)) :
          IF BucketOf(c).map # "none" /\ found = <<>>
          THEN Answer(c, "internal") /\ UNCHANGED limiter
          ELSE /\ buckets' = found
               /\ IF BucketOf(c) \notin Fresh(found)
                  THEN spent' = Fresh(found) \cup {BucketOf(c)} /\ GoOn(c, NextStage(c))
                  ELSE /\ spent' = Fresh(found)
                       /\ IF apiMode = "NonBlocking" THEN Answer(c, "overload")
                          ELSE call' = [call EXCEPT ![c].wait = TRUE] /\ UNCHANGED slots
    /\ UNCHANGED <<fixed, job, conns, workers, views, accepted>>

\* acquire_endpoint: the semaphore of a preemptible endpoint.
AcquireSlot(c) ==
    LET m == call[c].req.method IN
    /\ call[c].pc = "endpoint" /\ m \in Preemptible
    /\ IF slots[m] > 0
       THEN /\ slots' = [slots EXCEPT ![m] = @ - 1]
            /\ call' = [call EXCEPT ![c].pc = "ip", ![c].slot = m]
       ELSE apiMode = "NonBlocking" /\ Answer(c, "overload")
    /\ UNCHANGED <<fixed, job, limiter, conns, workers, views, accepted>>

\* A waiter finds a token again, or its deadline is nearer than the next one.
Retry(c) ==
    /\ call[c].wait
    /\ \/ /\ BucketOf(c) \notin spent
          /\ spent' = spent \cup {BucketOf(c)}
          /\ GoOn(c, NextStage(c))
       \/ Answer(c, "overload") /\ UNCHANGED spent
    /\ UNCHANGED <<fixed, job, buckets, conns, workers, views, accepted>>

Refill ==
    /\ \E b \in spent : spent' = spent \ {b}
    /\ UNCHANGED <<fixed, call, job, buckets, slots, conns, workers, views, accepted>>

-----------------------------------------------------------------------------
\* ApiInterceptors::check and RawUnaryCapture: behind the limiter on gRPC.
Intercept(c) ==
    /\ call[c].pc = "intercept"
    /\ LET r == call[c].req IN
       IF r.method \in Disabled
          \/ (apiLite /\ r.api \in DOMAIN LiteGrpc /\ r.method \in LiteGrpc[r.api])
       THEN Answer(c, "closed")
       ELSE IF ~r.ok THEN Answer(c, "malformed") ELSE GoOn(c, "handle")
    /\ UNCHANGED <<fixed, job, limiter, conns, workers, views, accepted>>

\* execute: the body is read and parsed, /wallet/validateaddress is answered here.
HttpParse(c) ==
    /\ call[c].pc = "parse"
    /\ IF ~call[c].req.ok THEN Answer(c, "malformed")
       ELSE IF call[c].req.method = "validate_address" THEN Answer(c, "ok")
       ELSE GoOn(c, "handle")
    /\ UNCHANGED <<fixed, job, limiter, conns, workers, views, accepted>>

Handle(c) ==
    /\ call[c].pc = "handle"
    /\ LET h == Handler(call[c].req) IN
       IF h.kind = "refuse" THEN Answer(c, "unimplemented")
       ELSE /\ call' = [call EXCEPT ![c].pc = IF h.kind \in {"blocking", "broadcast"}
                                              THEN "queue" ELSE "read",
                                    ![c].left = Steps(call[c].req),
                                    ![c].seen = views[ReadCursor(c)]]
            /\ UNCHANGED slots
    /\ UNCHANGED <<fixed, job, limiter, conns, workers, views, accepted>>

\* One read of the plan, on the view that is published now.
ReadStep(c) ==
    LET now == views[ReadCursor(c)] IN
    /\ call[c].left # <<>>
    /\ call' = [call EXCEPT ![c].left = Tail(@),
                            ![c].key = IF Head(call[c].left) = "latest" THEN now ELSE @,
                            ![c].seen = IF Head(call[c].left) = "latest" THEN now ELSE @]
    /\ Head(call[c].left) \in {"get", "each"} => call[c].key <= now
    /\ UNCHANGED slots
Missing(c) ==
    /\ call[c].left # <<>> /\ Head(call[c].left) \in {"get", "each"}
    /\ call[c].key > views[ReadCursor(c)]
OverCap(c) == call[c].left # <<>> /\ Head(call[c].left) = "scan"

Read(c) ==
    /\ call[c].pc = "read"
    /\ \/ ReadStep(c)
       \/ Missing(c) /\ Answer(c, "missing")
       \/ OverCap(c) /\ Answer(c, "malformed")
       \/ call[c].left = <<>> /\ Answer(c, "ok")
    /\ UNCHANGED <<fixed, job, limiter, conns, workers, views, accepted>>

-----------------------------------------------------------------------------
\* BlockingExecutor::run: the queue, and the permit that moves into the worker.
TakeWorkerLate(c) ==
    /\ call[c].pc = "queue" /\ job[c] = "none"
    /\ job' = [job EXCEPT ![c] = "spawned"]
    /\ workers' = [workers EXCEPT ![Pool(call[c].req)] = @ - 1]
    /\ call' = [call EXCEPT ![c].left = Steps(call[c].req), ![c].seen = views[ReadCursor(c)]]
    /\ UNCHANGED <<fixed, limiter, slots, conns, views, accepted>>

TakeWorker(c) ==
    /\ call[c].pc = "queue" /\ workers[Pool(call[c].req)] > 0
    /\ workers' = [workers EXCEPT ![Pool(call[c].req)] = @ - 1]
    /\ job' = [job EXCEPT ![c] = "spawned"]
    /\ call' = [call EXCEPT ![c].pc = "await", ![c].left = Steps(call[c].req),
                            ![c].seen = views[ReadCursor(c)]]
    /\ UNCHANGED <<fixed, limiter, slots, conns, views, accepted>>

QueueDeadline(c) ==
    /\ call[c].pc = "queue" /\ Answer(c, "queue deadline")
    /\ UNCHANGED <<fixed, job, limiter, conns, workers, views, accepted>>

\* The guard cancels when the caller's future ends.
Cancelled(c) == call[c].pc = "done"

\* The worker ends: the permit it carries returns, a caller still there is answered.
EndJob(c, told) ==
    /\ job' = [job EXCEPT ![c] = "ended"]
    /\ workers' = [workers EXCEPT ![Pool(call[c].req)] = @ + 1]
    /\ IF Cancelled(c) THEN UNCHANGED <<call, slots>> ELSE Answer(c, told)
    /\ UNCHANGED <<fixed, limiter, conns, views>>

WorkerStart(c) ==
    /\ job[c] = "spawned"
    /\ IF Cancelled(c) THEN EndJob(c, "cancelled") /\ UNCHANGED accepted
       ELSE /\ job' = [job EXCEPT ![c] = IF call[c].req.via # "json"
                                            /\ Handler(call[c].req).kind = "broadcast"
                                         THEN "checking" ELSE "working"]
            /\ UNCHANGED <<fixed, call, limiter, slots, conns, workers, views, accepted>>

\* The reads of a worker go on after its caller has gone.
WorkerRead(c) ==
    /\ job[c] = "working"
    /\ \/ /\ ReadStep(c)
          /\ UNCHANGED <<fixed, job, limiter, conns, workers, views, accepted>>
       \/ Missing(c) /\ EndJob(c, "missing") /\ UNCHANGED accepted
       \/ OverCap(c) /\ EndJob(c, "malformed") /\ UNCHANGED accepted
       \/ call[c].left = <<>> /\ EndJob(c, "ok") /\ UNCHANGED accepted

\* broadcast_raw_cancellable: cancelled, no execution on this node, or sent.
WorkerCheck(c) ==
    /\ job[c] = "checking"
    /\ IF Cancelled(c) THEN EndJob(c, "cancelled") /\ UNCHANGED accepted
       ELSE IF apiNode # "full" THEN EndJob(c, "unavailable") /\ UNCHANGED accepted
       ELSE /\ job' = [job EXCEPT ![c] = "sending"]
            /\ UNCHANGED <<fixed, call, limiter, slots, conns, workers, views, accepted>>

\* ActorExecutionProvider::broadcast_raw: the chain actor's verdict.
Submit(c) ==
    /\ job[c] = "sending"
    /\ \/ EndJob(c, "accepted") /\ accepted' = accepted \cup {c}
       \/ EndJob(c, "rejected") /\ UNCHANGED accepted

\* TimeoutLayer and the executor's own deadline: the worker keeps its permit.
DeadlineFreeing(c) ==
    /\ call[c].pc \notin {"idle", "done"} /\ Answer(c, "deadline")
    /\ workers' = IF call[c].pc = "await"
                  THEN [workers EXCEPT ![Pool(call[c].req)] = @ + 1] ELSE workers
    /\ UNCHANGED <<fixed, job, limiter, conns, views, accepted>>

Deadline(c) ==
    /\ call[c].pc \notin {"idle", "done"} /\ Answer(c, "deadline")
    /\ UNCHANGED <<fixed, job, limiter, conns, workers, views, accepted>>

\* The connection ends: by the client, by its idle, first-request or age
\* limit, or at shutdown.
Hangup(c) ==
    /\ call[c].conn
    /\ conns' = [conns EXCEPT ![call[c].req.via] = @ + 1]
    /\ call' = [call EXCEPT ![c].conn = FALSE, ![c].pc = "done", ![c].wait = FALSE,
                            ![c].slot = "none", ![c].told = IF @ = "none" THEN "dropped" ELSE @]
    /\ slots' = IF call[c].slot = "none" THEN slots ELSE [slots EXCEPT ![call[c].slot] = @ + 1]
    /\ UNCHANGED <<fixed, job, limiter, workers, views, accepted>>

\* publish_cursors, called by the Solidity node's replica only: all three at once.
PublishCursors ==
    /\ apiNode = "solidity"
    /\ views["Head"] < MaxHeight
    /\ views' = [u \in Cursors |-> views["Head"] + 1]
    /\ UNCHANGED <<fixed, call, job, limiter, slots, conns, workers, accepted>>

GatewayNext ==
    \/ Refill \/ PublishCursors
    \/ \E c \in Calls :
          \/ \E r \in Requests : Arrive(c, r)
          \/ HttpFilter(c) \/ JsonAdmit(c)
          \/ Acquire(c) \/ AcquireSlot(c) \/ Retry(c)
          \/ Intercept(c) \/ HttpParse(c) \/ Handle(c) \/ Read(c)
          \/ TakeWorker(c) \/ QueueDeadline(c)
          \/ WorkerStart(c) \/ WorkerRead(c) \/ WorkerCheck(c) \/ Submit(c)
          \/ Deadline(c) \/ Hangup(c)

-----------------------------------------------------------------------------
GatewayTypeOK ==
    /\ job \in [Calls -> {"none", "spawned", "checking", "working", "sending", "ended"}]
    /\ \A c \in Calls : call[c].req \in Requests /\ call[c].key \in 0..MaxHeight
    /\ slots \in [Preemptible \cup {"json"} -> 0..Slots]
    /\ conns \in [{"http", "json"} -> 0..MaxConnections]
    /\ workers \in [{"rpc", "json"} -> 0..Workers]
    /\ views \in [Cursors -> 0..MaxHeight]
    /\ accepted \subseteq Calls

\* What a client is told of its broadcast is final: "accepted" is true, and a
\* client that was refused before its work was handed to the pool, or by the
\* node itself, never finds its transaction accepted later.  A Solidity node
\* never submits one (wallet_mutation.rs broadcast_raw_cancellable).
BroadcastTold ==
    /\ apiNode = "solidity" => accepted = {}
    /\ \A c \in Calls :
          /\ call[c].told = "accepted" => c \in accepted
          /\ call[c].told \in {"closed", "malformed", "overload", "internal", "unimplemented",
                               "queue deadline", "unavailable", "rejected", "cancelled"}
             => c \notin accepted

\* Timeouts do not widen the pool: at most Workers blocking jobs exist at once,
\* however many callers gave up on theirs (blocking.rs "Bounds synchronous
\* work").
WorkBounded ==
    \A p \in {"rpc", "json"} :
       Cardinality({c \in Calls : /\ job[c] \notin {"none", "ended"}
                                  /\ Pool(call[c].req) = p}) <= Workers

\* Although every read of a handler takes the view published at that moment,
\* a block that was visible when handling began, or whose height an earlier
\* read returned, is not answered as missing (wallet_query.rs now_block,
\* latest_blocks).
AnswersFound ==
    \A c \in Calls : call[c].told = "missing" => call[c].key > call[c].seen

\* Deadlines and hang-ups falsify no answer and free no worker too early: both of
\* the above (blocking.rs run, wallet_mutation.rs broadcast_raw_cancellable).
BroadcastSettled == BroadcastTold /\ WorkBounded
=============================================================================
