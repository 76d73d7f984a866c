---------------------------- MODULE NodeServices ----------------------------
(***************************************************************************)
(* The node's service graph (tron-node/src/lib.rs), the node around it with *)
(* its status and stop controller (operations.rs), and the event queues     *)
(* with the task that delivers them (tron-events-metrics).                  *)
(*                                                                          *)
(* One caller starts the node and shuts it down, service by service; at the *)
(* same time blocks put events into the queues, the delivery task takes     *)
(* them to the plugin and to ZeroMQ, and the tasks of the delivery and of   *)
(* the Solidity replica may end, on which their supervisors report a fatal  *)
(* failure.  What the other services do when they start and stop is only    *)
(* an outcome here: done, refused or too late.                              *)
(***************************************************************************)
EXTENDS Integers, Sequences, FiniteSets, FiniteSetsExt, SequencesExt, Sublists

CONSTANTS Compositions,  \* what the composition root may hand over: [mode, services]
          Outlets,       \* the outlets configured: a subset of {"plugin", "zeromq"}
          TriggerModes,  \* the plugin's triggers, by kind of event: [enabled, solidified]
          StartSync,     \* start_sync_block_num: the plugin takes no older history
          EventBatches,  \* the batches blocks put into the queues
          QueueCaps,     \* the capacity of each queue
          RetryLimit,    \* retries of one delivery
          SendHwm,       \* ZeroMQ messages waiting to be sent
          MaxEvents,     \* bound: events accepted
          MaxNodeCalls,  \* bound: shutdowns asked for
          MaxNodeFaults  \* bound: services refusing or late, outlets and tasks failing

QueueClasses == <<"history", "realtime", "solid">>
Triggers == {"block", "log", "solidity"}  \* blocks and transactions, contract logs and events, solidified ones

ASSUME NodeAssumption ==
    /\ Outlets \subseteq {"plugin", "zeromq"}
    /\ QueueCaps \in [Range(QueueClasses) -> Nat]
    /\ TriggerModes \in [Triggers -> [enabled : BOOLEAN, solidified : BOOLEAN]]
    /\ {RetryLimit, SendHwm, MaxEvents, MaxNodeCalls, MaxNodeFaults, StartSync} \subseteq Nat
    /\ EventBatches \subseteq Seq([kind : Triggers \cup {"filter"}, removed : BOOLEAN, height : Nat])

VARIABLES graph,      \* the service graph: state, order, started, cancelled
          nodeCall,   \* where the caller's start or shutdown is
          nodeStatus, \* ready, healthy, ingress, fatal
          causes,     \* fatal failures not yet returned to the caller
          stopQueue,  \* the stop controller's channel
          queues,     \* the event queues
          courier,    \* the delivery worker's place, and its cancellation token
          tasks,      \* the supervised tasks of the delivery and of the replica
          outlet,     \* the plugin process and the ZeroMQ publisher
          nodeFaults  \* faults so far

nodeVars == <<graph, nodeCall, nodeStatus, causes, stopQueue, queues, courier, tasks, outlet, nodeFaults>>
graphVars == <<graph, nodeCall, nodeStatus, causes, stopQueue>>
deliveryVars == <<queues, courier, tasks, outlet>>

-----------------------------------------------------------------------------
(* The services of a node. *)

ServiceSpec(name, deps, modes) == [name |-> name, deps |-> deps, modes |-> modes]

\* The services every node has, each on the one before it.
CoreServices ==
    <<ServiceSpec("admin-http", {}, {}), ServiceSpec("state", {"admin-http"}, {}),
      ServiceSpec("execution", {"state"}, {}), ServiceSpec("consensus", {"execution"}, {})>>

OperationalGraph(roots) ==
    <<ServiceSpec("api-provider", roots, {}), ServiceSpec("event-queues", {"api-provider"}, {}),
      ServiceSpec("event-plugin", {"event-queues"}, {}), ServiceSpec("zeromq", {"event-queues"}, {}),
      ServiceSpec("monitor-metrics", roots, {}), ServiceSpec("prometheus", {"monitor-metrics"}, {}),
      ServiceSpec("db-stats", {"monitor-metrics"}, {}),
      ServiceSpec("readiness", {"event-plugin", "zeromq", "prometheus", "db-stats"}, {})>>

\* A full node owns the network; a Solidity node has the replica in its place.
ProductionGraph(mode) ==
    LET root == IF mode = "Full" THEN ServiceSpec("network", {"consensus"}, {"Full"})
                ELSE ServiceSpec("replica", {"execution"}, {"Solidity"})
    IN  CoreServices \o <<root, ServiceSpec("apis", {root.name}, {})>> \o OperationalGraph({root.name, "apis"})

ServiceEnabled(service, mode) == mode # "KeystoreFactory" /\ \A m \in service.modes : m = mode

\* No name twice among the enabled services, and every dependency before its dependents.
Composable(order) ==
    /\ \A i, j \in DOMAIN order : order[i].name = order[j].name => i = j
    /\ \A i \in DOMAIN order : \A d \in order[i].deps : \E j \in 1..(i - 1) : order[j].name = d

Enabled(services, mode) == Sublist(services, {i \in DOMAIN services : ServiceEnabled(services[i], mode)})

\* Services are named by strings.  The composition root adds the readiness service last, so
\* nothing is left to start once the node says that it is ready.
ASSUME CompositionAssumption ==
    \A c \in Compositions :
        /\ c.mode \in STRING /\ c.services \in Seq([name : STRING, deps : SUBSET STRING, modes : SUBSET STRING])
        /\ LET order == Enabled(c.services, c.mode) IN
           Composable(order) => \A i \in DOMAIN order : order[i].name = "readiness" => i = Len(order)

\* Services whose start can be refused or be too late, and whose stop can.
StartRefusable == {"consensus", "network", "apis", "event-queues", "prometheus"}
StopRefusable == {"state", "execution", "consensus", "network", "apis", "prometheus", "db-stats"}

-----------------------------------------------------------------------------
NoCall == [at |-> "idle", i |-> 0, phase |-> "begin", why |-> "none", stopped |-> {}, left |-> {},
             last |-> "none", calls |-> 0]
NoTask == [pc |-> "none", ok |-> TRUE, handle |-> "none"]
Supervised == {"event-queues", "replica"}

NodeInit ==
    /\ \E c \in Compositions :
        graph = [state |-> "none", mode |-> c.mode, order |-> c.services, started |-> <<>>, cancelled |-> FALSE]
    /\ nodeCall = NoCall
    /\ nodeStatus = [ready |-> FALSE, healthy |-> FALSE, ingress |-> FALSE, fatal |-> FALSE]
    /\ causes = <<>> /\ stopQueue = <<>>
    /\ queues = [accepting |-> TRUE, next |-> 0, items |-> [c \in Range(QueueClasses) |-> <<>>], acked |-> {}]
    /\ courier = [class |-> 1, attempt |-> 0, cancelled |-> FALSE]
    /\ tasks = [s \in Supervised |-> NoTask]
    /\ outlet = [plugin |-> "off", zeromq |-> "off", waiting |-> <<>>, sent |-> <<>>, told |-> {}]
    /\ nodeFaults = 0

NodeFault == nodeFaults < MaxNodeFaults /\ nodeFaults' = nodeFaults + 1

-----------------------------------------------------------------------------
(* The status, shared by the readiness service, the caller and the supervisors. *)

Running == [ready |-> TRUE, healthy |-> TRUE, ingress |-> TRUE, fatal |-> FALSE]
MarkRunning(status) == IF status.fatal THEN status ELSE Running
RevokeReadiness(status) == [status EXCEPT !.ready = FALSE, !.ingress = FALSE]
MarkUnhealthy(status) == [ready |-> FALSE, healthy |-> FALSE, ingress |-> FALSE, fatal |-> TRUE]

-----------------------------------------------------------------------------
(* ServiceGraph::new and start, and the node's start around it. *)

NewGraph ==
    LET order == Enabled(graph.order, graph.mode) IN
    /\ graph.state = "none" /\ Composable(order)
    /\ graph' = [graph EXCEPT !.state = "New", !.order = order]
    /\ UNCHANGED <<nodeCall, nodeStatus, causes, stopQueue, deliveryVars, nodeFaults>>

StartNode ==
    /\ nodeCall.at = "idle" /\ graph.state = "New"
    /\ graph' = [graph EXCEPT !.state = "Starting"]
    /\ nodeCall' = [nodeCall EXCEPT !.at = "starting", !.i = 1]
    /\ UNCHANGED <<nodeStatus, causes, stopQueue, deliveryVars, nodeFaults>>

\* What a service's start has done when it succeeds.
Started(s) ==
    /\ nodeStatus' = IF s = "readiness" THEN MarkRunning(nodeStatus) ELSE nodeStatus
    /\ tasks' = IF s \in Supervised
                THEN [tasks EXCEPT ![s] = [pc |-> IF s = "replica" THEN "run" ELSE "pass", ok |-> TRUE, handle |-> "held"]]
                ELSE tasks
    /\ IF s = "event-queues"
       THEN /\ queues' = [queues EXCEPT !.accepting = TRUE]
            /\ courier' = [courier EXCEPT !.cancelled = FALSE]
            /\ outlet' = [outlet EXCEPT !.plugin = IF "plugin" \in Outlets THEN "live" ELSE "off",
                                        !.zeromq = IF "zeromq" \in Outlets THEN "live" ELSE "off"]
       ELSE UNCHANGED <<queues, courier, outlet>>

StopFrom(why) == [nodeCall EXCEPT !.at = "stopping", !.i = Len(graph.started), !.phase = "begin", !.why = why,
                              !.stopped = {}, !.left = {}]

\* The next service starts; the delivery task needs an outlet to be refused, the readiness
\* service a node that is still sound.
StartService ==
    /\ nodeCall.at = "starting" /\ nodeCall.i \in DOMAIN graph.order
    /\ LET s == graph.order[nodeCall.i].name IN
       \/ /\ s = "readiness" => ~nodeStatus.fatal
          /\ Started(s)
          /\ graph' = [graph EXCEPT !.started = Append(@, graph.order[nodeCall.i])]
          /\ nodeCall' = [nodeCall EXCEPT !.i = @ + 1]
          /\ UNCHANGED nodeFaults
       \/ /\ \/ s \in StartRefusable /\ NodeFault
             \/ s = "readiness" /\ nodeStatus.fatal /\ UNCHANGED nodeFaults
          /\ s = "event-queues" => Outlets # {}
          /\ graph' = [graph EXCEPT !.cancelled = TRUE, !.state = "Stopping"]
          /\ nodeCall' = StopFrom("unwind")
          /\ queues' = IF s = "event-queues" THEN [queues EXCEPT !.accepting = TRUE] ELSE queues
          /\ UNCHANGED <<nodeStatus, courier, tasks, outlet>>
    /\ UNCHANGED <<causes, stopQueue>>

AllStarted ==
    /\ nodeCall.at = "starting" /\ nodeCall.i > Len(graph.order)
    /\ graph' = [graph EXCEPT !.state = "Running"]
    /\ nodeCall' = [nodeCall EXCEPT !.at = "marking"]
    /\ UNCHANGED <<nodeStatus, causes, stopQueue, deliveryVars, nodeFaults>>

\* The node is running, or a fatal failure came first and the graph is stopped again.
FinishStart ==
    /\ nodeCall.at = "marking"
    /\ IF nodeStatus.fatal
       THEN /\ nodeStatus' = RevokeReadiness(nodeStatus)
            /\ graph' = [graph EXCEPT !.cancelled = TRUE, !.state = "Stopping"]
            /\ nodeCall' = StopFrom("startup")
       ELSE /\ nodeStatus' = MarkRunning(nodeStatus)
            /\ nodeCall' = [nodeCall EXCEPT !.at = "idle", !.last = "running"]
            /\ UNCHANGED graph
    /\ UNCHANGED <<causes, stopQueue, deliveryVars, nodeFaults>>

-----------------------------------------------------------------------------
(* ServiceGraph::shutdown and stop_started, and the node's shutdown around them. *)

\* The caller had a signal, a reported failure, or made a request of its own; a graph that
\* is not up has nothing to stop.
ShutdownNode ==
    /\ nodeCall.at = "idle" /\ graph.state # "none" /\ nodeCall.calls < MaxNodeCalls
    /\ stopQueue' \in {stopQueue, Tail(Append(stopQueue, "Operator"))}
                     \cup (IF stopQueue = <<>> THEN {} ELSE {Tail(stopQueue)})
    /\ nodeStatus' = RevokeReadiness(nodeStatus)
    /\ IF graph.state \in {"Running", "Stopping"}
       THEN /\ graph' = [graph EXCEPT !.cancelled = TRUE, !.state = "Stopping"]
            /\ nodeCall' = [StopFrom("shutdown") EXCEPT !.calls = @ + 1]
            /\ UNCHANGED causes
       ELSE /\ nodeCall' = [nodeCall EXCEPT !.calls = @ + 1,
                                    !.last = IF graph.state = "New" \/ causes # <<>> THEN "failed" ELSE "stopped"]
            /\ causes' = <<>>
            /\ UNCHANGED graph
    /\ UNCHANGED <<deliveryVars, nodeFaults>>

Current == graph.started[nodeCall.i].name
Stopping(s) == nodeCall.at = "stopping" /\ nodeCall.i > 0 /\ Current = s

\* The loop goes on to the service before, whatever became of this one.
Stopped(ok) ==
    nodeCall' = [nodeCall EXCEPT !.i = @ - 1, !.phase = "begin",
                         !.stopped = IF ok THEN @ \cup {Current} ELSE @,
                         !.left = IF ok THEN @ ELSE @ \cup {Current}]

StopService ==
    /\ nodeCall.at = "stopping" /\ nodeCall.i > 0 /\ Current \notin Supervised
    /\ \/ Stopped(TRUE) /\ UNCHANGED nodeFaults
       \/ Current \in StopRefusable /\ Stopped(FALSE) /\ NodeFault
    \* cancel_ingress revokes the readiness, stop marks the node unhealthy
    /\ nodeStatus' = IF Current = "readiness" THEN MarkUnhealthy(RevokeReadiness(nodeStatus)) ELSE nodeStatus
    /\ UNCHANGED <<graph, causes, stopQueue, deliveryVars>>

CloseIngress ==
    /\ Stopping("event-queues") /\ nodeCall.phase = "begin"
    /\ queues' = [queues EXCEPT !.accepting = FALSE]
    /\ courier' = [courier EXCEPT !.cancelled = TRUE]
    /\ nodeCall' = [nodeCall EXCEPT !.phase = "drain"]
    /\ UNCHANGED <<graph, nodeStatus, causes, stopQueue, tasks, outlet, nodeFaults>>

QueuesEmpty == \A c \in DOMAIN queues.items : queues.items[c] = <<>>

\* The queues are empty or their task has ended; then stop takes the task's handle.
DrainQueues ==
    /\ Stopping("event-queues") /\ nodeCall.phase = "drain"
    /\ QueuesEmpty \/ (tasks["event-queues"].handle = "held" /\ tasks["event-queues"].pc = "done")
    /\ IF tasks["event-queues"].handle = "held"
       THEN /\ tasks' = [tasks EXCEPT !["event-queues"].handle = "taken"]
            /\ nodeCall' = [nodeCall EXCEPT !.phase = "join"]
       ELSE Stopped(TRUE) /\ UNCHANGED tasks
    /\ UNCHANGED <<graph, nodeStatus, causes, stopQueue, queues, courier, outlet, nodeFaults>>

JoinDelivery ==
    /\ Stopping("event-queues") /\ nodeCall.phase = "join" /\ tasks["event-queues"].pc = "done"
    /\ Stopped(tasks["event-queues"].ok)
    /\ tasks' = [tasks EXCEPT !["event-queues"].handle = "none"]
    /\ UNCHANGED <<graph, nodeStatus, causes, stopQueue, queues, courier, outlet, nodeFaults>>

JoinReplicaDetached ==
    /\ Stopping("replica")
    /\ Stopped(tasks["replica"].ok)
    /\ tasks' = [tasks EXCEPT !["replica"].handle = "none"]
    /\ UNCHANGED <<graph, nodeStatus, causes, stopQueue, queues, courier, outlet, nodeFaults>>

JoinReplica ==
    /\ Stopping("replica") /\ tasks["replica"].pc = "done"
    /\ Stopped(tasks["replica"].handle = "none" \/ tasks["replica"].ok)
    /\ tasks' = [tasks EXCEPT !["replica"].handle = "none"]
    /\ UNCHANGED <<graph, nodeStatus, causes, stopQueue, queues, courier, outlet, nodeFaults>>

\* The graph's own timeout drops the stop: the delivery task's handle goes with it, the
\* replica keeps its handle for the next try.
StopTooLate ==
    /\ \/ Stopping("event-queues") /\ nodeCall.phase # "begin"
       \/ Stopping("replica")
    /\ NodeFault /\ Stopped(FALSE)
    /\ tasks' = [tasks EXCEPT ![Current].handle = IF @ = "taken" THEN "detached" ELSE @]
    /\ UNCHANGED <<graph, nodeStatus, causes, stopQueue, queues, courier, outlet>>

\* Services that did not stop stay in the graph; every pending cause is returned.
FinishStop ==
    /\ nodeCall.at = "stopping" /\ nodeCall.i = 0
    /\ LET remaining == Sublist(graph.started, {k \in DOMAIN graph.started : graph.started[k].name \notin nodeCall.stopped}) IN
       graph' = [graph EXCEPT !.started = remaining,
                              !.state = IF nodeCall.why = "unwind" /\ nodeCall.left = {} THEN "Failed"
                                        ELSE IF remaining = <<>> THEN "Stopped" ELSE @]
    /\ nodeCall' = [nodeCall EXCEPT !.at = "idle",
                            !.last = IF nodeCall.why = "shutdown" /\ nodeCall.left = {} /\ causes = <<>> THEN "stopped" ELSE "failed"]
    /\ causes' = <<>>
    /\ UNCHANGED <<nodeStatus, stopQueue, deliveryVars, nodeFaults>>

-----------------------------------------------------------------------------
(* EventQueues and the delivery worker. *)

\* A reorganization's removals come first, then its blocks from the oldest on.
BatchOrdered(batch) ==
    \A i, j \in DOMAIN batch : i < j =>
        /\ batch[j].removed => batch[i].removed
        /\ ~batch[i].removed => batch[i].height <= batch[j].height

\* Events come from blocks, which the network or the replica brings once it is started.  A
\* closed or full queue refuses the whole batch, which the sink only counts.
PushBatch(class, batch) ==
    /\ {s.name : s \in Range(graph.started)} \cap {"network", "replica"} # {}
    /\ BatchOrdered(batch) /\ queues.accepting
    /\ Len(queues.items[class]) + Len(batch) <= QueueCaps[class]
    /\ queues.next + Len(batch) <= MaxEvents
    /\ queues' = [queues EXCEPT
          !.next = @ + Len(batch),
          !.items[class] = @ \o [i \in DOMAIN batch |->
                                   [seq |-> queues.next + i - 1, class |-> class,
                                    kind |-> batch[i].kind, height |-> batch[i].height]]]
    /\ UNCHANGED <<graphVars, courier, tasks, outlet, nodeFaults>>

Class == QueueClasses[courier.class]
Worker == tasks["event-queues"]

AcknowledgeOf(class) == [queues EXCEPT !.items[class] = Tail(@), !.acked = @ \cup {Head(queues.items[class])}]

\* The plugin takes the events its triggers are enabled for, from the queues they belong to.
Accepts(d) ==
    /\ d.kind \in Triggers /\ TriggerModes[d.kind].enabled
    /\ d.class = "history" => d.height >= StartSync
    /\ CASE d.kind = "block" -> TriggerModes[d.kind].solidified <=> d.class = "solid"
         [] d.kind = "log" -> d.class # "solid"
         [] OTHER -> d.class = "solid"
ToPlugin(d) == "plugin" \in Outlets /\ Accepts(d)

\* The publisher takes a message unless its task has ended or its channel is full.  What
\* waits is the channel and the message its task has taken from it to send, if it has.
OutletTakes == outlet.zeromq = "live" /\ Len(outlet.waiting) <= SendHwm
OutletRefuses == outlet.zeromq = "dead" \/ (outlet.zeromq = "live" /\ Len(outlet.waiting) >= SendHwm)
ToldPlugin(d) == IF outlet.plugin = "live" /\ ToPlugin(d) THEN outlet.told \cup {<<"plugin", d.seq>>} ELSE outlet.told

Deliver ==
    LET d == Head(queues.items[Class]) IN
    /\ Worker.pc = "pass" /\ queues.items[Class] # <<>>
    /\ \/ d.kind = "filter"
       \/ (ToPlugin(d) => outlet.plugin # "dead") /\ (outlet.zeromq = "off" \/ OutletTakes)
    /\ outlet' = IF d.kind = "filter" THEN outlet
                 ELSE [outlet EXCEPT !.told = ToldPlugin(d) \cup (IF outlet.zeromq = "live" THEN {<<"zeromq", d.seq>>} ELSE {}),
                                     !.waiting = IF outlet.zeromq = "live" THEN Append(@, d) ELSE @]
    /\ queues' = AcknowledgeOf(Class)
    /\ courier' = [courier EXCEPT !.attempt = 0]
    /\ UNCHANGED <<graphVars, tasks, nodeFaults>>

\* The worker's outlets end with it: a publisher that runs is cancelled, and what still
\* waits with it is never sent.
WorkerEnds(ok) ==
    /\ ~ok \/ "dead" # outlet.zeromq
    /\ tasks' = [tasks EXCEPT !["event-queues"].pc = "ended", !["event-queues"].ok = ok]
    /\ outlet' = [outlet EXCEPT !.plugin = IF @ = "off" THEN @ ELSE "dead",
                                !.zeromq = IF @ = "off" THEN @ ELSE "dead"]

\* One attempt fails; after the last retry the worker returns the failure.
DeliverFails ==
    LET d == Head(queues.items[Class]) IN
    /\ Worker.pc = "pass" /\ queues.items[Class] # <<>> /\ d.kind # "filter"
    /\ (ToPlugin(d) /\ outlet.plugin = "dead") \/ OutletRefuses
    /\ IF courier.attempt < RetryLimit
       THEN /\ courier' = [courier EXCEPT !.attempt = @ + 1]
            /\ outlet' = [outlet EXCEPT !.told = ToldPlugin(d)]
            /\ UNCHANGED tasks
       ELSE WorkerEnds(FALSE) /\ UNCHANGED courier
    /\ UNCHANGED <<graphVars, queues, nodeFaults>>

\* A queue is empty: the pass goes on to the next that is not, or is over.
NextClass ==
    LET later == {c \in DOMAIN QueueClasses : c > courier.class /\ queues.items[QueueClasses[c]] # <<>>} IN
    /\ Worker.pc = "pass" /\ queues.items[Class] = <<>>
    /\ IF later # {}
       THEN courier' = [courier EXCEPT !.class = Min(later)] /\ UNCHANGED tasks
       ELSE tasks' = [tasks EXCEPT !["event-queues"].pc = "tail"] /\ courier' = [courier EXCEPT !.class = 1]
    /\ UNCHANGED <<graphVars, queues, outlet, nodeFaults>>

\* After a pass: cancelled, it shuts its outlets down and ends; otherwise it probes the
\* plugin and, after a pause, makes the next pass.
PassDone ==
    /\ Worker.pc = "tail"
    /\ \/ /\ courier.cancelled
          /\ \E ok \in BOOLEAN : (~ok => "dead" \in {outlet.plugin, outlet.zeromq}) /\ WorkerEnds(ok)
          /\ UNCHANGED courier
       \/ /\ ~courier.cancelled /\ outlet.plugin = "dead"
          /\ WorkerEnds(FALSE)
          /\ UNCHANGED courier
       \/ /\ ~courier.cancelled /\ outlet.plugin # "dead"
          /\ tasks' = [tasks EXCEPT !["event-queues"].pc = "pass"]
          /\ UNCHANGED <<courier, outlet>>
    /\ UNCHANGED <<graphVars, queues, nodeFaults>>

\* The publisher's task sends, or fails with what waits; the plugin process may exit.
SendMessage ==
    /\ outlet.zeromq = "live" /\ outlet.waiting # <<>>
    /\ outlet' = [outlet EXCEPT !.waiting = Tail(@), !.sent = Append(@, Head(outlet.waiting))]
    /\ UNCHANGED <<graphVars, queues, courier, tasks, nodeFaults>>

OutletFails ==
    /\ NodeFault
    /\ \/ outlet.zeromq = "live" /\ outlet' = [outlet EXCEPT !.zeromq = "dead"]
       \/ outlet.plugin = "live" /\ outlet' = [outlet EXCEPT !.plugin = "dead"]
    /\ UNCHANGED <<graphVars, queues, courier, tasks>>

-----------------------------------------------------------------------------
(* The replica's worker and the supervisors of both tasks. *)

ReplicaEnds ==
    /\ tasks["replica"].pc = "run"
    /\ \E ok \in BOOLEAN :
        /\ ok => graph.cancelled
        /\ IF ok THEN UNCHANGED nodeFaults ELSE NodeFault
        /\ tasks' = [tasks EXCEPT !["replica"].pc = "ended", !["replica"].ok = ok]
    /\ UNCHANGED <<graphVars, queues, courier, outlet>>

TokenCancelled(s) == IF s = "replica" THEN graph.cancelled ELSE courier.cancelled

\* A task that ended uncancelled closes the queues (the delivery's) before it reports.
Supervise(s) ==
    /\ tasks[s].pc = "ended"
    /\ tasks' = [tasks EXCEPT ![s].pc = IF TokenCancelled(s) THEN "done" ELSE "report"]
    /\ queues' = IF s = "event-queues" /\ ~TokenCancelled(s) THEN [queues EXCEPT !.accepting = FALSE] ELSE queues
    /\ UNCHANGED <<graphVars, courier, outlet, nodeFaults>>

\* StopHandle::request of a fatal failure; mark_unhealthy then sets the same fields again.
ReportFatal(s) ==
    /\ tasks[s].pc = "report"
    /\ causes' = Append(causes, s)
    /\ nodeStatus' = MarkUnhealthy(nodeStatus)
    /\ stopQueue' = Append(stopQueue, s)
    /\ tasks' = [tasks EXCEPT ![s].pc = "done"]
    /\ UNCHANGED <<graph, nodeCall, queues, courier, outlet, nodeFaults>>

-----------------------------------------------------------------------------
CallerNext ==
    \/ NewGraph \/ StartNode \/ StartService \/ AllStarted \/ FinishStart \/ ShutdownNode
    \/ StopService \/ CloseIngress \/ DrainQueues \/ JoinDelivery \/ JoinReplica \/ StopTooLate \/ FinishStop

NodeNext ==
    \/ CallerNext
    \/ \E c \in Range(QueueClasses), b \in EventBatches : PushBatch(c, b)
    \/ Deliver \/ DeliverFails \/ NextClass \/ PassDone \/ SendMessage \/ OutletFails
    \/ ReplicaEnds
    \/ \E s \in Supervised : Supervise(s) \/ ReportFatal(s)

-----------------------------------------------------------------------------
NodeTypeOK ==
    /\ graph.state \in {"none", "New", "Starting", "Running", "Stopping", "Stopped", "Failed"}
    /\ nodeCall.i \in 0..(Len(graph.order) + 1) /\ Range(causes) \subseteq Supervised
    /\ \A c \in Range(QueueClasses) : Len(queues.items[c]) <= QueueCaps[c]
    /\ Len(outlet.waiting) <= SendHwm + 1 /\ courier.attempt \in 0..RetryLimit

\* Readiness is up only while no fatal failure is known and every service is started.
ReadyWhenUp ==
    nodeStatus.ready =>
        /\ ~nodeStatus.fatal /\ graph.state \in {"Starting", "Running"}
        /\ {s.name : s \in Range(graph.order)} = {s.name : s \in Range(graph.started)}

\* A service is asked to stop only after every service of the graph that needs it was.
DependentsFirst ==
    nodeCall.at = "stopping" /\ nodeCall.i > 0 =>
        \A s \in Range(graph.started) : Current \in s.deps => s.name \in nodeCall.stopped \cup nodeCall.left

\* A graph that is over has joined its tasks, except a delivery task whose stop was cut
\* off by the graph's timeout while it was joined: that one goes on, detached.
TasksJoined ==
    graph.state \in {"Stopped", "Failed"} =>
        \A s \in Supervised : tasks[s].pc \in {"none", "done"} \/ tasks[s].handle = "detached"

\* A shutdown that returns Ok has returned every fatal failure, unless a detached delivery
\* task reports one afterwards.
FatalsReturned ==
    nodeCall.at = "idle" /\ nodeCall.last = "stopped" /\ tasks["event-queues"].handle # "detached" => causes = <<>>

\* Every accepted event waits in its queue or was acknowledged, which an event is only when
\* every outlet that is to have it took it.
EventsKept ==
    LET all == (UNION {Range(queues.items[c]) : c \in DOMAIN queues.items}) \cup queues.acked
    IN  /\ {d.seq : d \in all} = 0..(queues.next - 1)
        /\ \A d \in queues.acked, o \in Outlets :
               d.kind # "filter" /\ (o = "plugin" => Accepts(d)) => <<o, d.seq>> \in outlet.told

\* What the publisher took it sends in the order of each queue, except the messages that
\* wait when it ends: at most those of its channel and the one it was sending.
EventsSent ==
    LET out == outlet.sent \o outlet.waiting
    IN  /\ \A i, j \in DOMAIN out : i < j /\ out[i].class = out[j].class => out[i].seq < out[j].seq
        /\ \A d \in queues.acked : d.kind # "filter" /\ "zeromq" \in Outlets => d \in Range(out)
        /\ Len(outlet.waiting) <= SendHwm + 1

(* Starting, stopping and delivering stay sound through refused and late services,   *)
(* fatal failures at any moment and repeated shutdowns: readiness only while the      *)
(* graph is up; dependents stopped first; every task joined and every fatal failure   *)
(* returned, but for a delivery task that a late stop detached; every accepted event   *)
(* waiting or taken by each outlet it is for; and every event ZeroMQ took sent in      *)
(* order, but for the at most SendHwm + 1 that wait when the publisher ends            *)
(* (ServiceGraph, ProductionNode, EventDeliveryHooks, EventQueues, ZeroMqPublisher).   *)
NodeSound == ReadyWhenUp /\ DependentsFirst /\ TasksJoined /\ FatalsReturned /\ EventsKept /\ EventsSent
=============================================================================
