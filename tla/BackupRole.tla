------------------------------ MODULE BackupRole ------------------------------
(***************************************************************************)
(* Witness backup election (tron-consensus/src/backup.rs) over datagrams    *)
(* authenticated by tron-network/src/backup_auth.rs.  Every member runs the *)
(* loop of BackupService: refresh the members, tick, send a keep-alive when *)
(* one is due, receive one datagram.                                        *)
(*                                                                         *)
(* Time advances one keep-alive interval at a time, once every running      *)
(* member has sent and what is in flight was delivered or lost.  A datagram *)
(* is authentic; whether its (session, sequence) is above all that came     *)
(* before from its sender is its `fresh' flag, and what was delivered once  *)
(* can be delivered again, stale, at any time.  The replay windows of the   *)
(* worker, the socket and the authenticator refuse it, but a new process    *)
(* starts with empty ones: there what was recorded passes, once each and in *)
(* order, until a fresh datagram closes the window.  Crashes, losses, wrong *)
(* DNS answers and stale deliveries into an empty window are drawn from a   *)
(* finite budget.                                                           *)
(***************************************************************************)
EXTENDS Integers, FiniteSets

CONSTANTS Members,      \* the backup group
          Priorities,   \* configurations: the priority of each member
          IpRank,       \* the order of the members' addresses as strings
          TimeoutUnits, \* timeout: intervals without a keep-alive
          MaxFaults     \* bound on those faults

ASSUME BackupAssumption ==
    /\ Priorities \subseteq [Members -> Int] /\ IpRank \in [Members -> Int]
    /\ \A m, n \in Members : m # n => IpRank[m] # IpRank[n]
    /\ TimeoutUnits \in Nat \ {0} /\ MaxFaults \in Nat

VARIABLES priority, \* BackupConfig.priority of each member
          running,  \* the members whose service is started
          role,     \* BackupManager.status
          silence,  \* intervals since last_keep_alive
          beaten,   \* the members that ran their loop in this interval
          flight,   \* fresh datagrams not received yet
          replayed, \* datagrams that were received and may come again
          open,     \* the senders whose recorded datagrams a member's window lets pass
          allowed,  \* Membership.allowed
          faults    \* the fault budget spent
backupVars == <<priority, running, role, silence, beaten, flight, replayed, open, allowed, faults>>

Datagram == [from : Members, to : Members, flag : BOOLEAN]

BackupInit ==
    /\ priority \in Priorities /\ running = Members /\ role = [m \in Members |-> "INIT"]
    /\ silence = [m \in Members |-> 0]
    /\ beaten = {} /\ flight = {} /\ replayed = {} /\ faults = 0
    /\ open = [m \in Members |-> {}] /\ allowed = [m \in Members |-> Members \ {m}]

-----------------------------------------------------------------------------
\* tick: a SLAVER that hears nothing goes to INIT and waits again, an INIT becomes MASTER.
Tick(m) ==
    IF role[m] # "MASTER" /\ silence[m] > TimeoutUnits
    THEN IF role[m] = "SLAVER" THEN [role |-> "INIT", silence |-> 0]
                               ELSE [role |-> "MASTER", silence |-> silence[m]]
    ELSE [role |-> role[m], silence |-> silence[m]]

\* outbound and the send of run_loop: a SLAVER is silent, send errors are ignored.
Outbound(m, r) ==
    IF r = "SLAVER" THEN {} ELSE {[from |-> m, to |-> n, flag |-> r = "MASTER"] : n \in allowed[m]}

Beat(m) ==
    LET t == Tick(m)
    IN  /\ m \in running \ beaten
        /\ role' = [role EXCEPT ![m] = t.role] /\ silence' = [silence EXCEPT ![m] = t.silence]
        /\ flight' = flight \cup Outbound(m, t.role)
        /\ beaten' = beaten \cup {m}
        /\ UNCHANGED <<priority, running, replayed, open, allowed, faults>>

\* on_keep_alive: the silence ends whatever the message says.
Yields(m, d) ==
    \/ role[m] = "INIT" /\ (d.flag \/ priority[d.from] > priority[m])
    \/ role[m] = "MASTER" /\ d.flag
         /\ \/ priority[d.from] > priority[m]
            \/ priority[d.from] = priority[m] /\ IpRank[m] < IpRank[d.from]
OnKeepAlive(m, d) ==
    /\ silence' = [silence EXCEPT ![m] = 0]
    /\ role' = [role EXCEPT ![m] = IF Yields(m, d) THEN "SLAVER" ELSE @]

AcceptAttestation(d, fresh) == fresh \/ d.from \in open[d.to]

\* seal and authenticate: a keyring peer other than this node, addressed to it; a
\* packet that fails its tag is no datagram.
Sealed(d) == d.from \in Members \ {d.to}

BackupFault == faults < MaxFaults /\ faults' = faults + 1

\* The receive arm of run_loop.
Receive(d, fresh) ==
    /\ d.to \in running
    /\ IF Sealed(d) /\ d.from \in allowed[d.to] /\ AcceptAttestation(d, fresh)
       THEN OnKeepAlive(d.to, d) ELSE UNCHANGED <<role, silence>>
    /\ IF fresh THEN flight' = flight \ {d} /\ open' = [open EXCEPT ![d.to] = @ \ {d.from}]
                ELSE UNCHANGED <<flight, open>>
    /\ IF ~fresh /\ d.from \in open[d.to] THEN BackupFault ELSE UNCHANGED faults
    /\ replayed' = replayed \cup {d}
    /\ UNCHANGED <<priority, running, beaten, allowed>>

\* refresh_domains: a failed lookup keeps the old answer, a good one restores the members.
Refresh(m) ==
    /\ m \in running /\ allowed' = [allowed EXCEPT ![m] = Members \ {m}]
    /\ UNCHANGED <<priority, running, role, silence, beaten, flight, replayed, open, faults>>

\* The clock of one keep-alive interval.
Interval ==
    /\ beaten = running /\ \A d \in flight : d.to \notin running
    /\ running # {}
    /\ beaten' = {} /\ flight' = {}
    /\ silence' = [m \in Members |-> IF silence[m] > TimeoutUnits THEN silence[m] ELSE silence[m] + 1]
    /\ UNCHANGED <<priority, running, role, replayed, open, allowed, faults>>

-----------------------------------------------------------------------------
\* The network drops a datagram.
Lose(d) == /\ BackupFault /\ d \in flight /\ flight' = flight \ {d}
           /\ UNCHANGED <<priority, running, role, silence, beaten, replayed, open, allowed>>
\* A lookup answers without one member.
WrongAnswer(m, n) == /\ BackupFault /\ m \in running /\ n \in allowed[m]
                     /\ allowed' = [allowed EXCEPT ![m] = @ \ {n}]
                     /\ UNCHANGED <<priority, running, role, silence, beaten, flight, replayed, open>>
\* close: the worker is joined, the manager keeps its status.
Close(m) == /\ BackupFault /\ m \in running /\ running' = running \ {m} /\ beaten' = beaten \ {m}
            /\ UNCHANGED <<priority, role, silence, flight, replayed, open, allowed>>
\* start after close: a new worker, members resolved again, the old manager and the
\* old authenticator with its window.
Start(m) == /\ m \notin running /\ running' = running \cup {m}
            /\ allowed' = [allowed EXCEPT ![m] = Members \ {m}]
            /\ UNCHANGED <<priority, role, silence, beaten, flight, replayed, open, faults>>
\* A new process: BackupManager::new, and no window yet.
Reboot(m) == /\ m \notin running /\ running' = running \cup {m}
             /\ role' = [role EXCEPT ![m] = "INIT"] /\ silence' = [silence EXCEPT ![m] = 0]
             /\ allowed' = [allowed EXCEPT ![m] = Members \ {m}] /\ open' = [open EXCEPT ![m] = Members]
             /\ UNCHANGED <<priority, beaten, flight, replayed, faults>>

BackupNext ==
    \/ \E m \in Members : Beat(m) \/ Refresh(m) \/ Close(m) \/ Start(m) \/ Reboot(m)
    \/ \E m, n \in Members : WrongAnswer(m, n)
    \/ \E d \in flight : Receive(d, TRUE) \/ Lose(d)
    \/ \E d \in replayed : Receive(d, FALSE)
    \/ Interval

\* The loop of a running member and the delivery of what is not lost keep going.
BackupFairness ==
    /\ WF_backupVars(Interval)
    /\ \A m \in Members : WF_backupVars(Beat(m)) /\ WF_backupVars(Refresh(m))
    /\ \A d \in Datagram : WF_backupVars(d \in flight /\ Receive(d, TRUE))

-----------------------------------------------------------------------------
BackupTypeOK ==
    /\ running \subseteq Members /\ beaten \subseteq running
    /\ role \in [Members -> {"INIT", "SLAVER", "MASTER"}]
    /\ silence \in [Members -> 0..TimeoutUnits + 1]
    /\ flight \subseteq Datagram /\ replayed \subseteq Datagram
    /\ priority \in Priorities /\ open \in [Members -> SUBSET Members]
    /\ allowed \in [Members -> SUBSET Members] /\ faults \in 0..MaxFaults

Masters == {m \in running : role[m] = "MASTER"}

\* Two members of equal priority, the default, wait in INIT: each keep-alive of the one
\* restarts the other's timeout, and neither yields.
Stalemate ==
    \E m, n \in running : m # n /\ priority[m] = priority[n] /\ {role[m], role[n]} = {"INIT"}

(* Fail-over and no split brain: once the faults are over, the running        *)
(* members settle on exactly one MASTER, although stale keep-alives of a dead *)
(* master are delivered again and again; only members of equal priority may   *)
(* keep each other from becoming one.                                         *)
OneMaster == <>[](running # {} => Cardinality(Masters) = 1 \/ Stalemate)
=============================================================================
