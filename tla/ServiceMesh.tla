----------------------------- MODULE ServiceMesh -----------------------------
(***************************************************************************)
(* The service network and the start order of one node                     *)
(* (crates/mc2-server/src/network_serve.rs, networks.rs and the gates of   *)
(* node/lifecycle.rs): splices held on the loopback for exposed ports,     *)
(* host ports reserved for the VMs behind them, backends replaced once per *)
(* pass, names injected into guests, and instances that wait for the       *)
(* services they depend on.                                                *)
(*                                                                         *)
(* Ports are the host's loopback ports: those that services expose, which  *)
(* the splices hold, and the ephemeral ones their VMs publish on.          *)
(***************************************************************************)
EXTENDS Naturals, FiniteSets

CONSTANTS
    Instances, Services,
    ServiceOf,     \* the service of an instance
    Exposed,       \* the port a service exposes, or NoPort
    Networks,      \* the networks a service is on, its stack's included
    DependsOn,     \* what a service waits for: [service, healthy]
    Rank,          \* the order of the services' names
    Probed,        \* services with an active healthcheck
    Ephemeral,     \* host ports the system hands out
    NoPort, Nobody,
    Unresolvable,  \* instances using a secret that may be deleted and set again
    Contested,     \* ports other processes may take
    Reuses,        \* may the system hand out a port the table still remembers?
    MaxFaults      \* bound on failures, exits, crashes and ports taken

PortOf(i) == Exposed[ServiceOf[i]]
Exposing(i) == PortOf(i) # NoPort
Exposable == {Exposed[s] : s \in Services} \ {NoPort}
AllPorts == Exposable \cup Ephemeral

ASSUME Services_ ==
    /\ ServiceOf \in [Instances -> Services]
    /\ Rank \in [Services -> Nat]
    /\ Probed \subseteq Services
    /\ Unresolvable \subseteq Instances
    /\ Contested \subseteq AllPorts
    /\ Reuses \in BOOLEAN /\ MaxFaults \in Nat
\* Claims are exclusive, and an ephemeral port is never an exposed one.
ASSUME PortsDiffer ==
    /\ NoPort \notin Ephemeral /\ Nobody \notin Instances
    /\ Exposable \cap Ephemeral = {}
    /\ \A s, t \in Services : s # t /\ Exposed[s] # NoPort => Exposed[s] # Exposed[t]
\* validate_depends_on: no cycles, and only a probed service is waited for to
\* be healthy.
ASSUME DependenciesValid ==
    /\ DependsOn \in [Services -> SUBSET [service : Services, healthy : BOOLEAN]]
    /\ \A s \in Services : \A d \in DependsOn[s] :
          /\ d.healthy => d.service \in Probed
          /\ \A S \in SUBSET Services : S # {} =>
                \E t \in S : \A e \in DependsOn[t] : e.service \notin S

VARIABLES
    rows,        \* instances with a row bound to this node
    stored,      \* observed state in the store: running, healthy
    vms,         \* the microVMs
    foreign,     \* ports another process holds
    bind,        \* NetworkTable.exposes, and the publish index with it
    hostsKey,    \* NetworkTable.hosts_key: the ports whose names were injected
    splices,     \* NetworkTable.splices: a live task, a finished one, or none
    backends,    \* the shared backend registry
    backoff,     \* is next_restart_ok in the future?
    started,     \* InstanceRuntimeState.started
    well,        \* InstanceRuntimeState.health_ok
    pc, peers, desired, todo,  \* the pass: where it is and its snapshot
    cur, want, fresh,          \* the instance in progress, its configuration
    live,        \* InstanceLiveness
    reports,     \* what the last pass reported, or reports so far
    seenUp,      \* history: the instance has been up since its row was inserted
    lingering,   \* history: ids this process may know from a deleted row
    faults

world  == <<rows, stored, vms, foreign>>
table  == <<bind, hostsKey, splices, backends>>
state  == <<backoff, started, well>>
pass   == <<pc, peers, desired, todo, cur, want, fresh, live, reports>>
history == <<seenUp, lingering>>
vars   == <<world, table, state, pass, history, faults>>

\* A microVM with the egress rule and the publish it was created with, and the
\* peers whose names are in its /etc/hosts.
VMs == [st : {"up", "down"}, rule : SUBSET Exposable,
        pub : Ephemeral \cup {NoPort}, names : SUBSET Exposable]
NoVM == [st |-> "none", rule |-> {}, pub |-> NoPort, names |-> {}]
Up(i) == vms[i].st = "up"

Lives == [running : BOOLEAN, healthy : BOOLEAN]
Down  == [running |-> FALSE, healthy |-> FALSE]
NoKey == {NoPort}
NoWant == [rule |-> {}, pub |-> NoPort]

TypeOK ==
    /\ rows \subseteq Instances
    /\ stored \in [Instances -> Lives]
    /\ vms \in [Instances -> VMs \cup {NoVM}]
    /\ foreign \subseteq AllPorts
    /\ bind \in [Instances -> Ephemeral \cup {NoPort}]
    /\ hostsKey \in [Instances -> (SUBSET Exposable) \cup {NoKey}]
    /\ splices \in [Exposable -> {"none", "live", "finished"}]
    /\ backends \in [Exposable -> SUBSET Ephemeral]
    /\ {backoff, started, well, seenUp} \subseteq [Instances -> BOOLEAN]
    /\ lingering \subseteq Instances
    /\ pc \in {"idle", "listen", "turns", "remove", "ensure", "observe"}
    /\ peers \subseteq Instances /\ desired \subseteq peers /\ todo \subseteq desired
    /\ cur \in Instances \cup {Nobody}
    /\ cur \in Instances <=> pc \in {"remove", "ensure", "observe"}
    /\ cur \in Instances => cur \in todo /\ want.pub = bind[cur]
    /\ want \in [rule : SUBSET Exposable, pub : Ephemeral \cup {NoPort}]
    /\ fresh \in BOOLEAN
    /\ live \in [Instances -> Lives]
    /\ reports \in [Instances -> {"none", "Pending", "Creating", "Running", "Failed"}]
    /\ faults \in Nat

Init ==
    /\ rows = {}
    /\ stored = [i \in Instances |-> Down]
    /\ vms = [i \in Instances |-> NoVM]
    /\ foreign = {}
    /\ bind = [i \in Instances |-> NoPort]
    /\ hostsKey = [i \in Instances |-> NoKey]
    /\ splices = [p \in Exposable |-> "none"]
    /\ backends = [p \in Exposable |-> {}]
    /\ backoff = [i \in Instances |-> FALSE]
    /\ started = [i \in Instances |-> FALSE]
    /\ well = [i \in Instances |-> FALSE]
    /\ pc = "idle" /\ peers = {} /\ desired = {} /\ todo = {}
    /\ cur = Nobody /\ want = NoWant /\ fresh = FALSE
    /\ live = [i \in Instances |-> Down]
    /\ reports = [i \in Instances |-> "none"]
    /\ seenUp = [i \in Instances |-> FALSE] /\ lingering = {}
    /\ faults = 0

Fault == faults < MaxFaults /\ faults' = faults + 1

\* A port somebody listens on.
PublishedBy(i) == IF Up(i) THEN {vms[i].pub} \ {NoPort} ELSE {}
HeldByMC2 == {p \in Exposable : splices[p] = "live"}
Listening == foreign \cup HeldByMC2 \cup UNION {PublishedBy(i) : i \in Instances}

-----------------------------------------------------------------------------
(***************************************************************************)
(* The apply path and the world outside the process.                       *)
(***************************************************************************)

\* check_expose_ports for a port nobody else claims: this stack's own claim,
\* or our own listener, still held after a `down`, excuses it; otherwise
\* nothing may listen on it.
ExposePortFree(i) ==
    \A p \in {PortOf(i)} \ {NoPort} :
        \/ \E j \in rows : ServiceOf[j] = ServiceOf[i]
        \/ splices[p] # "none"
        \/ p \notin Listening

\* A new row has a new id: nothing observed, bound or injected is known of it.
\* (An instance deleted under a pass is not applied again before the pass ends.)
Apply(i) ==
    /\ i \notin rows
    /\ pc = "idle" \/ i \notin peers
    /\ ExposePortFree(i)
    /\ rows' = rows \cup {i}
    /\ stored' = [stored EXCEPT ![i] = Down]
    /\ bind' = [bind EXCEPT ![i] = NoPort]
    /\ hostsKey' = [hostsKey EXCEPT ![i] = NoKey]
    /\ reports' = [reports EXCEPT ![i] = "none"]
    /\ seenUp' = [seenUp EXCEPT ![i] = Up(i)]
    /\ UNCHANGED <<vms, foreign, splices, backends, state, pc, peers,
                   desired, todo, cur, want, fresh, live, lingering, faults>>

Delete(i) ==
    /\ i \in rows
    /\ rows' = rows \ {i}
    /\ lingering' = lingering \cup {i}
    /\ UNCHANGED <<stored, vms, foreign, table, state, pass, seenUp, faults>>

VMExits(i) ==
    /\ Up(i)
    /\ Fault
    /\ vms' = [vms EXCEPT ![i].st = "down"]
    /\ UNCHANGED <<rows, stored, foreign, table, state, pass, history>>

ForeignTakes(p) ==
    /\ p \in Contested \ Listening
    /\ Fault
    /\ foreign' = foreign \cup {p}
    /\ UNCHANGED <<rows, stored, vms, table, state, pass, history>>

ForeignLeaves(p) ==
    /\ p \in foreign
    /\ foreign' = foreign \ {p}
    /\ UNCHANGED <<rows, stored, vms, table, state, pass, history, faults>>

\* splice_loop gives up after MAX_ACCEPT_ERRORS and drops its listener.
SpliceGivesUp(p) ==
    /\ splices[p] = "live"
    /\ Fault
    /\ splices' = [splices EXCEPT ![p] = "finished"]
    /\ UNCHANGED <<world, bind, hostsKey, backends, state, pass, history>>

BackoffElapses(i) ==
    /\ backoff[i]
    /\ backoff' = [backoff EXCEPT ![i] = FALSE]
    /\ UNCHANGED <<world, table, started, well, pass, history, faults>>

\* The server dies and starts again: its listeners close with it.
CrashRestart ==
    /\ Fault
    /\ bind' = [i \in Instances |-> NoPort]
    /\ hostsKey' = [i \in Instances |-> NoKey]
    /\ splices' = [p \in Exposable |-> "none"]
    /\ backends' = [p \in Exposable |-> {}]
    /\ backoff' = [i \in Instances |-> FALSE]
    /\ started' = [i \in Instances |-> FALSE]
    /\ well' = [i \in Instances |-> FALSE]
    /\ pc' = "idle" /\ peers' = {} /\ desired' = {} /\ todo' = {}
    /\ cur' = Nobody /\ want' = NoWant /\ fresh' = FALSE
    /\ live' = [i \in Instances |-> Down]
    /\ reports' = [i \in Instances |-> "none"]
    /\ lingering' = {}
    /\ UNCHANGED <<world, seenUp>>

-----------------------------------------------------------------------------
(***************************************************************************)
(* One reconcile pass.                                                     *)
(***************************************************************************)

\* build_network_desired: the ports of every service, among all the rows, that
\* is the instance's own or shares a network with it.
Reaches(s, t) == s = t \/ Networks[s] \cap Networks[t] # {}
Allows(i) == {PortOf(j) : j \in {j \in peers : Reaches(ServiceOf[i], ServiceOf[j])}}
               \ {NoPort}

\* live_from_store, with the unresolved instances observed as not running.
Observed(l) == [running |-> l.running, healthy |-> l.running /\ l.healthy]
Seed(i) == IF i \in desired' THEN Observed(stored[i]) ELSE Down

\* Snapshot, collection of orphans, pruning, seeding.  A secret may be missing
\* whenever the snapshot looks for it; a failing removal keeps the sandbox and
\* what is remembered of it.
StartPass ==
    /\ pc = "idle"
    /\ peers' = rows
    /\ \E missing \in SUBSET Unresolvable : desired' = rows \ missing
    /\ \E kept \in SUBSET {i \in Instances \ rows : vms[i] # NoVM} :
          LET Pruned(i) == i \notin rows \cup kept
          IN /\ IF kept = {} THEN UNCHANGED faults ELSE Fault
             /\ vms' = [i \in Instances |-> IF Pruned(i) THEN NoVM ELSE vms[i]]
             /\ started' = [i \in Instances |-> started[i] /\ ~Pruned(i)]
             /\ well' = [i \in Instances |-> well[i] /\ ~Pruned(i)]
             /\ backoff' = [i \in Instances |-> backoff[i] /\ ~Pruned(i)]
             /\ lingering' = {i \in lingering : ~Pruned(i)}
    /\ live' = [i \in Instances |-> Seed(i)]
    /\ reports' = [i \in Instances |->
                     IF i \in rows \ desired' THEN "Failed" ELSE "none"]
    /\ pc' = "listen"
    /\ UNCHANGED <<rows, stored, foreign, table, todo, cur, want,
                   fresh, seenUp>>

\* ensure_listeners: splices nobody wants end, live ones stay, the others are
\* bound unless somebody else has the port.
Wanted == {PortOf(i) : i \in desired} \ {NoPort}
ListenerForOnce(p) ==                                               \* mutation
    IF p \notin Wanted THEN "none"
    ELSE IF splices[p] # "none" THEN splices[p]
    ELSE IF p \in Listening THEN "none" ELSE "live"
ListenerFor(p) ==
    IF p \notin Wanted THEN "none"
    ELSE IF splices[p] = "live" THEN "live"
    ELSE IF p \in Listening THEN "none" ELSE "live"
EnsureListeners ==
    /\ pc = "listen"
    /\ splices' = [p \in Exposable |-> ListenerFor(p)]
    /\ todo' = desired
    /\ pc' = "turns"
    /\ UNCHANGED <<world, bind, hostsKey, backends, state, peers, desired, cur,
                   want, fresh, live, reports, history, faults>>

\* Providers first, then by the service's name.
Precedes(i, j) ==
    IF Exposing(i) = Exposing(j) THEN Rank[ServiceOf[i]] < Rank[ServiceOf[j]]
                                 ELSE Exposing(i)
Turn(i) == pc = "turns" /\ i \in todo /\ \A j \in todo : ~Precedes(j, i)

\* InstanceLiveness::service and waiting_deps.
SatisfiedByRow(d) == \E j \in peers : ServiceOf[j] = d.service        \* mutation
Satisfied(d) ==
    \E j \in Instances : /\ ServiceOf[j] = d.service
                         /\ live[j].running
                         /\ d.healthy => \E k \in Instances :
                                /\ ServiceOf[k] = d.service
                                /\ live[k].healthy
Waiting(i) == \E d \in DependsOn[ServiceOf[i]] : ~Satisfied(d)

\* The gate holds back what this process has not seen up and is not up; asking
\* the runtime may fail, which counts as not up.
Held(i) == Waiting(i) /\ ~started[i]
Passes(i) == ~Held(i) \/ Up(i)

\* An instance's turn ends with a report; what is not running has no names.
Conclude(i, phase) ==
    /\ reports' = [reports EXCEPT ![i] = phase]
    /\ live' = [live EXCEPT ![i] = Down]
    /\ todo' = todo \ {i}
    /\ pc' = "turns" /\ cur' = Nobody /\ want' = NoWant
NotRunning(i) == hostsKey' = [hostsKey EXCEPT ![i] = NoKey]

HoldBack(i) ==
    /\ Turn(i) /\ Held(i)
    /\ IF Up(i) THEN Fault ELSE UNCHANGED faults
    /\ Conclude(i, "Pending")
    /\ UNCHANGED <<world, table, state, peers, desired, fresh, history>>

BackOff(i) ==
    /\ Turn(i) /\ Passes(i)
    /\ backoff[i]
    /\ Conclude(i, "Creating")
    /\ NotRunning(i)
    /\ UNCHANGED <<world, bind, splices, backends, state, peers, desired, fresh,
                   history, faults>>

\* listener_gaps: allowed ports on which we have no live listener.
GapsInFailedBinds(i) == {p \in Allows(i) \cap Wanted : splices[p] = "none"}  \* mutation
Gaps(i) == {p \in Allows(i) : splices[p] # "live"}

\* prepare_exposes: the port bound before, or one the system hands out.
Remembered == {bind[j] : j \in Instances} \cup UNION {backends[p] : p \in Exposable}
HandedOut(h) == h \notin Listening /\ (Reuses \/ h \notin Remembered)
BindingFor(i) ==
    IF ~Exposing(i) THEN {NoPort}
    ELSE IF bind[i] # NoPort THEN {bind[i]}
    ELSE {h \in Ephemeral : HandedOut(h)}

RefuseToStart(i) ==
    /\ Turn(i) /\ Passes(i) /\ ~backoff[i]
    /\ Gaps(i) # {} \/ BindingFor(i) = {}
    /\ Conclude(i, "Failed")
    /\ NotRunning(i)
    /\ UNCHANGED <<world, bind, splices, backends, state, peers, desired, fresh,
                   history, faults>>

\* recreate_decision, whose hash is the configuration of the VM there is
\* (NodeReconcile!HashTruthful), and the host_ports_accepting probe, which any
\* listener answers.
Differs(i, c) == vms[i] # NoVM /\ (vms[i].rule # c.rule \/ vms[i].pub # c.pub)
Silent(c) == c.pub # NoPort /\ c.pub \notin Listening

\* A forced recreate drops what is bound and injected and prepares again: it
\* finds the port it had, by now among the instance's published ports.
PreparedOnce(forced, h) == IF forced THEN NoPort ELSE h              \* mutation
Prepared(forced, h) == h
BeginTurn(i) ==
    /\ Turn(i) /\ Passes(i) /\ ~backoff[i]
    /\ Gaps(i) = {}
    /\ \E h \in BindingFor(i) :
          LET c == [rule |-> Allows(i), pub |-> h]
              forced == Differs(i, c) \/ Silent(c)
          IN /\ bind' = [bind EXCEPT ![i] = Prepared(forced, h)]
             /\ want' = c
             /\ IF forced
                THEN pc' = "remove" /\ NotRunning(i)
                ELSE pc' = "ensure" /\ UNCHANGED hostsKey
    /\ cur' = i
    /\ fresh' = FALSE
    /\ UNCHANGED <<world, splices, backends, state, peers, desired, todo, live,
                   reports, history, faults>>

RemoveForRecreate ==
    /\ pc = "remove"
    /\ \/ /\ vms' = [vms EXCEPT ![cur] = NoVM]
          /\ well' = [well EXCEPT ![cur] = FALSE]
          /\ pc' = "ensure"
          /\ UNCHANGED <<cur, want, todo, live, reports, faults>>
       \/ /\ Fault
          /\ Conclude(cur, "Failed")
          /\ UNCHANGED <<vms, well>>
    /\ UNCHANGED <<rows, stored, foreign, table, backoff, started,
                   peers, desired, fresh, history>>

\* ensure_running.  A new VM boots with the hosts file of its image; a stopped
\* one is started again, a crashed one replaced.
Available(c) == c.pub \notin Listening
NewVM(c) == [st |-> "up", rule |-> c.rule, pub |-> c.pub, names |-> {}]
Booted(i) == {NewVM(want)} \cup (IF vms[i] = NoVM THEN {} ELSE {[vms[i] EXCEPT !.st = "up"]})
FindRunning ==
    /\ pc = "ensure" /\ Up(cur)
    /\ pc' = "observe"
    /\ started' = [started EXCEPT ![cur] = TRUE]
    /\ UNCHANGED <<world, table, backoff, well, peers, desired, todo, cur, want,
                   fresh, live, reports, history, faults>>
BringUp ==
    /\ pc = "ensure" /\ ~Up(cur)
    /\ Available(want)
    /\ \E v \in Booted(cur) : vms' = [vms EXCEPT ![cur] = v]
    /\ seenUp' = [seenUp EXCEPT ![cur] = TRUE]
    /\ started' = [started EXCEPT ![cur] = TRUE]
    /\ well' = [well EXCEPT ![cur] = FALSE]
    /\ backoff' = [backoff EXCEPT ![cur] = vms[cur] # NoVM]
    /\ fresh' = TRUE
    /\ pc' = "observe"
    /\ UNCHANGED <<rows, stored, foreign, table, peers, desired, todo,
                   cur, want, live, reports, lingering, faults>>
FailToBringUp ==
    /\ pc = "ensure" /\ ~Up(cur)
    /\ IF Available(want) THEN Fault ELSE UNCHANGED faults
    /\ backoff' = [backoff EXCEPT ![cur] = TRUE]
    /\ Conclude(cur, "Failed")
    /\ NotRunning(cur)
    /\ UNCHANGED <<world, bind, splices, backends, started, well, peers, desired,
                   fresh, history>>

\* handle_health_failure: removed and created again within the turn, under the
\* same configuration; what is remembered of its guest stays.
ReplaceUnhealthy ==
    /\ pc = "observe" /\ ~fresh
    /\ ServiceOf[cur] \in Probed
    /\ Available(want) \/ Up(cur)
    /\ Fault
    /\ vms' = [vms EXCEPT ![cur] = NewVM(want)]
    /\ well' = [well EXCEPT ![cur] = FALSE]
    /\ backoff' = [backoff EXCEPT ![cur] = TRUE]
    /\ fresh' = TRUE
    /\ UNCHANGED <<rows, stored, foreign, table, started, pc, peers,
                   desired, todo, cur, want, live, reports, history>>

\* run_healthcheck: a VM that was there before this turn passes its probe, or
\* fails it or is late (both are failures of the guest).
Verdict ==
    IF fresh \/ ServiceOf[cur] \notin Probed
    THEN UNCHANGED <<well, faults>>
    ELSE \/ well' = [well EXCEPT ![cur] = TRUE] /\ UNCHANGED faults
         \/ well' = [well EXCEPT ![cur] = FALSE] /\ Fault

\* reconcile_running: an edge is ready when its listener and a backend are;
\* inject_hosts writes the names of the ready edges unless it wrote the same
\* ones before.  The guest's shell answers only while the VM runs.
ReadyEdges == {p \in want.rule : splices[p] = "live" /\ backends[p] # {}}
InjectHosts ==
    IF ReadyEdges # {} /\ hostsKey[cur] # ReadyEdges /\ Up(cur)
    THEN /\ vms' = [vms EXCEPT ![cur].names = ReadyEdges]
         /\ hostsKey' = [hostsKey EXCEPT ![cur] = ReadyEdges]
    ELSE UNCHANGED <<vms, hostsKey>>

ObserveRunning ==
    /\ pc = "observe"
    /\ Verdict
    /\ InjectHosts
    /\ reports' = [reports EXCEPT ![cur] = "Running"]
    /\ live' = [live EXCEPT ![cur] = [running |-> TRUE, healthy |-> well'[cur]]]
    /\ todo' = todo \ {cur}
    /\ pc' = "turns" /\ cur' = Nobody /\ want' = NoWant
    /\ UNCHANGED <<rows, stored, foreign, bind, splices, backends,
                   backoff, started, peers, desired, fresh, history>>

\* update_backends, close_missing and the observed-state writes.
BackendsOfAnyPort(p) == {bind[i] : i \in desired} \ {NoPort}          \* mutation
BackendsOf(p) ==
    {bind[i] : i \in {i \in desired : PortOf(i) = p /\ reports[i] = "Running"}}
      \ {NoPort}
Report(i) == [running |-> reports[i] = "Running", healthy |-> well[i]]

EndPass ==
    /\ pc = "turns" /\ todo = {}
    /\ backends' = [p \in Exposable |-> BackendsOf(p)]
    /\ bind' = [i \in Instances |-> IF i \in desired THEN bind[i] ELSE NoPort]
    /\ hostsKey' = [i \in Instances |-> IF i \in desired THEN hostsKey[i] ELSE NoKey]
    /\ stored' = [i \in Instances |->
                    IF i \in rows \cap peers THEN Report(i) ELSE stored[i]]
    /\ pc' = "idle" /\ peers' = {} /\ desired' = {} /\ fresh' = FALSE
    /\ live' = [i \in Instances |-> Down]
    /\ UNCHANGED <<rows, vms, foreign, splices, state, todo, cur, want,
                   reports, history, faults>>

-----------------------------------------------------------------------------
Operator == \E i \in Instances : Apply(i) \/ Delete(i)

World == \/ \E i \in Instances : VMExits(i) \/ BackoffElapses(i)
         \/ \E p \in AllPorts : ForeignTakes(p) \/ ForeignLeaves(p)
         \/ \E p \in Exposable : SpliceGivesUp(p)
         \/ CrashRestart

PassStep ==
    \/ StartPass
    \/ EnsureListeners
    \/ \E i \in Instances : HoldBack(i) \/ BackOff(i) \/ RefuseToStart(i) \/ BeginTurn(i)
    \/ RemoveForRecreate
    \/ FindRunning
    \/ BringUp
    \/ FailToBringUp
    \/ ReplaceUnhealthy
    \/ ObserveRunning
    \/ EndPass

Next == Operator \/ World \/ PassStep

Spec == Init /\ [][Next]_vars

\* The ticker keeps starting passes, every call of a pass returns, time passes.
Fairness ==
    /\ WF_vars(PassStep)
    /\ \A i \in Instances : WF_vars(BackoffElapses(i))

FairSpec == Spec /\ Fairness

-----------------------------------------------------------------------------
(***************************************************************************)
(* Properties.                                                             *)
(***************************************************************************)

\* Fail closed (A3): a microVM the last pass confirmed was given, and still
\* has, egress only to ports whose listener that pass had bound itself.  A
\* listener that gave up since is bound again by the next pass
\* (network_serve.rs:179-276, lifecycle.rs:93-131).
FailClosed ==
    \A i \in Instances :
        reports[i] = "Running" /\ Up(i) =>
            \A p \in vms[i].rule : splices[p] # "none"

\* The publish index the backends are built from names the port the VM really
\* publishes, through reuse, recreation and health replacement: otherwise a
\* splice sends the service's clients nowhere (network_serve.rs:116-177,
\* lifecycle.rs:133-190).  A turn keeps the binding it began with (TypeOK).
BindingsTrue ==
    /\ TypeOK
    /\ \A i \in Instances :
        i \in rows /\ reports[i] = "Running" /\ Up(i) => bind[i] = vms[i].pub

\* A connection accepted on an exposed port goes to a VM of the port's owner or
\* nowhere, also between passes, when VMs behind the registry are gone
\* (network_serve.rs:231-276, 518-560).
RoutesToOwner ==
    \A p \in Exposable : \A i \in Instances :
        PublishedBy(i) \cap backends[p] # {} => PortOf(i) = p

\* The first time a VM of a row comes up, the services it waits for have been up
\* since their own rows were inserted: what the store remembers of earlier rows,
\* and what other processes did, never opens the gate.  What this process
\* remembers does in one case, which the property names: the state it keeps per
\* runtime id is dropped only by a pass that finds both the row and the VM gone,
\* so a row deleted and inserted again before such a pass inherits `started`
\* (lifecycle.rs:39-64, node/state.rs:104-150, node/mod.rs:203-220, 362-383).
Inherits(i) == i \in lingering /\ started[i]
DependenciesFirst ==
    [][\A i \in Instances :
          /\ vms[i] = NoVM /\ vms'[i] # NoVM /\ ~seenUp[i] /\ ~Inherits(i)
          => \A d \in DependsOn[ServiceOf[i]] :
                \E j \in Instances : ServiceOf[j] = d.service /\ seenUp[j]]_vars

\* No start order, splice, port or backoff keeps an instance out for good: when
\* rows, secrets and other processes settle, its VM runs and serves its port
\* (lifecycle.rs:30-400, network_serve.rs:179-276).
Settled == /\ rows = Instances
           /\ pc # "idle" => desired = peers
           /\ foreign = {}
Served(i) == Up(i) /\ (Exposing(i) => vms[i].pub \in backends[PortOf(i)])
EventuallyServed == <>[]Settled => \A i \in Instances : <>[]Served(i)

\* A guest the last pass reported running has the names that pass took to be in
\* its /etc/hosts (network_serve.rs:492).
NamesInGuest ==
    \A i \in Instances :
        reports[i] = "Running" /\ Up(i) /\ hostsKey[i] # NoKey =>
            vms[i].names = hostsKey[i]
=============================================================================
