---------------------------- MODULE NodeReconcile ----------------------------
(***************************************************************************)
(* The node reconcile loop (crates/mc2-server/src/node): ownership of      *)
(* microVMs, garbage collection, the recreate decision and its persisted   *)
(* hash, interleaved with the apply path, with microVMs that exit, with    *)
(* other users of the microsandbox store, and with server crashes.         *)
(*                                                                         *)
(* A slot is a runtime id (stack, service, ordinal): it names at most one  *)
(* instance row and at most one sandbox.                                   *)
(***************************************************************************)
EXTENDS Naturals, FiniteSets, SandboxRuntime

CONSTANTS
    Slots,         \* runtime ids
    Ids, NoId,     \* instance ids (uuid v4)
    NoSlot,
    Exposing,      \* slots whose service has an `expose` list
    NoRestart,     \* slots whose policy is `restart: no`
    Gated,         \* slots with `depends_on` or `allows` edges
    Probed,        \* slots with an active healthcheck
    Sluggish,      \* exposing slots whose live ports may miss the 200 ms probe
    Unresolvable,  \* slots using a secret that may be deleted and set again
    Contested,     \* names another microsandbox user may take
    TornWrites,    \* may the applied hash of a new VM fail to reach the store?
    MaxFaults      \* bound on failures, exits and crashes

ASSUME SlotSubsets ==
    /\ Exposing \subseteq Slots /\ NoRestart \subseteq Slots
    /\ Gated \subseteq Slots /\ Probed \subseteq Slots /\ Sluggish \subseteq Exposing
    /\ Unresolvable \subseteq Slots /\ Contested \subseteq Slots
ASSUME Sentinels ==
    /\ NoId \notin Ids /\ NoSlot \notin Slots
ASSUME Switches ==
    /\ TornWrites \in BOOLEAN /\ MaxFaults \in Nat

VARIABLES
    rows,        \* the store's instance row of each slot
    applying,    \* apply holds its lock, plan committed, scheduler still to run
    resolvable,  \* does the slot's desired state resolve (secrets present)?
    vms,         \* the sandbox holding each runtime id
    owned,       \* NodeRuntimeState.owned
    seeded,      \* NodeRuntimeState.owned_seeded
    hash,        \* InstanceRuntimeState.spec_hash
    backoff,     \* is InstanceRuntimeState.next_restart_ok in the future?
    binding,     \* NetworkTable.exposes: the slot's publish, by instance id
    pc,          \* where the pass is
    snap,        \* the pass's desired set
    stale,       \* owned ids the pass still has to collect
    todo,        \* desired instances the pass still has to reconcile
    cur,         \* the instance being reconciled
    want,        \* its configuration, fingerprinted by desired_recreate_hash
    faults       \* failures so far

store  == <<rows, applying, resolvable>>
memory == <<owned, seeded, hash, backoff, binding>>
pass   == <<pc, snap, stale, todo, cur, want>>
vars   == <<store, vms, memory, pass, faults>>

Rows == [id : Ids, spec : Specs, bound : BOOLEAN, applied : Cfgs \cup {NoCfg}]
NoRow == [id |-> NoId, spec |-> NoSpec, bound |-> FALSE, applied |-> NoCfg]
HasRow(s) == rows[s].id # NoId

Snaps  == [kind : {"desired", "failed"}, id : Ids, spec : Specs]
Absent == [kind |-> "absent", id |-> NoId, spec |-> NoSpec]

Bindings  == [id : Ids, port : Ports]
NoBinding == [id |-> NoId, port |-> NoPort]

\* The steps of one instance's turn.
Working == {"remove", "ensure", "persist", "health", "revive"}

TypeOK ==
    /\ rows \in [Slots -> Rows \cup {NoRow}]
    /\ applying \in BOOLEAN
    /\ resolvable \in [Slots -> BOOLEAN]
    /\ vms \in [Slots -> VMs]
    /\ owned \in SUBSET Slots
    /\ seeded \in BOOLEAN
    /\ hash \in [Slots -> Cfgs \cup {NoCfg}]
    /\ backoff \in [Slots -> BOOLEAN]
    /\ binding \in [Slots -> Bindings \cup {NoBinding}]
    /\ pc \in {"idle", "build", "gc", "next"} \cup Working
    /\ snap \in [Slots -> Snaps \cup {Absent}]
    /\ stale \in SUBSET Slots
    /\ todo \in SUBSET {s \in Slots : snap[s].kind = "desired"}
    /\ pc \in {"idle", "build", "gc"} => todo = {}
    /\ cur \in Slots \cup {NoSlot}
    /\ cur # NoSlot <=> pc \in Working
    /\ want \in Cfgs \cup {NoCfg}
    /\ pc \in Working => cur \in todo /\ want \in Cfgs
    /\ faults \in Nat

Init ==
    /\ rows = [s \in Slots |-> NoRow]
    /\ applying = FALSE
    /\ resolvable = [s \in Slots |-> TRUE]
    /\ vms = [s \in Slots |-> NoVM]
    /\ owned = {}
    /\ seeded = FALSE
    /\ hash = [s \in Slots |-> NoCfg]
    /\ backoff = [s \in Slots |-> FALSE]
    /\ binding = [s \in Slots |-> NoBinding]
    /\ pc = "idle"
    /\ snap = [s \in Slots |-> Absent]
    /\ stale = {}
    /\ todo = {}
    /\ cur = NoSlot
    /\ want = NoCfg
    /\ faults = 0

Fault == faults < MaxFaults /\ faults' = faults + 1

\* Failures are bounded; a call that needed none leaves the count alone.
Spend(r) == IF r.fault THEN Fault ELSE UNCHANGED faults

-----------------------------------------------------------------------------
(***************************************************************************)
(* The apply path: `mc2 up`, `mc2 down`, secrets.                          *)
(***************************************************************************)

\* A new row gets an id nothing in the process still refers to.
FreshIdsReused(s) == Ids                                          \* mutation
FreshIds(s) == Ids \ {rows[s].id, snap[s].id, binding[s].id}

\* commit_stack_plan for one instance: a row that exists keeps its id,
\* placement and applied hash; a new one starts unbound.
Apply(s, x) ==
    /\ ~applying
    /\ applying' = TRUE
    /\ \/ /\ HasRow(s)
          /\ rows' = [rows EXCEPT ![s].spec = x]
       \/ /\ ~HasRow(s)
          /\ \E i \in FreshIds(s) :
                rows' = [rows EXCEPT ![s] =
                    [id |-> i, spec |-> x, bound |-> FALSE, applied |-> NoCfg]]
    /\ UNCHANGED <<resolvable, vms, memory, pass, faults>>

\* run_scheduler, called only by apply after its commit: binds every pending row.
Schedule ==
    /\ applying
    /\ applying' = FALSE
    /\ rows' = [s \in Slots |-> IF HasRow(s) THEN [rows[s] EXCEPT !.bound = TRUE]
                                             ELSE rows[s]]
    /\ UNCHANGED <<resolvable, vms, memory, pass, faults>>

\* delete_stack, and an apply that no longer plans the instance.
Delete(s) ==
    /\ ~applying
    /\ HasRow(s)
    /\ rows' = [rows EXCEPT ![s] = NoRow]
    /\ UNCHANGED <<applying, resolvable, vms, memory, pass, faults>>

\* A secret the service uses is deleted, or set again.
FlipSecret(s) ==
    /\ s \in Unresolvable
    /\ resolvable' = [resolvable EXCEPT ![s] = ~@]
    /\ UNCHANGED <<rows, applying, vms, memory, pass, faults>>

-----------------------------------------------------------------------------
(***************************************************************************)
(* The world outside the process.                                          *)
(***************************************************************************)

\* A microVM's command exits or the VM crashes.
VMExits(s) ==
    /\ Running(vms[s])
    /\ \E p \in {"stopped", "failed"} : vms' = [vms EXCEPT ![s].phase = p]
    /\ Fault
    /\ UNCHANGED <<store, memory, pass>>

\* Another microsandbox user takes a free name, and gives it back.
ForeignTakes(s) ==
    /\ s \in Contested
    /\ vms[s] = NoVM
    /\ vms' = [vms EXCEPT ![s] = ForeignVM]
    /\ UNCHANGED <<store, memory, pass, faults>>

ForeignLeaves(s) ==
    /\ vms[s].own = "foreign"
    /\ vms' = [vms EXCEPT ![s] = NoVM]
    /\ UNCHANGED <<store, memory, pass, faults>>

\* Time passes next_restart_ok.
BackoffElapses(s) ==
    /\ backoff[s]
    /\ backoff' = [backoff EXCEPT ![s] = FALSE]
    /\ UNCHANGED <<store, vms, owned, seeded, hash, binding, pass, faults>>

\* The server dies and starts again: the store and the detached VMs stay, the
\* process's memory does not.  Without TornWrites it never dies between a VM's
\* creation and the write of its applied hash.
CrashRestart ==
    /\ pc = "persist" => TornWrites
    /\ Fault
    /\ applying' = FALSE
    /\ owned' = {}
    /\ seeded' = FALSE
    /\ hash' = [s \in Slots |-> NoCfg]
    /\ backoff' = [s \in Slots |-> FALSE]
    /\ binding' = [s \in Slots |-> NoBinding]
    /\ pc' = "idle"
    /\ snap' = [s \in Slots |-> Absent]
    /\ stale' = {}
    /\ todo' = {}
    /\ cur' = NoSlot
    /\ want' = NoCfg
    /\ UNCHANGED <<rows, resolvable, vms>>

-----------------------------------------------------------------------------
(***************************************************************************)
(* One reconcile pass.                                                     *)
(***************************************************************************)

\* A tick starts a pass with ensure_owned_seeded.  (When list_owned fails the
\* pass ends having changed nothing: a stuttering step.)
StartPass ==
    /\ pc = "idle"
    /\ pc' = "build"
    /\ owned' = IF seeded THEN owned ELSE {s \in Slots : Ours(vms[s])}
    /\ seeded' = TRUE
    /\ UNCHANGED <<store, vms, hash, backoff, binding, snap, stale, todo, cur,
                   want, faults>>

\* build_desired_set over the rows bound to this node, then gc_orphans' stale
\* set: owned ids that are neither desired nor unresolved.
Observe(s) ==
    IF rows[s].bound
    THEN [kind |-> IF resolvable[s] THEN "desired" ELSE "failed",
          id |-> rows[s].id, spec |-> rows[s].spec]
    ELSE Absent

StaleOwnedFailuresToo == {s \in owned : Observe(s).kind # "desired"}  \* mutation
StaleOwned == {s \in owned : Observe(s).kind = "absent"}

BuildDesiredSet ==
    /\ pc = "build"
    /\ snap' = [s \in Slots |-> Observe(s)]
    /\ stale' = StaleOwned
    /\ pc' = "gc"
    /\ UNCHANGED <<store, vms, memory, todo, cur, want, faults>>

\* gc_orphans, one id: only a successful removal gives up ownership.
CollectOrphan(s) ==
    /\ pc = "gc"
    /\ s \in stale
    /\ stale' = stale \ {s}
    /\ \E r \in RemoveResults(vms[s]) :
          /\ Spend(r)
          /\ vms' = [vms EXCEPT ![s] = r.vm]
          /\ \/ /\ r.outcome = "Ok"
                /\ owned' = owned \ {s}
                /\ hash' = [hash EXCEPT ![s] = NoCfg]
                /\ backoff' = [backoff EXCEPT ![s] = FALSE]
             \/ /\ r.outcome = "Err"
                /\ UNCHANGED <<owned, hash, backoff>>
    /\ UNCHANGED <<store, seeded, binding, pc, snap, todo, cur, want>>

\* After the collection: prune the state of ids neither kept nor owned, then
\* walk the desired instances.  A failing live_from_store aborts the pass here.
Kept(s) == snap[s].kind # "absent" \/ s \in owned

FinishGC ==
    /\ pc = "gc"
    /\ stale = {}
    /\ hash' = [s \in Slots |-> IF Kept(s) THEN hash[s] ELSE NoCfg]
    /\ backoff' = [s \in Slots |-> Kept(s) /\ backoff[s]]
    /\ \/ /\ pc' = "next"
          /\ todo' = {s \in Slots : snap[s].kind = "desired"}
          /\ UNCHANGED <<snap, faults>>
       \/ /\ Fault
          /\ pc' = "idle"
          /\ snap' = [s \in Slots |-> Absent]
          /\ UNCHANGED todo
    /\ UNCHANGED <<store, vms, owned, seeded, binding, stale, cur, want>>

\* prepare_exposes: a port already bound for this instance is reused, otherwise
\* an ephemeral one is reserved, which no live VM can be publishing.
FreePorts == {p \in Ports : \A t \in Slots : Running(vms[t]) => vms[t].cfg.port # p}
BindingFor(s) ==
    IF s \notin Exposing THEN {NoBinding}
    ELSE IF binding[s].id = snap[s].id THEN {binding[s]}
    ELSE [id : {snap[s].id}, port : FreePorts]

\* The early returns of reconcile_instance: the depends_on gate, the backoff
\* gate, a missing listener, or no port to reserve.
HoldInstance(s) ==
    /\ pc = "next"
    /\ s \in todo
    /\ s \in Gated \/ backoff[s] \/ BindingFor(s) = {}
    /\ todo' = todo \ {s}
    /\ UNCHANGED <<store, vms, memory, pc, snap, stale, cur, want, faults>>

\* The persisted hash of the instance the pass is working on.
AppliedOf(s) == IF rows[s].id = snap[s].id THEN rows[s].applied ELSE NoCfg

\* recreate_decision: the in-memory hash decides when there is one; otherwise
\* an owned sandbox is adopted only when its persisted hash matches.
RecreateDecisionAdoptedOnly(s, c) ==                             \* mutation
    hash[s] = NoCfg /\ s \in owned /\ AppliedOf(s) # c
RecreateDecision(s, c) ==
    IF hash[s] # NoCfg THEN hash[s] # c
    ELSE s \in owned /\ AppliedOf(s) # c

\* host_ports_accepting, probed for instances that publish exposed ports.  A
\* port that is live may still miss the probe's deadline (PrepareInstance).
HostPortsDead(s, c) ==
    s \in Exposing /\ ~(Running(vms[s]) /\ vms[s].cfg.port = c.port)

\* Prepare the ports, fingerprint the configuration, decide on a recreate.  The
\* decision's store read may fail: that aborts this instance only.
PrepareInstance(s) ==
    /\ pc = "next"
    /\ s \in todo
    /\ ~backoff[s]
    /\ \E b \in BindingFor(s) :
          LET c == [spec |-> snap[s].spec, port |-> b.port]
          IN /\ binding' = [binding EXCEPT ![s] = b]
             /\ \/ /\ cur' = s
                   /\ want' = c
                   /\ UNCHANGED todo
                   /\ \/ /\ pc' = IF RecreateDecision(s, c) \/ HostPortsDead(s, c)
                                  THEN "remove" ELSE "ensure"
                         /\ UNCHANGED faults
                      \/ /\ s \in Sluggish
                         /\ Fault
                         /\ pc' = "remove"
                \/ /\ hash[s] = NoCfg /\ s \in owned
                   /\ Fault
                   /\ todo' = todo \ {s}
                   /\ UNCHANGED <<cur, want, pc>>
    /\ UNCHANGED <<store, vms, owned, seeded, hash, backoff, snap, stale>>

\* This instance is done for the pass.
LeaveInstance ==
    /\ pc' = "next"
    /\ todo' = todo \ {cur}
    /\ cur' = NoSlot
    /\ want' = NoCfg

\* The force_recreate branch.  A failed removal keeps the ownership and the
\* hash of the VM that is still there and ends the instance's turn.
RemoveForRecreate ==
    /\ pc = "remove"
    /\ \E r \in RemoveResults(vms[cur]) :
          /\ Spend(r)
          /\ vms' = [vms EXCEPT ![cur] = r.vm]
          /\ \/ /\ r.outcome = "Ok"
                /\ owned' = owned \ {cur}
                /\ hash' = [hash EXCEPT ![cur] = NoCfg]
                /\ pc' = "ensure"
                /\ UNCHANGED <<todo, cur, want>>
             \/ /\ r.outcome = "Err"
                /\ LeaveInstance
                /\ UNCHANGED <<owned, hash>>
    /\ UNCHANGED <<store, seeded, backoff, binding, snap, stale>>

\* ensure_running and the bookkeeping that follows it.
EnsureInstance ==
    /\ pc = "ensure"
    /\ \E r \in EnsureResults(vms[cur], want, cur \in NoRestart) :
          /\ Spend(r)
          /\ vms' = [vms EXCEPT ![cur] = r.vm]
          /\ \/ /\ r.outcome # "Err"
                /\ owned' = owned \cup {cur}
                /\ hash' = [hash EXCEPT ![cur] = want]
                /\ backoff' = [backoff EXCEPT ![cur] =
                                 r.outcome = "Restarted" /\ cur \notin NoRestart]
                /\ pc' = "persist"
                /\ UNCHANGED <<todo, cur, want>>
             \/ /\ r.outcome = "Err"
                /\ backoff' = [backoff EXCEPT ![cur] = cur \notin NoRestart]
                /\ LeaveInstance
                /\ UNCHANGED <<owned, hash>>
    /\ UNCHANGED <<store, seeded, binding, snap, stale>>

\* set_instance_applied_hash, by instance id: a row deleted meanwhile is
\* NotFound.  A failed write is recorded and the pass goes on.
PersistHash ==
    /\ pc = "persist"
    /\ \/ /\ rows' = IF rows[cur].id = snap[cur].id
                     THEN [rows EXCEPT ![cur].applied = want] ELSE rows
          /\ UNCHANGED faults
       \/ /\ TornWrites
          /\ Fault
          /\ UNCHANGED rows
    /\ pc' = "health"
    /\ UNCHANGED <<applying, resolvable, vms, memory, snap, stale, todo, cur, want>>

\* run_healthcheck finds nothing to do.
PassHealth ==
    /\ pc = "health"
    /\ LeaveInstance
    /\ UNCHANGED <<store, vms, memory, snap, stale, faults>>

\* handle_health_failure: remove, then create again whatever the removal said.
FailHealth ==
    /\ pc = "health"
    /\ cur \in Probed \ NoRestart
    /\ Ours(vms[cur])
    /\ Fault
    /\ \E r \in RemoveResults(vms[cur]) : vms' = [vms EXCEPT ![cur] = r.vm]
    /\ backoff' = [backoff EXCEPT ![cur] = TRUE]
    /\ pc' = "revive"
    /\ UNCHANGED <<store, owned, seeded, hash, binding, snap, stale, todo, cur, want>>

ReviveUnhealthy ==
    /\ pc = "revive"
    /\ \E r \in EnsureResults(vms[cur], want, FALSE) :
          /\ Spend(r)
          /\ vms' = [vms EXCEPT ![cur] = r.vm]
    /\ LeaveInstance
    /\ UNCHANGED <<store, memory, snap, stale>>

\* close_missing drops the expose bindings of every instance not desired; the
\* observed-state writes that follow are left out.
EndPass ==
    /\ pc = "next"
    /\ todo = {}
    /\ binding' = [s \in Slots |->
                     IF snap[s].kind = "desired" /\ binding[s].id = snap[s].id
                     THEN binding[s] ELSE NoBinding]
    /\ snap' = [s \in Slots |-> Absent]
    /\ pc' = "idle"
    /\ UNCHANGED <<store, vms, owned, seeded, hash, backoff, stale, todo, cur,
                   want, faults>>

-----------------------------------------------------------------------------
Operator == \/ \E s \in Slots : \/ \E x \in Specs : Apply(s, x)
                                \/ Delete(s)
                                \/ FlipSecret(s)
            \/ Schedule

World == \/ \E s \in Slots : \/ VMExits(s)
                             \/ ForeignTakes(s)
                             \/ ForeignLeaves(s)
                             \/ BackoffElapses(s)
         \/ CrashRestart

PassStep ==
    \/ StartPass
    \/ BuildDesiredSet
    \/ \E s \in Slots : \/ CollectOrphan(s)
                        \/ HoldInstance(s)
                        \/ PrepareInstance(s)
    \/ FinishGC
    \/ RemoveForRecreate
    \/ EnsureInstance
    \/ PersistHash
    \/ PassHealth
    \/ FailHealth
    \/ ReviveUnhealthy
    \/ EndPass

Next == Operator \/ World \/ PassStep

Spec == Init /\ [][Next]_vars

\* The ticker keeps starting passes and a pass keeps advancing; an apply handler
\* finishes; clocks advance.  Nothing is assumed of users, VMs or failures.
Fairness ==
    /\ WF_vars(PassStep)
    /\ WF_vars(Schedule)
    /\ \A s \in Slots : WF_vars(BackoffElapses(s))

FairSpec == Spec /\ Fairness

-----------------------------------------------------------------------------
(***************************************************************************)
(* Properties.                                                             *)
(***************************************************************************)

\* Once ownership is recovered, every sandbox this install created is owned, so
\* no pass can lose one: gc_orphans can still find it and recreate_decision
\* still checks it (B2; node/mod.rs:328-352, lifecycle.rs:222 and 236).
OwnershipComplete ==
    seeded => \A s \in Slots : Ours(vms[s]) => s \in owned

\* The configuration the process believes a sandbox runs is the one it runs,
\* through failed removals, restarts by the backend, health recreates and
\* adoption after a server restart (B3; lifecycle.rs:180-222, 236-242, 409-425).
HashTruthful ==
    \A s \in Slots : Ours(vms[s]) /\ hash[s] # NoCfg => vms[s].cfg = hash[s]

\* The strengthening of the two: what the process and the store know of a
\* sandbox agrees with it at every step of a pass.
AppliedTruthful ==
    \A s \in Slots :
        /\ Ours(vms[s]) /\ rows[s].applied # NoCfg
        /\ ~(pc = "persist" /\ cur = s /\ rows[s].id = snap[s].id)
        => vms[s].cfg = rows[s].applied

\* A row inserted since the snapshot was taken has no applied hash yet.
NewRowsBlank ==
    \A s \in Slots :
        snap[s].kind # "absent" /\ rows[s].id # snap[s].id => rows[s].applied = NoCfg

TurnConsistent ==
    /\ pc # "idle" => seeded
    /\ pc \in Working =>
          want.spec = snap[cur].spec
    /\ pc \in Working \ {"remove"} /\ Ours(vms[cur]) => vms[cur].cfg = want
    /\ pc \in {"persist", "health", "revive"} => cur \in owned /\ hash[cur] = want
    /\ pc \in {"health", "revive"} /\ rows[cur].id = snap[cur].id =>
          rows[cur].applied = want

\* The inductive invariant behind HashTruthful (lifecycle.rs:150-242, 409-425).
IInv ==
    /\ TypeOK
    /\ OwnershipComplete
    /\ HashTruthful
    /\ AppliedTruthful
    /\ NewRowsBlank
    /\ TurnConsistent

\* A pass never changes a sandbox someone else created, even when it takes the
\* name between two steps of a recreate (msb_sdk.rs:295-312).
ForeignUntouched ==
    [][pass' # pass =>
          \A s \in Slots : vms[s].own = "foreign" => vms'[s] = vms[s]]_vars

\* A pass that could not resolve an instance's desired state leaves its sandbox
\* alone (B4; node/mod.rs:211-218, desired.rs:17-23).
UnresolvedKept ==
    [][pass' # pass =>
          \A s \in Slots : snap[s].kind = "failed" => vms'[s] = vms[s]]_vars

\* Apart from a failed healthcheck, no pass takes down a running sandbox whose
\* instance still asks for the spec the store says it was created from: not
\* after a server restart, not after its desired state failed to resolve for a
\* while (lifecycle.rs:150-179, desired.rs:17-23).
Satisfied(s) ==
    /\ Running(vms[s])
    /\ snap[s].kind = "desired"
    /\ vms[s].cfg.spec = snap[s].spec
    /\ AppliedOf(s) = vms[s].cfg

NoNeedlessRecreate ==
    [][pass' # pass /\ pc # "health" =>
          \A s \in Slots : Satisfied(s) => vms'[s] = vms[s]]_vars

\* A sandbox whose row is gone for good is removed, whatever transient failures,
\* crashes and half-finished passes came before (B2; node/mod.rs:330-359).
OrphansRemoved ==
    \A s \in Slots : <>[](rows[s] = NoRow) => <>[](~Ours(vms[s]))

\* An instance left alone converges: its sandbox runs the spec its row asks for.
Wanted(s, x) == /\ rows[s].bound /\ rows[s].spec = x
                /\ resolvable[s] /\ vms[s].own # "foreign"

ConvergesToSpec ==
    \A s \in Slots \ (Gated \cup NoRestart), x \in Specs :
        <>[]Wanted(s, x) => <>[](Running(vms[s]) /\ vms[s].cfg.spec = x)

-----------------------------------------------------------------------------
(***************************************************************************)
(* The loop implements DesiredState: a pass's snapshot is the plan.        *)
(***************************************************************************)
IntentOf(s) == IF rows[s].bound THEN rows[s].spec ELSE NoSpec

PlanKind(k) == IF k = "absent" THEN "gone" ELSE IF k = "failed" THEN "keep" ELSE "run"

PlanOf(s) ==
    IF pc \in {"idle", "build"}
    THEN [kind |-> "none", spec |-> NoSpec]
    ELSE [kind |-> PlanKind(snap[s].kind), spec |-> snap[s].spec]

BoxOf(s) ==
    IF Ours(vms[s]) THEN [spec |-> vms[s].cfg.spec, up |-> Running(vms[s])]
                    ELSE [spec |-> NoSpec, up |-> FALSE]

DS == INSTANCE DesiredState WITH
        intent <- [s \in Slots |-> IntentOf(s)],
        plan   <- [s \in Slots |-> PlanOf(s)],
        box    <- [s \in Slots |-> BoxOf(s)]

\* A sandbox comes up only as the spec of the pass's own snapshot, and goes down
\* only where that snapshot asks for a change: the loop, with its store reads,
\* failures and crashes in between, implements DesiredState (lifecycle.rs:27-399).
ImplementsDesiredState == DS!Spec
=============================================================================
