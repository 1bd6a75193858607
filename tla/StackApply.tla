----------------------------- MODULE StackApply -----------------------------
(***************************************************************************)
(* `mc2 up` and `mc2 down` on the server (crates/mc2-server/src/apply.rs,  *)
(* api/stacks.rs, scheduler.rs and the store's stack transactions): plan,  *)
(* commit, schedule, under the apply lock, with requests that are cancelled*)
(* between two steps and a node that reports phases all the while.         *)
(***************************************************************************)
EXTENDS HostPorts, FiniteSetsExt

CONSTANTS
    Stacks,
    Docs,       \* documents users may apply
    Capacity,   \* CPUs of the node, or the operator's smaller limit
    Cancels     \* may a request be dropped between two awaits?

ASSUME DocsAreValid ==
    \A d \in Docs :
        /\ d.stack \in Stacks /\ IsFiniteSet(DOMAIN d.services)
        /\ \A v \in DOMAIN d.services :
              /\ d.services[v].scale \in Nat \ {0} /\ d.services[v].cpus \in Nat \ {0}
              /\ d.services[v].node \in {"any", "this", "other"}
              /\ d.services[v].ports \in Seq(Range(d.services[v].ports))
              /\ \A k \in DOMAIN d.services[v].ports : IsEntry(d.services[v].ports[k])
              /\ \A w \in (DOMAIN d.services) \ {v} :
                    d.services[v].expose \cap d.services[w].expose = {}
ASSUME ApplyConstants == Capacity \in Nat /\ Cancels \in BOOLEAN

NoDoc == [stack |-> "none", services |-> <<>>]
ASSUME NoDocIsNoDoc == NoDoc \notin Docs

VARIABLES
    rows,      \* the instances table
    observed,  \* per row: is it bound, its phase, did its spec change since it
               \* ran?  And, as history: has an apply since counted nothing for it?
    claims,    \* the host_port_claims table
    stacks,    \* the stacks table: the document last committed
    pc,        \* where the request holding the apply lock is
    doc,       \* its document
    plan,      \* the instances it is about to commit
    residual,  \* run_scheduler: CPUs left
    queue      \* run_scheduler: pending rows not looked at yet

store   == <<rows, observed, claims, stacks>>
request == <<pc, doc, plan, residual, queue>>
vars    == <<store, request>>

Key(i) == <<i.stack, i.service, i.ordinal>>
Keys(instances) == {Key(i) : i \in instances}

New == [bound |-> FALSE, phase |-> "Waiting", changed |-> FALSE, skipped |-> FALSE]
Observations == [bound : BOOLEAN, phase : {"Waiting", "Up", "Down"}, changed : BOOLEAN,
                 skipped : BOOLEAN]

\* Every row and claim belongs to a stored stack, a row's key is unique, and a
\* request holds exactly what its step needs.
TypeOK ==
    /\ IsFiniteSet(rows)
    /\ \A i, j \in rows : Key(i) = Key(j) => i = j
    /\ observed \in [Keys(rows) -> Observations]
    /\ stacks \in [Stacks -> Docs \cup {NoDoc}]
    /\ \A i \in rows : stacks[i.stack] # NoDoc
    /\ pc \in {"idle", "plan", "commit", "schedule", "bind"}
    /\ doc \in Docs \cup {NoDoc}
    /\ pc = "idle" <=> doc = NoDoc
    /\ pc # "commit" => plan = {}
    /\ residual \in 0..Capacity
    /\ queue \subseteq Keys(rows)

Init ==
    /\ rows = {}
    /\ observed = <<>>
    /\ claims = {}
    /\ stacks = [s \in Stacks |-> NoDoc]
    /\ pc = "idle"
    /\ doc = NoDoc
    /\ plan = {}
    /\ residual = 0
    /\ queue = {}

-----------------------------------------------------------------------------
(***************************************************************************)
(* Capacity.                                                               *)
(***************************************************************************)

\* still_holds_capacity: only a `restart: no` instance that is down has none.
Holds(i) == observed[Key(i)].phase = "Down" => ~i.never

Cpus(instances) == MapThenSumSet(LAMBDA i : i.cpus, instances)

\* reserved_capacity_excluding: bound instances of the other stacks.
Reserved(instances) == Cpus({i \in instances : observed[Key(i)].bound /\ Holds(i)})
ReservedByOthers(d) == Reserved({i \in rows : i.stack # d.stack})

\* What that leaves out of a sum over these instances is remembered.
Skipped(i) == observed[Key(i)].bound /\ ~Holds(i)
Recorded(instances) ==
    [k \in Keys(rows) |->
        [observed[k] EXCEPT !.skipped = @ \/ k \in Keys({i \in instances : Skipped(i)})]]

\* stack_reserved.
Needs(d) == MapThenSumSet(LAMBDA v : d.services[v].scale * d.services[v].cpus,
                          DOMAIN d.services)

-----------------------------------------------------------------------------
(***************************************************************************)
(* The handlers, under the apply lock.                                     *)
(***************************************************************************)
ReleaseKeepsPlan ==                                               \* mutation
    /\ pc' = "idle"
    /\ doc' = NoDoc
    /\ residual' = 0
    /\ queue' = {}
    /\ UNCHANGED plan
Release ==
    /\ pc' = "idle"
    /\ doc' = NoDoc
    /\ plan' = {}
    /\ residual' = 0
    /\ queue' = {}

BeginApply(d) ==
    /\ pc = "idle"
    /\ pc' = "plan"
    /\ doc' = d
    /\ UNCHANGED <<store, plan, residual, queue>>

\* plan_stack: everything that can refuse the apply, before anything is written.
Plannable ==
    /\ ReservedByOthers(doc) + Needs(doc) <= Capacity
    /\ PortsResolve(rows, doc)

PlanStack ==
    /\ pc = "plan"
    /\ Plannable
    /\ pc' = "commit"
    /\ plan' = Resolved(rows, doc)
    /\ observed' = Recorded({i \in rows : i.stack # doc.stack})
    /\ UNCHANGED <<rows, claims, stacks, doc, residual, queue>>

\* A refusal: capacity, ports, or another program on a port to be exposed.
RefuseApply ==
    /\ pc = "plan"
    /\ ~Plannable \/ Probed(rows, doc) # {}
    /\ Release
    /\ UNCHANGED store

\* commit_stack_plan: the stack row, the claims, the deletes, the inserts and
\* refreshes are one transaction, rolled back when a claim's key is taken.
OtherStacks(s, records) == {r \in records : r.stack # s}

ClaimsLeftKeepOld(d) == claims                                    \* mutation
ClaimsLeft(d) == OtherStacks(d.stack, claims)

\* A refreshed row keeps placement and phase; the node will see another spec.
Refreshed(i) ==
    IF Key(i) \in Keys(rows)
    THEN [observed[Key(i)] EXCEPT !.changed = @ \/ i \notin rows, !.skipped = FALSE]
    ELSE New

Commit ==
    /\ pc = "commit"
    /\ Insertable(ClaimsLeft(doc), plan)
    /\ LET kept == OtherStacks(doc.stack, rows) IN
          /\ rows' = kept \cup plan
          /\ observed' = [k \in Keys(kept) \cup Keys(plan) |->
                            IF k \in Keys(kept) THEN observed[k]
                            ELSE Refreshed(CHOOSE i \in plan : Key(i) = k)]
    /\ claims' = ClaimsLeft(doc) \cup ClaimsOf(plan)
    /\ stacks' = [stacks EXCEPT ![doc.stack] = doc]
    /\ pc' = "schedule"
    /\ plan' = {}
    /\ residual' = 0
    /\ queue' = {}
    /\ UNCHANGED doc

CommitConflict ==
    /\ pc = "commit"
    /\ ~Insertable(ClaimsLeft(doc), plan)
    /\ Release
    /\ UNCHANGED store

\* run_scheduler reads the inventory once ...
Pending == {i \in rows : ~observed[Key(i)].bound}

ListPending ==
    /\ pc = "schedule"
    /\ pc' = "bind"
    /\ residual' = IF Reserved(rows) <= Capacity THEN Capacity - Reserved(rows) ELSE 0
    /\ queue' = Keys(Pending)
    /\ observed' = Recorded(rows)
    /\ UNCHANGED <<rows, claims, stacks, doc, plan>>

\* ... and places the pending rows one by one (pick_node).  A pin decides by
\* itself; `nodeName` or `nodeSelector` of another node places nothing.
Placeable(i) == i.node = "this" \/ (i.node = "any" /\ i.cpus <= residual)

LeftForgotten(i) == residual                                      \* mutation
Left(i) == IF i.cpus <= residual THEN residual - i.cpus ELSE 0

BindNext(i) ==
    /\ pc = "bind"
    /\ Key(i) \in queue
    /\ queue' = queue \ {Key(i)}
    /\ \/ /\ Placeable(i)
          /\ observed' = [observed EXCEPT ![Key(i)].bound = TRUE,
                                           ![Key(i)].skipped = i.cpus > residual]
          /\ residual' = Left(i)
       \/ /\ ~Placeable(i)
          /\ UNCHANGED <<observed, residual>>
    /\ UNCHANGED <<rows, claims, stacks, pc, doc, plan>>

FinishApply ==
    /\ pc = "bind"
    /\ queue = {}
    /\ Release
    /\ UNCHANGED store

\* delete_stack: the claims cascade with the stack row.
DeleteStack(s) ==
    /\ pc = "idle"
    /\ stacks[s] # NoDoc
    /\ rows' = OtherStacks(s, rows)
    /\ observed' = [k \in Keys(rows') |-> observed[k]]
    /\ claims' = OtherStacks(s, claims)
    /\ stacks' = [stacks EXCEPT ![s] = NoDoc]
    /\ UNCHANGED request

\* The client hangs up, the request deadline passes or the server dies: the
\* handler stops between two awaits and the lock is free again.
Cancel ==
    /\ Cancels
    /\ pc # "idle"
    /\ Release
    /\ UNCHANGED store

-----------------------------------------------------------------------------
\* The node loop's reports: a bound instance comes up, goes down, and comes up
\* again.  A `restart: no` instance that went down is created again only when
\* its spec changed, or, because its host ports do not answer, when it exposes.
NodeReports(i) ==
    LET o == observed[Key(i)] IN
    /\ o.bound
    /\ \/ /\ o.phase = "Up"
          /\ observed' = [observed EXCEPT ![Key(i)].phase = "Down"]
       \/ /\ o.phase # "Up"
          /\ o.phase = "Waiting" \/ ~i.never \/ o.changed \/ i.expose # {}
          /\ observed' = [observed EXCEPT ![Key(i)] =
                             [@ EXCEPT !.phase = "Up", !.changed = FALSE]]
    /\ UNCHANGED <<rows, claims, stacks, request>>

Handler == \/ PlanStack \/ RefuseApply \/ Commit \/ CommitConflict
           \/ ListPending \/ (\E i \in rows : BindNext(i)) \/ FinishApply

Next == \/ \E d \in Docs : BeginApply(d)
        \/ \E s \in Stacks : DeleteStack(s)
        \/ Handler
        \/ Cancel
        \/ \E i \in rows : NodeReports(i)

Spec == Init /\ [][Next]_vars

-----------------------------------------------------------------------------
(***************************************************************************)
(* Properties.                                                             *)
(***************************************************************************)

\* The claims table says what the instances' stored specs say, through
\* re-applies, scale-downs, deletes and cancelled requests: `mc2 down` and a
\* moved block free their ports, and nothing else does (C4; apply.rs:672-704,
\* sqlite.rs:1017-1100, 443-462).
ClaimsMatchRows == claims = ClaimsOf(rows)

\* No two microVMs publish the same host port, and none publishes one that a
\* service exposes; an exposed port belongs to one service server-wide (A1, C4,
\* C5; apply.rs:142-157, 513-523).
PortsExclusive ==
    \A i, j \in rows :
        /\ \A k \in Indices(i), l \in Indices(j) :
              /\ i.ports[k].published = j.ports[l].published
              /\ i.ports[k].protocol = j.ports[l].protocol
              => Key(i) = Key(j) /\ k = l
        /\ i.expose \cap j.expose # {} => i.stack = j.stack /\ i.service = j.service
        /\ \A k \in Indices(i) :
              i.ports[k].protocol = "tcp" => i.ports[k].published \notin j.expose

\* Re-applying the document a stack runs changes nothing: it is never refused for
\* its ports, and every replica keeps the ports it has, whatever was applied and
\* deleted around it (C5; apply.rs:142-157, ports-expose.mdx:72-77).
ReapplyStable ==
    \A s \in Stacks : stacks[s] # NoDoc =>
        /\ PortsResolve(rows, stacks[s])
        /\ Resolved(rows, stacks[s]) = {i \in rows : i.stack = s}

\* The bound instances that no apply since their own has counted for nothing.
Accounted(instances) ==
    {i \in instances : observed[Key(i)].bound /\ ~observed[Key(i)].skipped}

\* What an apply commits fits beside all that is accounted for (services.mdx:76-78).
AcceptedFits ==
    pc = "schedule" =>
        Cpus(Accounted(rows))
          + Cpus({i \in Pending : i.stack = doc.stack /\ i.node # "other"}) <= Capacity

\* What bound instances were given fits the node, through growth in place,
\* scaling, cancelled requests, and whichever of them are down at the moment of
\* an apply; and nothing an apply accepted is short of room when it commits (B12,
\* C3; apply.rs:276-361, scheduler.rs:105-151).  Two kinds of instances can be
\* beyond it, and no others: a `restart: no` instance that was down while an
\* apply of another stack was planned or a scheduler listed the rows, whose place
\* is then given away although it may come up again (scheduler.rs:143), and one
\* pinned to the node, which is bound without a look at what is left
\* (scheduler.rs:30).  Applying its own stack accounts for an instance again.
CapacityRespected ==
    /\ Cpus(Accounted(rows)) <= Capacity
    /\ AcceptedFits
    /\ \A i \in rows : observed[Key(i)].skipped => i.never \/ i.node = "this"

\* With applies serialized by the lock, what plan_stack accepts the store
\* accepts: the claims constraint is only a backstop (apply.rs:672-674, 722-726).
PlanCommits == pc = "commit" => Insertable(ClaimsLeft(doc), plan)
=============================================================================
