---------------------------- MODULE MemoryStore ----------------------------
(***************************************************************************)
(* What the Store trait promises, as MemoryStore (mc2-store/src/memory.rs) *)
(* keeps it: one lock over all tables, every operation one step.  It is    *)
(* the specification SqliteStore is checked and proved against.            *)
(*                                                                         *)
(* Time stamps, labels and messages are left out; a stored blob, key, spec *)
(* or token is a model value.  An operation that fails changes nothing, so *)
(* it is no step here.                                                     *)
(***************************************************************************)
EXTENDS Naturals, FiniteSets, Sequences

CONSTANTS Stacks, Replicas, Ports, Specs, Secrets, SshKeys, Blobs, NodeIds,
          NodeNames, Tokens, None,
          MaxBorn     \* bound: how often one replica's row is created

(***************************************************************************)
(* An instance's id is fresh whenever its row is created: the n-th row of  *)
(* a replica.  Rows of the dependent tables are keyed by it.               *)
(***************************************************************************)
Ids == Stacks \X Replicas \X (1..MaxBorn)

Phases == {"Pending", "Scheduled", "Running"}

InstanceRow == [node : NodeIds \cup {None}, phase : Phases,
                runtime : BOOLEAN, hash : Specs \cup {None},
                healthy : BOOLEAN, spec : Specs]

SshRow == [override : SshKeys \cup {None}, phase : {"Closed", "Open"}]

NodeRow == [name : NodeNames, status : {"Ready", "NotReady"}]

Plans == [stack : Stacks, spec : Specs, replicas : SUBSET Replicas,
          ports : {<<>>} \cup {<<p>> : p \in Ports}
                         \cup {<<p, q>> : p \in Ports, q \in Ports}]

VARIABLES
  token,      \* cluster_meta: the API token's hash
  settings,   \* settings: the local node's id, the install id
  nodes,      \* nodes
  secrets,    \* secrets_meta
  keys,       \* ssh_authorized_keys
  stacks,     \* stacks: the stored document
  instances,  \* instances, by id
  born,       \* how many rows a replica has had
  claims,     \* host_port_claims: the stack a port belongs to
  ssh,        \* instance_ssh, by id
  network     \* instance_network, by id

identity == <<token, settings, nodes>>
registry == <<secrets, keys>>
fleet == <<stacks, instances, born, claims>>
observed == <<ssh, network>>

vars == <<identity, registry, fleet, observed>>

Init ==
  /\ token = None
  /\ settings = [local_node_id |-> None, install_id |-> None]
  /\ nodes = [n \in NodeIds |-> None]
  /\ secrets = [s \in Secrets |-> None]
  /\ keys = [k \in SshKeys |-> None]
  /\ stacks = [s \in Stacks |-> None]
  /\ instances = [i \in Ids |-> None]
  /\ born = [r \in Stacks \X Replicas |-> 0]
  /\ claims = [p \in Ports |-> None]
  /\ ssh = [i \in Ids |-> None]
  /\ network = [i \in Ids |-> None]
-----------------------------------------------------------------------------
InitCluster(t) ==
  /\ token = None
  /\ token' = t
  /\ UNCHANGED <<settings, nodes, registry, fleet, observed>>

ReplaceApiTokenHash(t) ==
  /\ token # None
  /\ token' = t
  /\ UNCHANGED <<settings, nodes, registry, fleet, observed>>

SetSetting(v) ==
  /\ settings' = [settings EXCEPT !.install_id = v]
  /\ UNCHANGED <<token, nodes, registry, fleet, observed>>

(***************************************************************************)
(* The stored id wins, then a row of that name, then a fresh id.           *)
(***************************************************************************)
NodeIdFor(name) ==
  LET named == {n \in NodeIds : nodes[n] # None /\ nodes[n].name = name}
  IN IF settings.local_node_id # None THEN {settings.local_node_id}
     ELSE IF named # {} THEN named
     ELSE {n \in NodeIds : nodes[n] = None}

UpsertLocalNode(name) ==
  \E id \in NodeIdFor(name) :
    /\ nodes' = [nodes EXCEPT ![id] = [name |-> name, status |-> "Ready"]]
    /\ settings' = [settings EXCEPT !.local_node_id = id]
    /\ UNCHANGED <<token, registry, fleet, observed>>

TouchNode(n, status) ==
  /\ nodes[n] # None
  /\ nodes' = [nodes EXCEPT ![n].status = status]
  /\ UNCHANGED <<token, settings, registry, fleet, observed>>

PutSecretBlob(s, b) ==
  /\ secrets' = [secrets EXCEPT ![s] = b]
  /\ UNCHANGED <<identity, keys, fleet, observed>>

DeleteSecret(s) ==
  /\ secrets' = [secrets EXCEPT ![s] = None]
  /\ UNCHANGED <<identity, keys, fleet, observed>>

PutSshKey(k, b) ==
  /\ keys' = [keys EXCEPT ![k] = b]
  /\ UNCHANGED <<identity, secrets, fleet, observed>>

DeleteSshKey(k) ==
  /\ keys' = [keys EXCEPT ![k] = None]
  /\ UNCHANGED <<identity, secrets, fleet, observed>>
-----------------------------------------------------------------------------
(***************************************************************************)
(* A plan's ports are free or this stack's own, and named once.            *)
(***************************************************************************)
Conflict(p) ==
  \/ \E k \in DOMAIN p.ports : claims[p.ports[k]] \notin {None, p.stack}
  \/ \E j, k \in DOMAIN p.ports : j # k /\ p.ports[j] = p.ports[k]

RowsOf(stack) ==
  {i \in Ids : i[1] = stack /\ instances[i] # None}

Dropped(p) == {i \in RowsOf(p.stack) : i[2] \notin p.replicas}

Missing(p) ==
  {r \in p.replicas : \A i \in RowsOf(p.stack) : i[2] # r}

NewRow(spec) == [node |-> None, phase |-> "Pending", runtime |-> FALSE,
                 hash |-> None, healthy |-> FALSE, spec |-> spec]

(***************************************************************************)
(* The plan's rows: the kept ones with the new spec and nothing else       *)
(* changed, the missing ones fresh, the others gone.                       *)
(***************************************************************************)
PlannedRows(p) ==
  [i \in Ids |->
     IF i[1] # p.stack THEN instances[i]
     ELSE IF i[2] \notin p.replicas THEN None
     ELSE IF instances[i] # None THEN [instances[i] EXCEPT !.spec = p.spec]
     ELSE IF i[2] \in Missing(p) /\ i[3] = born[<<i[1], i[2]>>] + 1
          THEN NewRow(p.spec)
     ELSE None]

Without(table, gone) == [i \in Ids |-> IF i \in gone THEN None ELSE table[i]]

CommitStackPlan(p) ==
  /\ ~Conflict(p)
  /\ stacks' = [stacks EXCEPT ![p.stack] = p.spec]
  /\ instances' = PlannedRows(p)
  /\ born' = [r \in Stacks \X Replicas |->
                IF r[1] = p.stack /\ r[2] \in Missing(p)
                THEN born[r] + 1 ELSE born[r]]
  /\ claims' = [q \in Ports |->
                  IF \E k \in DOMAIN p.ports : p.ports[k] = q THEN p.stack
                  ELSE IF claims[q] = p.stack THEN None ELSE claims[q]]
  /\ ssh' = Without(ssh, Dropped(p))
  /\ network' = Without(network, Dropped(p))
  /\ UNCHANGED <<identity, registry>>

DeleteStack(s) ==
  /\ stacks' = [stacks EXCEPT ![s] = None]
  /\ instances' = Without(instances, RowsOf(s))
  /\ claims' = [q \in Ports |-> IF claims[q] = s THEN None ELSE claims[q]]
  /\ ssh' = Without(ssh, RowsOf(s))
  /\ network' = Without(network, RowsOf(s))
  /\ UNCHANGED <<identity, registry, born>>

UpdateInstance(i, row) ==
  /\ instances[i] # None
  /\ instances' = [instances EXCEPT ![i] = row]
  /\ UNCHANGED <<identity, registry, stacks, born, claims, observed>>

BindInstanceToNode(i, n) ==
  UpdateInstance(i, [instances[i] EXCEPT !.node = n, !.phase = "Scheduled"])

SetInstanceAppliedHash(i, h) ==
  UpdateInstance(i, [instances[i] EXCEPT !.hash = h])

(***************************************************************************)
(* A report without a runtime id keeps the one that is stored.             *)
(***************************************************************************)
UpdateInstanceStatus(i, phase, named) ==
  UpdateInstance(i, [instances[i] EXCEPT
                       !.phase = phase,
                       !.runtime = IF named THEN TRUE ELSE @])

UpdateInstanceHealth(i, healthy) ==
  UpdateInstance(i, [instances[i] EXCEPT !.healthy = healthy])
-----------------------------------------------------------------------------
(***************************************************************************)
(* The override belongs to the API, the observed phase to the node loop;   *)
(* neither write disturbs the other's half of the row.                     *)
(***************************************************************************)
PutInstanceSshDesired(i, k) ==
  /\ instances[i] # None
  /\ ssh' = [ssh EXCEPT ![i] =
               [override |-> k,
                phase |-> IF ssh[i] = None THEN "Closed" ELSE ssh[i].phase]]
  /\ UNCHANGED <<identity, registry, fleet, network>>

ClearInstanceSshOverride(i) ==
  /\ ssh[i] # None
  /\ ssh' = [ssh EXCEPT ![i].override = None]
  /\ UNCHANGED <<identity, registry, fleet, network>>

UpdateInstanceSshObserved(i, phase) ==
  /\ instances[i] # None
  /\ ssh' = [ssh EXCEPT ![i] =
               [override |-> IF ssh[i] = None THEN None ELSE ssh[i].override,
                phase |-> phase]]
  /\ UNCHANGED <<identity, registry, fleet, network>>

UpdateInstanceNetworkObserved(i, phase) ==
  /\ instances[i] # None
  /\ network' = [network EXCEPT ![i] = phase]
  /\ UNCHANGED <<identity, registry, fleet, ssh>>
-----------------------------------------------------------------------------
Next ==
  \/ \E t \in Tokens : InitCluster(t) \/ ReplaceApiTokenHash(t)
  \/ \E v \in Tokens : SetSetting(v)
  \/ \E name \in NodeNames : UpsertLocalNode(name)
  \/ \E n \in NodeIds, s \in {"Ready", "NotReady"} : TouchNode(n, s)
  \/ \E s \in Secrets : DeleteSecret(s) \/ \E b \in Blobs : PutSecretBlob(s, b)
  \/ \E k \in SshKeys : DeleteSshKey(k) \/ \E b \in Blobs : PutSshKey(k, b)
  \/ \E p \in Plans : CommitStackPlan(p)
  \/ \E s \in Stacks : DeleteStack(s)
  \/ \E i \in Ids :
       \/ \E n \in NodeIds : BindInstanceToNode(i, n)
       \/ \E h \in Specs \cup {None} : SetInstanceAppliedHash(i, h)
       \/ \E ph \in Phases, named \in BOOLEAN :
            UpdateInstanceStatus(i, ph, named)
       \/ \E b \in BOOLEAN : UpdateInstanceHealth(i, b)
       \/ \E k \in SshKeys : PutInstanceSshDesired(i, k)
       \/ ClearInstanceSshOverride(i)
       \/ \E ph \in {"Closed", "Open"} : UpdateInstanceSshObserved(i, ph)
       \/ \E ph \in Phases : UpdateInstanceNetworkObserved(i, ph)

Spec == Init /\ [][Next]_vars
=============================================================================
