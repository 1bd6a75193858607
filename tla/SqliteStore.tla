---------------------------- MODULE SqliteStore ----------------------------
(***************************************************************************)
(* The store the server runs on (mc2-store/src/sqlite.rs): several         *)
(* connections to one database, one SQL statement per step.  A stack plan  *)
(* and a stack's deletion are one transaction that takes the write lock    *)
(* first; most other operations read a row in one statement and write in a *)
(* second, and other callers come in between.  The process may die after   *)
(* any statement.                                                          *)
(*                                                                         *)
(* The tables have the types MemoryStore gives them; Memory below is the   *)
(* specification they implement.                                           *)
(***************************************************************************)
EXTENDS Naturals, FiniteSets, Sequences

CONSTANTS DbStacks, Replicas, Ports, Specs, Secrets, SshKeys, Blobs, NodeIds,
          NodeNames, Tokens, None, MaxBorn,
          Callers,      \* the requests and the node loop that use the store
          MaxCalls,     \* bound: operations begun
          MaxRestarts   \* bound: crashes

VARIABLES token, settings, nodes, secrets, keys, dbStacks, instances, born,
          dbClaims, ssh, network,
          boot,       \* where the server's start is; "up" once it serves
          minted,     \* the node id upsert_local_node is about to persist
          strays,     \* history, read by no action: rows of `nodes` whose start
                      \* died before their id was persisted and that the next
                      \* start did not find by its name
          call,       \* per caller: the operation between two statements
          calls,      \* operations begun
          restarts    \* crashes so far

identityTables == <<token, settings, nodes>>
registryTables == <<secrets, keys>>
fleetTables == <<dbStacks, instances, born, dbClaims>>
observedTables == <<ssh, network>>
control == <<boot, minted, strays, call, calls, restarts>>

tables == <<identityTables, registryTables, fleetTables, observedTables>>
storeVars == <<tables, control>>

(***************************************************************************)
(* A node's row counts once its id is persisted: upsert_local_node writes  *)
(* the row first, and a crash between the two statements leaves a row      *)
(* nobody has been told of.                                                *)
(***************************************************************************)
RegisteredNodes ==
  [n \in NodeIds |-> IF n = settings.local_node_id THEN nodes[n] ELSE None]

Memory == INSTANCE MemoryStore WITH
  nodes <- RegisteredNodes, Stacks <- DbStacks,
  stacks <- dbStacks, claims <- dbClaims

(***************************************************************************)
(* What the constants are assumed to be: None is none of the values.       *)
(***************************************************************************)
NoneIsNone ==
  /\ MaxBorn \in Nat
  /\ None \notin Tokens \cup NodeIds \cup DbStacks \cup Specs \cup Blobs
  /\ None \notin SshKeys
  /\ None \notin Memory!InstanceRow
  /\ None \notin Memory!SshRow
  /\ None \notin Memory!NodeRow

NoCall == [op |-> "none", at |-> None, arg |-> None, read |-> None]
-----------------------------------------------------------------------------
StoreInit ==
  /\ token = None
  /\ settings = [local_node_id |-> None, install_id |-> None]
  /\ nodes = [n \in NodeIds |-> None]
  /\ secrets = [s \in Secrets |-> None]
  /\ keys = [k \in SshKeys |-> None]
  /\ dbStacks = [s \in DbStacks |-> None]
  /\ instances = [i \in Memory!Ids |-> None]
  /\ born = [r \in DbStacks \X Replicas |-> 0]
  /\ dbClaims = [p \in Ports |-> None]
  /\ ssh = [i \in Memory!Ids |-> None]
  /\ network = [i \in Memory!Ids |-> None]
  /\ boot = "install"
  /\ minted = None
  /\ strays = {}
  /\ call = [c \in Callers |-> NoCall]
  /\ calls = 0
  /\ restarts = 0

(***************************************************************************)
(* The start: install id, cluster row (Bootstrap::ensure), node row, node  *)
(* id (ensure_local_node), before the first request is accepted.           *)
(***************************************************************************)
EnsureInstallId ==
  /\ boot = "install"
  /\ \E v \in Tokens :
       settings' = IF settings.install_id = None
                   THEN [settings EXCEPT !.install_id = v] ELSE settings
  /\ boot' = "cluster"
  /\ UNCHANGED <<token, nodes, registryTables, fleetTables,
                 observedTables, minted, strays, call, calls, restarts>>

InitClusterRow ==
  /\ boot = "cluster"
  /\ \E t \in Tokens : token' = IF token = None THEN t ELSE token
  /\ boot' = "node"
  /\ UNCHANGED <<settings, nodes, registryTables, fleetTables,
                 observedTables, minted, strays, call, calls, restarts>>

\* mutation: the row of the display name is looked up before the stored id
NodeIdByName(name) ==
  LET named == {n \in NodeIds : nodes[n] # None /\ nodes[n].name = name}
  IN IF named # {} THEN named
     ELSE {n \in NodeIds : nodes[n] = None}

NodeIdOf(name) ==
  LET named == {n \in NodeIds : nodes[n] # None /\ nodes[n].name = name}
  IN IF settings.local_node_id # None THEN {settings.local_node_id}
     ELSE IF named # {} THEN named
     ELSE {n \in NodeIds : nodes[n] = None}

(***************************************************************************)
(* UPDATE, or INSERT a Ready row; nodes.name is UNIQUE, so a start whose   *)
(* name another row has fails.  A row an earlier start left without its id *)
(* stays as it is, Ready, when this start has another name.                *)
(***************************************************************************)
WriteNodeRow(name) ==
  /\ boot = "node"
  /\ \E id \in NodeIdOf(name) :
       /\ \A n \in NodeIds \ {id} :      \* nodes.name is UNIQUE
            nodes[n] # None => nodes[n].name # name
       /\ nodes' = [nodes EXCEPT ![id] = [name |-> name, status |-> "Ready"]]
       /\ minted' = id
       /\ strays' = IF settings.local_node_id # None THEN strays
                    ELSE {n \in NodeIds \ {id} : nodes[n] # None}
  /\ boot' = "setting"
  /\ UNCHANGED <<token, settings, registryTables, fleetTables,
                 observedTables, call, calls, restarts>>

PersistNodeId ==
  /\ boot = "setting"
  /\ settings' = [settings EXCEPT !.local_node_id = minted]
  /\ boot' = "up"
  /\ minted' = None
  /\ UNCHANGED <<token, nodes, registryTables, fleetTables,
                 observedTables, strays, call, calls, restarts>>

Crash ==
  /\ restarts < MaxRestarts
  /\ boot' = "install"
  /\ minted' = None
  /\ call' = [c \in Callers |-> NoCall]
  /\ restarts' = restarts + 1
  /\ UNCHANGED <<tables, strays, calls>>
-----------------------------------------------------------------------------
(***************************************************************************)
(* The first statement of an operation reads, the second writes.           *)
(***************************************************************************)
Read(c, op, at, arg, read) ==
  /\ boot = "up"
  /\ calls < MaxCalls
  /\ call[c] = NoCall
  /\ call' = [call EXCEPT ![c] =
                [op |-> op, at |-> at, arg |-> arg, read |-> read]]
  /\ calls' = calls + 1
  /\ UNCHANGED <<tables, boot, minted, strays, restarts>>

Write(c, op) ==
  /\ call[c].op = op
  /\ call' = [call EXCEPT ![c] = NoCall]
  /\ UNCHANGED <<boot, minted, strays, calls, restarts>>

(***************************************************************************)
(* An operation of one statement or of one transaction.                    *)
(***************************************************************************)
Statement ==
  /\ boot = "up"
  /\ calls < MaxCalls
  /\ calls' = calls + 1
  /\ UNCHANGED <<boot, minted, strays, call, restarts>>

(***************************************************************************)
(* SELECT, then UPDATE or INSERT by what the SELECT found.  An UPDATE      *)
(* whose row is gone by then changes nothing; an INSERT whose row is there *)
(* by then violates the primary key and changes nothing.                   *)
(***************************************************************************)
UpdateOrInsert(table, at, found, value) ==
  IF found = (table[at] # None) THEN [table EXCEPT ![at] = value] ELSE table

PutSecretBlob(c) ==
  LET q == call[c]
  IN /\ Write(c, "put_secret_blob")
     /\ secrets' = UpdateOrInsert(secrets, q.at, q.read, q.arg)
     /\ UNCHANGED <<identityTables, keys, fleetTables, observedTables>>

DeleteSecret(s) ==
  /\ Statement
  /\ secrets' = [secrets EXCEPT ![s] = None]
  /\ UNCHANGED <<identityTables, keys, fleetTables, observedTables>>

PutSshKey(c) ==
  LET q == call[c]
  IN /\ Write(c, "put_ssh_key")
     /\ keys' = UpdateOrInsert(keys, q.at, q.read, q.arg)
     /\ UNCHANGED <<identityTables, secrets, fleetTables, observedTables>>

DeleteSshKey(k) ==
  /\ Statement
  /\ keys' = [keys EXCEPT ![k] = None]
  /\ UNCHANGED <<identityTables, secrets, fleetTables, observedTables>>

ReplaceApiTokenHash(t) ==
  /\ Statement
  /\ token' = t
  /\ UNCHANGED <<settings, nodes, registryTables, fleetTables, observedTables>>

TouchNode(c) ==
  LET q == call[c]
  IN /\ Write(c, "touch_node")
     /\ nodes' = [nodes EXCEPT ![q.at].status = q.arg]
     /\ UNCHANGED <<token, settings, registryTables, fleetTables,
                    observedTables>>
-----------------------------------------------------------------------------
StoredOf(stack) ==
  {i \in Memory!Ids : i[1] = stack /\ instances[i] # None}

(***************************************************************************)
(* The plan's claims: DELETE the stack's, INSERT the plan's one by one; a  *)
(* port that is still there, another stack's or an earlier one of this     *)
(* plan, violates the primary key and rolls everything back.               *)
(***************************************************************************)
ClaimsCleared(s) ==
  [q \in Ports |-> IF dbClaims[q] = s THEN None ELSE dbClaims[q]]

\* mutation: an insert that conflicts replaces the row
NoUniqueViolation(p) == FALSE

UniqueViolation(p) ==
  \E k \in DOMAIN p.ports :
    \/ ClaimsCleared(p.stack)[p.ports[k]] # None
    \/ \E j \in 1..(k - 1) : p.ports[j] = p.ports[k]

ClaimsWritten(p) ==
  [q \in Ports |-> IF \E k \in DOMAIN p.ports : p.ports[k] = q
                   THEN p.stack ELSE ClaimsCleared(p.stack)[q]]

(***************************************************************************)
(* DELETE the instances the plan does not keep, UPDATE the spec of the     *)
(* kept ones, INSERT the missing ones.                                     *)
(***************************************************************************)
Kept(p) == {i \in StoredOf(p.stack) : i[2] \in p.replicas}

Inserted(p) ==
  {i \in Memory!Ids :
     /\ i[1] = p.stack
     /\ i[2] \in p.replicas
     /\ \A j \in StoredOf(p.stack) : j[2] # i[2]
     /\ i[3] = born[<<i[1], i[2]>>] + 1}

InstancesWritten(p) ==
  [i \in Memory!Ids |->
     IF i[1] # p.stack THEN instances[i]
     ELSE IF i \in Kept(p) THEN [instances[i] EXCEPT !.spec = p.spec]
     ELSE IF i \in Inserted(p) THEN Memory!NewRow(p.spec)
     ELSE None]

(***************************************************************************)
(* ON DELETE CASCADE: a row of a dependent table goes with its instance.   *)
(***************************************************************************)
Cascade ==
  /\ ssh' = [i \in Memory!Ids |-> IF instances'[i] = None THEN None ELSE ssh[i]]
  /\ network' = [i \in Memory!Ids |->
                   IF instances'[i] = None THEN None ELSE network[i]]

\* bound: every missing replica still has an id to be born with
Bearable(p) ==
  \A r \in p.replicas :
    (\A j \in StoredOf(p.stack) : j[2] # r) => born[<<p.stack, r>>] < MaxBorn

CommitStackPlan(p) ==
  /\ Statement
  /\ Bearable(p)
  /\ ~UniqueViolation(p)
  /\ dbStacks' = [dbStacks EXCEPT ![p.stack] = p.spec]
  /\ dbClaims' = ClaimsWritten(p)
  /\ instances' = InstancesWritten(p)
  /\ born' = [r \in DbStacks \X Replicas |->
                IF \E i \in Inserted(p) : <<i[1], i[2]>> = r
                THEN born[r] + 1 ELSE born[r]]
  /\ Cascade
  /\ UNCHANGED <<identityTables, registryTables>>

DeleteStackTx(s) ==
  /\ Statement
  /\ instances' = [i \in Memory!Ids |-> IF i[1] = s THEN None ELSE instances[i]]
  /\ dbStacks' = [dbStacks EXCEPT ![s] = None]
  /\ dbClaims' = ClaimsCleared(s)
  /\ Cascade
  /\ UNCHANGED <<identityTables, registryTables, born>>

UpdateInstance(i, row) ==
  /\ Statement
  /\ instances[i] # None
  /\ instances' = [instances EXCEPT ![i] = row]
  /\ UNCHANGED <<identityTables, registryTables, dbStacks, born, dbClaims,
                 observedTables>>

(***************************************************************************)
(* The scheduler binds to any Ready row of `nodes`, one whose id was never *)
(* persisted among them.                                                   *)
(***************************************************************************)
BindInstanceToNode(i, n) ==
  /\ nodes[n] # None
  /\ nodes[n].status = "Ready"
  /\ UpdateInstance(i, [instances[i] EXCEPT !.node = n, !.phase = "Scheduled"])

SetInstanceAppliedHash(i, h) ==
  UpdateInstance(i, [instances[i] EXCEPT !.hash = h])

UpdateInstanceStatus(i, phase, named) ==
  UpdateInstance(i, [instances[i] EXCEPT
                       !.phase = phase, !.runtime = named \/ @])

UpdateInstanceHealth(i, healthy) ==
  UpdateInstance(i, [instances[i] EXCEPT !.healthy = healthy])
-----------------------------------------------------------------------------
\* mutation: ON CONFLICT also writes the phase the first statement read
PutSshDesiredWithPhase(c) ==
  LET q == call[c]
  IN /\ Write(c, "put_instance_ssh_desired")
     /\ ssh' = IF instances[q.at] = None THEN ssh
               ELSE [ssh EXCEPT ![q.at] =
                       [override |-> q.arg, phase |-> q.read]]
     /\ UNCHANGED <<identityTables, registryTables, fleetTables, network>>

(***************************************************************************)
(* INSERT with the phase read before, ON CONFLICT only the desired half;   *)
(* the foreign key refuses a row whose instance is gone by now.            *)
(***************************************************************************)
PutInstanceSshDesired(c) ==
  LET q == call[c]
  IN /\ Write(c, "put_instance_ssh_desired")
     /\ ssh' = IF instances[q.at] = None THEN ssh
               ELSE IF ssh[q.at] = None
               THEN [ssh EXCEPT ![q.at] =
                       [override |-> q.arg, phase |-> q.read]]
               ELSE [ssh EXCEPT ![q.at].override = q.arg]
     /\ UNCHANGED <<identityTables, registryTables, fleetTables, network>>

ClearInstanceSshOverride(c) ==
  LET q == call[c]
  IN /\ Write(c, "clear_instance_ssh_override")
     /\ ssh' = IF ssh[q.at] = None THEN ssh
               ELSE [ssh EXCEPT ![q.at].override = None]
     /\ UNCHANGED <<identityTables, registryTables, fleetTables, network>>

UpdateInstanceSshObserved(c) ==
  LET q == call[c]
  IN /\ Write(c, "update_instance_ssh_observed")
     /\ ssh' = IF instances[q.at] = None THEN ssh
               ELSE IF ssh[q.at] = None
               THEN [ssh EXCEPT ![q.at] =
                       [override |-> None, phase |-> q.arg]]
               ELSE [ssh EXCEPT ![q.at].phase = q.arg]
     /\ UNCHANGED <<identityTables, registryTables, fleetTables, network>>

UpdateInstanceNetworkObserved(c) ==
  LET q == call[c]
  IN /\ Write(c, "update_instance_network_observed")
     /\ network' = IF instances[q.at] = None THEN network
                   ELSE [network EXCEPT ![q.at] = q.arg]
     /\ UNCHANGED <<identityTables, registryTables, fleetTables, ssh>>

(***************************************************************************)
(* The reads the two-statement operations begin with; one that finds       *)
(* nothing where a row is required is NotFound, and no call.               *)
(***************************************************************************)
BeginRegistry(c) ==
  \E b \in Blobs :
    \/ \E s \in Secrets :
         Read(c, "put_secret_blob", s, b, secrets[s] # None)
    \/ \E k \in SshKeys : Read(c, "put_ssh_key", k, b, keys[k] # None)

BeginTouch(c) ==
  \E status \in {"Ready", "NotReady"} :
    LET n == settings.local_node_id
    IN n # None /\ nodes[n] # None /\ Read(c, "touch_node", n, status, None)

BeginInstance(c) ==
  \E i \in Memory!Ids :
    /\ instances[i] # None
    /\ \/ \E k \in SshKeys :
            Read(c, "put_instance_ssh_desired", i, k,
                 IF ssh[i] = None THEN "Closed" ELSE ssh[i].phase)
       \/ \E ph \in {"Closed", "Open"} :
            Read(c, "update_instance_ssh_observed", i, ph, None)
       \/ \E ph \in Memory!Phases :
            Read(c, "update_instance_network_observed", i, ph, None)

BeginClear(c) ==
  \E i \in Memory!Ids :
    ssh[i] # None /\ Read(c, "clear_instance_ssh_override", i, None, None)

ServerStart ==
  \/ EnsureInstallId
  \/ InitClusterRow
  \/ \E name \in NodeNames : WriteNodeRow(name)
  \/ PersistNodeId

Call(c) ==
  \/ BeginRegistry(c)
  \/ BeginTouch(c)
  \/ BeginInstance(c)
  \/ BeginClear(c)
  \/ PutSecretBlob(c)
  \/ PutSshKey(c)
  \/ TouchNode(c)
  \/ PutInstanceSshDesired(c)
  \/ ClearInstanceSshOverride(c)
  \/ UpdateInstanceSshObserved(c)
  \/ UpdateInstanceNetworkObserved(c)

AtOnce ==
  \/ \E s \in Secrets : DeleteSecret(s)
  \/ \E k \in SshKeys : DeleteSshKey(k)
  \/ \E t \in Tokens : ReplaceApiTokenHash(t)
  \/ \E p \in Memory!Plans : CommitStackPlan(p)
  \/ \E s \in DbStacks : DeleteStackTx(s)
  \/ \E i \in Memory!Ids :
       \/ \E n \in NodeIds : BindInstanceToNode(i, n)
       \/ \E h \in Specs \cup {None} : SetInstanceAppliedHash(i, h)
       \/ \E ph \in Memory!Phases, named \in BOOLEAN :
            UpdateInstanceStatus(i, ph, named)
       \/ \E b \in BOOLEAN : UpdateInstanceHealth(i, b)

StoreNext ==
  \/ ServerStart
  \/ Crash
  \/ \E c \in Callers : Call(c)
  \/ AtOnce

StoreSpec == StoreInit /\ [][StoreNext]_storeVars
-----------------------------------------------------------------------------
\* The operations between their two statements: where they write, what, and
\* what they read.
PendingCalls ==
  {NoCall}
  \cup [op : {"put_secret_blob"}, at : Secrets, arg : Blobs, read : BOOLEAN]
  \cup [op : {"put_ssh_key"}, at : SshKeys, arg : Blobs, read : BOOLEAN]
  \cup [op : {"touch_node"}, at : NodeIds, arg : {"Ready", "NotReady"},
        read : {None}]
  \cup [op : {"put_instance_ssh_desired"}, at : Memory!Ids, arg : SshKeys,
        read : {"Closed", "Open"}]
  \cup [op : {"update_instance_ssh_observed"}, at : Memory!Ids,
        arg : {"Closed", "Open"}, read : {None}]
  \cup [op : {"update_instance_network_observed"}, at : Memory!Ids,
        arg : Memory!Phases, read : {None}]
  \cup [op : {"clear_instance_ssh_override"}, at : Memory!Ids, arg : {None},
        read : {None}]

IdentityOK ==
  /\ token \in Tokens \cup {None}
  /\ settings \in [local_node_id : NodeIds \cup {None},
                   install_id : Tokens \cup {None}]
  /\ nodes \in [NodeIds -> Memory!NodeRow \cup {None}]

RegistryOK ==
  /\ secrets \in [Secrets -> Blobs \cup {None}]
  /\ keys \in [SshKeys -> Blobs \cup {None}]

FleetOK ==
  /\ dbStacks \in [DbStacks -> Specs \cup {None}]
  /\ instances \in [Memory!Ids -> Memory!InstanceRow \cup {None}]
  /\ born \in [DbStacks \X Replicas -> 0..MaxBorn]
  /\ dbClaims \in [Ports -> DbStacks \cup {None}]

ObservedOK ==
  /\ ssh \in [Memory!Ids -> Memory!SshRow \cup {None}]
  /\ network \in [Memory!Ids -> Memory!Phases \cup {None}]

ControlOK ==
  /\ boot \in {"cluster", "install", "node", "setting", "up"}
  /\ minted \in NodeIds \cup {None}
  /\ strays \in SUBSET NodeIds
  /\ call \in [Callers -> PendingCalls]

StoreTypeOK == IdentityOK /\ RegistryOK /\ FleetOK /\ ObservedOK /\ ControlOK

(***************************************************************************)
(* Whatever the interleaving of statements and wherever the process dies,  *)
(* the tables change only as MemoryStore's operations change them: a stale *)
(* read never undoes another caller's write, a lost race changes nothing,  *)
(* dependent rows go with their instance, and a plan is written whole or   *)
(* not at all.  (SqliteStore against MemoryStore, sqlite.rs and memory.rs) *)
(***************************************************************************)
ImplementsMemoryStore == Memory!Spec

(***************************************************************************)
(* Crashes at any step of any start, and renames between starts, never     *)
(* turn a node the server has run as into one nobody reconciles: a         *)
(* placement names the node this server is, whose row is there.  The only  *)
(* exception is the row of a start that died between writing the row and   *)
(* persisting its id and was followed by a start under another name: the   *)
(* code leaves it Ready, and the scheduler may bind to it.  The same name  *)
(* finds it and leaves no such row.  (upsert_local_node, sqlite.rs; "never *)
(* strands placements", lib.rs)                                            *)
(***************************************************************************)
NodeKeepsItsPlacements ==
  \A i \in Memory!Ids :
    instances[i] # None /\ instances[i].node # None =>
      /\ instances[i].node \in {settings.local_node_id} \cup strays
      /\ settings.local_node_id \in NodeIds \ strays
      /\ nodes[settings.local_node_id] # None
=============================================================================
