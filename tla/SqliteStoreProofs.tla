------------------------- MODULE SqliteStoreProofs -------------------------
(***************************************************************************)
(* The statements of SqliteStore implement the operations of MemoryStore,  *)
(* for any callers, tables, crashes and number of calls.                   *)
(***************************************************************************)
EXTENDS SqliteStore, TLAPS

(***************************************************************************)
(* The rows of `nodes` are the one the stored id names, or is about to     *)
(* name, and those of starts that died before they stored theirs.          *)
(* A server that is up has an id and a token.                              *)
(* Requests are under way only while the server is up.                     *)
(***************************************************************************)
RowsNamed(id) ==
  /\ id \in NodeIds \ strays
  /\ nodes[id] # None
  /\ \A n \in NodeIds : nodes[n] # None => n = id \/ n \in strays

Registered ==
  /\ settings.local_node_id # None => RowsNamed(settings.local_node_id)
  /\ boot = "setting" =>
       /\ RowsNamed(minted)
       /\ nodes[minted].status = "Ready"
       /\ settings.local_node_id \in {None, minted}
  /\ boot = "up" => settings.local_node_id # None
  /\ boot \in {"node", "setting", "up"} => token # None
  /\ boot # "up" => \A c \in Callers : call[c] = NoCall

(***************************************************************************)
(* Dependent rows have an instance, and an id once used is never born      *)
(* again.                                                                  *)
(***************************************************************************)
Used(i) == i[3] <= born[<<i[1], i[2]>>]

RowsFollow ==
  \A i \in Memory!Ids :
    /\ instances[i] = None => ssh[i] = None /\ network[i] = None
    /\ instances[i] # None => Used(i)

(***************************************************************************)
(* What a first statement read and the second one still relies on: the     *)
(* node's id, and that an SSH row that is not there was not there.         *)
(***************************************************************************)
ReadStands(q) ==
  /\ q.op = "touch_node" => q.at = settings.local_node_id
  /\ q.op = "put_instance_ssh_desired" =>
       /\ Used(q.at)
       /\ instances[q.at] # None /\ ssh[q.at] = None => q.read = "Closed"

ReadsStand == \A c \in Callers : ReadStands(call[c])

StoreInv == StoreTypeOK /\ Registered /\ RowsFollow /\ ReadsStand
-----------------------------------------------------------------------------
LEMMA StoreInitInv ==
    ASSUME NoneIsNone
    PROVE  StoreInit => StoreInv /\ NodeKeepsItsPlacements
<1> SUFFICES ASSUME StoreInit PROVE StoreInv /\ NodeKeepsItsPlacements  OBVIOUS
<1> USE DEF StoreInit
<1>1. StoreTypeOK
  BY DEF NoneIsNone, StoreTypeOK, IdentityOK, RegistryOK, FleetOK, ObservedOK,
     ControlOK, PendingCalls
<1>2. Registered
  BY DEF Registered, RowsNamed
<1>3. RowsFollow
  BY DEF RowsFollow
<1>4. ReadsStand
  BY DEF ReadsStand, ReadStands, NoCall
<1>. QED  BY <1>1, <1>2, <1>3, <1>4 DEF StoreInv, NodeKeepsItsPlacements
-----------------------------------------------------------------------------
(***************************************************************************)
(* Types.                                                                  *)
(***************************************************************************)

\* What an operation between its statements carries.
LEMMA PendingCall ==
    ASSUME NEW q \in PendingCalls
    PROVE  /\ q.op = "put_secret_blob" => q.at \in Secrets /\ q.arg \in Blobs
           /\ q.op = "put_ssh_key" => q.at \in SshKeys /\ q.arg \in Blobs
           /\ q.op = "touch_node" =>
                q.at \in NodeIds /\ q.arg \in {"Ready", "NotReady"}
           /\ q.op = "put_instance_ssh_desired" =>
                /\ q.at \in Memory!Ids /\ q.arg \in SshKeys
                /\ q.read \in {"Closed", "Open"}
           /\ q.op = "update_instance_ssh_observed" =>
                q.at \in Memory!Ids /\ q.arg \in {"Closed", "Open"}
           /\ q.op = "update_instance_network_observed" =>
                q.at \in Memory!Ids /\ q.arg \in Memory!Phases
           /\ q.op = "clear_instance_ssh_override" => q.at \in Memory!Ids
  BY DEF PendingCalls, NoCall

\* A second statement ends its operation, a transaction leaves all of them.
LEMMA WriteControl ==
    ASSUME ControlOK, NEW c \in Callers, NEW op, Write(c, op)
    PROVE  /\ ControlOK'
           /\ call[c] \in PendingCalls /\ call[c].op = op
  BY DEF ControlOK, Write, PendingCalls

LEMMA StatementControl == ControlOK /\ Statement => ControlOK'
  BY DEF ControlOK, Statement

LEMMA ReadControl ==
    ASSUME ControlOK, NEW c \in Callers, NEW op, NEW at, NEW arg, NEW read,
           Read(c, op, at, arg, read),
           [op |-> op, at |-> at, arg |-> arg, read |-> read] \in PendingCalls
    PROVE  ControlOK'
  BY DEF ControlOK, Read

\* A part nothing writes keeps its type.
LEMMA Frames ==
    /\ IdentityOK /\ UNCHANGED identityTables => IdentityOK'
    /\ RegistryOK /\ UNCHANGED registryTables => RegistryOK'
    /\ FleetOK /\ UNCHANGED fleetTables => FleetOK'
    /\ ObservedOK /\ UNCHANGED observedTables => ObservedOK'
    /\ ControlOK /\ UNCHANGED <<boot, minted, strays, call>> => ControlOK'
  BY DEF IdentityOK, identityTables, RegistryOK, registryTables, FleetOK,
     fleetTables, ObservedOK, observedTables, ControlOK

LEMMA UpdateOrInsertType ==
    ASSUME NEW S, NEW V, NEW table \in [S -> V], NEW at \in S, NEW found,
           NEW value \in V
    PROVE  UpdateOrInsert(table, at, found, value) \in [S -> V]
  BY DEF UpdateOrInsert

LEMMA NewRowType ==
    ASSUME NEW d \in Specs PROVE Memory!NewRow(d) \in Memory!InstanceRow
  BY DEF Memory!NewRow, Memory!InstanceRow, Memory!Phases

\* An update of one row keeps what the other tables are.
LEMMA UpdateInstanceType ==
    ASSUME StoreTypeOK, NEW i \in Memory!Ids, NEW row \in Memory!InstanceRow,
           UpdateInstance(i, row)
    PROVE  StoreTypeOK'
<1>1. FleetOK'
  BY DEF StoreTypeOK, FleetOK, UpdateInstance
<1>. QED
  BY <1>1, Frames, StatementControl DEF StoreTypeOK, UpdateInstance

\* A row that is there is one.
LEMMA RowIs ==
    ASSUME FleetOK, NEW i \in Memory!Ids, instances[i] # None
    PROVE  instances[i] \in Memory!InstanceRow
  BY DEF FleetOK

\* The four updates write a row in place of a row.
LEMMA UpdatedRows ==
    ASSUME StoreTypeOK, NEW i \in Memory!Ids,
           \/ \E n \in NodeIds : BindInstanceToNode(i, n)
           \/ \E h \in Specs \cup {None} : SetInstanceAppliedHash(i, h)
           \/ \E ph \in Memory!Phases, named \in BOOLEAN :
                UpdateInstanceStatus(i, ph, named)
           \/ \E b \in BOOLEAN : UpdateInstanceHealth(i, b)
    PROVE  \E row \in Memory!InstanceRow : UpdateInstance(i, row)
<1>0. instances[i] \in Memory!InstanceRow
  BY RowIs DEF StoreTypeOK, BindInstanceToNode, SetInstanceAppliedHash,
     UpdateInstanceStatus, UpdateInstanceHealth, UpdateInstance
<1>1. ASSUME NEW n \in NodeIds, BindInstanceToNode(i, n)
      PROVE  \E row \in Memory!InstanceRow : UpdateInstance(i, row)
  <2>1. [instances[i] EXCEPT !.node = n, !.phase = "Scheduled"]
          \in Memory!InstanceRow
    BY <1>0 DEF Memory!InstanceRow, Memory!Phases
  <2>. QED  BY <1>1, <2>1 DEF BindInstanceToNode
<1>2. ASSUME NEW h \in Specs \cup {None}, SetInstanceAppliedHash(i, h)
      PROVE  \E row \in Memory!InstanceRow : UpdateInstance(i, row)
  <2>1. [instances[i] EXCEPT !.hash = h] \in Memory!InstanceRow
    BY <1>0 DEF Memory!InstanceRow
  <2>. QED  BY <1>2, <2>1 DEF SetInstanceAppliedHash
<1>3. ASSUME NEW ph \in Memory!Phases, NEW named \in BOOLEAN,
             UpdateInstanceStatus(i, ph, named)
      PROVE  \E row \in Memory!InstanceRow : UpdateInstance(i, row)
  <2>1. [instances[i] EXCEPT !.phase = ph,
                             !.runtime = named \/ instances[i].runtime]
          \in Memory!InstanceRow
    BY <1>0 DEF Memory!InstanceRow
  <2>. QED  BY <1>3, <2>1 DEF UpdateInstanceStatus
<1>4. ASSUME NEW b \in BOOLEAN, UpdateInstanceHealth(i, b)
      PROVE  \E row \in Memory!InstanceRow : UpdateInstance(i, row)
  <2>1. [instances[i] EXCEPT !.healthy = b] \in Memory!InstanceRow
    BY <1>0 DEF Memory!InstanceRow
  <2>. QED  BY <1>4, <2>1 DEF UpdateInstanceHealth
<1>. QED  BY <1>1, <1>2, <1>3, <1>4

LEMMA CascadeType == ObservedOK /\ Cascade => ObservedOK'
<1> SUFFICES ASSUME ObservedOK, Cascade PROVE ObservedOK'  OBVIOUS
<1>1. ssh' \in [Memory!Ids -> Memory!SshRow \cup {None}]
  BY DEF ObservedOK, Cascade
<1>2. network' \in [Memory!Ids -> Memory!Phases \cup {None}]
  BY DEF ObservedOK, Cascade
<1>. QED  BY <1>1, <1>2 DEF ObservedOK

LEMMA CommitType ==
    ASSUME NoneIsNone, StoreTypeOK, NEW p \in Memory!Plans, CommitStackPlan(p)
    PROVE  StoreTypeOK'
<1>0. p.stack \in DbStacks /\ p.spec \in Specs /\ p.replicas \subseteq Replicas
  BY DEF Memory!Plans
<1>1. dbStacks' \in [DbStacks -> Specs \cup {None}]
  BY <1>0 DEF StoreTypeOK, FleetOK, CommitStackPlan
<1>2. dbClaims' \in [Ports -> DbStacks \cup {None}]
  BY <1>0
  DEF StoreTypeOK, FleetOK, CommitStackPlan, ClaimsWritten, ClaimsCleared
<1>3. instances' \in [Memory!Ids -> Memory!InstanceRow \cup {None}]
  <2> SUFFICES ASSUME NEW i \in Memory!Ids
               PROVE  InstancesWritten(p)[i] \in Memory!InstanceRow \cup {None}
    BY DEF CommitStackPlan, InstancesWritten
  <2>1. CASE i \in Kept(p)
    <3>1. [instances[i] EXCEPT !.spec = p.spec] \in Memory!InstanceRow
      BY <1>0, <2>1, RowIs DEF Kept, StoredOf, StoreTypeOK, Memory!InstanceRow
    <3>. QED  BY <2>1, <3>1 DEF InstancesWritten, StoreTypeOK, FleetOK
  <2>2. CASE i \notin Kept(p)
    BY <1>0, <2>2, NewRowType DEF InstancesWritten, StoreTypeOK, FleetOK
  <2>. QED  BY <2>1, <2>2
<1>4. born' \in [DbStacks \X Replicas -> 0..MaxBorn]
  <2> SUFFICES ASSUME NEW r \in DbStacks \X Replicas, NEW i \in Inserted(p),
                      <<i[1], i[2]>> = r
               PROVE  born[r] + 1 \in 0..MaxBorn
    BY DEF CommitStackPlan, StoreTypeOK, FleetOK
  <2>1. i \in Memory!Ids /\ i[3] = born[r] + 1
    BY DEF Inserted
  <2>2. i[3] \in 1..MaxBorn
    BY <2>1 DEF Memory!Ids
  <2>. QED  BY <2>1, <2>2 DEF NoneIsNone
<1>. QED
  BY <1>1, <1>2, <1>3, <1>4, Frames, CascadeType, StatementControl
  DEF StoreTypeOK, FleetOK, CommitStackPlan

\* The row a touch writes is there: it is the node's own.
LEMMA TouchedIsThere ==
    ASSUME StoreInv, NEW c \in Callers, call[c].op = "touch_node"
    PROVE  /\ boot = "up" /\ call[c].at = settings.local_node_id
           /\ settings.local_node_id # None /\ nodes[call[c].at] # None
<1>1. boot = "up"
  BY DEF StoreInv, Registered, RowsNamed, NoCall
<1>. QED  BY <1>1 DEF StoreInv, Registered, RowsNamed, ReadsStand, ReadStands

LEMMA StoreTypeNext ==
    ASSUME NoneIsNone, StoreInv, [StoreNext]_storeVars
    PROVE  StoreTypeOK'
<1>0. StoreTypeOK /\ Registered /\ ReadsStand
  BY DEF StoreInv
<1> USE <1>0
<1> USE DEF StoreTypeOK
<1>1. ASSUME EnsureInstallId PROVE StoreTypeOK'
  BY <1>1, Frames DEF EnsureInstallId, IdentityOK, ControlOK
<1>2. ASSUME InitClusterRow PROVE StoreTypeOK'
  BY <1>2, Frames DEF InitClusterRow, IdentityOK, ControlOK
<1>3. ASSUME NEW name \in NodeNames, WriteNodeRow(name) PROVE StoreTypeOK'
<2>1. PICK id \in NodeIdOf(name) :
          /\ nodes' = [nodes EXCEPT ![id] = [name |-> name, status |-> "Ready"]]
          /\ minted' = id
    BY <1>3 DEF WriteNodeRow
  <2>2. id \in NodeIds
    BY <2>1 DEF NodeIdOf, IdentityOK
  <2>3. [name |-> name, status |-> "Ready"] \in Memory!NodeRow
    BY DEF Memory!NodeRow
  <2>4. IdentityOK'
    BY <1>3, <2>1, <2>2, <2>3 DEF WriteNodeRow, IdentityOK
  <2>5. ControlOK'
    <3>1. strays' \in SUBSET NodeIds
      BY <1>3 DEF WriteNodeRow, ControlOK
    <3>. QED  BY <1>3, <2>1, <2>2, <3>1 DEF WriteNodeRow, ControlOK
  <2>. QED  BY <1>3, <2>4, <2>5, Frames DEF WriteNodeRow
<1>4. ASSUME PersistNodeId PROVE StoreTypeOK'
  BY <1>4, Frames DEF PersistNodeId, IdentityOK, ControlOK
<1>5. ASSUME Crash PROVE StoreTypeOK'
<2>1. ControlOK'
    BY <1>5 DEF Crash, ControlOK, PendingCalls
  <2>. QED  BY <1>5, <2>1, Frames DEF Crash, tables
<1>6. ASSUME NEW c \in Callers, BeginRegistry(c) PROVE StoreTypeOK'
<2>1. ControlOK'
    BY <1>6, ReadControl DEF BeginRegistry, PendingCalls
  <2>. QED  BY <1>6, <2>1, Frames DEF BeginRegistry, Read, tables
<1>7. ASSUME NEW c \in Callers, BeginTouch(c) PROVE StoreTypeOK'
<2>1. ControlOK'
    BY <1>7, ReadControl DEF BeginTouch, PendingCalls, IdentityOK
  <2>. QED  BY <1>7, <2>1, Frames DEF BeginTouch, Read, tables
<1>8. ASSUME NEW c \in Callers, BeginInstance(c) PROVE StoreTypeOK'
<2>1. PICK i \in Memory!Ids : instances[i] # None
          /\ \/ \E k \in SshKeys :
                  Read(c, "put_instance_ssh_desired", i, k,
                       IF ssh[i] = None THEN "Closed" ELSE ssh[i].phase)
             \/ \E ph \in {"Closed", "Open"} :
                  Read(c, "update_instance_ssh_observed", i, ph, None)
             \/ \E ph \in Memory!Phases :
                  Read(c, "update_instance_network_observed", i, ph, None)
    BY <1>8 DEF BeginInstance
  <2>2. (IF ssh[i] = None THEN "Closed" ELSE ssh[i].phase) \in {"Closed", "Open"}
    BY DEF ObservedOK, Memory!SshRow
  <2>3. ASSUME NEW k \in SshKeys,
               Read(c, "put_instance_ssh_desired", i, k,
                    IF ssh[i] = None THEN "Closed" ELSE ssh[i].phase)
        PROVE  ControlOK'
    BY <2>2, <2>3, ReadControl DEF PendingCalls
  <2>4. ASSUME NEW ph \in {"Closed", "Open"},
               Read(c, "update_instance_ssh_observed", i, ph, None)
        PROVE  ControlOK'
    BY <2>4, ReadControl DEF PendingCalls
  <2>5. ASSUME NEW ph \in Memory!Phases,
               Read(c, "update_instance_network_observed", i, ph, None)
        PROVE  ControlOK'
    BY <2>5, ReadControl DEF PendingCalls
  <2>6. ControlOK'
    BY <2>1, <2>3, <2>4, <2>5
  <2>. QED  BY <2>1, <2>6, Frames DEF Read, tables
<1>9. ASSUME NEW c \in Callers, BeginClear(c) PROVE StoreTypeOK'
<2>1. ControlOK'
    BY <1>9, ReadControl DEF BeginClear, PendingCalls
  <2>. QED  BY <1>9, <2>1, Frames DEF BeginClear, Read, tables
<1>10. ASSUME NEW c \in Callers, PutSecretBlob(c) PROVE StoreTypeOK'
<2>1. call[c].at \in Secrets /\ call[c].arg \in Blobs /\ ControlOK'
    BY <1>10, WriteControl, PendingCall DEF PutSecretBlob
  <2>2. RegistryOK'
    BY <1>10, <2>1, UpdateOrInsertType DEF PutSecretBlob, RegistryOK
  <2>. QED  BY <1>10, <2>1, <2>2, Frames DEF PutSecretBlob
<1>11. ASSUME NEW c \in Callers, PutSshKey(c) PROVE StoreTypeOK'
<2>1. call[c].at \in SshKeys /\ call[c].arg \in Blobs /\ ControlOK'
    BY <1>11, WriteControl, PendingCall DEF PutSshKey
  <2>2. RegistryOK'
    BY <1>11, <2>1, UpdateOrInsertType DEF PutSshKey, RegistryOK
  <2>. QED  BY <1>11, <2>1, <2>2, Frames DEF PutSshKey
<1>12. ASSUME NEW c \in Callers, TouchNode(c) PROVE StoreTypeOK'
<2>1. /\ call[c].at \in NodeIds /\ call[c].arg \in {"Ready", "NotReady"}
        /\ ControlOK'
    BY <1>12, WriteControl, PendingCall DEF TouchNode
  <2>2. nodes[call[c].at] # None =>
          [nodes[call[c].at] EXCEPT !.status = call[c].arg] \in Memory!NodeRow
    BY <2>1 DEF IdentityOK, Memory!NodeRow
  <2>3. nodes[call[c].at] # None
    BY <1>12, <2>1, TouchedIsThere DEF TouchNode, Write
  <2>4. IdentityOK'
    BY <1>12, <2>1, <2>2, <2>3 DEF TouchNode, IdentityOK
  <2>. QED  BY <1>12, <2>1, <2>4, Frames DEF TouchNode
<1>13. ASSUME NEW c \in Callers, PutInstanceSshDesired(c) PROVE StoreTypeOK'
<2>1. call[c] \in PendingCalls /\ ControlOK' /\ call[c].at \in Memory!Ids
    BY <1>13, WriteControl, PendingCall DEF PutInstanceSshDesired
  <2>2. ssh' \in [Memory!Ids -> Memory!SshRow \cup {None}]
    <3>1. CASE ssh[call[c].at] = None
      BY <1>13, <2>1, <3>1, WriteControl, PendingCall
      DEF PutInstanceSshDesired, ObservedOK, Memory!SshRow
    <3>2. CASE ssh[call[c].at] # None
      BY <1>13, <2>1, <3>2, WriteControl, PendingCall
      DEF PutInstanceSshDesired, ObservedOK, Memory!SshRow
    <3>. QED  BY <3>1, <3>2
  <2>. QED  BY <1>13, <2>1, <2>2, Frames DEF PutInstanceSshDesired, ObservedOK
<1>14. ASSUME NEW c \in Callers, ClearInstanceSshOverride(c)
       PROVE  StoreTypeOK'
<2>1. call[c] \in PendingCalls /\ ControlOK' /\ call[c].at \in Memory!Ids
    BY <1>14, WriteControl, PendingCall DEF ClearInstanceSshOverride
  <2>2. ssh' \in [Memory!Ids -> Memory!SshRow \cup {None}]
    <3>1. CASE ssh[call[c].at] = None
      BY <1>14, <2>1, <3>1, WriteControl, PendingCall
      DEF ClearInstanceSshOverride, ObservedOK, Memory!SshRow
    <3>2. CASE ssh[call[c].at] # None
      BY <1>14, <2>1, <3>2, WriteControl, PendingCall
      DEF ClearInstanceSshOverride, ObservedOK, Memory!SshRow
    <3>. QED  BY <3>1, <3>2
  <2>. QED  BY <1>14, <2>1, <2>2, Frames
            DEF ClearInstanceSshOverride, ObservedOK
<1>15. ASSUME NEW c \in Callers, UpdateInstanceSshObserved(c)
       PROVE  StoreTypeOK'
<2>1. call[c] \in PendingCalls /\ ControlOK' /\ call[c].at \in Memory!Ids
    BY <1>15, WriteControl, PendingCall DEF UpdateInstanceSshObserved
  <2>2. ssh' \in [Memory!Ids -> Memory!SshRow \cup {None}]
    <3>1. CASE ssh[call[c].at] = None
      BY <1>15, <2>1, <3>1, WriteControl, PendingCall
      DEF UpdateInstanceSshObserved, ObservedOK, Memory!SshRow
    <3>2. CASE ssh[call[c].at] # None
      BY <1>15, <2>1, <3>2, WriteControl, PendingCall
      DEF UpdateInstanceSshObserved, ObservedOK, Memory!SshRow
    <3>. QED  BY <3>1, <3>2
  <2>. QED  BY <1>15, <2>1, <2>2, Frames
            DEF UpdateInstanceSshObserved, ObservedOK
<1>16. ASSUME NEW c \in Callers, UpdateInstanceNetworkObserved(c)
       PROVE  StoreTypeOK'
<2>1. /\ call[c].at \in Memory!Ids /\ call[c].arg \in Memory!Phases
        /\ ControlOK'
    BY <1>16, WriteControl, PendingCall DEF UpdateInstanceNetworkObserved
  <2>2. ObservedOK'
    BY <1>16, <2>1 DEF UpdateInstanceNetworkObserved, ObservedOK
  <2>. QED  BY <1>16, <2>1, <2>2, Frames DEF UpdateInstanceNetworkObserved
<1>17. ASSUME NEW s \in Secrets, DeleteSecret(s) PROVE StoreTypeOK'
  BY <1>17, Frames, StatementControl DEF DeleteSecret, RegistryOK
<1>18. ASSUME NEW k \in SshKeys, DeleteSshKey(k) PROVE StoreTypeOK'
  BY <1>18, Frames, StatementControl DEF DeleteSshKey, RegistryOK
<1>19. ASSUME NEW t \in Tokens, ReplaceApiTokenHash(t) PROVE StoreTypeOK'
  BY <1>19, Frames, StatementControl DEF ReplaceApiTokenHash, IdentityOK
<1>20. ASSUME NEW p \in Memory!Plans, CommitStackPlan(p) PROVE StoreTypeOK'
  BY <1>20, CommitType
<1>21. ASSUME NEW s \in DbStacks, DeleteStackTx(s) PROVE StoreTypeOK'
<2>1. FleetOK'
    BY <1>21 DEF DeleteStackTx, FleetOK, ClaimsCleared
  <2>. QED  BY <1>21, <2>1, Frames, CascadeType, StatementControl
            DEF DeleteStackTx
<1>22. ASSUME NEW i \in Memory!Ids, NEW n \in NodeIds, BindInstanceToNode(i, n)
       PROVE  StoreTypeOK'
  BY <1>22, UpdatedRows, UpdateInstanceType
<1>23. ASSUME NEW i \in Memory!Ids, NEW h \in Specs \cup {None},
       SetInstanceAppliedHash(i, h)
       PROVE  StoreTypeOK'
  BY <1>23, UpdatedRows, UpdateInstanceType
<1>24. ASSUME NEW i \in Memory!Ids, NEW ph \in Memory!Phases, NEW named \in BOOLEAN,
       UpdateInstanceStatus(i, ph, named)
       PROVE  StoreTypeOK'
  BY <1>24, UpdatedRows, UpdateInstanceType
<1>25. ASSUME NEW i \in Memory!Ids, NEW b \in BOOLEAN, UpdateInstanceHealth(i, b)
       PROVE  StoreTypeOK'
  BY <1>25, UpdatedRows, UpdateInstanceType
<1>26. ASSUME UNCHANGED storeVars PROVE StoreTypeOK'
  BY <1>26, Frames DEF storeVars, tables, control
<1>. QED
  BY <1>1, <1>2, <1>3, <1>4, <1>5, <1>6, <1>7, <1>8, <1>9, <1>10, <1>11,
     <1>12, <1>13, <1>14, <1>15, <1>16, <1>17, <1>18, <1>19, <1>20, <1>21,
     <1>22, <1>23, <1>24, <1>25, <1>26
  DEF StoreNext, ServerStart, Call, AtOnce

-----------------------------------------------------------------------------
(***************************************************************************)
(* The node's rows, dependent rows and pending reads.                       *)
(***************************************************************************)
LEMMA RegisteredNext ==
    ASSUME NoneIsNone, StoreInv, [StoreNext]_storeVars
    PROVE  Registered'
<1>0. StoreTypeOK /\ Registered /\ StoreTypeOK'
  BY StoreTypeNext DEF StoreInv
<1> USE <1>0 DEF StoreTypeOK, IdentityOK
<1>1. ASSUME EnsureInstallId PROVE Registered'
  BY <1>1 DEF EnsureInstallId, Registered, RowsNamed, tables, identityTables
<1>2. ASSUME InitClusterRow PROVE Registered'
  BY <1>2 DEF InitClusterRow, Registered, RowsNamed, NoneIsNone
<1>3. ASSUME NEW name \in NodeNames, WriteNodeRow(name) PROVE Registered'
<2>1. PICK id \in NodeIdOf(name) :
          /\ nodes' = [nodes EXCEPT ![id] = [name |-> name, status |-> "Ready"]]
          /\ minted' = id
    BY <1>3 DEF WriteNodeRow
  <2>2. id \in NodeIds
    BY <2>1 DEF NodeIdOf
  <2>3. [name |-> name, status |-> "Ready"] # None
    BY DEF NoneIsNone, Memory!NodeRow
  <2>4. CASE settings.local_node_id = None
    <3>1. strays' = {n \in NodeIds \ {id} : nodes[n] # None}
      BY <1>3, <2>1, <2>4 DEF WriteNodeRow
    <3>. QED  BY <1>3, <2>1, <2>2, <2>3, <2>4, <3>1
              DEF WriteNodeRow, Registered, RowsNamed
  <2>5. CASE settings.local_node_id # None
    <3>1. strays' = strays /\ id = settings.local_node_id
      BY <1>3, <2>1, <2>5 DEF WriteNodeRow, NodeIdOf
    <3>. QED  BY <1>3, <2>1, <2>2, <2>3, <2>5, <3>1
              DEF WriteNodeRow, Registered, RowsNamed
  <2>. QED  BY <2>4, <2>5
<1>4. ASSUME PersistNodeId PROVE Registered'
  BY <1>4 DEF PersistNodeId, Registered, RowsNamed, NoneIsNone
<1>5. ASSUME Crash PROVE Registered'
  BY <1>5 DEF Crash, Registered, RowsNamed, tables, identityTables
<1>6. ASSUME NEW c \in Callers, BeginRegistry(c) PROVE Registered'
  BY <1>6 DEF BeginRegistry, Read, Registered, RowsNamed, tables,
     identityTables
<1>7. ASSUME NEW c \in Callers, BeginTouch(c) PROVE Registered'
  BY <1>7 DEF BeginTouch, Read, Registered, RowsNamed, tables, identityTables
<1>8. ASSUME NEW c \in Callers, BeginInstance(c) PROVE Registered'
  BY <1>8 DEF BeginInstance, Read, Registered, RowsNamed, tables,
     identityTables
<1>9. ASSUME NEW c \in Callers, BeginClear(c) PROVE Registered'
  BY <1>9 DEF BeginClear, Read, Registered, RowsNamed, tables, identityTables
<1>10. ASSUME NEW c \in Callers, PutSecretBlob(c) PROVE Registered'
  BY <1>10 DEF PutSecretBlob, Write, NoCall, Registered, RowsNamed,
     identityTables
<1>11. ASSUME NEW c \in Callers, PutSshKey(c) PROVE Registered'
  BY <1>11 DEF PutSshKey, Write, NoCall, Registered, RowsNamed, identityTables
<1>12. ASSUME NEW c \in Callers, TouchNode(c) PROVE Registered'
<2>1. /\ boot = "up" /\ nodes[call[c].at] # None /\ call[c].at \in NodeIds
        /\ call[c].at = settings.local_node_id
    BY <1>12, TouchedIsThere DEF TouchNode, Write
  <2>2. nodes'[call[c].at] # None
    <3>1. nodes[call[c].at] \in Memory!NodeRow
      BY <2>1
    <3>2. call[c].arg \in {"Ready", "NotReady"}
      BY <1>12, WriteControl, PendingCall DEF TouchNode
    <3>3. [nodes[call[c].at] EXCEPT !.status = call[c].arg] \in Memory!NodeRow
      BY <3>1, <3>2 DEF Memory!NodeRow
    <3>. QED  BY <1>12, <2>1, <3>3 DEF NoneIsNone, TouchNode
  <2>. QED  BY <1>12, <2>1, <2>2 DEF TouchNode, Write, Registered, RowsNamed
<1>13. ASSUME NEW c \in Callers, PutInstanceSshDesired(c) PROVE Registered'
  BY <1>13 DEF PutInstanceSshDesired, Write, NoCall, Registered, RowsNamed,
     identityTables
<1>14. ASSUME NEW c \in Callers, ClearInstanceSshOverride(c)
       PROVE  Registered'
  BY <1>14 DEF ClearInstanceSshOverride, Write, NoCall, Registered, RowsNamed,
     identityTables
<1>15. ASSUME NEW c \in Callers, UpdateInstanceSshObserved(c)
       PROVE  Registered'
  BY <1>15 DEF UpdateInstanceSshObserved, Write, NoCall, Registered, RowsNamed,
     identityTables
<1>16. ASSUME NEW c \in Callers, UpdateInstanceNetworkObserved(c)
       PROVE  Registered'
  BY <1>16 DEF UpdateInstanceNetworkObserved, Write, NoCall, Registered,
     RowsNamed,
     identityTables
<1>17. ASSUME NEW s \in Secrets, DeleteSecret(s) PROVE Registered'
  BY <1>17 DEF DeleteSecret, Statement, Registered, RowsNamed, tables,
     identityTables
<1>18. ASSUME NEW k \in SshKeys, DeleteSshKey(k) PROVE Registered'
  BY <1>18 DEF DeleteSshKey, Statement, Registered, RowsNamed, tables,
     identityTables
<1>19. ASSUME NEW t \in Tokens, ReplaceApiTokenHash(t) PROVE Registered'
  BY <1>19 DEF ReplaceApiTokenHash, Statement, Registered, RowsNamed,
     NoneIsNone
<1>20. ASSUME NEW p \in Memory!Plans, CommitStackPlan(p) PROVE Registered'
  BY <1>20 DEF CommitStackPlan, Statement, Registered, RowsNamed, tables,
     identityTables
<1>21. ASSUME NEW s \in DbStacks, DeleteStackTx(s) PROVE Registered'
  BY <1>21 DEF DeleteStackTx, Statement, Registered, RowsNamed, tables,
     identityTables
<1>22. ASSUME NEW i \in Memory!Ids, NEW n \in NodeIds, BindInstanceToNode(i, n)
       PROVE  Registered'
  BY <1>22 DEF BindInstanceToNode, UpdateInstance, Statement, Registered,
     RowsNamed,
     tables, identityTables
<1>23. ASSUME NEW i \in Memory!Ids, NEW h \in Specs \cup {None},
       SetInstanceAppliedHash(i, h)
       PROVE  Registered'
  BY <1>23 DEF SetInstanceAppliedHash, UpdateInstance, Statement, Registered,
     RowsNamed,
     tables, identityTables
<1>24. ASSUME NEW i \in Memory!Ids, NEW ph \in Memory!Phases, NEW named \in BOOLEAN,
       UpdateInstanceStatus(i, ph, named)
       PROVE  Registered'
  BY <1>24 DEF UpdateInstanceStatus, UpdateInstance, Statement, Registered,
     RowsNamed,
     tables, identityTables
<1>25. ASSUME NEW i \in Memory!Ids, NEW b \in BOOLEAN, UpdateInstanceHealth(i, b)
       PROVE  Registered'
  BY <1>25 DEF UpdateInstanceHealth, UpdateInstance, Statement, Registered,
     RowsNamed,
     tables, identityTables
<1>26. ASSUME UNCHANGED storeVars PROVE Registered'
  BY <1>26 DEF Registered, RowsNamed, storeVars, tables, control,
     identityTables
<1>. QED
  BY <1>1, <1>2, <1>3, <1>4, <1>5, <1>6, <1>7, <1>8, <1>9, <1>10, <1>11,
     <1>12, <1>13, <1>14, <1>15, <1>16, <1>17, <1>18, <1>19, <1>20, <1>21,
     <1>22, <1>23, <1>24, <1>25, <1>26
  DEF StoreNext, ServerStart, Call, AtOnce

\* A row is new, with an id that was not used, or it was there; either way its
\* id is used now, and what was used stays so.
LEMMA CommitUses ==
    ASSUME NoneIsNone, StoreTypeOK, RowsFollow, NEW p \in Memory!Plans,
           CommitStackPlan(p), NEW i \in Memory!Ids
    PROVE  /\ Used(i) => Used(i)'
           /\ instances'[i] # None =>
                /\ Used(i)'
                /\ Used(i) => instances[i] # None
<1>1. /\ i[1] \in DbStacks /\ i[2] \in Replicas /\ i[3] \in Nat
      /\ born[<<i[1], i[2]>>] \in Nat
  BY DEF Memory!Ids, StoreTypeOK, FleetOK, NoneIsNone
<1>2. /\ born'[<<i[1], i[2]>>] =
           IF \E j \in Inserted(p) : <<j[1], j[2]>> = <<i[1], i[2]>>
           THEN born[<<i[1], i[2]>>] + 1 ELSE born[<<i[1], i[2]>>]
      /\ instances'[i] = InstancesWritten(p)[i]
  BY <1>1 DEF CommitStackPlan
<1>3. Used(i) => Used(i)'
  BY <1>1, <1>2 DEF Used
<1>4. CASE i \in Inserted(p)
  <2>1. i[3] = born[<<i[1], i[2]>>] + 1
    BY <1>4 DEF Inserted
  <2>2. born'[<<i[1], i[2]>>] = born[<<i[1], i[2]>>] + 1
    BY <1>2, <1>4
  <2>. QED  BY <1>1, <1>3, <2>1, <2>2 DEF Used
<1>5. CASE i \notin Inserted(p)
  BY <1>2, <1>3, <1>5 DEF InstancesWritten, Kept, StoredOf, RowsFollow
<1>. QED  BY <1>4, <1>5

\* Changing a row keeps it a row.
LEMMA UpdateKeeps ==
    ASSUME NoneIsNone, StoreTypeOK, RowsFollow, NEW i \in Memory!Ids,
           \E row \in Memory!InstanceRow : UpdateInstance(i, row)
    PROVE  RowsFollow'
  BY DEF UpdateInstance, RowsFollow, Used, observedTables, StoreTypeOK, FleetOK,
     NoneIsNone

LEMMA RowsFollowNext ==
    ASSUME NoneIsNone, StoreInv, [StoreNext]_storeVars
    PROVE  RowsFollow'
<1>0. StoreTypeOK /\ RowsFollow /\ StoreTypeOK'
  BY StoreTypeNext DEF StoreInv
<1> USE <1>0 DEF StoreTypeOK
<1>a. ASSUME UNCHANGED <<fleetTables, observedTables>> PROVE RowsFollow'
  BY <1>a DEF RowsFollow, Used, fleetTables, observedTables
<1>1. ASSUME EnsureInstallId PROVE RowsFollow'
  BY <1>1, <1>a DEF EnsureInstallId
<1>2. ASSUME InitClusterRow PROVE RowsFollow'
  BY <1>2, <1>a DEF InitClusterRow
<1>3. ASSUME NEW name \in NodeNames, WriteNodeRow(name) PROVE RowsFollow'
  BY <1>3, <1>a DEF WriteNodeRow
<1>4. ASSUME PersistNodeId PROVE RowsFollow'
  BY <1>4, <1>a DEF PersistNodeId
<1>5. ASSUME Crash PROVE RowsFollow'
  BY <1>5, <1>a DEF Crash, tables
<1>6. ASSUME NEW c \in Callers, BeginRegistry(c) PROVE RowsFollow'
  BY <1>6, <1>a DEF BeginRegistry, Read, tables
<1>7. ASSUME NEW c \in Callers, BeginTouch(c) PROVE RowsFollow'
  BY <1>7, <1>a DEF BeginTouch, Read, tables
<1>8. ASSUME NEW c \in Callers, BeginInstance(c) PROVE RowsFollow'
  BY <1>8, <1>a DEF BeginInstance, Read, tables
<1>9. ASSUME NEW c \in Callers, BeginClear(c) PROVE RowsFollow'
  BY <1>9, <1>a DEF BeginClear, Read, tables
<1>10. ASSUME NEW c \in Callers, PutSecretBlob(c) PROVE RowsFollow'
  BY <1>10, <1>a DEF PutSecretBlob
<1>11. ASSUME NEW c \in Callers, PutSshKey(c) PROVE RowsFollow'
  BY <1>11, <1>a DEF PutSshKey
<1>12. ASSUME NEW c \in Callers, TouchNode(c) PROVE RowsFollow'
  BY <1>12, <1>a DEF TouchNode
<1>13. ASSUME NEW c \in Callers, PutInstanceSshDesired(c) PROVE RowsFollow'
  BY <1>13 DEF PutInstanceSshDesired, Write, RowsFollow, Used, fleetTables,
     ObservedOK
<1>14. ASSUME NEW c \in Callers, ClearInstanceSshOverride(c)
       PROVE  RowsFollow'
  BY <1>14 DEF ClearInstanceSshOverride, Write, RowsFollow, Used,
     fleetTables, ObservedOK
<1>15. ASSUME NEW c \in Callers, UpdateInstanceSshObserved(c)
       PROVE  RowsFollow'
  BY <1>15 DEF UpdateInstanceSshObserved, Write, RowsFollow, Used,
     fleetTables, ObservedOK
<1>16. ASSUME NEW c \in Callers, UpdateInstanceNetworkObserved(c)
       PROVE  RowsFollow'
  BY <1>16 DEF UpdateInstanceNetworkObserved, Write, RowsFollow, Used,
     fleetTables, ObservedOK
<1>17. ASSUME NEW s \in Secrets, DeleteSecret(s) PROVE RowsFollow'
  BY <1>17, <1>a DEF DeleteSecret
<1>18. ASSUME NEW k \in SshKeys, DeleteSshKey(k) PROVE RowsFollow'
  BY <1>18, <1>a DEF DeleteSshKey
<1>19. ASSUME NEW t \in Tokens, ReplaceApiTokenHash(t) PROVE RowsFollow'
  BY <1>19, <1>a DEF ReplaceApiTokenHash
<1>20. ASSUME NEW p \in Memory!Plans, CommitStackPlan(p) PROVE RowsFollow'
<2>1. ASSUME NEW i \in Memory!Ids, instances'[i] = None
        PROVE  ssh'[i] = None /\ network'[i] = None
    BY <1>20, <2>1 DEF CommitStackPlan, Cascade
  <2>2. ASSUME NEW i \in Memory!Ids, instances'[i] # None
        PROVE  Used(i)'
    BY <1>20, <2>2, CommitUses
  <2>. QED  BY <2>1, <2>2 DEF RowsFollow
<1>21. ASSUME NEW s \in DbStacks, DeleteStackTx(s) PROVE RowsFollow'
  BY <1>21 DEF DeleteStackTx, Cascade, RowsFollow, Used
<1>22. ASSUME NEW i \in Memory!Ids, NEW n \in NodeIds, BindInstanceToNode(i, n)
       PROVE  RowsFollow'
  BY <1>22, UpdatedRows, UpdateKeeps
<1>23. ASSUME NEW i \in Memory!Ids, NEW h \in Specs \cup {None},
       SetInstanceAppliedHash(i, h)
       PROVE  RowsFollow'
  BY <1>23, UpdatedRows, UpdateKeeps
<1>24. ASSUME NEW i \in Memory!Ids, NEW ph \in Memory!Phases, NEW named \in BOOLEAN,
       UpdateInstanceStatus(i, ph, named)
       PROVE  RowsFollow'
  BY <1>24, UpdatedRows, UpdateKeeps
<1>25. ASSUME NEW i \in Memory!Ids, NEW b \in BOOLEAN, UpdateInstanceHealth(i, b)
       PROVE  RowsFollow'
  BY <1>25, UpdatedRows, UpdateKeeps
<1>26. ASSUME UNCHANGED storeVars PROVE RowsFollow'
  BY <1>26, <1>a DEF storeVars, tables
<1>. QED
  BY <1>1, <1>2, <1>3, <1>4, <1>5, <1>6, <1>7, <1>8, <1>9, <1>10, <1>11,
     <1>12, <1>13, <1>14, <1>15, <1>16, <1>17, <1>18, <1>19, <1>20, <1>21,
     <1>22, <1>23, <1>24, <1>25, <1>26
  DEF StoreNext, ServerStart, Call, AtOnce

\* No write of an SSH row removes one.
LEMMA SshRowStays ==
    ASSUME NoneIsNone, StoreTypeOK, StoreTypeOK', NEW c \in Callers,
           \/ PutInstanceSshDesired(c)
           \/ ClearInstanceSshOverride(c)
           \/ UpdateInstanceSshObserved(c),
           NEW j \in Memory!Ids, ssh[j] # None
    PROVE  ssh'[j] # None
<1>1. ssh[j] \in Memory!SshRow
  BY DEF StoreTypeOK, ObservedOK
<1>2. \/ ssh'[j] = ssh[j]
      \/ \E k \in SshKeys \cup {None} : ssh'[j] = [ssh[j] EXCEPT !.override = k]
      \/ \E ph \in {"Closed", "Open"} : ssh'[j] = [ssh[j] EXCEPT !.phase = ph]
  <2>1. CASE PutInstanceSshDesired(c)
    BY <2>1, WriteControl, PendingCall
    DEF PutInstanceSshDesired, StoreTypeOK, ObservedOK
  <2>2. CASE ClearInstanceSshOverride(c)
    BY <2>2, WriteControl, PendingCall
    DEF ClearInstanceSshOverride, StoreTypeOK, ObservedOK
  <2>3. CASE UpdateInstanceSshObserved(c)
    BY <2>3, WriteControl, PendingCall
    DEF UpdateInstanceSshObserved, StoreTypeOK, ObservedOK
  <2>. QED  BY <2>1, <2>2, <2>3
<1>3. ssh'[j] \in Memory!SshRow
  BY <1>1, <1>2 DEF Memory!SshRow
<1>. QED  BY <1>3 DEF NoneIsNone

\* What a pending SSH write relies on: a used id stays used, and a row that is
\* not there has not just gone from under a living instance.
UsedStays ==
  \A i \in Memory!Ids : Used(i) =>
    /\ Used(i)'
    /\ instances'[i] # None /\ ssh'[i] = None =>
         instances[i] # None /\ ssh[i] = None

LEMMA ReadsKept ==
    ASSUME ControlOK, ReadsStand, UsedStays,
           settings'.local_node_id = settings.local_node_id,
           \A c \in Callers : call'[c] \in {call[c], NoCall}
    PROVE  ReadsStand'
<1> SUFFICES ASSUME NEW c \in Callers PROVE ReadStands(call[c])'
  BY DEF ReadsStand
<1>1. CASE call'[c] = NoCall
  BY <1>1 DEF ReadStands, NoCall
<1>2. CASE call'[c] = call[c]
  <2>1. ReadStands(call[c])
    BY DEF ReadsStand
  <2>2. call[c].op = "put_instance_ssh_desired" => call[c].at \in Memory!Ids
    BY PendingCall DEF ControlOK
  <2>. QED  BY <1>2, <2>1, <2>2 DEF ReadStands, UsedStays, Used
<1>. QED  BY <1>1, <1>2

\* A call that begins may rely on what it has just read.
LEMMA ReadBegins ==
    ASSUME ControlOK, ReadsStand, NEW c \in Callers, NEW op, NEW at, NEW arg,
           NEW read, Read(c, op, at, arg, read),
           ReadStands([op |-> op, at |-> at, arg |-> arg, read |-> read])
    PROVE  ReadsStand'
<1> SUFFICES ASSUME NEW d \in Callers PROVE ReadStands(call[d])'
  BY DEF ReadsStand
<1>1. UNCHANGED <<settings, born, instances, ssh>>
  BY DEF Read, tables, identityTables, fleetTables, observedTables
<1>2. CASE d = c
  BY <1>1, <1>2 DEF Read, ControlOK, ReadStands, Used
<1>3. CASE d # c
  BY <1>1, <1>3 DEF Read, ControlOK, ReadsStand, ReadStands, Used
<1>. QED  BY <1>2, <1>3

LEMMA ReadsStandNext ==
    ASSUME NoneIsNone, StoreInv, [StoreNext]_storeVars
    PROVE  ReadsStand'
<1>0. StoreTypeOK /\ Registered /\ RowsFollow /\ ReadsStand /\ StoreTypeOK'
  BY StoreTypeNext DEF StoreInv
<1> USE <1>0 DEF StoreTypeOK
<1>a. UNCHANGED <<fleetTables, observedTables>> => UsedStays
  BY DEF UsedStays, Used, fleetTables, observedTables
<1>b. /\ UNCHANGED <<instances, born>>
      /\ \A i \in Memory!Ids : ssh[i] # None => ssh'[i] # None
      => UsedStays
  BY DEF UsedStays, Used
<1>1. ASSUME EnsureInstallId PROVE ReadsStand'
  BY <1>1, <1>a, ReadsKept DEF EnsureInstallId, IdentityOK
<1>2. ASSUME InitClusterRow PROVE ReadsStand'
  BY <1>2, <1>a, ReadsKept DEF InitClusterRow, IdentityOK
<1>3. ASSUME NEW name \in NodeNames, WriteNodeRow(name) PROVE ReadsStand'
  BY <1>3, <1>a, ReadsKept DEF WriteNodeRow
<1>4. ASSUME PersistNodeId PROVE ReadsStand'
<2>1. \A c \in Callers : call'[c] = NoCall
    BY <1>4 DEF PersistNodeId, Registered, RowsNamed
  <2>. QED  BY <2>1 DEF ReadsStand, ReadStands, NoCall
<1>5. ASSUME Crash PROVE ReadsStand'
  BY <1>5 DEF Crash, ReadsStand, ReadStands, NoCall
<1>6. ASSUME NEW c \in Callers, BeginRegistry(c) PROVE ReadsStand'
<2>1. ASSUME NEW s \in Secrets, NEW d \in Blobs,
               Read(c, "put_secret_blob", s, d, secrets[s] # None)
        PROVE  ReadsStand'
    BY <2>1, ReadBegins DEF ReadStands
  <2>2. ASSUME NEW k \in SshKeys, NEW d \in Blobs,
               Read(c, "put_ssh_key", k, d, keys[k] # None)
        PROVE  ReadsStand'
    BY <2>2, ReadBegins DEF ReadStands
  <2>. QED  BY <1>6, <2>1, <2>2 DEF BeginRegistry
<1>7. ASSUME NEW c \in Callers, BeginTouch(c) PROVE ReadsStand'
  BY <1>7, ReadBegins DEF BeginTouch, ReadStands
<1>8. ASSUME NEW c \in Callers, BeginInstance(c) PROVE ReadsStand'
<2> SUFFICES ASSUME NEW i \in Memory!Ids, instances[i] # None,
             \/ \E k \in SshKeys :
                  Read(c, "put_instance_ssh_desired", i, k,
                       IF ssh[i] = None THEN "Closed" ELSE ssh[i].phase)
             \/ \E ph \in {"Closed", "Open"} :
                  Read(c, "update_instance_ssh_observed", i, ph, None)
             \/ \E ph \in Memory!Phases :
                  Read(c, "update_instance_network_observed", i, ph, None)
               PROVE  ReadsStand'
    BY <1>8 DEF BeginInstance
  <2>1. Used(i)
    BY DEF RowsFollow
  <2>2. ASSUME NEW k \in SshKeys,
               Read(c, "put_instance_ssh_desired", i, k,
                    IF ssh[i] = None THEN "Closed" ELSE ssh[i].phase)
        PROVE  ReadsStand'
    BY <2>1, <2>2, ReadBegins DEF ReadStands
  <2>3. ASSUME NEW ph \in {"Closed", "Open"},
               Read(c, "update_instance_ssh_observed", i, ph, None)
        PROVE  ReadsStand'
    BY <2>3, ReadBegins DEF ReadStands
  <2>4. ASSUME NEW ph \in Memory!Phases,
               Read(c, "update_instance_network_observed", i, ph, None)
        PROVE  ReadsStand'
    BY <2>4, ReadBegins DEF ReadStands
  <2>. QED  BY <2>2, <2>3, <2>4
<1>9. ASSUME NEW c \in Callers, BeginClear(c) PROVE ReadsStand'
  BY <1>9, ReadBegins DEF BeginClear, ReadStands
<1>10. ASSUME NEW c \in Callers, PutSecretBlob(c) PROVE ReadsStand'
  BY <1>10, <1>a, ReadsKept DEF PutSecretBlob, Write, ControlOK,
     identityTables
<1>11. ASSUME NEW c \in Callers, PutSshKey(c) PROVE ReadsStand'
  BY <1>11, <1>a, ReadsKept DEF PutSshKey, Write, ControlOK, identityTables
<1>12. ASSUME NEW c \in Callers, TouchNode(c) PROVE ReadsStand'
  BY <1>12, <1>a, ReadsKept DEF TouchNode, Write, ControlOK, identityTables
<1>13. ASSUME NEW c \in Callers, PutInstanceSshDesired(c) PROVE ReadsStand'
<2>1. \A j \in Memory!Ids : ssh[j] # None => ssh'[j] # None
    BY <1>13, SshRowStays
  <2>. QED  BY <1>13, <2>1, <1>b, ReadsKept
            DEF PutInstanceSshDesired, Write, ControlOK,
                fleetTables, identityTables
<1>14. ASSUME NEW c \in Callers, ClearInstanceSshOverride(c)
       PROVE  ReadsStand'
<2>1. \A j \in Memory!Ids : ssh[j] # None => ssh'[j] # None
    BY <1>14, SshRowStays
  <2>. QED  BY <1>14, <2>1, <1>b, ReadsKept
            DEF ClearInstanceSshOverride, Write, ControlOK,
                fleetTables, identityTables
<1>15. ASSUME NEW c \in Callers, UpdateInstanceSshObserved(c)
       PROVE  ReadsStand'
<2>1. \A j \in Memory!Ids : ssh[j] # None => ssh'[j] # None
    BY <1>15, SshRowStays
  <2>. QED  BY <1>15, <2>1, <1>b, ReadsKept
            DEF UpdateInstanceSshObserved, Write, ControlOK,
                fleetTables, identityTables
<1>16. ASSUME NEW c \in Callers, UpdateInstanceNetworkObserved(c)
       PROVE  ReadsStand'
  BY <1>16, <1>b, ReadsKept DEF UpdateInstanceNetworkObserved, Write,
     ControlOK, fleetTables, identityTables
<1>17. ASSUME NEW s \in Secrets, DeleteSecret(s) PROVE ReadsStand'
  BY <1>17, <1>a, ReadsKept DEF DeleteSecret, Statement, identityTables
<1>18. ASSUME NEW k \in SshKeys, DeleteSshKey(k) PROVE ReadsStand'
  BY <1>18, <1>a, ReadsKept DEF DeleteSshKey, Statement, identityTables
<1>19. ASSUME NEW t \in Tokens, ReplaceApiTokenHash(t) PROVE ReadsStand'
  BY <1>19, <1>a, ReadsKept DEF ReplaceApiTokenHash, Statement,
     identityTables
<1>20. ASSUME NEW p \in Memory!Plans, CommitStackPlan(p) PROVE ReadsStand'
<2>1. UsedStays
    BY <1>20, CommitUses DEF CommitStackPlan, Cascade, UsedStays
  <2>. QED  BY <1>20, <2>1, ReadsKept
            DEF CommitStackPlan, Statement, identityTables
<1>21. ASSUME NEW s \in DbStacks, DeleteStackTx(s) PROVE ReadsStand'
<2>1. UsedStays
    BY <1>21 DEF DeleteStackTx, Cascade, UsedStays, Used, FleetOK
  <2>. QED  BY <1>21, <2>1, ReadsKept DEF DeleteStackTx, Statement, identityTables
<1>22. ASSUME NEW i \in Memory!Ids, NEW n \in NodeIds, BindInstanceToNode(i, n)
       PROVE  ReadsStand'
<2>1. PICK row \in Memory!InstanceRow : UpdateInstance(i, row)
    BY <1>22, UpdatedRows
  <2>2. UsedStays
    BY <2>1 DEF UpdateInstance, UsedStays, Used, observedTables, FleetOK
  <2>. QED  BY <2>1, <2>2, ReadsKept
            DEF UpdateInstance, Statement, identityTables
<1>23. ASSUME NEW i \in Memory!Ids, NEW h \in Specs \cup {None},
       SetInstanceAppliedHash(i, h)
       PROVE  ReadsStand'
<2>1. PICK row \in Memory!InstanceRow : UpdateInstance(i, row)
    BY <1>23, UpdatedRows
  <2>2. UsedStays
    BY <2>1 DEF UpdateInstance, UsedStays, Used, observedTables, FleetOK
  <2>. QED  BY <2>1, <2>2, ReadsKept
            DEF UpdateInstance, Statement, identityTables
<1>24. ASSUME NEW i \in Memory!Ids, NEW ph \in Memory!Phases, NEW named \in BOOLEAN,
       UpdateInstanceStatus(i, ph, named)
       PROVE  ReadsStand'
<2>1. PICK row \in Memory!InstanceRow : UpdateInstance(i, row)
    BY <1>24, UpdatedRows
  <2>2. UsedStays
    BY <2>1 DEF UpdateInstance, UsedStays, Used, observedTables, FleetOK
  <2>. QED  BY <2>1, <2>2, ReadsKept
            DEF UpdateInstance, Statement, identityTables
<1>25. ASSUME NEW i \in Memory!Ids, NEW b \in BOOLEAN, UpdateInstanceHealth(i, b)
       PROVE  ReadsStand'
<2>1. PICK row \in Memory!InstanceRow : UpdateInstance(i, row)
    BY <1>25, UpdatedRows
  <2>2. UsedStays
    BY <2>1 DEF UpdateInstance, UsedStays, Used, observedTables, FleetOK
  <2>. QED  BY <2>1, <2>2, ReadsKept
            DEF UpdateInstance, Statement, identityTables
<1>26. ASSUME UNCHANGED storeVars PROVE ReadsStand'
  BY <1>26, <1>a, ReadsKept DEF storeVars, tables, control, identityTables
<1>. QED
  BY <1>1, <1>2, <1>3, <1>4, <1>5, <1>6, <1>7, <1>8, <1>9, <1>10, <1>11,
     <1>12, <1>13, <1>14, <1>15, <1>16, <1>17, <1>18, <1>19, <1>20, <1>21,
     <1>22, <1>23, <1>24, <1>25, <1>26
  DEF StoreNext, ServerStart, Call, AtOnce

LEMMA StoreInvNext ==
    ASSUME NoneIsNone, StoreInv, [StoreNext]_storeVars
    PROVE  StoreInv'
  BY StoreTypeNext, RegisteredNext, RowsFollowNext, ReadsStandNext DEF StoreInv

-----------------------------------------------------------------------------
(***************************************************************************)
(* Placements.                                                             *)
(***************************************************************************)
LEMMA PlacementsKept ==
    ASSUME NoneIsNone, StoreInv, NodeKeepsItsPlacements, [StoreNext]_storeVars
    PROVE  NodeKeepsItsPlacements'
<1>0. StoreTypeOK /\ Registered /\ Registered'
  BY RegisteredNext DEF StoreInv
<1> USE <1>0 DEF StoreTypeOK
\* A server without an id has placed nothing; one with an id keeps its row.
<1>r. settings'.local_node_id # None => nodes'[settings'.local_node_id] # None
  BY DEF Registered, RowsNamed
<1>a. ASSUME instances' = instances, strays' = strays,
             settings'.local_node_id = settings.local_node_id
      PROVE  NodeKeepsItsPlacements'
  <2> SUFFICES ASSUME NEW i \in Memory!Ids,
                      instances[i] # None, instances[i].node # None
               PROVE  /\ instances[i].node \in {settings.local_node_id} \cup strays
                      /\ settings.local_node_id \in NodeIds \ strays
                      /\ nodes'[settings.local_node_id] # None
    BY <1>a DEF NodeKeepsItsPlacements
  <2>1. /\ instances[i].node \in {settings.local_node_id} \cup strays
        /\ settings.local_node_id \in NodeIds \ strays
    BY DEF NodeKeepsItsPlacements
  <2>2. settings.local_node_id # None
    BY <2>1 DEF NoneIsNone
  <2>. QED  BY <1>a, <1>r, <2>1, <2>2
<1>b. settings.local_node_id = None => \A i \in Memory!Ids :
        instances[i] # None => instances[i].node = None
  BY DEF NodeKeepsItsPlacements, NoneIsNone
<1>1. ASSUME EnsureInstallId PROVE NodeKeepsItsPlacements'
  BY <1>1, <1>a DEF EnsureInstallId, IdentityOK, fleetTables
<1>2. ASSUME InitClusterRow PROVE NodeKeepsItsPlacements'
  BY <1>2, <1>a DEF InitClusterRow, identityTables, fleetTables
<1>3. ASSUME NEW name \in NodeNames, WriteNodeRow(name) PROVE NodeKeepsItsPlacements'
<2>1. CASE settings.local_node_id = None
    BY <1>3, <2>1, <1>b DEF WriteNodeRow, NodeKeepsItsPlacements, fleetTables
  <2>2. CASE settings.local_node_id # None
    BY <1>3, <2>2, <1>a DEF WriteNodeRow, identityTables, fleetTables
  <2>. QED  BY <2>1, <2>2
<1>4. ASSUME PersistNodeId PROVE NodeKeepsItsPlacements'
<2>1. CASE settings.local_node_id = None
    BY <1>4, <2>1, <1>b DEF PersistNodeId, NodeKeepsItsPlacements, fleetTables
  <2>2. CASE settings.local_node_id # None
    <3>1. minted = settings.local_node_id
      BY <1>4, <2>2 DEF PersistNodeId, Registered, RowsNamed, IdentityOK
    <3>. QED  BY <1>4, <3>1, <1>a DEF PersistNodeId, IdentityOK, fleetTables
  <2>. QED  BY <2>1, <2>2
<1>5. ASSUME Crash PROVE NodeKeepsItsPlacements'
  BY <1>5, <1>a DEF Crash, identityTables, fleetTables, tables
<1>6. ASSUME NEW c \in Callers, BeginRegistry(c) PROVE NodeKeepsItsPlacements'
  BY <1>6, <1>a DEF BeginRegistry, Read, identityTables, fleetTables, tables
<1>7. ASSUME NEW c \in Callers, BeginTouch(c) PROVE NodeKeepsItsPlacements'
  BY <1>7, <1>a DEF BeginTouch, Read, identityTables, fleetTables, tables
<1>8. ASSUME NEW c \in Callers, BeginInstance(c) PROVE NodeKeepsItsPlacements'
  BY <1>8, <1>a DEF BeginInstance, Read, identityTables, fleetTables, tables
<1>9. ASSUME NEW c \in Callers, BeginClear(c) PROVE NodeKeepsItsPlacements'
  BY <1>9, <1>a DEF BeginClear, Read, identityTables, fleetTables, tables
<1>10. ASSUME NEW c \in Callers, PutSecretBlob(c) PROVE NodeKeepsItsPlacements'
  BY <1>10, <1>a DEF PutSecretBlob, Write, identityTables, fleetTables
<1>11. ASSUME NEW c \in Callers, PutSshKey(c) PROVE NodeKeepsItsPlacements'
  BY <1>11, <1>a DEF PutSshKey, Write, identityTables, fleetTables
<1>12. ASSUME NEW c \in Callers, TouchNode(c) PROVE NodeKeepsItsPlacements'
  BY <1>12, <1>a DEF TouchNode, Write, identityTables, fleetTables
<1>13. ASSUME NEW c \in Callers, PutInstanceSshDesired(c) PROVE NodeKeepsItsPlacements'
  BY <1>13, <1>a DEF PutInstanceSshDesired, Write, identityTables,
     fleetTables
<1>14. ASSUME NEW c \in Callers, ClearInstanceSshOverride(c)
       PROVE  NodeKeepsItsPlacements'
  BY <1>14, <1>a DEF ClearInstanceSshOverride, Write, identityTables,
     fleetTables
<1>15. ASSUME NEW c \in Callers, UpdateInstanceSshObserved(c)
       PROVE  NodeKeepsItsPlacements'
  BY <1>15, <1>a DEF UpdateInstanceSshObserved, Write, identityTables,
     fleetTables
<1>16. ASSUME NEW c \in Callers, UpdateInstanceNetworkObserved(c)
       PROVE  NodeKeepsItsPlacements'
  BY <1>16, <1>a DEF UpdateInstanceNetworkObserved, Write, identityTables,
     fleetTables
<1>17. ASSUME NEW s \in Secrets, DeleteSecret(s) PROVE NodeKeepsItsPlacements'
  BY <1>17, <1>a DEF DeleteSecret, Statement, identityTables, fleetTables
<1>18. ASSUME NEW k \in SshKeys, DeleteSshKey(k) PROVE NodeKeepsItsPlacements'
  BY <1>18, <1>a DEF DeleteSshKey, Statement, identityTables, fleetTables
<1>19. ASSUME NEW t \in Tokens, ReplaceApiTokenHash(t) PROVE NodeKeepsItsPlacements'
  BY <1>19, <1>a DEF ReplaceApiTokenHash, Statement, identityTables,
     fleetTables
<1>20. ASSUME NEW p \in Memory!Plans, CommitStackPlan(p) PROVE NodeKeepsItsPlacements'
<2> SUFFICES ASSUME NEW i \in Memory!Ids, instances'[i] # None,
                    instances'[i].node # None
             PROVE  instances[i] # None /\ instances[i].node = instances'[i].node
  <3>1. UNCHANGED <<settings, nodes, strays>>
    BY <1>20 DEF CommitStackPlan, Statement, identityTables
  <3>. QED  BY <3>1 DEF NodeKeepsItsPlacements
  <2>1. instances'[i] = InstancesWritten(p)[i]
    BY <1>20 DEF CommitStackPlan
  <2>2. CASE i \in Kept(p)
    <3>1. instances[i] \in Memory!InstanceRow
      BY <2>2, RowIs DEF Kept, StoredOf
    <3>2. instances'[i].node = instances[i].node
      BY <2>1, <2>2, <3>1
      DEF InstancesWritten, Kept, StoredOf, Memory!InstanceRow
    <3>. QED  BY <2>2, <3>2 DEF Kept, StoredOf
  <2>3. CASE i \notin Kept(p)
    BY <2>1, <2>3 DEF InstancesWritten, Memory!NewRow
  <2>. QED  BY <2>2, <2>3
<1>21. ASSUME NEW s \in DbStacks, DeleteStackTx(s) PROVE NodeKeepsItsPlacements'
  BY <1>21 DEF DeleteStackTx, Statement, NodeKeepsItsPlacements, identityTables
<1>22. ASSUME NEW i \in Memory!Ids, NEW n \in NodeIds, BindInstanceToNode(i, n)
       PROVE  NodeKeepsItsPlacements'
<2>1. /\ n \in {settings.local_node_id} \cup strays
      /\ settings.local_node_id \in NodeIds \ strays
      /\ nodes[settings.local_node_id] # None
    BY <1>22
    DEF BindInstanceToNode, UpdateInstance, Statement, Registered, RowsNamed
  <2>2. instances[i] \in Memory!InstanceRow
    BY <1>22, RowIs DEF BindInstanceToNode, UpdateInstance
  <2>. QED  BY <1>22, <2>1, <2>2
            DEF BindInstanceToNode, UpdateInstance, NodeKeepsItsPlacements,
                Statement, FleetOK, Memory!InstanceRow, identityTables
<1>23. ASSUME NEW i \in Memory!Ids, NEW h \in Specs \cup {None},
       SetInstanceAppliedHash(i, h)
       PROVE  NodeKeepsItsPlacements'
<2>1. instances[i] \in Memory!InstanceRow
    BY <1>23, RowIs DEF SetInstanceAppliedHash, UpdateInstance
  <2>. QED  BY <1>23, <2>1
            DEF SetInstanceAppliedHash, UpdateInstance, NodeKeepsItsPlacements,
                Statement, FleetOK, Memory!InstanceRow, identityTables
<1>24. ASSUME NEW i \in Memory!Ids, NEW ph \in Memory!Phases, NEW named \in BOOLEAN,
       UpdateInstanceStatus(i, ph, named)
       PROVE  NodeKeepsItsPlacements'
<2>1. instances[i] \in Memory!InstanceRow
    BY <1>24, RowIs DEF UpdateInstanceStatus, UpdateInstance
  <2>. QED  BY <1>24, <2>1
            DEF UpdateInstanceStatus, UpdateInstance, NodeKeepsItsPlacements,
                Statement, FleetOK, Memory!InstanceRow, identityTables
<1>25. ASSUME NEW i \in Memory!Ids, NEW b \in BOOLEAN, UpdateInstanceHealth(i, b)
       PROVE  NodeKeepsItsPlacements'
<2>1. instances[i] \in Memory!InstanceRow
    BY <1>25, RowIs DEF UpdateInstanceHealth, UpdateInstance
  <2>. QED  BY <1>25, <2>1
            DEF UpdateInstanceHealth, UpdateInstance, NodeKeepsItsPlacements,
                Statement, FleetOK, Memory!InstanceRow, identityTables
<1>26. ASSUME UNCHANGED storeVars PROVE NodeKeepsItsPlacements'
  BY <1>26, <1>a DEF storeVars, tables, control, identityTables, fleetTables
<1>. QED
  BY <1>1, <1>2, <1>3, <1>4, <1>5, <1>6, <1>7, <1>8, <1>9, <1>10, <1>11,
     <1>12, <1>13, <1>14, <1>15, <1>16, <1>17, <1>18, <1>19, <1>20, <1>21,
     <1>22, <1>23, <1>24, <1>25, <1>26
  DEF StoreNext, ServerStart, Call, AtOnce

-----------------------------------------------------------------------------
(***************************************************************************)
(* Every statement is an operation of MemoryStore or none.                 *)
(***************************************************************************)
LEMMA Stutters ==
    UNCHANGED tables => UNCHANGED Memory!vars
  BY DEF tables, identityTables, registryTables, fleetTables, observedTables,
     RegisteredNodes, Memory!vars, Memory!identity, Memory!registry,
     Memory!fleet, Memory!observed

\* The registered nodes depend on the rows and on the stored id only.
LEMMA SameNodes ==
    nodes' = nodes /\ settings'.local_node_id = settings.local_node_id
      => RegisteredNodes' = RegisteredNodes
  BY DEF RegisteredNodes

\* The plan's ports are free for it.
LEMMA NoConflict ==
    ASSUME NoneIsNone, StoreTypeOK, NEW p \in Memory!Plans, ~UniqueViolation(p)
    PROVE  ~Memory!Conflict(p)
<1>0. \/ p.ports = <<>>
      \/ \E q \in Ports : p.ports = <<q>>
      \/ \E q, r \in Ports : p.ports = <<q, r>>
  BY DEF Memory!Plans
<1>1. p.ports \in Seq(Ports) /\ p.stack \in DbStacks
  <2>1. ASSUME NEW q \in Ports, p.ports = <<q>> PROVE p.ports \in Seq(Ports)
    BY <2>1
  <2>2. ASSUME NEW q \in Ports, NEW r \in Ports, p.ports = <<q, r>>
        PROVE  p.ports \in Seq(Ports)
    <3>1. <<q, r>> \in Seq(Ports)
      OBVIOUS
    <3>. QED  BY <2>2, <3>1
  <2>3. p.ports = <<>> => p.ports \in Seq(Ports)
    OBVIOUS
  <2>4. p.stack \in DbStacks
    BY DEF Memory!Plans
  <2>. QED  BY <1>0, <2>1, <2>2, <2>3, <2>4
<1>2. ASSUME NEW k \in DOMAIN p.ports
      PROVE  dbClaims[p.ports[k]] \in {None, p.stack}
  BY <1>1, <1>2 DEF UniqueViolation, ClaimsCleared
<1>3. ASSUME NEW j \in DOMAIN p.ports, NEW k \in DOMAIN p.ports, j # k
      PROVE  p.ports[j] # p.ports[k]
  <2>1. j \in Nat /\ k \in Nat /\ j >= 1 /\ k >= 1
    BY <1>1
  <2>2. CASE j < k
    BY <2>1, <2>2 DEF UniqueViolation
  <2>3. CASE k < j
    BY <2>1, <2>3 DEF UniqueViolation
  <2>. QED  BY <1>3, <2>1, <2>2, <2>3
<1>. QED  BY <1>2, <1>3 DEF Memory!Conflict

LEMMA CommitRefines ==
    ASSUME NoneIsNone, StoreInv, NEW p \in Memory!Plans, CommitStackPlan(p)
    PROVE  Memory!CommitStackPlan(p)
<1>0. StoreTypeOK /\ RowsFollow /\ p.stack \in DbStacks /\ p.replicas \subseteq Replicas
  BY DEF StoreInv, Memory!Plans
<1>1. StoredOf(p.stack) = Memory!RowsOf(p.stack)
  BY DEF StoredOf, Memory!RowsOf
<1>2. ASSUME NEW i \in Memory!Ids
      PROVE  InstancesWritten(p)[i] = Memory!PlannedRows(p)[i]
  <2>1. CASE i[1] # p.stack
    BY <2>1 DEF InstancesWritten, Memory!PlannedRows
  <2>2. CASE i[1] = p.stack /\ i \in Kept(p)
    BY <2>2 DEF InstancesWritten, Memory!PlannedRows, Kept, StoredOf
  <2>3. CASE i[1] = p.stack /\ i \notin Kept(p) /\ i \in Inserted(p)
    <3>1. i[2] \in p.replicas /\ instances[i] = None
      BY <2>3 DEF Inserted, StoredOf
    <3>2. i[2] \in Memory!Missing(p) /\ i[3] = born[<<i[1], i[2]>>] + 1
      BY <1>1, <2>3 DEF Inserted, Memory!Missing
    <3>. QED  BY <2>3, <3>1, <3>2 DEF InstancesWritten, Memory!PlannedRows
  <2>4. CASE i[1] = p.stack /\ i \notin Kept(p) /\ i \notin Inserted(p)
    <3>1. InstancesWritten(p)[i] = None
      BY <2>4 DEF InstancesWritten
    <3>2. ~(/\ i[2] \in p.replicas /\ i[2] \in Memory!Missing(p)
            /\ i[3] = born[<<i[1], i[2]>>] + 1)
      BY <1>1, <2>4 DEF Inserted, Memory!Missing
    <3>3. i[2] \in p.replicas => instances[i] = None
      BY <2>4 DEF Kept, StoredOf
    <3>. QED  BY <2>4, <3>1, <3>2, <3>3 DEF Memory!PlannedRows
  <2>. QED  BY <2>1, <2>2, <2>3, <2>4
<1>3. instances' = Memory!PlannedRows(p)
  BY <1>2 DEF CommitStackPlan, InstancesWritten, Memory!PlannedRows
<1>4. ASSUME NEW r \in DbStacks \X Replicas
      PROVE  (\E i \in Inserted(p) : <<i[1], i[2]>> = r)
               <=> r[1] = p.stack /\ r[2] \in Memory!Missing(p)
  <2>1. ASSUME NEW i \in Inserted(p), <<i[1], i[2]>> = r
        PROVE  r[1] = p.stack /\ r[2] \in Memory!Missing(p)
    BY <1>1, <2>1 DEF Inserted, Memory!Missing
  <2>2. ASSUME r[1] = p.stack, r[2] \in Memory!Missing(p)
        PROVE  \E i \in Inserted(p) : <<i[1], i[2]>> = r
    <3> DEFINE i == <<r[1], r[2], born[r] + 1>>
    <3>1. r = <<p.stack, r[2]>> /\ r[2] \in p.replicas
      BY <2>2 DEF Memory!Missing
    <3>2. \A j \in StoredOf(p.stack) : j[2] # r[2]
      BY <1>1, <2>2 DEF Memory!Missing
    <3>3. born[r] \in Nat /\ born[r] < MaxBorn
      BY <1>0, <3>1, <3>2
      DEF CommitStackPlan, Bearable, StoreTypeOK, FleetOK, NoneIsNone
    <3>4. i \in Memory!Ids
      BY <1>0, <3>1, <3>3 DEF Memory!Ids, NoneIsNone
    <3>5. i \in Inserted(p)
      BY <3>1, <3>2, <3>4, <2>2 DEF Inserted
    <3>. QED  BY <3>1, <3>5
  <2>. QED  BY <2>1, <2>2
<1>5. born' = [r \in DbStacks \X Replicas |->
                 IF r[1] = p.stack /\ r[2] \in Memory!Missing(p)
                 THEN born[r] + 1 ELSE born[r]]
  BY <1>4 DEF CommitStackPlan
<1>6. dbClaims' = [q \in Ports |->
                  IF \E k \in DOMAIN p.ports : p.ports[k] = q THEN p.stack
                  ELSE IF dbClaims[q] = p.stack THEN None ELSE dbClaims[q]]
  BY DEF CommitStackPlan, ClaimsWritten, ClaimsCleared
<1>7. ASSUME NEW i \in Memory!Ids
      PROVE  /\ i \in Memory!Dropped(p) => instances'[i] = None
             /\ i \notin Memory!Dropped(p) /\ instances'[i] = None
                  => ssh[i] = None /\ network[i] = None
  <2>1. i \in Memory!Dropped(p) => instances'[i] = None
    BY <1>3 DEF Memory!PlannedRows, Memory!Dropped, Memory!RowsOf
  <2>2. ASSUME i \notin Memory!Dropped(p), instances'[i] = None
        PROVE  instances[i] = None
    <3> SUFFICES ASSUME instances[i] # None PROVE FALSE  OBVIOUS
    <3>1. instances[i] \in Memory!InstanceRow
      BY <1>0, RowIs DEF StoreTypeOK
    <3>2. [instances[i] EXCEPT !.spec = p.spec] \in Memory!InstanceRow
      BY <3>1 DEF Memory!InstanceRow, Memory!Plans
    <3>. QED  BY <1>3, <2>2, <3>2
      DEF Memory!PlannedRows, Memory!Dropped, Memory!RowsOf, NoneIsNone
  <2>. QED  BY <1>0, <2>1, <2>2 DEF RowsFollow
<1>8. ssh' = Memory!Without(ssh, Memory!Dropped(p))
  BY <1>0, <1>7 DEF CommitStackPlan, Cascade, Memory!Without
<1>9. network' = Memory!Without(network, Memory!Dropped(p))
  BY <1>0, <1>7 DEF CommitStackPlan, Cascade, Memory!Without
<1>. QED
  BY <1>0, <1>3, <1>5, <1>6, <1>8, <1>9, NoConflict, SameNodes
  DEF CommitStackPlan, Memory!CommitStackPlan, identityTables, registryTables,
      Memory!identity, Memory!registry

LEMMA DeleteRefines ==
    ASSUME NoneIsNone, StoreInv, NEW s \in DbStacks, DeleteStackTx(s)
    PROVE  Memory!DeleteStack(s)
<1>0. StoreTypeOK /\ RowsFollow
  BY DEF StoreInv
<1>1. instances' = Memory!Without(instances, Memory!RowsOf(s))
  BY DEF DeleteStackTx, Memory!Without, Memory!RowsOf
<1>2. ssh' = Memory!Without(ssh, Memory!RowsOf(s))
  BY <1>0 DEF DeleteStackTx, Cascade, RowsFollow, Memory!Without, Memory!RowsOf
<1>3. network' = Memory!Without(network, Memory!RowsOf(s))
  BY <1>0 DEF DeleteStackTx, Cascade, RowsFollow, Memory!Without, Memory!RowsOf
<1>. QED
  BY <1>1, <1>2, <1>3, SameNodes
  DEF DeleteStackTx, ClaimsCleared, Memory!DeleteStack, identityTables,
      registryTables, Memory!identity, Memory!registry

LEMMA StepRefines ==
    ASSUME NoneIsNone, StoreInv, [StoreNext]_storeVars
    PROVE  [Memory!Next]_(Memory!vars)
<1>0. /\ StoreTypeOK /\ Registered /\ RowsFollow /\ ReadsStand /\ StoreTypeOK'
  BY StoreTypeNext DEF StoreInv
<1> USE <1>0 DEF StoreTypeOK
<1> DEFINE rest == <<registryTables, fleetTables, observedTables>>
<1>m. /\ Memory!registry = registryTables /\ Memory!registry' = registryTables'
      /\ Memory!fleet = fleetTables /\ Memory!fleet' = fleetTables'
      /\ Memory!observed = observedTables /\ Memory!observed' = observedTables'
      /\ Memory!identity = <<token, settings, RegisteredNodes>>
      /\ Memory!identity' = <<token, settings, RegisteredNodes>>'
  BY DEF Memory!registry, registryTables, Memory!fleet, fleetTables,
     Memory!observed, observedTables, Memory!identity
<1>s. UNCHANGED tables => [Memory!Next]_(Memory!vars)
  BY Stutters
<1>1. ASSUME EnsureInstallId PROVE [Memory!Next]_(Memory!vars)
<2>1. PICK v \in Tokens :
          settings' = IF settings.install_id = None
                      THEN [settings EXCEPT !.install_id = v] ELSE settings
    BY <1>1 DEF EnsureInstallId
  <2>2. RegisteredNodes' = RegisteredNodes
    BY <1>1, <2>1, SameNodes DEF EnsureInstallId, IdentityOK
  <2>3. CASE settings.install_id = None
    BY <1>1, <2>1, <2>2, <2>3
    DEF EnsureInstallId, Memory!Next, Memory!SetSetting, Memory!identity,
        Memory!registry, Memory!fleet, Memory!observed, identityTables,
        registryTables, fleetTables, observedTables
  <2>4. CASE settings.install_id # None
    BY <1>1, <2>1, <2>4, <1>s
    DEF EnsureInstallId, tables, identityTables
  <2>. QED  BY <2>3, <2>4
<1>2. ASSUME InitClusterRow PROVE [Memory!Next]_(Memory!vars)
<2>1. PICK t \in Tokens : token' = IF token = None THEN t ELSE token
    BY <1>2 DEF InitClusterRow
  <2>2. RegisteredNodes' = RegisteredNodes
    BY <1>2, SameNodes DEF InitClusterRow
  <2>3. CASE token = None
    BY <1>2, <2>1, <2>2, <2>3
    DEF InitClusterRow, Memory!Next, Memory!InitCluster, Memory!identity,
        Memory!registry, Memory!fleet, Memory!observed, identityTables,
        registryTables, fleetTables, observedTables
  <2>4. CASE token # None
    BY <1>2, <2>1, <2>4, <1>s
    DEF InitClusterRow, tables, identityTables
  <2>. QED  BY <2>3, <2>4
<1>3. ASSUME NEW name \in NodeNames, WriteNodeRow(name) PROVE [Memory!Next]_(Memory!vars)
<2>1. PICK id \in NodeIdOf(name) :
          nodes' = [nodes EXCEPT ![id] = [name |-> name, status |-> "Ready"]]
    BY <1>3 DEF WriteNodeRow
  <2>2. settings' = settings /\ token' = token /\ UNCHANGED rest
    BY <1>3 DEF WriteNodeRow
  <2>3. CASE settings.local_node_id = None
    <3>1. RegisteredNodes' = RegisteredNodes
      BY <2>2, <2>3 DEF RegisteredNodes, NoneIsNone
    <3>. QED  BY <1>m, <2>2, <3>1 DEF Memory!vars
  <2>4. CASE settings.local_node_id # None
    <3>1. id = settings.local_node_id /\ id \in NodeIds
      BY <2>4, <2>1 DEF NodeIdOf, IdentityOK
    <3>2. RegisteredNodes' =
            [RegisteredNodes EXCEPT ![id] = [name |-> name, status |-> "Ready"]]
      BY <2>1, <2>2, <3>1 DEF RegisteredNodes, IdentityOK
    <3>3. settings' = [settings EXCEPT !.local_node_id = id]
      BY <2>2, <3>1 DEF IdentityOK
    <3>4. id \in Memory!NodeIdFor(name)
      BY <2>4, <3>1 DEF Memory!NodeIdFor
    <3>5. Memory!UpsertLocalNode(name)
      BY <1>m, <2>2, <3>2, <3>3, <3>4 DEF Memory!UpsertLocalNode
    <3>. QED  BY <3>5 DEF Memory!Next
  <2>. QED  BY <2>3, <2>4
<1>4. ASSUME PersistNodeId PROVE [Memory!Next]_(Memory!vars)
<2>1. /\ settings' = [settings EXCEPT !.local_node_id = minted]
        /\ nodes' = nodes /\ token' = token /\ UNCHANGED rest
    BY <1>4 DEF PersistNodeId
  <2>2. /\ minted \in NodeIds /\ nodes[minted] # None
        /\ nodes[minted].status = "Ready"
    BY <1>4 DEF PersistNodeId, Registered, RowsNamed
  <2>3. CASE settings.local_node_id = None
    <3> DEFINE name == nodes[minted].name
    <3>1. name \in NodeNames /\ nodes[minted] = [name |-> name, status |-> "Ready"]
      BY <2>2 DEF IdentityOK, Memory!NodeRow
    <3>2. \A n \in NodeIds : RegisteredNodes[n] = None
      BY <2>3 DEF RegisteredNodes, NoneIsNone
    <3>3. minted \in Memory!NodeIdFor(name)
      BY <2>2, <2>3, <3>2 DEF Memory!NodeIdFor
    <3>4. settings'.local_node_id = minted
      BY <2>1 DEF IdentityOK
    <3>5. RegisteredNodes' = [n \in NodeIds |->
                               IF n = minted THEN nodes[n] ELSE None]
      BY <2>1, <3>4 DEF RegisteredNodes
    <3>6. RegisteredNodes' = [RegisteredNodes EXCEPT
                               ![minted] = [name |-> name, status |-> "Ready"]]
      BY <2>2, <3>1, <3>2, <3>5 DEF RegisteredNodes
    <3>7. Memory!UpsertLocalNode(name)
      BY <1>m, <2>1, <3>3, <3>6 DEF Memory!UpsertLocalNode
    <3>. QED  BY <3>1, <3>7 DEF Memory!Next
  <2>4. CASE settings.local_node_id # None
    <3>1. minted = settings.local_node_id
      BY <1>4, <2>4 DEF PersistNodeId, Registered, IdentityOK
    <3>2. settings' = settings
      BY <2>1, <3>1 DEF IdentityOK
    <3>. QED  BY <2>1, <3>2, <1>s DEF tables, identityTables
  <2>. QED  BY <2>3, <2>4
<1>5. ASSUME Crash PROVE [Memory!Next]_(Memory!vars)
  BY <1>5, <1>s DEF Crash
<1>6. ASSUME NEW c \in Callers, BeginRegistry(c) PROVE [Memory!Next]_(Memory!vars)
  BY <1>6, <1>s DEF BeginRegistry, Read
<1>7. ASSUME NEW c \in Callers, BeginTouch(c) PROVE [Memory!Next]_(Memory!vars)
  BY <1>7, <1>s DEF BeginTouch, Read
<1>8. ASSUME NEW c \in Callers, BeginInstance(c) PROVE [Memory!Next]_(Memory!vars)
  BY <1>8, <1>s DEF BeginInstance, Read
<1>9. ASSUME NEW c \in Callers, BeginClear(c) PROVE [Memory!Next]_(Memory!vars)
  BY <1>9, <1>s DEF BeginClear, Read
<1>10. ASSUME NEW c \in Callers, PutSecretBlob(c) PROVE [Memory!Next]_(Memory!vars)
<2>1. call[c].at \in Secrets /\ call[c].arg \in Blobs
    BY <1>10, WriteControl, PendingCall DEF PutSecretBlob
  <2>2. secrets' = UpdateOrInsert(secrets, call[c].at, call[c].read, call[c].arg)
    BY <1>10 DEF PutSecretBlob
  <2>3. RegisteredNodes' = RegisteredNodes
    BY <1>10, SameNodes DEF PutSecretBlob, identityTables
  <2>4. CASE call[c].read = (secrets[call[c].at] # None)
    <3>1. Memory!PutSecretBlob(call[c].at, call[c].arg)
      BY <1>10, <1>m, <2>2, <2>3, <2>4
      DEF PutSecretBlob, UpdateOrInsert, Memory!PutSecretBlob, identityTables
    <3>. QED  BY <2>1, <3>1 DEF Memory!Next
  <2>5. CASE call[c].read # (secrets[call[c].at] # None)
    <3>1. secrets' = secrets
      BY <2>2, <2>5 DEF UpdateOrInsert
    <3>. QED  BY <1>10, <3>1, <1>s DEF PutSecretBlob, tables, registryTables
  <2>. QED  BY <2>4, <2>5
<1>11. ASSUME NEW c \in Callers, PutSshKey(c) PROVE [Memory!Next]_(Memory!vars)
<2>1. call[c].at \in SshKeys /\ call[c].arg \in Blobs
    BY <1>11, WriteControl, PendingCall DEF PutSshKey
  <2>2. keys' = UpdateOrInsert(keys, call[c].at, call[c].read, call[c].arg)
    BY <1>11 DEF PutSshKey
  <2>3. RegisteredNodes' = RegisteredNodes
    BY <1>11, SameNodes DEF PutSshKey, identityTables
  <2>4. CASE call[c].read = (keys[call[c].at] # None)
    <3>1. Memory!PutSshKey(call[c].at, call[c].arg)
      BY <1>11, <1>m, <2>2, <2>3, <2>4
      DEF PutSshKey, UpdateOrInsert, Memory!PutSshKey, identityTables
    <3>. QED  BY <2>1, <3>1 DEF Memory!Next
  <2>5. CASE call[c].read # (keys[call[c].at] # None)
    <3>1. keys' = keys
      BY <2>2, <2>5 DEF UpdateOrInsert
    <3>. QED  BY <1>11, <3>1, <1>s DEF PutSshKey, tables, registryTables
  <2>. QED  BY <2>4, <2>5
<1>12. ASSUME NEW c \in Callers, TouchNode(c) PROVE [Memory!Next]_(Memory!vars)
<2>1. /\ call[c].at \in NodeIds /\ call[c].arg \in {"Ready", "NotReady"}
        /\ call[c].at = settings.local_node_id /\ nodes[call[c].at] # None
    BY <1>12, WriteControl, PendingCall, TouchedIsThere DEF TouchNode, Write
  <2>2. RegisteredNodes' =
          [RegisteredNodes EXCEPT ![call[c].at].status = call[c].arg]
    BY <1>12, <2>1 DEF TouchNode, RegisteredNodes, IdentityOK
  <2>3. RegisteredNodes[call[c].at] # None
    BY <2>1 DEF RegisteredNodes
  <2>4. Memory!TouchNode(call[c].at, call[c].arg)
    BY <1>12, <1>m, <2>2, <2>3 DEF TouchNode, Memory!TouchNode
  <2>. QED  BY <2>1, <2>4 DEF Memory!Next
<1>13. ASSUME NEW c \in Callers, PutInstanceSshDesired(c) PROVE [Memory!Next]_(Memory!vars)
<2> DEFINE i == call[c].at
  <2>1. call[c] \in PendingCalls /\ i \in Memory!Ids /\ call[c].arg \in SshKeys
    BY <1>13, WriteControl, PendingCall DEF PutInstanceSshDesired
  <2>2. RegisteredNodes' = RegisteredNodes
    BY <1>13, SameNodes DEF PutInstanceSshDesired, identityTables
  <2>3. CASE instances[i] = None
    <3>1. ssh' = ssh
      BY <1>13, <2>3 DEF PutInstanceSshDesired
    <3>. QED  BY <1>13, <3>1, <1>s
              DEF PutInstanceSshDesired, tables, observedTables
  <2>4. CASE ~(instances[i] = None)
    <3>1. ssh[i] # None => ssh[i] \in Memory!SshRow
      BY <2>1 DEF ObservedOK
    <3>2. ssh' = [ssh EXCEPT ![i] =
                   [override |-> call[c].arg,
                    phase |-> IF ssh[i] = None THEN "Closed" ELSE ssh[i].phase]]
      <4>1. CASE ssh[i] = None
        <5>1. call[c].read = "Closed"
          BY <1>13, <2>4, <4>1
          DEF PutInstanceSshDesired, Write, ReadsStand, ReadStands
        <5>. QED  BY <1>13, <2>4, <4>1, <5>1 DEF PutInstanceSshDesired
      <4>2. CASE ssh[i] # None
        <5>1. [ssh[i] EXCEPT !.override = call[c].arg]
                = [override |-> call[c].arg, phase |-> ssh[i].phase]
          BY <3>1, <4>2 DEF Memory!SshRow
        <5>. QED  BY <1>13, <2>4, <4>2, <5>1 DEF PutInstanceSshDesired
      <4>. QED  BY <4>1, <4>2
    <3>3. Memory!PutInstanceSshDesired(i, call[c].arg)
      BY <1>13, <1>m, <2>2, <2>4, <3>1, <3>2
      DEF PutInstanceSshDesired, Memory!PutInstanceSshDesired, identityTables
    <3>. QED  BY <2>1, <3>3 DEF Memory!Next
  <2>. QED  BY <2>3, <2>4
<1>14. ASSUME NEW c \in Callers, ClearInstanceSshOverride(c)
       PROVE  [Memory!Next]_(Memory!vars)
<2> DEFINE i == call[c].at
  <2>1. call[c] \in PendingCalls /\ i \in Memory!Ids
    BY <1>14, WriteControl, PendingCall DEF ClearInstanceSshOverride
  <2>2. RegisteredNodes' = RegisteredNodes
    BY <1>14, SameNodes DEF ClearInstanceSshOverride, identityTables
  <2>3. CASE ssh[i] = None
    <3>1. ssh' = ssh
      BY <1>14, <2>3 DEF ClearInstanceSshOverride
    <3>. QED  BY <1>14, <3>1, <1>s
              DEF ClearInstanceSshOverride, tables, observedTables
  <2>4. CASE ~(ssh[i] = None)
    <3>1. ssh[i] # None => ssh[i] \in Memory!SshRow
      BY <2>1 DEF ObservedOK
    <3>2. ssh' = [ssh EXCEPT ![i].override = None]
      BY <1>14, <2>4 DEF ClearInstanceSshOverride
    <3>3. Memory!ClearInstanceSshOverride(i)
      BY <1>14, <1>m, <2>2, <2>4, <3>1, <3>2
      DEF ClearInstanceSshOverride, Memory!ClearInstanceSshOverride,
          identityTables
    <3>. QED  BY <2>1, <3>3 DEF Memory!Next
  <2>. QED  BY <2>3, <2>4
<1>15. ASSUME NEW c \in Callers, UpdateInstanceSshObserved(c)
       PROVE  [Memory!Next]_(Memory!vars)
<2> DEFINE i == call[c].at
  <2>1. call[c] \in PendingCalls /\ i \in Memory!Ids /\ call[c].arg \in {"Closed", "Open"}
    BY <1>15, WriteControl, PendingCall DEF UpdateInstanceSshObserved
  <2>2. RegisteredNodes' = RegisteredNodes
    BY <1>15, SameNodes DEF UpdateInstanceSshObserved, identityTables
  <2>3. CASE instances[i] = None
    <3>1. ssh' = ssh
      BY <1>15, <2>3 DEF UpdateInstanceSshObserved
    <3>. QED  BY <1>15, <3>1, <1>s
              DEF UpdateInstanceSshObserved, tables, observedTables
  <2>4. CASE ~(instances[i] = None)
    <3>1. ssh[i] # None => ssh[i] \in Memory!SshRow
      BY <2>1 DEF ObservedOK
    <3>2. ssh' = [ssh EXCEPT ![i] =
                   [override |-> IF ssh[i] = None THEN None ELSE ssh[i].override,
                    phase |-> call[c].arg]]
      <4>1. CASE ssh[i] = None
        BY <1>15, <2>4, <4>1 DEF UpdateInstanceSshObserved
      <4>2. CASE ssh[i] # None
        <5>1. [ssh[i] EXCEPT !.phase = call[c].arg]
                = [override |-> ssh[i].override, phase |-> call[c].arg]
          BY <3>1, <4>2 DEF Memory!SshRow
        <5>. QED  BY <1>15, <2>4, <4>2, <5>1 DEF UpdateInstanceSshObserved
      <4>. QED  BY <4>1, <4>2
    <3>3. Memory!UpdateInstanceSshObserved(i, call[c].arg)
      BY <1>15, <1>m, <2>2, <2>4, <3>1, <3>2
      DEF UpdateInstanceSshObserved, Memory!UpdateInstanceSshObserved,
          identityTables
    <3>. QED  BY <2>1, <3>3 DEF Memory!Next
  <2>. QED  BY <2>3, <2>4
<1>16. ASSUME NEW c \in Callers, UpdateInstanceNetworkObserved(c)
       PROVE  [Memory!Next]_(Memory!vars)
<2> DEFINE i == call[c].at
  <2>1. i \in Memory!Ids /\ call[c].arg \in Memory!Phases
    BY <1>16, WriteControl, PendingCall DEF UpdateInstanceNetworkObserved
  <2>2. RegisteredNodes' = RegisteredNodes
    BY <1>16, SameNodes DEF UpdateInstanceNetworkObserved, identityTables
  <2>3. CASE instances[i] = None
    <3>1. network' = network
      BY <1>16, <2>3 DEF UpdateInstanceNetworkObserved
    <3>. QED  BY <1>16, <3>1, <1>s
              DEF UpdateInstanceNetworkObserved, tables, observedTables
  <2>4. CASE instances[i] # None
    <3>1. Memory!UpdateInstanceNetworkObserved(i, call[c].arg)
      BY <1>16, <1>m, <2>2, <2>4
      DEF UpdateInstanceNetworkObserved, Memory!UpdateInstanceNetworkObserved,
          identityTables
    <3>. QED  BY <2>1, <3>1 DEF Memory!Next
  <2>. QED  BY <2>3, <2>4
<1>17. ASSUME NEW s \in Secrets, DeleteSecret(s) PROVE [Memory!Next]_(Memory!vars)
<2>1. RegisteredNodes' = RegisteredNodes
    BY <1>17, SameNodes DEF DeleteSecret, identityTables
  <2>2. Memory!DeleteSecret(s)
    BY <1>17, <1>m, <2>1 DEF DeleteSecret, Memory!DeleteSecret, identityTables
  <2>. QED  BY <2>2 DEF Memory!Next
<1>18. ASSUME NEW k \in SshKeys, DeleteSshKey(k) PROVE [Memory!Next]_(Memory!vars)
<2>1. RegisteredNodes' = RegisteredNodes
    BY <1>18, SameNodes DEF DeleteSshKey, identityTables
  <2>2. Memory!DeleteSshKey(k)
    BY <1>18, <1>m, <2>1 DEF DeleteSshKey, Memory!DeleteSshKey, identityTables
  <2>. QED  BY <2>2 DEF Memory!Next
<1>19. ASSUME NEW t \in Tokens, ReplaceApiTokenHash(t) PROVE [Memory!Next]_(Memory!vars)
<2>1. RegisteredNodes' = RegisteredNodes
    BY <1>19, SameNodes DEF ReplaceApiTokenHash
  <2>2. Memory!ReplaceApiTokenHash(t)
    BY <1>19, <1>m, <2>1
    DEF ReplaceApiTokenHash, Memory!ReplaceApiTokenHash, Statement,
     Registered, RowsNamed
  <2>. QED  BY <2>2 DEF Memory!Next
<1>20. ASSUME NEW p \in Memory!Plans, CommitStackPlan(p) PROVE [Memory!Next]_(Memory!vars)
  BY <1>20, CommitRefines DEF Memory!Next
<1>21. ASSUME NEW s \in DbStacks, DeleteStackTx(s) PROVE [Memory!Next]_(Memory!vars)
  BY <1>21, DeleteRefines DEF Memory!Next
<1>22. ASSUME NEW i \in Memory!Ids, NEW n \in NodeIds, BindInstanceToNode(i, n)
       PROVE  [Memory!Next]_(Memory!vars)
<2>1. RegisteredNodes' = RegisteredNodes
    BY <1>22, SameNodes DEF BindInstanceToNode, UpdateInstance, identityTables
  <2>2. Memory!BindInstanceToNode(i, n)
    BY <1>22, <1>m, <2>1
    DEF BindInstanceToNode, UpdateInstance, Memory!BindInstanceToNode,
        Memory!UpdateInstance, identityTables
  <2>. QED  BY <2>2 DEF Memory!Next
<1>23. ASSUME NEW i \in Memory!Ids, NEW h \in Specs \cup {None},
       SetInstanceAppliedHash(i, h)
       PROVE  [Memory!Next]_(Memory!vars)
<2>1. RegisteredNodes' = RegisteredNodes
    BY <1>23, SameNodes
    DEF SetInstanceAppliedHash, UpdateInstance, identityTables
  <2>2. Memory!SetInstanceAppliedHash(i, h)
    BY <1>23, <1>m, <2>1
    DEF SetInstanceAppliedHash, UpdateInstance, Memory!SetInstanceAppliedHash,
        Memory!UpdateInstance, identityTables
  <2>. QED  BY <2>2 DEF Memory!Next
<1>24. ASSUME NEW i \in Memory!Ids, NEW ph \in Memory!Phases, NEW named \in BOOLEAN,
       UpdateInstanceStatus(i, ph, named)
       PROVE  [Memory!Next]_(Memory!vars)
<2>1. RegisteredNodes' = RegisteredNodes
    BY <1>24, SameNodes DEF UpdateInstanceStatus, UpdateInstance, identityTables
  <2>2. instances[i].runtime \in BOOLEAN
    BY <1>24, RowIs DEF UpdateInstanceStatus, UpdateInstance, Memory!InstanceRow
  <2>3. (named \/ instances[i].runtime)
          = IF named THEN TRUE ELSE instances[i].runtime
    BY <2>2
  <2>4. Memory!UpdateInstanceStatus(i, ph, named)
    BY <1>24, <1>m, <2>1, <2>3
    DEF UpdateInstanceStatus, UpdateInstance, Memory!UpdateInstanceStatus,
        Memory!UpdateInstance, identityTables
  <2>. QED  BY <2>4 DEF Memory!Next
<1>25. ASSUME NEW i \in Memory!Ids, NEW b \in BOOLEAN, UpdateInstanceHealth(i, b)
       PROVE  [Memory!Next]_(Memory!vars)
<2>1. RegisteredNodes' = RegisteredNodes
    BY <1>25, SameNodes DEF UpdateInstanceHealth, UpdateInstance, identityTables
  <2>2. Memory!UpdateInstanceHealth(i, b)
    BY <1>25, <1>m, <2>1
    DEF UpdateInstanceHealth, UpdateInstance, Memory!UpdateInstanceHealth,
        Memory!UpdateInstance, identityTables
  <2>. QED  BY <2>2 DEF Memory!Next
<1>26. ASSUME UNCHANGED storeVars PROVE [Memory!Next]_(Memory!vars)
  BY <1>26, <1>s DEF storeVars
<1>. QED
  BY <1>1, <1>2, <1>3, <1>4, <1>5, <1>6, <1>7, <1>8, <1>9, <1>10, <1>11,
     <1>12, <1>13, <1>14, <1>15, <1>16, <1>17, <1>18, <1>19, <1>20, <1>21,
     <1>22, <1>23, <1>24, <1>25, <1>26
  DEF StoreNext, ServerStart, Call, AtOnce
-----------------------------------------------------------------------------
\* A server that has not started has empty tables.
LEMMA StoreInitRefines ==
    ASSUME NoneIsNone PROVE StoreInit => Memory!Init
<1> SUFFICES ASSUME StoreInit PROVE Memory!Init  OBVIOUS
<1>1. RegisteredNodes = [n \in NodeIds |-> None]
  BY DEF StoreInit, RegisteredNodes
<1>. QED  BY <1>1 DEF StoreInit, Memory!Init

LEMMA StoreInvAlways ==
    ASSUME NoneIsNone PROVE StoreSpec => []StoreInv
<1>1. StoreInit => StoreInv
  BY StoreInitInv
<1>2. StoreInv /\ [StoreNext]_storeVars => StoreInv'
  BY StoreInvNext
<1>. QED  BY <1>1, <1>2, PTL DEF StoreSpec

(***************************************************************************)
(* Whatever callers interleave their statements, however often and however *)
(* long, and wherever the process dies, the tables behave as MemoryStore's *)
(* do: each statement is one of its operations or changes nothing.         *)
(* (sqlite.rs against memory.rs)                                           *)
(***************************************************************************)
THEOREM StatementsAreOperations ==
    ASSUME NoneIsNone PROVE StoreSpec => ImplementsMemoryStore
<1>1. StoreInit => Memory!Init
  BY StoreInitRefines
<1>2. StoreInv /\ [StoreNext]_storeVars => [Memory!Next]_(Memory!vars)
  BY StepRefines
<1>3. StoreSpec => []StoreInv
  BY StoreInvAlways
<1>. QED
  BY <1>1, <1>2, <1>3, PTL DEF StoreSpec, ImplementsMemoryStore, Memory!Spec

(***************************************************************************)
(* Over any number of starts, crashes at any step and renames, no          *)
(* placement names a node the server ran as and no longer is: it names the *)
(* node whose id is stored, or the Ready row of a start that died before   *)
(* it stored its id and was followed by one under another name.            *)
(* (upsert_local_node, sqlite.rs)                                          *)
(***************************************************************************)
THEOREM PlacementsStay ==
    ASSUME NoneIsNone PROVE StoreSpec => []NodeKeepsItsPlacements
<1>1. StoreInit => NodeKeepsItsPlacements
  BY StoreInitInv
<1>2. StoreInv /\ NodeKeepsItsPlacements /\ [StoreNext]_storeVars
        => NodeKeepsItsPlacements'
  BY PlacementsKept
<1>3. StoreSpec => []StoreInv
  BY StoreInvAlways
<1>. QED  BY <1>1, <1>2, <1>3, PTL DEF StoreSpec
=============================================================================
