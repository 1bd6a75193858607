---------------------------- MODULE IngressFiles ----------------------------
(***************************************************************************)
(* The proxy's configuration: which replica a route goes to (ingress.rs),  *)
(* which routes are ready, and the two files the node loop keeps in step   *)
(* with them (ingress_files.rs, ingress_render.rs).                        *)
(*                                                                         *)
(* A route is a service's host and path, or the server's own API.  The     *)
(* replicas of one service are its ordinals, and a replica is known to the *)
(* proxy by its host port.  Only the server writes the two files.          *)
(***************************************************************************)
EXTENDS Naturals, FiniteSets, Sequences

CONSTANTS IngRoutes,        \* routes of the service's hosts, numbered by id
          SelfRoute,        \* the API's own route
          RouteKey,         \* route |-> its key in the proxy's file
          IngReplicas,      \* ordinals
          HealthChecked,    \* the service declares a healthcheck
          NoFile,
          MaxIngFaults      \* bound: failing writes and crashes

ASSUME IngRoutesNumbered == IngRoutes \cup {SelfRoute} \subseteq Nat
ASSUME IngBounds == MaxIngFaults \in Nat
ASSUME IngReplicasAreOrdinals == IngReplicas \subseteq Nat /\ IngReplicas # {}

(***************************************************************************)
(* Assumption on the documents.  validate_ingress refuses two routes of    *)
(* one document whose ids become one key; routes of two stacks are not     *)
(* compared.                                                               *)
(***************************************************************************)
DistinctRouteKeys ==
  \A r, s \in IngRoutes \cup {SelfRoute} :
    RouteKey[r] = RouteKey[s] => r = s

ASSUME IngKeysDistinct == DistinctRouteKeys

VARIABLES
  ingRow,      \* the replicas as the store has them: the last pass's report
  ingVm,       \* the replicas as a pass finds them
  ingPort,     \* ordinals whose host port accepts
  ingPass,     \* the pass: what it selected, found and judged ready
  ingCatalog,  \* catalog.json
  ingProxy,    \* traefik/dynamic.yml
  ingPrint,    \* last_fingerprint: <<>> for None
  ingFaults    \* failing writes and crashes so far

ingWorld == <<ingVm, ingPort>>
ingFiles == <<ingCatalog, ingProxy>>
ingVars == <<ingRow, ingWorld, ingPass, ingFiles, ingPrint, ingFaults>>

AllRoutes == IngRoutes \cup {SelfRoute}
Replica == [running : BOOLEAN, healthy : BOOLEAN]
Nobody == [running |-> FALSE, healthy |-> FALSE]
API == 0   \* the backend of the server's own route

NoPass ==
  [at |-> "idle", chosen |-> [r \in AllRoutes |-> API],
   found |-> [o \in IngReplicas |-> Nobody], todo |-> {}, ready |-> {},
   ok |-> FALSE]

IngInit ==
  /\ ingRow = [o \in IngReplicas |-> Nobody]
  /\ ingVm = [o \in IngReplicas |-> Nobody]
  /\ ingPort = {}
  /\ ingPass = NoPass
  /\ ingCatalog = NoFile
  /\ ingProxy = NoFile
  /\ ingPrint = <<>>
  /\ ingFaults = 0
-----------------------------------------------------------------------------
Lowest(S) == CHOOSE o \in S : \A p \in S : o <= p

\* mutation: the lowest ordinal, whatever its phase
SelectLowest == Lowest(IngReplicas)

\* the lowest Running replica whose check passed, any Running one, any one
SelectBackend ==
  LET running == {o \in IngReplicas : ingRow[o].running}
      healthy == {o \in running : ingRow[o].healthy}
  IN IF HealthChecked /\ healthy # {} THEN Lowest(healthy)
     ELSE IF running # {} THEN Lowest(running) ELSE Lowest(IngReplicas)

\* build_ingress_routes_for_node: from the rows the pass starts with
PlanRoutes ==
  /\ ingPass.at = "idle"
  /\ ingPass' = [NoPass EXCEPT
                   !.at = "turns",
                   !.chosen = [r \in AllRoutes |->
                                 IF r = SelfRoute THEN API ELSE SelectBackend]]
  /\ UNCHANGED <<ingRow, ingWorld, ingFiles, ingPrint, ingFaults>>

\* the instances' turns, and the phases their reports carry
ReportPhases ==
  /\ ingPass.at = "turns"
  /\ ingPass' = [ingPass EXCEPT !.at = "probe", !.found = ingVm,
                                !.todo = IngRoutes, !.ready = {SelfRoute}]
  /\ UNCHANGED <<ingRow, ingWorld, ingFiles, ingPrint, ingFaults>>

\* Running by this pass's report, and the port accepts now; the REST port,
\* which the self route asks, accepts as long as the server runs
Accepts(r) ==
  ingPass.found[ingPass.chosen[r]].running /\ ingPass.chosen[r] \in ingPort

ProbeRoute(r) ==
  /\ ingPass.at = "probe"
  /\ r \in ingPass.todo
  /\ ingPass' = [ingPass EXCEPT
                   !.todo = @ \ {r},
                   !.ready = IF Accepts(r) THEN @ \cup {r} ELSE @,
                   !.at = IF ingPass.todo = {r} THEN "catalog" ELSE @]
  /\ UNCHANGED <<ingRow, ingWorld, ingFiles, ingPrint, ingFaults>>
-----------------------------------------------------------------------------
Pending == AllRoutes \ ingPass.ready

\* render_traefik_dynamic: a key that two routes have is the later one's
Rendered ==
  {<<RouteKey[r], ingPass.chosen[r]>> : r \in
     {s \in ingPass.ready :
        \A t \in ingPass.ready : RouteKey[t] = RouteKey[s] => t <= s}}

\* render_catalog_json
Listed ==
  [r \in AllRoutes |->
     [backend |-> ingPass.chosen[r], ready |-> r \in ingPass.ready]]

Fingerprint ==
  [proxy |-> Rendered,
   pending |-> {<<r, ingPass.chosen[r]>> : r \in Pending}]

\* mutation: the fingerprint is remembered before the files are written
PrintBeforeWrite == <<Fingerprint>>

PrintAfterCatalog == ingPrint

Unchanged ==
  /\ ingPass.at = "catalog"
  /\ ingPrint = <<Fingerprint>>
  /\ ingPass' = [ingPass EXCEPT !.at = "persist", !.ok = TRUE]
  /\ UNCHANGED <<ingRow, ingWorld, ingFiles, ingPrint, ingFaults>>

(***************************************************************************)
(* Each file is a temporary file renamed over the old one.                 *)
(***************************************************************************)
WriteCatalog ==
  /\ ingPass.at = "catalog"
  /\ ingPrint # <<Fingerprint>>
  /\ ingCatalog' = Listed
  /\ ingPrint' = PrintAfterCatalog
  /\ ingPass' = [ingPass EXCEPT !.at = "proxy"]
  /\ UNCHANGED <<ingRow, ingWorld, ingProxy, ingFaults>>

WriteProxy ==
  /\ ingPass.at = "proxy"
  /\ ingProxy' = Rendered
  /\ ingPrint' = <<Fingerprint>>
  /\ ingPass' = [ingPass EXCEPT !.at = "persist", !.ok = TRUE]
  /\ UNCHANGED <<ingRow, ingWorld, ingCatalog, ingFaults>>

\* a failing mkdir, write or rename is logged, and the pass goes on
WriteFails ==
  /\ \/ ingPass.at = "catalog" /\ ingPrint # <<Fingerprint>>
     \/ ingPass.at = "proxy"
  /\ ingFaults < MaxIngFaults
  /\ ingFaults' = ingFaults + 1
  /\ ingPass' = [ingPass EXCEPT !.at = "persist"]
  /\ UNCHANGED <<ingRow, ingWorld, ingFiles, ingPrint>>

PersistReports ==
  /\ ingPass.at = "persist"
  /\ ingRow' = ingPass.found
  /\ ingPass' = NoPass
  /\ UNCHANGED <<ingWorld, ingFiles, ingPrint, ingFaults>>
-----------------------------------------------------------------------------
\* the host port is the VM's: it closes when the VM goes down
ReplicaChanges(o, r) ==
  /\ ingVm[o] # r
  /\ r.healthy => r.running
  /\ ingVm' = [ingVm EXCEPT ![o] = r]
  /\ ingPort' = IF r.running THEN ingPort ELSE ingPort \ {o}
  /\ UNCHANGED <<ingRow, ingPass, ingFiles, ingPrint, ingFaults>>

PortChanges(o) ==
  /\ ingVm[o].running
  /\ ingPort' = IF o \in ingPort THEN ingPort \ {o} ELSE ingPort \cup {o}
  /\ UNCHANGED <<ingRow, ingVm, ingPass, ingFiles, ingPrint, ingFaults>>

\* the server dies anywhere; the files, the VMs and the rows stay
ServerDies ==
  /\ ingFaults < MaxIngFaults
  /\ ingFaults' = ingFaults + 1
  /\ ingPass' = NoPass
  /\ ingPrint' = <<>>
  /\ UNCHANGED <<ingRow, ingWorld, ingFiles>>

IngPassStep ==
  \/ PlanRoutes
  \/ ReportPhases
  \/ \E r \in IngRoutes : ProbeRoute(r)
  \/ Unchanged
  \/ WriteCatalog
  \/ WriteProxy
  \/ PersistReports

IngNext ==
  \/ IngPassStep
  \/ WriteFails
  \/ ServerDies
  \/ \E o \in IngReplicas :
       \/ PortChanges(o)
       \/ \E r \in Replica : ReplicaChanges(o, r)

IngSpec == IngInit /\ [][IngNext]_ingVars
-----------------------------------------------------------------------------
IngTypeOK ==
  /\ ingRow \in [IngReplicas -> Replica]
  /\ ingVm \in [IngReplicas -> Replica]
  /\ ingPort \subseteq IngReplicas
  /\ ingPass.at \in {"idle", "turns", "probe", "catalog", "proxy", "persist"}
  /\ ingPass.found \in [IngReplicas -> Replica]
  /\ ingPass.ready \subseteq AllRoutes
  /\ ingPass.todo \subseteq AllRoutes
  /\ ingPass.at \in {"catalog", "proxy", "persist"} => ingPass.todo = {}
  /\ Len(ingPrint) <= 1
  /\ ingFaults \in 0..MaxIngFaults

(***************************************************************************)
(* A pass that finds its routes unchanged, or writes them, leaves the      *)
(* proxy with the configuration it found right, whatever write failed and  *)
(* wherever the server died before.  The same of the catalog is not true:  *)
(* its write may have succeeded in a pass whose second write failed, and   *)
(* a pass that finds the routes of the last fingerprint again leaves it.   *)
(* (IngressFileWriter::reconcile)                                          *)
(***************************************************************************)
ProxyCurrent ==
  (ingPass.at = "persist" /\ ingPass.ok) => ingProxy = Rendered

(***************************************************************************)
(* Once some replica runs, and every replica that runs accepts and passes  *)
(* its checks, the proxy's file sends every route of the service to such a *)
(* replica for good.  (select_backend, reconcile)                          *)
(***************************************************************************)
Serving == {o \in IngReplicas : ingVm[o].running}

EventuallyRouted ==
  \A S \in (SUBSET IngReplicas) \ {{}} :
    <>[](Serving = S /\ S \subseteq ingPort /\ \A o \in S : ingVm[o].healthy)
      => <>[](/\ ingProxy # NoFile
              /\ \A r \in IngRoutes : \E o \in S :
                   <<RouteKey[r], o>> \in ingProxy)
=============================================================================
