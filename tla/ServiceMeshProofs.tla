-------------------------- MODULE ServiceMeshProofs --------------------------
(***************************************************************************)
(* Theorems about ServiceMesh, for any instances, services, networks,      *)
(* dependencies, ports and faults.                                         *)
(***************************************************************************)
EXTENDS ServiceMesh, TLAPS

-----------------------------------------------------------------------------
(***************************************************************************)
(* The inductive invariant, in the parts the properties need.              *)
(***************************************************************************)

Running(i) == reports[i] = "Running"

\* Whose turn is still to come has not been reported running in this pass, and
\* only an instance of the pass's desired set ever is.
TurnsMatch ==
    /\ pc \in {"idle", "listen"} => todo = {}
    /\ pc = "idle" => peers = {}
    /\ pc = "listen" => \A i \in Instances : ~Running(i)
    /\ \A i \in todo : ~Running(i)
    /\ pc # "idle" => \A i \in Instances : Running(i) => i \in desired

\* From the recreate decision to the end of the turn, a VM that is there has
\* the configuration the turn is about.
VMMatchesTurn ==
    pc \in {"ensure", "observe"} /\ vms[cur] # NoVM =>
        vms[cur].rule = want.rule /\ vms[cur].pub = want.pub

\* The listeners the turn checked before it went on are not closed under it.
TurnsListen ==
    cur \in Instances => \A p \in want.rule : splices[p] # "none"

\* An ephemeral port serves one exposed port at a time, whichever of the three
\* places remembers it: a binding, the backends, a VM that is up.
ServesOne ==
    \A i \in Instances :
        /\ \A j \in Instances : bind[i] = bind[j] /\ bind[i] # NoPort
                                    => PortOf(i) = PortOf(j)
        /\ \A j \in Instances : bind[j] \in PublishedBy(i) => PortOf(i) = PortOf(j)
        /\ \A p \in Exposable : bind[i] \in backends[p] => PortOf(i) = p
BackendsDisjoint ==
    \A p, q \in Exposable : backends[p] \cap backends[q] # {} => p = q

\* Whatever says that an instance runs, it has been up since its row was
\* inserted: the VM, the store, the last reports, and the liveness the gate of
\* depends_on looks at.
SeenMatches ==
    /\ \A i \in Instances :
          Up(i) \/ stored[i].running \/ live[i].running \/ Running(i) => seenUp[i]
    /\ \A i \in Instances : live[i].running => i \in peers
    /\ pc = "observe" => seenUp[cur] /\ started[cur]

\* `started` speaks of the row there is now, unless a row of the same runtime id
\* was deleted and no pass has dropped the id's state since.
StartedMatches ==
    \A i \in Instances :
        /\ started[i] => seenUp[i] \/ i \in lingering
        /\ started[i] \/ i \in peers => i \in rows \cup lingering

\* A turn that went past the gate for the first time found its dependencies up.
DepsSeen(i) ==
    \A d \in DependsOn[ServiceOf[i]] :
        \E j \in peers : ServiceOf[j] = d.service /\ seenUp[j]
GatePassed ==
    pc \in {"remove", "ensure"} /\ ~started[cur] /\ ~seenUp[cur] => DepsSeen(cur)

MeshInv ==
    /\ TypeOK /\ TurnsMatch /\ VMMatchesTurn /\ TurnsListen
    /\ SeenMatches /\ StartedMatches /\ GatePassed
    /\ FailClosed /\ BindingsTrue

PortsInv == ServesOne /\ BackendsDisjoint /\ RoutesToOwner
-----------------------------------------------------------------------------
(***************************************************************************)
(* Types.                                                                  *)
(***************************************************************************)

\* The conjuncts of TypeOK, by the part of the state they are about.
WorldType ==
    /\ rows \subseteq Instances
    /\ stored \in [Instances -> Lives]
    /\ vms \in [Instances -> VMs \cup {NoVM}]
    /\ foreign \subseteq AllPorts
    /\ faults \in Nat
BindType == bind \in [Instances -> Ephemeral \cup {NoPort}]
TableType ==
    /\ hostsKey \in [Instances -> (SUBSET Exposable) \cup {NoKey}]
    /\ splices \in [Exposable -> {"none", "live", "finished"}]
    /\ backends \in [Exposable -> SUBSET Ephemeral]
StateType ==
    /\ backoff \in [Instances -> BOOLEAN] /\ started \in [Instances -> BOOLEAN]
    /\ well \in [Instances -> BOOLEAN] /\ seenUp \in [Instances -> BOOLEAN]
    /\ lingering \subseteq Instances
PassType ==
    /\ pc \in {"idle", "listen", "turns", "remove", "ensure", "observe"}
    /\ peers \subseteq Instances /\ desired \subseteq peers /\ todo \subseteq desired
    /\ cur \in Instances \cup {Nobody}
    /\ cur \in Instances <=> pc \in {"remove", "ensure", "observe"}
    /\ cur \in Instances => cur \in todo
    /\ want \in [rule : SUBSET Exposable, pub : Ephemeral \cup {NoPort}]
    /\ fresh \in BOOLEAN
WantIsBound == cur \in Instances => want.pub = bind[cur]
ReportType ==
    /\ live \in [Instances -> Lives]
    /\ reports \in [Instances -> {"none", "Pending", "Creating", "Running", "Failed"}]

LEMMA TypePartsAfter ==
    ASSUME WorldType', BindType', TableType', StateType', PassType', WantIsBound', ReportType'
    PROVE  TypeOK'
  BY DEF TypeOK, WorldType, BindType, TableType, StateType, PassType, WantIsBound, ReportType

LEMMA PortFacts ==
    /\ NoPort \notin Exposable /\ NoPort \notin Ephemeral
    /\ \A i \in Instances : PortOf(i) \in Exposable \cup {NoPort}
<1>1. \A i \in Instances : PortOf(i) \in Exposable \cup {NoPort}
  BY Services_ DEF PortOf, Exposable
<1>. QED  BY <1>1, PortsDiffer DEF Exposable

LEMMA AllowsFacts ==
    ASSUME TypeOK, NEW i PROVE Allows(i) \subseteq Exposable
  BY PortFacts DEF Allows, TypeOK

LEMMA NoKeyFacts ==
    ASSUME TypeOK, NEW i \in Instances, NotRunning(i) \/ UNCHANGED hostsKey
    PROVE  hostsKey' \in [Instances -> (SUBSET Exposable) \cup {NoKey}]
  BY DEF TypeOK, NotRunning

LEMMA BindingFacts ==
    ASSUME TypeOK, NEW i \in Instances, NEW h \in BindingFor(i)
    PROVE  h \in Ephemeral \cup {NoPort}
  BY DEF BindingFor, TypeOK

\* The end of a turn is an end of the turn and nothing else.
LEMMA ConcludeType ==
    ASSUME TypeOK, NEW i \in todo,
           NEW phase \in {"none", "Pending", "Creating", "Running", "Failed"},
           Conclude(i, phase), UNCHANGED <<peers, desired, fresh>>
    PROVE  PassType' /\ ReportType' /\ WantIsBound'
<1>1. i \in Instances /\ Nobody \notin Instances
  BY PortsDiffer DEF TypeOK
<1>2. ReportType'
  BY <1>1 DEF TypeOK, Conclude, ReportType, Lives, Down
<1>. QED  BY <1>1, <1>2 DEF TypeOK, Conclude, PassType, WantIsBound, NoWant

LEMMA MeshType == TypeOK /\ TurnsMatch /\ [Next]_vars => TypeOK'
<1>. SUFFICES ASSUME TypeOK, TurnsMatch, [Next]_vars PROVE TypeOK'
  OBVIOUS
<1>. USE PortsDiffer, PortFacts DEF world, table, state, pass, history
<1>1. ASSUME NEW i \in Instances, Apply(i) PROVE TypeOK'
  BY <1>1 DEF Apply, TypeOK, Lives, Down, Up
<1>2. ASSUME NEW i \in Instances, Delete(i) PROVE TypeOK'
  BY <1>2 DEF Delete, TypeOK
<1>3. ASSUME NEW i \in Instances, VMExits(i) PROVE TypeOK'
  BY <1>3 DEF VMExits, TypeOK, Fault, Up, VMs, NoVM
<1>4. ASSUME NEW i \in Instances, BackoffElapses(i) PROVE TypeOK'
  BY <1>4 DEF BackoffElapses, TypeOK
<1>5. ASSUME NEW p \in AllPorts, ForeignTakes(p) PROVE TypeOK'
  BY <1>5 DEF ForeignTakes, TypeOK, Fault
<1>6. ASSUME NEW p \in AllPorts, ForeignLeaves(p) PROVE TypeOK'
  BY <1>6 DEF ForeignLeaves, TypeOK
<1>7. ASSUME NEW p \in Exposable, SpliceGivesUp(p) PROVE TypeOK'
  BY <1>7 DEF SpliceGivesUp, TypeOK, Fault
<1>8. ASSUME CrashRestart PROVE TypeOK'
  <2>1. WorldType' /\ StateType' /\ ReportType'
    BY <1>8 DEF CrashRestart, TypeOK, Fault, Lives, Down, WorldType, StateType, ReportType
  <2>2. BindType' /\ TableType' /\ PassType' /\ WantIsBound'
    BY <1>8 DEF CrashRestart, NoWant, BindType, TableType, PassType, WantIsBound
  <2>. QED  BY <2>1, <2>2, TypePartsAfter
<1>9. ASSUME StartPass PROVE TypeOK'
  BY <1>9 DEF StartPass, TypeOK, Fault, TurnsMatch, Lives, Down, Seed, Observed
<1>10. ASSUME EnsureListeners PROVE TypeOK'
  BY <1>10 DEF EnsureListeners, TypeOK, ListenerFor
<1>11. ASSUME NEW i \in Instances, HoldBack(i) \/ BackOff(i) \/ RefuseToStart(i)
       PROVE  TypeOK'
  <2>1. /\ i \in todo /\ UNCHANGED <<world, bind, splices, backends, state, peers, desired, fresh, history>>
        /\ NotRunning(i) \/ UNCHANGED hostsKey
        /\ Conclude(i, "Pending") \/ Conclude(i, "Creating") \/ Conclude(i, "Failed")
        /\ UNCHANGED faults \/ Fault
    BY <1>11 DEF HoldBack, BackOff, RefuseToStart, Turn
  <2>2. PassType' /\ ReportType' /\ WantIsBound'
    BY <2>1, ConcludeType
  <2>3. WorldType' /\ BindType' /\ StateType'
    BY <2>1 DEF TypeOK, WorldType, BindType, StateType, Fault
  <2>4. TableType'
    BY <2>1, NoKeyFacts DEF TypeOK, TableType
  <2>. QED  BY <2>2, <2>3, <2>4, TypePartsAfter
<1>12. ASSUME NEW i \in Instances, BeginTurn(i) PROVE TypeOK'
  <2>0. PICK h \in BindingFor(i) :
          LET c == [rule |-> Allows(i), pub |-> h]
              forced == Differs(i, c) \/ Silent(c)
          IN /\ bind' = [bind EXCEPT ![i] = Prepared(forced, h)]
             /\ want' = c
             /\ IF forced
                THEN pc' = "remove" /\ NotRunning(i)
                ELSE pc' = "ensure" /\ UNCHANGED hostsKey
    BY <1>12 DEF BeginTurn
  <2>1. /\ bind' = [bind EXCEPT ![i] = h]
        /\ want' = [rule |-> Allows(i), pub |-> h]
        /\ pc' \in {"remove", "ensure"}
        /\ NotRunning(i) \/ UNCHANGED hostsKey
    BY <2>0 DEF Prepared
  <2>2. h \in Ephemeral \cup {NoPort} /\ Allows(i) \subseteq Exposable
    BY BindingFacts, AllowsFacts
  <2>3. /\ i \in todo /\ cur' = i /\ fresh' = FALSE
        /\ UNCHANGED <<world, splices, backends, state, peers, desired, todo, live,
                       reports, history, faults>>
    BY <1>12 DEF BeginTurn, Turn
  <2>4. WorldType' /\ StateType' /\ ReportType' /\ TableType'
    BY <2>1, <2>3, NoKeyFacts
    DEF TypeOK, WorldType, StateType, ReportType, TableType
  <2>5. BindType' /\ WantIsBound'
    BY <2>1, <2>2, <2>3 DEF TypeOK, BindType, WantIsBound
  <2>6. PassType'
    BY <2>1, <2>2, <2>3 DEF TypeOK, PassType
  <2>. QED  BY <2>4, <2>5, <2>6, TypePartsAfter
<1>13. CASE RemoveForRecreate
  <2>0. /\ UNCHANGED <<rows, stored, foreign, table, backoff, started, history>>
        /\ vms' = [vms EXCEPT ![cur] = NoVM] \/ UNCHANGED vms
        /\ well' = [well EXCEPT ![cur] = FALSE] \/ UNCHANGED well
        /\ UNCHANGED faults \/ Fault
    BY <1>13 DEF RemoveForRecreate
  <2>1. WorldType'
    BY <2>0 DEF TypeOK, Fault, WorldType
  <2>3. StateType' /\ BindType' /\ TableType'
    BY <2>0 DEF TypeOK, StateType, BindType, TableType
  <2>2. PassType' /\ WantIsBound' /\ ReportType'
    <3>1. CASE Conclude(cur, "Failed")
      BY <1>13, <3>1, ConcludeType DEF RemoveForRecreate, TypeOK
    <3>2. CASE pc' = "ensure" /\ UNCHANGED <<cur, want, todo, live, reports>>
      BY <1>13, <3>2 DEF RemoveForRecreate, TypeOK, PassType, WantIsBound, ReportType
    <3>. QED  BY <1>13, <3>1, <3>2 DEF RemoveForRecreate
  <2>. QED  BY <2>1, <2>2, <2>3, TypePartsAfter
<1>14. ASSUME FindRunning PROVE TypeOK'
  BY <1>14 DEF FindRunning, TypeOK
<1>15. ASSUME BringUp PROVE TypeOK'
  <2>1. WorldType'
    BY SMTT(30), <1>15 DEF BringUp, TypeOK, Booted, NewVM, VMs, WorldType
  <2>2. BindType' /\ TableType' /\ StateType'
    BY <1>15 DEF BringUp, TypeOK, BindType, TableType, StateType
  <2>3. PassType' /\ WantIsBound' /\ ReportType'
    BY <1>15 DEF BringUp, TypeOK, PassType, WantIsBound, ReportType
  <2>. QED  BY <2>1, <2>2, <2>3, TypePartsAfter
<1>16. CASE FailToBringUp
  <2>1. /\ cur \in todo /\ cur \in Instances
        /\ UNCHANGED <<world, bind, splices, backends, started, well, peers, desired,
                       fresh, history>>
        /\ backoff' = [backoff EXCEPT ![cur] = TRUE]
        /\ NotRunning(cur) /\ Conclude(cur, "Failed")
        /\ UNCHANGED faults \/ Fault
    BY <1>16 DEF FailToBringUp, TypeOK
  <2>2. PassType' /\ ReportType' /\ WantIsBound'
    BY <2>1, ConcludeType
  <2>3. WorldType' /\ BindType' /\ StateType'
    BY <2>1 DEF TypeOK, WorldType, BindType, StateType, Fault
  <2>4. TableType'
    BY <2>1, NoKeyFacts DEF TypeOK, TableType
  <2>. QED  BY <2>2, <2>3, <2>4, TypePartsAfter
<1>17. ASSUME ReplaceUnhealthy PROVE TypeOK'
  BY <1>17 DEF ReplaceUnhealthy, TypeOK, Fault, NewVM, VMs
<1>18. CASE ObserveRunning
  <2>1. /\ cur \in todo /\ cur \in Instances
        /\ UNCHANGED <<rows, stored, foreign, bind, splices, backends,
                       backoff, started, peers, desired, fresh, history>>
        /\ reports' = [reports EXCEPT ![cur] = "Running"]
        /\ live' = [live EXCEPT ![cur] = [running |-> TRUE, healthy |-> well'[cur]]]
        /\ todo' = todo \ {cur}
        /\ pc' = "turns" /\ cur' = Nobody /\ want' = NoWant
    BY <1>18 DEF ObserveRunning, TypeOK
  <2>2. well' \in [Instances -> BOOLEAN] /\ faults' \in Nat
    <3>1. well \in [Instances -> BOOLEAN] /\ faults \in Nat
      BY DEF TypeOK
    <3>2. /\ well' = well \/ \E b \in BOOLEAN : well' = [well EXCEPT ![cur] = b]
          /\ UNCHANGED faults \/ Fault
      BY <1>18 DEF ObserveRunning, Verdict
    <3>. QED  BY <3>1, <3>2 DEF Fault
  <2>3. ReadyEdges \subseteq Exposable
    BY <2>1 DEF ReadyEdges, TypeOK
  <2>4. vms' \in [Instances -> VMs \cup {NoVM}]
    <3>1. CASE UNCHANGED vms
      BY <3>1 DEF TypeOK
    <3>2. CASE vms' = [vms EXCEPT ![cur].names = ReadyEdges] /\ Up(cur)
      <4>1. vms[cur] \in VMs
        BY <2>1, <3>2 DEF TypeOK, Up, NoVM
      <4>2. [vms[cur] EXCEPT !.names = ReadyEdges] \in VMs
        BY <2>3, <4>1 DEF VMs
      <4>. QED  BY <2>1, <3>2, <4>2 DEF TypeOK
    <3>. QED  BY <1>18, <3>1, <3>2 DEF ObserveRunning, InjectHosts
  <2>5. hostsKey' \in [Instances -> (SUBSET Exposable) \cup {NoKey}]
    BY <1>18, <2>1, <2>3 DEF ObserveRunning, InjectHosts, TypeOK
  <2>6. WorldType' /\ BindType' /\ TableType' /\ StateType'
    BY <2>1, <2>2, <2>4, <2>5 DEF TypeOK, WorldType, BindType, TableType, StateType
  <2>7. PassType' /\ WantIsBound'
    BY <2>1 DEF TypeOK, PassType, WantIsBound, NoWant
  <2>8. ReportType'
    BY <2>1, <2>2 DEF TypeOK, ReportType, Lives
  <2>. QED  BY <2>6, <2>7, <2>8, TypePartsAfter
<1>19. ASSUME EndPass PROVE TypeOK'
  <2>1. WorldType' /\ StateType' /\ ReportType'
    BY <1>19 DEF EndPass, TypeOK, Lives, Report, Down, WorldType, StateType, ReportType
  <2>2. BindType' /\ TableType'
    BY <1>19 DEF EndPass, TypeOK, BackendsOf, BindType, TableType
  <2>3. PassType' /\ WantIsBound'
    BY <1>19 DEF EndPass, TypeOK, PassType, WantIsBound
  <2>. QED  BY <2>1, <2>2, <2>3, TypePartsAfter
<1>30. CASE UNCHANGED vars
  BY <1>30 DEF vars, TypeOK
<1>. QED
  BY <1>1, <1>2, <1>3, <1>4, <1>5, <1>6, <1>7, <1>8, <1>9, <1>10, <1>11, <1>12, <1>13, <1>14, <1>15, <1>16, <1>17, <1>18, <1>19, <1>30
  DEF Next, Operator, World, PassStep
\* Starting, stopping or naming a VM leaves the configuration it was created with.
LEMMA VMFacts ==
    ASSUME NEW v \in VMs, NEW st, NEW names
    PROVE  /\ [v EXCEPT !.st = st].rule = v.rule /\ [v EXCEPT !.st = st].pub = v.pub
           /\ [v EXCEPT !.st = st].st = st
           /\ [v EXCEPT !.names = names].rule = v.rule
           /\ [v EXCEPT !.names = names].pub = v.pub
           /\ [v EXCEPT !.names = names].st = v.st
  BY DEF VMs

LEMMA UpIsVM ==
    ASSUME TypeOK, NEW i \in Instances
    PROVE  /\ Up(i) => vms[i] \in VMs
           /\ vms[i] # NoVM => vms[i] \in VMs
  BY DEF TypeOK, Up, NoVM

\* A VM that exits, and what a turn ends with, change no VM's configuration.
LEMMA ExitVMs ==
    ASSUME TypeOK, NEW i \in Instances, VMExits(i), NEW j \in Instances
    PROVE  /\ vms'[j].rule = vms[j].rule /\ vms'[j].pub = vms[j].pub
           /\ Up(j)' => Up(j)
           /\ vms'[j] # NoVM => vms[j] # NoVM
<1>1. vms[i] \in VMs
  BY UpIsVM DEF VMExits
<1>2. vms' = [vms EXCEPT ![i] = [vms[i] EXCEPT !.st = "down"]]
  BY DEF VMExits
<1>3. vms[i] # NoVM
  BY DEF VMExits, Up, NoVM
<1>. QED  BY <1>1, <1>2, <1>3, VMFacts DEF Up

LEMMA ObserveVMs ==
    ASSUME TypeOK, ObserveRunning, NEW j \in Instances
    PROVE  /\ vms'[j].rule = vms[j].rule /\ vms'[j].pub = vms[j].pub
           /\ Up(j)' <=> Up(j)
<1>1. CASE UNCHANGED vms
  BY <1>1 DEF Up
<1>2. CASE /\ Up(cur)
           /\ vms' = [vms EXCEPT ![cur].names = ReadyEdges]
  <2>1. cur \in Instances /\ vms[cur] \in VMs
    BY <1>2, UpIsVM DEF ObserveRunning, TypeOK
  <2>2. vms' = [vms EXCEPT ![cur] = [vms[cur] EXCEPT !.names = ReadyEdges]]
    BY <1>2
  <2>. QED  BY <2>1, <2>2, VMFacts DEF Up
<1>. QED  BY <1>1, <1>2 DEF ObserveRunning, InjectHosts

\* A VM comes up with the configuration of its turn.
LEMMA BringUpVMs ==
    ASSUME TypeOK, VMMatchesTurn, BringUp
    PROVE  /\ cur \in Instances
           /\ vms'[cur].rule = want.rule /\ vms'[cur].pub = want.pub /\ Up(cur)'
           /\ \A j \in Instances \ {cur} : vms'[j] = vms[j]
<1>1. cur \in Instances
  BY DEF BringUp, TypeOK
<1>2. PICK v \in Booted(cur) : vms' = [vms EXCEPT ![cur] = v]
  BY DEF BringUp
<1>3. v.rule = want.rule /\ v.pub = want.pub /\ v.st = "up"
  <2>1. CASE v = NewVM(want)
    BY <2>1 DEF NewVM
  <2>2. CASE vms[cur] # NoVM /\ v = [vms[cur] EXCEPT !.st = "up"]
    <3>1. vms[cur] \in VMs
      BY <1>1, <2>2, UpIsVM
    <3>. QED  BY <2>2, <3>1, VMFacts DEF BringUp, VMMatchesTurn
  <2>. QED  BY <1>2, <2>1, <2>2 DEF Booted
<1>. QED  BY <1>1, <1>2, <1>3 DEF TypeOK, Up, BringUp

\* What a turn begins with.
LEMMA TurnBegins ==
    ASSUME NEW i, BeginTurn(i)
    PROVE  \E h \in BindingFor(i) :
             /\ i \in todo /\ pc = "turns" /\ Passes(i) /\ Gaps(i) = {}
             /\ cur' = i
             /\ bind' = [bind EXCEPT ![i] = h]
             /\ want' = [rule |-> Allows(i), pub |-> h]
             /\ \/ pc' = "remove"
                \/ pc' = "ensure" /\ ~Differs(i, want')
             /\ NotRunning(i) \/ UNCHANGED hostsKey
             /\ UNCHANGED <<world, splices, backends, state, peers, desired, todo,
                            live, reports, history, faults>>
<1>1. PICK h \in BindingFor(i) :
          LET c == [rule |-> Allows(i), pub |-> h]
              forced == Differs(i, c) \/ Silent(c)
          IN /\ bind' = [bind EXCEPT ![i] = Prepared(forced, h)]
             /\ want' = c
             /\ IF forced
                THEN pc' = "remove" /\ NotRunning(i)
                ELSE pc' = "ensure" /\ UNCHANGED hostsKey
  BY DEF BeginTurn
<1>. QED  BY <1>1 DEF BeginTurn, Turn, Prepared

-----------------------------------------------------------------------------
(***************************************************************************)
(* Every step keeps every part of the invariant.                           *)
(***************************************************************************)

LEMMA TurnsStep == MeshInv /\ [Next]_vars => TurnsMatch'
<1>. SUFFICES ASSUME MeshInv, TypeOK', [Next]_vars PROVE TurnsMatch'
  BY MeshType DEF MeshInv
<1>. USE PortsDiffer DEF MeshInv, world, table, state, pass, history, TurnsMatch
<1>1. ASSUME NEW i \in Instances, Apply(i) \/ Delete(i) \/ BackoffElapses(i)
      PROVE  TurnsMatch'
  BY <1>1 DEF TypeOK, Apply, Delete, BackoffElapses, Running
<1>2. ASSUME NEW i \in Instances, VMExits(i)
      PROVE  TurnsMatch'
  BY <1>2 DEF VMExits, Running
<1>3. ASSUME NEW p \in AllPorts, ForeignTakes(p) \/ ForeignLeaves(p)
      PROVE  TurnsMatch'
  BY <1>3 DEF ForeignTakes, ForeignLeaves, Running
<1>4. ASSUME NEW p \in Exposable, SpliceGivesUp(p)
      PROVE  TurnsMatch'
  BY <1>4 DEF TypeOK, SpliceGivesUp, Running
<1>5. CASE CrashRestart
  BY <1>5 DEF TypeOK, CrashRestart
<1>6. CASE StartPass
  BY <1>6 DEF StartPass, Seed, Running
<1>7. CASE EnsureListeners
  BY <1>7 DEF TypeOK, EnsureListeners, Running
<1>8. ASSUME NEW i \in Instances, HoldBack(i) \/ BackOff(i) \/ RefuseToStart(i)
      PROVE  TurnsMatch'
  BY <1>8 DEF TypeOK, HoldBack, BackOff, RefuseToStart, Turn, Conclude, Running
<1>9. ASSUME NEW i \in Instances, BeginTurn(i)
      PROVE  TurnsMatch'
  BY <1>9 DEF TypeOK, BeginTurn, NotRunning, Running
<1>10. CASE RemoveForRecreate
  BY <1>10 DEF TypeOK, RemoveForRecreate, Conclude, Running
<1>11. CASE FindRunning
  BY <1>11 DEF FindRunning, Running
<1>12. CASE BringUp
  BY <1>12 DEF BringUp, NoVM, Running
<1>13. CASE FailToBringUp
  BY <1>13 DEF FailToBringUp, Conclude, Running
<1>14. CASE ReplaceUnhealthy
  BY <1>14 DEF ReplaceUnhealthy, NoVM, Running
<1>15. CASE ObserveRunning
  BY <1>15 DEF TypeOK, ObserveRunning, NoVM, Running
<1>16. CASE EndPass
  BY <1>16 DEF EndPass
<1>17. CASE UNCHANGED vars
  BY <1>17 DEF TypeOK, vars, Running
<1>. QED
  BY <1>1, <1>2, <1>3, <1>4, <1>5, <1>6, <1>7, <1>8, <1>9, <1>10, <1>11, <1>12, <1>13, <1>14, <1>15, <1>16, <1>17
  DEF Next, Operator, World, PassStep

LEMMA VMStep == MeshInv /\ [Next]_vars => VMMatchesTurn'
<1>. SUFFICES ASSUME MeshInv, TypeOK', [Next]_vars PROVE VMMatchesTurn'
  BY MeshType DEF MeshInv
<1>. USE PortsDiffer DEF MeshInv, world, table, state, pass, history, VMMatchesTurn
<1>1. ASSUME NEW i \in Instances, Apply(i) \/ Delete(i) \/ BackoffElapses(i)
      PROVE  VMMatchesTurn'
  BY <1>1 DEF Apply, Delete, BackoffElapses
<1>2. ASSUME NEW i \in Instances, VMExits(i)
      PROVE  VMMatchesTurn'
  BY <1>2, ExitVMs DEF TypeOK, VMExits
<1>3. ASSUME NEW p \in AllPorts, ForeignTakes(p) \/ ForeignLeaves(p)
      PROVE  VMMatchesTurn'
  BY <1>3 DEF TypeOK, ForeignTakes, ForeignLeaves
<1>4. ASSUME NEW p \in Exposable, SpliceGivesUp(p)
      PROVE  VMMatchesTurn'
  BY <1>4 DEF SpliceGivesUp
<1>5. CASE CrashRestart
  BY <1>5 DEF CrashRestart
<1>6. CASE StartPass
  BY <1>6 DEF StartPass, NoVM
<1>7. CASE EnsureListeners
  BY <1>7 DEF EnsureListeners
<1>8. ASSUME NEW i \in Instances, HoldBack(i) \/ BackOff(i) \/ RefuseToStart(i)
      PROVE  VMMatchesTurn'
  BY <1>8 DEF HoldBack, BackOff, RefuseToStart, Turn, Conclude
<1>9. ASSUME NEW i \in Instances, BeginTurn(i)
      PROVE  VMMatchesTurn'
  BY <1>9, TurnBegins DEF Differs
<1>10. CASE RemoveForRecreate
  BY <1>10 DEF TypeOK, RemoveForRecreate, Conclude
<1>11. CASE FindRunning
  BY <1>11 DEF TypeOK, FindRunning
<1>12. CASE BringUp
  BY <1>12, BringUpVMs DEF BringUp
<1>13. CASE FailToBringUp
  BY <1>13 DEF FailToBringUp, Conclude
<1>14. CASE ReplaceUnhealthy
  BY <1>14 DEF ReplaceUnhealthy, NewVM
<1>15. CASE ObserveRunning
  BY <1>15 DEF ObserveRunning, Up
<1>16. CASE EndPass
  BY <1>16 DEF TypeOK, EndPass
<1>17. CASE UNCHANGED vars
  BY <1>17 DEF vars
<1>. QED
  BY <1>1, <1>2, <1>3, <1>4, <1>5, <1>6, <1>7, <1>8, <1>9, <1>10, <1>11, <1>12, <1>13, <1>14, <1>15, <1>16, <1>17
  DEF Next, Operator, World, PassStep

LEMMA ListenStep == MeshInv /\ [Next]_vars => TurnsListen'
<1>. SUFFICES ASSUME MeshInv, TypeOK', [Next]_vars PROVE TurnsListen'
  BY MeshType DEF MeshInv
<1>. USE PortsDiffer DEF MeshInv, world, table, state, pass, history, TurnsListen
<1>1. ASSUME NEW i \in Instances, Apply(i) \/ Delete(i) \/ BackoffElapses(i)
      PROVE  TurnsListen'
  BY <1>1 DEF Apply, Delete, BackoffElapses, Gaps
<1>2. ASSUME NEW i \in Instances, VMExits(i)
      PROVE  TurnsListen'
  BY <1>2 DEF VMExits, Gaps
<1>3. ASSUME NEW p \in AllPorts, ForeignTakes(p) \/ ForeignLeaves(p)
      PROVE  TurnsListen'
  BY <1>3 DEF ForeignTakes, ForeignLeaves, Gaps
<1>4. ASSUME NEW p \in Exposable, SpliceGivesUp(p)
      PROVE  TurnsListen'
  BY <1>4 DEF SpliceGivesUp, Gaps
<1>5. CASE CrashRestart
  BY <1>5 DEF CrashRestart, Gaps
<1>6. CASE StartPass
  BY <1>6 DEF StartPass, Gaps
<1>7. CASE EnsureListeners
  BY <1>7 DEF TypeOK, EnsureListeners, Gaps
<1>8. ASSUME NEW i \in Instances, HoldBack(i) \/ BackOff(i) \/ RefuseToStart(i)
      PROVE  TurnsListen'
  BY <1>8 DEF HoldBack, BackOff, RefuseToStart, Conclude, Gaps
<1>9. ASSUME NEW i \in Instances, BeginTurn(i)
      PROVE  TurnsListen'
  BY <1>9, TurnBegins DEF Gaps
<1>10. CASE RemoveForRecreate
  BY <1>10 DEF RemoveForRecreate, Conclude, Gaps
<1>11. CASE FindRunning
  BY <1>11 DEF FindRunning, Gaps
<1>12. CASE BringUp
  BY <1>12 DEF BringUp, Gaps
<1>13. CASE FailToBringUp
  BY <1>13 DEF FailToBringUp, Conclude, Gaps
<1>14. CASE ReplaceUnhealthy
  BY <1>14 DEF ReplaceUnhealthy, Gaps
<1>15. CASE ObserveRunning
  BY <1>15 DEF ObserveRunning, Gaps
<1>16. CASE EndPass
  BY <1>16 DEF EndPass, Gaps
<1>17. CASE UNCHANGED vars
  BY <1>17 DEF vars, Gaps
<1>. QED
  BY <1>1, <1>2, <1>3, <1>4, <1>5, <1>6, <1>7, <1>8, <1>9, <1>10, <1>11, <1>12, <1>13, <1>14, <1>15, <1>16, <1>17
  DEF Next, Operator, World, PassStep

LEMMA ClosedStep == MeshInv /\ [Next]_vars => FailClosed'
<1>. SUFFICES ASSUME MeshInv, TypeOK', [Next]_vars PROVE FailClosed'
  BY MeshType DEF MeshInv
<1>. USE PortsDiffer DEF MeshInv, world, table, state, pass, history, FailClosed
<1>1. ASSUME NEW i \in Instances, Apply(i) \/ Delete(i) \/ BackoffElapses(i)
      PROVE  FailClosed'
  BY <1>1 DEF TypeOK, Apply, Delete, BackoffElapses, Up, TurnsMatch
<1>2. ASSUME NEW i \in Instances, VMExits(i)
      PROVE  FailClosed'
  <2>. SUFFICES ASSUME NEW j \in Instances, Running(j)', Up(j)', NEW p \in vms'[j].rule
                PROVE  splices'[p] # "none"
    BY DEF Running
  <2>1. Up(j) /\ p \in vms[j].rule
    BY <1>2, ExitVMs
  <2>. QED  BY <1>2, <2>1 DEF VMExits, Running
<1>3. ASSUME NEW p \in AllPorts, ForeignTakes(p) \/ ForeignLeaves(p)
      PROVE  FailClosed'
  BY <1>3 DEF ForeignTakes, ForeignLeaves, Up, TurnsMatch
<1>4. ASSUME NEW p \in Exposable, SpliceGivesUp(p)
      PROVE  FailClosed'
  BY <1>4 DEF SpliceGivesUp, Up, TurnsMatch
<1>5. CASE CrashRestart
  BY <1>5 DEF CrashRestart, TurnsMatch
<1>6. CASE StartPass
  BY <1>6 DEF StartPass, TurnsMatch
<1>7. CASE EnsureListeners
  BY <1>7 DEF EnsureListeners, Running, TurnsMatch
<1>8. ASSUME NEW i \in Instances, HoldBack(i) \/ BackOff(i) \/ RefuseToStart(i)
      PROVE  FailClosed'
  BY <1>8 DEF TypeOK, HoldBack, BackOff, RefuseToStart, Conclude, Up, TurnsMatch
<1>9. ASSUME NEW i \in Instances, BeginTurn(i)
      PROVE  FailClosed'
  BY <1>9, TurnBegins DEF Up
<1>10. CASE RemoveForRecreate
  BY <1>10 DEF TypeOK, RemoveForRecreate, Conclude, Up, Running, TurnsMatch
<1>11. CASE FindRunning
  BY <1>11 DEF FindRunning, Up, TurnsMatch
<1>12. CASE BringUp
  BY <1>12 DEF TypeOK, BringUp, Up, Running, TurnsMatch
<1>13. CASE FailToBringUp
  BY <1>13 DEF FailToBringUp, Conclude, Up, TurnsMatch
<1>14. CASE ReplaceUnhealthy
  BY <1>14 DEF TypeOK, ReplaceUnhealthy, Up, Running, TurnsMatch
<1>15. CASE ObserveRunning
  BY <1>15, ObserveVMs DEF ObserveRunning, VMMatchesTurn, TurnsListen, NoVM
<1>16. CASE EndPass
  BY <1>16 DEF EndPass, Up, TurnsMatch
<1>17. CASE UNCHANGED vars
  BY <1>17 DEF vars, Up, TurnsMatch
<1>. QED
  BY <1>1, <1>2, <1>3, <1>4, <1>5, <1>6, <1>7, <1>8, <1>9, <1>10, <1>11, <1>12, <1>13, <1>14, <1>15, <1>16, <1>17
  DEF Next, Operator, World, PassStep

LEMMA BindingsStep == MeshInv /\ [Next]_vars => BindingsTrue'
<1>. SUFFICES ASSUME MeshInv, TypeOK', [Next]_vars PROVE BindingsTrue'
  BY MeshType DEF MeshInv
<1>. USE PortsDiffer DEF MeshInv, world, table, state, pass, history, BindingsTrue
<1>1. ASSUME NEW i \in Instances, Apply(i) \/ Delete(i) \/ BackoffElapses(i)
      PROVE  BindingsTrue'
  BY <1>1 DEF TypeOK, Apply, Delete, BackoffElapses, Up, Running
<1>2. ASSUME NEW i \in Instances, VMExits(i)
      PROVE  BindingsTrue'
  BY <1>2, ExitVMs DEF VMExits
<1>3. ASSUME NEW p \in AllPorts, ForeignTakes(p) \/ ForeignLeaves(p)
      PROVE  BindingsTrue'
  BY <1>3 DEF ForeignTakes, ForeignLeaves, Up, Running
<1>4. ASSUME NEW p \in Exposable, SpliceGivesUp(p)
      PROVE  BindingsTrue'
  BY <1>4 DEF SpliceGivesUp, Up, Running
<1>5. CASE CrashRestart
  BY <1>5 DEF CrashRestart, Running
<1>6. CASE StartPass
  BY <1>6 DEF StartPass, Running
<1>7. CASE EnsureListeners
  BY <1>7 DEF EnsureListeners, Up, Running
<1>8. ASSUME NEW i \in Instances, HoldBack(i) \/ BackOff(i) \/ RefuseToStart(i)
      PROVE  BindingsTrue'
  BY <1>8 DEF TypeOK, HoldBack, BackOff, RefuseToStart, Conclude, Up, Running
<1>9. ASSUME NEW i \in Instances, BeginTurn(i)
      PROVE  BindingsTrue'
  BY <1>9, TurnBegins DEF TypeOK, TurnsMatch, Running, Up
<1>10. CASE RemoveForRecreate
  BY <1>10 DEF TypeOK, RemoveForRecreate, Conclude, NoVM, Up, Running
<1>11. CASE FindRunning
  BY <1>11 DEF FindRunning, Up, Running
<1>12. CASE BringUp
  BY <1>12 DEF TypeOK, BringUp, Up, Running, TurnsMatch
<1>13. CASE FailToBringUp
  BY <1>13 DEF FailToBringUp, Conclude, Up, Running
<1>14. CASE ReplaceUnhealthy
  BY <1>14 DEF TypeOK, ReplaceUnhealthy, NewVM, Up, Running
<1>15. CASE ObserveRunning
  BY <1>15, ObserveVMs DEF TypeOK, ObserveRunning, VMMatchesTurn, Up, NoVM
<1>16. CASE EndPass
  BY <1>16 DEF EndPass, Up, Running, TurnsMatch
<1>17. CASE UNCHANGED vars
  BY <1>17 DEF vars, Up, Running
<1>. QED
  BY <1>1, <1>2, <1>3, <1>4, <1>5, <1>6, <1>7, <1>8, <1>9, <1>10, <1>11, <1>12, <1>13, <1>14, <1>15, <1>16, <1>17
  DEF Next, Operator, World, PassStep

\* A turn that ends without a VM says of nobody that it runs.
LEMMA ConcludeSeen ==
    ASSUME TypeOK, SeenMatches, NEW i \in Instances, NEW phase, phase # "Running",
           Conclude(i, phase), UNCHANGED <<stored, seenUp, peers>>,
           \A j \in Instances : Up(j)' => Up(j)
    PROVE  SeenMatches'
  BY DEF SeenMatches, Conclude, Running, Down

LEMMA SeenStep == MeshInv /\ [Next]_vars => SeenMatches'
<1>. SUFFICES ASSUME MeshInv, TypeOK', [Next]_vars PROVE SeenMatches'
  BY MeshType DEF MeshInv
<1>. USE PortsDiffer DEF MeshInv, world, table, state, pass, history, SeenMatches
<1>1. ASSUME NEW i \in Instances, Apply(i) \/ Delete(i) \/ BackoffElapses(i)
      PROVE  SeenMatches'
  BY <1>1 DEF TypeOK, Apply, Delete, BackoffElapses, Up, Running, TurnsMatch, Down
<1>2. ASSUME NEW i \in Instances, VMExits(i)
      PROVE  SeenMatches'
  BY <1>2 DEF VMExits, Up, Running, TurnsMatch
<1>3. ASSUME NEW p \in AllPorts, ForeignTakes(p) \/ ForeignLeaves(p)
      PROVE  SeenMatches'
  BY <1>3 DEF ForeignTakes, ForeignLeaves, Up, Running, TurnsMatch
<1>4. ASSUME NEW p \in Exposable, SpliceGivesUp(p)
      PROVE  SeenMatches'
  BY <1>4 DEF SpliceGivesUp, Up, Running, TurnsMatch
<1>5. CASE CrashRestart
  BY <1>5 DEF CrashRestart, Up, Running, TurnsMatch, Down
<1>6. CASE StartPass
  BY <1>6 DEF StartPass, NoVM, Seed, Observed, Up, Running, Down
<1>7. CASE EnsureListeners
  BY <1>7 DEF EnsureListeners, Up, Running, TurnsMatch
<1>8. ASSUME NEW i \in Instances, HoldBack(i) \/ BackOff(i) \/ RefuseToStart(i)
      PROVE  SeenMatches'
  BY <1>8, ConcludeSeen DEF HoldBack, BackOff, RefuseToStart, Up
<1>9. ASSUME NEW i \in Instances, BeginTurn(i)
      PROVE  SeenMatches'
  BY <1>9, TurnBegins DEF TypeOK, Up, Running
<1>10. CASE RemoveForRecreate
  <2>1. cur \in Instances
    BY <1>10 DEF RemoveForRecreate, TypeOK
  <2>2. \A j \in Instances : Up(j)' => Up(j)
    BY <1>10, <2>1 DEF RemoveForRecreate, TypeOK, Up, NoVM
  <2>3. CASE Conclude(cur, "Failed")
    BY <1>10, <2>1, <2>2, <2>3, ConcludeSeen DEF RemoveForRecreate
  <2>4. CASE UNCHANGED <<live, reports>> /\ pc' = "ensure"
    BY <1>10, <2>2, <2>4 DEF RemoveForRecreate, Running
  <2>. QED  BY <1>10, <2>3, <2>4 DEF RemoveForRecreate
<1>11. CASE FindRunning
  BY <1>11 DEF TypeOK, FindRunning, Up, Running, TurnsMatch
<1>12. CASE BringUp
  BY <1>12, BringUpVMs DEF TypeOK, BringUp, Up, Running
<1>13. CASE FailToBringUp
  BY <1>13 DEF FailToBringUp, Conclude, Up, Running, TurnsMatch, Down
<1>14. CASE ReplaceUnhealthy
  BY <1>14 DEF ReplaceUnhealthy, Up, Running, TurnsMatch
<1>15. CASE ObserveRunning
  BY <1>15, ObserveVMs DEF TypeOK, ObserveRunning, Running
<1>16. CASE EndPass
  BY <1>16 DEF EndPass, Report, Up, Running, TurnsMatch, Down
<1>17. CASE UNCHANGED vars
  BY <1>17 DEF vars, Up, Running, TurnsMatch
<1>. QED
  BY <1>1, <1>2, <1>3, <1>4, <1>5, <1>6, <1>7, <1>8, <1>9, <1>10, <1>11, <1>12, <1>13, <1>14, <1>15, <1>16, <1>17
  DEF Next, Operator, World, PassStep

\* What the process remembers of an id outlives a row only as `lingering` says.
LEMMA StartedStep == MeshInv /\ [Next]_vars => StartedMatches'
<1>. SUFFICES ASSUME MeshInv, TypeOK', [Next]_vars PROVE StartedMatches'
  BY MeshType DEF MeshInv
<1>. USE DEF MeshInv, world, table, state, pass, history, StartedMatches
<1>1. ASSUME NEW i \in Instances, Apply(i) \/ Delete(i) \/ BackoffElapses(i)
      PROVE  StartedMatches'
  BY <1>1 DEF TypeOK, Apply, Delete, BackoffElapses
<1>2. ASSUME NEW i \in Instances, VMExits(i)
      PROVE  StartedMatches'
  BY <1>2 DEF VMExits
<1>3. ASSUME NEW p, ForeignTakes(p) \/ ForeignLeaves(p) \/ SpliceGivesUp(p)
      PROVE  StartedMatches'
  BY <1>3 DEF ForeignTakes, ForeignLeaves, SpliceGivesUp
<1>4. CASE CrashRestart
  BY <1>4 DEF CrashRestart
<1>5. CASE StartPass
  <2>1. PICK kept \in SUBSET {i \in Instances \ rows : vms[i] # NoVM} :
          /\ started' = [i \in Instances |-> started[i] /\ i \in rows \cup kept]
          /\ lingering' = {i \in lingering : i \in rows \cup kept}
    BY <1>5 DEF StartPass
  <2>2. peers' = rows /\ seenUp' = seenUp /\ rows' = rows
    BY <1>5 DEF StartPass
  <2>. SUFFICES ASSUME NEW i \in Instances
                PROVE  /\ started[i]' => seenUp'[i] \/ i \in lingering'
                       /\ started[i]' \/ i \in peers' => i \in rows' \cup lingering'
    OBVIOUS
  <2>. QED  BY <2>1, <2>2
<1>6. CASE EnsureListeners
  BY <1>6 DEF EnsureListeners
<1>7. ASSUME NEW i \in Instances, HoldBack(i) \/ BackOff(i) \/ RefuseToStart(i)
      PROVE  StartedMatches'
  BY <1>7 DEF HoldBack, BackOff, RefuseToStart
<1>8. ASSUME NEW i \in Instances, BeginTurn(i)
      PROVE  StartedMatches'
  BY <1>8, TurnBegins
<1>9. CASE RemoveForRecreate
  BY <1>9 DEF RemoveForRecreate
<1>10. CASE FindRunning
  BY <1>10 DEF FindRunning, TypeOK, SeenMatches
<1>11. CASE BringUp
  BY <1>11 DEF BringUp, TypeOK
<1>12. CASE FailToBringUp
  BY <1>12 DEF FailToBringUp
<1>13. CASE ReplaceUnhealthy
  BY <1>13 DEF ReplaceUnhealthy
<1>14. CASE ObserveRunning
  BY <1>14 DEF ObserveRunning
<1>15. CASE EndPass
  BY <1>15 DEF EndPass
<1>16. CASE UNCHANGED vars
  BY <1>16 DEF vars
<1>. QED
  BY <1>1, <1>2, <1>3, <1>4, <1>5, <1>6, <1>7, <1>8, <1>9, <1>10, <1>11, <1>12, <1>13, <1>14, <1>15, <1>16
  DEF Next, Operator, World, PassStep

LEMMA GateStep == MeshInv /\ [Next]_vars => GatePassed'
<1>. SUFFICES ASSUME MeshInv, TypeOK', [Next]_vars PROVE GatePassed'
  BY MeshType DEF MeshInv
<1>. USE PortsDiffer DEF MeshInv, world, table, state, pass, history, GatePassed
<1>1. ASSUME NEW i \in Instances, Apply(i) \/ Delete(i) \/ BackoffElapses(i)
      PROVE  GatePassed'
  BY <1>1 DEF TypeOK, Apply, Delete, BackoffElapses, DepsSeen, Held
<1>2. ASSUME NEW i \in Instances, VMExits(i)
      PROVE  GatePassed'
  BY <1>2 DEF VMExits, DepsSeen, Held
<1>3. ASSUME NEW p \in AllPorts, ForeignTakes(p) \/ ForeignLeaves(p)
      PROVE  GatePassed'
  BY <1>3 DEF ForeignTakes, ForeignLeaves, DepsSeen, Held
<1>4. ASSUME NEW p \in Exposable, SpliceGivesUp(p)
      PROVE  GatePassed'
  BY <1>4 DEF SpliceGivesUp, DepsSeen, Held
<1>5. CASE CrashRestart
  BY <1>5 DEF CrashRestart, Held
<1>6. CASE StartPass
  BY <1>6 DEF StartPass, Held
<1>7. CASE EnsureListeners
  BY <1>7 DEF EnsureListeners, Held
<1>8. ASSUME NEW i \in Instances, HoldBack(i) \/ BackOff(i) \/ RefuseToStart(i)
      PROVE  GatePassed'
  BY <1>8 DEF HoldBack, BackOff, RefuseToStart, Conclude, Held
<1>9. ASSUME NEW i \in Instances, BeginTurn(i)
      PROVE  GatePassed'
  BY <1>9, TurnBegins DEF DepsSeen, SeenMatches, Passes, Held, Waiting, Satisfied
<1>10. CASE RemoveForRecreate
  BY <1>10 DEF RemoveForRecreate, Conclude, DepsSeen, Held
<1>11. CASE FindRunning
  BY <1>11 DEF FindRunning, Held
<1>12. CASE BringUp
  BY <1>12 DEF BringUp, Held
<1>13. CASE FailToBringUp
  BY <1>13 DEF FailToBringUp, Conclude, Held
<1>14. CASE ReplaceUnhealthy
  BY <1>14 DEF ReplaceUnhealthy, Held
<1>15. CASE ObserveRunning
  BY <1>15 DEF ObserveRunning, Held
<1>16. CASE EndPass
  BY <1>16 DEF EndPass, Held
<1>17. CASE UNCHANGED vars
  BY <1>17 DEF vars, DepsSeen, Held
<1>. QED
  BY <1>1, <1>2, <1>3, <1>4, <1>5, <1>6, <1>7, <1>8, <1>9, <1>10, <1>11, <1>12, <1>13, <1>14, <1>15, <1>16, <1>17
  DEF Next, Operator, World, PassStep

\* A port the system hands out is one nobody remembers and nobody listens on.
LEMMA HandedOutFacts ==
    ASSUME ~Reuses, NEW i \in Instances, NEW h \in BindingFor(i), bind[i] # h, h # NoPort
    PROVE  /\ \A j \in Instances : bind[j] # h /\ h \notin PublishedBy(j)
           /\ \A p \in Exposable : h \notin backends[p]
<1>1. HandedOut(h)
  BY DEF BindingFor
<1>. QED  BY <1>1 DEF HandedOut, Remembered, Listening

\* Nothing new remembers a port: what bindings, backends and VMs name they named.
LEMMA PortsForgotten ==
    ASSUME PortsInv,
           \A i \in Instances : bind'[i] \in {bind[i], NoPort},
           \A p \in Exposable : backends'[p] \subseteq backends[p],
           \A i \in Instances : PublishedBy(i)' \subseteq PublishedBy(i),
           NoPort \notin Ephemeral, TypeOK
    PROVE  PortsInv'
<1>1. /\ \A i \in Instances : NoPort \notin PublishedBy(i)
      /\ \A p \in Exposable : NoPort \notin backends[p]
  BY DEF PublishedBy, TypeOK
<1>2. ServesOne'
  <2>. SUFFICES ASSUME NEW i \in Instances
                PROVE  /\ \A j \in Instances : bind'[i] = bind'[j] /\ bind'[i] # NoPort
                                                => PortOf(i) = PortOf(j)
                       /\ \A j \in Instances : bind'[j] \in PublishedBy(i)'
                                                => PortOf(i) = PortOf(j)
                       /\ \A p \in Exposable : bind'[i] \in backends'[p] => PortOf(i) = p
    BY DEF ServesOne
  <2>1. ASSUME NEW j \in Instances, bind'[i] = bind'[j], bind'[i] # NoPort
        PROVE  PortOf(i) = PortOf(j)
    <3>1. bind'[i] = bind[i] /\ bind'[j] = bind[j]
      BY <2>1
    <3>. QED  BY <2>1, <3>1 DEF PortsInv, ServesOne
  <2>2. ASSUME NEW j \in Instances, bind'[j] \in PublishedBy(i)'
        PROVE  PortOf(i) = PortOf(j)
    <3>1. bind'[j] \in PublishedBy(i)
      BY <2>2
    <3>2. bind'[j] = bind[j]
      BY <1>1, <3>1
    <3>. QED  BY <3>1, <3>2 DEF PortsInv, ServesOne
  <2>3. ASSUME NEW p \in Exposable, bind'[i] \in backends'[p]
        PROVE  PortOf(i) = p
    <3>1. bind'[i] \in backends[p]
      BY <2>3
    <3>2. bind'[i] = bind[i]
      BY <1>1, <3>1
    <3>. QED  BY <3>1, <3>2 DEF PortsInv, ServesOne
  <2>. QED  BY <2>1, <2>2, <2>3
<1>3. BackendsDisjoint'
  BY DEF PortsInv, BackendsDisjoint
<1>4. RoutesToOwner'
  BY DEF PortsInv, RoutesToOwner
<1>. QED  BY <1>2, <1>3, <1>4 DEF PortsInv

\* A VM comes up with the port bound for its instance.
LEMMA PortsServed ==
    ASSUME PortsInv, UNCHANGED <<bind, backends>>, NEW c \in Instances,
           PublishedBy(c)' \subseteq {bind[c]} \ {NoPort},
           \A j \in Instances \ {c} : PublishedBy(j)' = PublishedBy(j)
    PROVE  PortsInv'
<1>1. ServesOne'
  <2>. SUFFICES ASSUME NEW i \in Instances
                PROVE  /\ \A j \in Instances : bind'[i] = bind'[j] /\ bind'[i] # NoPort
                                                => PortOf(i) = PortOf(j)
                       /\ \A j \in Instances : bind'[j] \in PublishedBy(i)'
                                                => PortOf(i) = PortOf(j)
                       /\ \A p \in Exposable : bind'[i] \in backends'[p] => PortOf(i) = p
    BY DEF ServesOne
  <2>. QED  BY DEF PortsInv, ServesOne
<1>2. BackendsDisjoint'
  BY DEF PortsInv, BackendsDisjoint
<1>3. RoutesToOwner'
  BY DEF PortsInv, ServesOne, RoutesToOwner
<1>. QED  BY <1>1, <1>2, <1>3 DEF PortsInv

LEMMA PortsStep == ~Reuses /\ MeshInv /\ PortsInv /\ [Next]_vars => PortsInv'
<1>. SUFFICES ASSUME ~Reuses, MeshInv, PortsInv, [Next]_vars PROVE PortsInv'
  OBVIOUS
<1>0. TypeOK /\ VMMatchesTurn /\ NoPort \notin Ephemeral
  BY PortsDiffer DEF MeshInv
<1>. USE DEF world, table, state, pass, history
<1>1. ASSUME NEW i \in Instances, Apply(i) \/ Delete(i) \/ BackoffElapses(i)
      PROVE  PortsInv'
  BY <1>0, <1>1, PortsForgotten DEF Apply, Delete, BackoffElapses, TypeOK, PublishedBy, Up
<1>2. ASSUME NEW i \in Instances, VMExits(i)
      PROVE  PortsInv'
  <2>1. \A j \in Instances : PublishedBy(j)' \subseteq PublishedBy(j)
    BY <1>0, <1>2, ExitVMs DEF PublishedBy
  <2>. QED  BY <1>0, <1>2, <2>1, PortsForgotten DEF VMExits
<1>3. ASSUME NEW p \in AllPorts, ForeignTakes(p) \/ ForeignLeaves(p)
      PROVE  PortsInv'
  BY <1>0, <1>3, PortsForgotten DEF ForeignTakes, ForeignLeaves, PublishedBy, Up
<1>4. ASSUME NEW p \in Exposable, SpliceGivesUp(p)
      PROVE  PortsInv'
  BY <1>0, <1>4, PortsForgotten DEF SpliceGivesUp, PublishedBy, Up
<1>5. CASE CrashRestart
  BY <1>0, <1>5, PortsForgotten DEF CrashRestart, PublishedBy, Up
<1>6. CASE StartPass
  <2>1. \A i \in Instances : PublishedBy(i)' \subseteq PublishedBy(i)
    BY <1>0, <1>6 DEF StartPass, PublishedBy, Up, NoVM
  <2>. QED  BY <1>0, <1>6, <2>1, PortsForgotten DEF StartPass
<1>7. CASE EnsureListeners \/ FindRunning \/ FailToBringUp
  BY <1>0, <1>7, PortsForgotten
  DEF EnsureListeners, FindRunning, FailToBringUp, PublishedBy, Up
<1>8. ASSUME NEW i \in Instances, HoldBack(i) \/ BackOff(i) \/ RefuseToStart(i)
      PROVE  PortsInv'
  BY <1>0, <1>8, PortsForgotten DEF HoldBack, BackOff, RefuseToStart, PublishedBy, Up
<1>9. ASSUME NEW i \in Instances, BeginTurn(i)
      PROVE  PortsInv'
  <2>1. PICK h \in BindingFor(i) :
           bind' = [bind EXCEPT ![i] = h] /\ UNCHANGED <<vms, backends>>
    BY <1>9, TurnBegins
  <2>2. \A j \in Instances : PublishedBy(j)' = PublishedBy(j)
    BY <2>1 DEF PublishedBy, Up
  <2>3. CASE h = NoPort \/ h = bind[i]
    BY <1>0, <2>1, <2>2, <2>3, PortsForgotten DEF TypeOK
  <2>4. CASE h # NoPort /\ h # bind[i]
    <3>1. /\ \A j \in Instances : bind[j] # h /\ h \notin PublishedBy(j)
          /\ \A p \in Exposable : h \notin backends[p]
      BY <2>4, HandedOutFacts
    <3>2. bind'[i] = h /\ \A j \in Instances \ {i} : bind'[j] = bind[j]
      BY <1>0, <2>1 DEF TypeOK
    <3>3. ServesOne'
      BY <2>1, <2>2, <3>1, <3>2 DEF PortsInv, ServesOne
    <3>4. BackendsDisjoint' /\ RoutesToOwner'
      BY <2>1, <2>2 DEF PortsInv, BackendsDisjoint, RoutesToOwner
    <3>. QED  BY <3>3, <3>4 DEF PortsInv
  <2>. QED  BY <2>3, <2>4
<1>10. CASE RemoveForRecreate
  <2>1. \A i \in Instances : PublishedBy(i)' \subseteq PublishedBy(i)
    BY SMTT(30), <1>0, <1>10 DEF RemoveForRecreate, TypeOK, PublishedBy, Up, NoVM
  <2>. QED  BY <1>0, <1>10, <2>1, PortsForgotten DEF RemoveForRecreate
<1>11. CASE BringUp
  <2>1. /\ cur \in Instances /\ vms'[cur].pub = want.pub
        /\ \A j \in Instances \ {cur} : vms'[j] = vms[j]
    BY <1>0, <1>11, BringUpVMs
  <2>2. want.pub = bind[cur] /\ UNCHANGED <<bind, backends, cur>>
    BY <1>0, <1>11, <2>1 DEF BringUp, TypeOK
  <2>. QED  BY <1>0, <2>1, <2>2, PortsServed DEF PublishedBy, Up
<1>12. CASE ReplaceUnhealthy
  <2>1. /\ cur \in Instances /\ vms'[cur].pub = want.pub
        /\ \A j \in Instances \ {cur} : vms'[j] = vms[j]
    BY <1>0, <1>12 DEF ReplaceUnhealthy, TypeOK, NewVM
  <2>2. want.pub = bind[cur] /\ UNCHANGED <<bind, backends, cur>>
    BY <1>0, <1>12, <2>1 DEF ReplaceUnhealthy, TypeOK
  <2>. QED  BY <1>0, <2>1, <2>2, PortsServed DEF PublishedBy, Up
<1>13. CASE ObserveRunning
  <2>1. \A j \in Instances : PublishedBy(j)' \subseteq PublishedBy(j)
    BY <1>0, <1>13, ObserveVMs DEF PublishedBy
  <2>. QED  BY <1>0, <1>13, <2>1, PortsForgotten DEF ObserveRunning
<1>14. CASE EndPass
  <2>1. \A i \in Instances : bind'[i] \in {bind[i], NoPort} /\ PublishedBy(i)' = PublishedBy(i)
    BY <1>14 DEF EndPass, PublishedBy, Up
  <2>2. \A p \in Exposable : \A h \in backends'[p] :
           h # NoPort /\ \E i \in Instances : bind[i] = h /\ PortOf(i) = p
    BY <1>0, <1>14 DEF EndPass, BackendsOf, TypeOK
  <2>3. \A i \in Instances : NoPort \notin PublishedBy(i)
    BY DEF PublishedBy
  <2>4. ServesOne'
    BY <2>1, <2>2, <2>3 DEF PortsInv, ServesOne
  <2>5. BackendsDisjoint'
    BY <2>2 DEF PortsInv, ServesOne, BackendsDisjoint
  <2>6. RoutesToOwner'
    BY <2>1, <2>2 DEF PortsInv, ServesOne, RoutesToOwner
  <2>. QED  BY <2>4, <2>5, <2>6 DEF PortsInv
<1>15. CASE UNCHANGED vars
  BY <1>0, <1>15, PortsForgotten DEF vars, PublishedBy, Up
<1>. QED
  BY <1>1, <1>2, <1>3, <1>4, <1>5, <1>6, <1>7, <1>8, <1>9, <1>10, <1>11, <1>12, <1>13,
     <1>14, <1>15
  DEF Next, Operator, World, PassStep

-----------------------------------------------------------------------------
(***************************************************************************)
(* The theorems.                                                           *)
(***************************************************************************)

LEMMA MeshInit == Init => MeshInv /\ PortsInv
<1>. SUFFICES ASSUME Init PROVE MeshInv /\ PortsInv
  OBVIOUS
<1>. USE PortsDiffer DEF Init
<1>1. TypeOK
  BY DEF TypeOK, Lives, Down, NoWant
<1>2. TurnsMatch /\ VMMatchesTurn /\ TurnsListen /\ SeenMatches /\ StartedMatches /\ GatePassed
  BY DEF TurnsMatch, VMMatchesTurn, TurnsListen, SeenMatches, StartedMatches, GatePassed, Running, Up,
         NoVM, Down
<1>3. FailClosed /\ BindingsTrue
  BY <1>1 DEF FailClosed, BindingsTrue
<1>4. PortsInv
  BY DEF PortsInv, ServesOne, BackendsDisjoint, RoutesToOwner, PublishedBy
<1>. QED  BY <1>1, <1>2, <1>3, <1>4 DEF MeshInv

LEMMA MeshInvStep == MeshInv /\ [Next]_vars => MeshInv'
<1>. SUFFICES ASSUME MeshInv, [Next]_vars PROVE MeshInv'
  OBVIOUS
<1>1. TypeOK' /\ TurnsMatch' /\ VMMatchesTurn' /\ TurnsListen'
  BY MeshType, TurnsStep, VMStep, ListenStep DEF MeshInv
<1>2. SeenMatches' /\ StartedMatches' /\ GatePassed' /\ FailClosed' /\ BindingsTrue'
  BY SeenStep, StartedStep, GateStep, ClosedStep, BindingsStep
<1>. QED  BY <1>1, <1>2 DEF MeshInv

LEMMA MeshInvHolds == Spec => []MeshInv
  BY MeshInit, MeshInvStep, PTL DEF Spec

\* A microVM the last pass confirmed has egress only to ports whose listener that
\* pass had bound itself, however splices die, other processes take ports, passes
\* fail and the server crashes (A3; network_serve.rs:179-276).
THEOREM EgressFailsClosed == Spec => []FailClosed
  BY MeshInvHolds, PTL DEF MeshInv

\* The index the backends are built from names the port the VM really publishes,
\* through reuse, recreation and health replacement (network_serve.rs:116-177).
THEOREM BindingsAreTrue == Spec => []BindingsTrue
  BY MeshInvHolds, PTL DEF MeshInv

\* As long as the system hands out no port that the table still remembers, a
\* connection accepted on an exposed port goes to a VM of the port's owner or
\* nowhere (network_serve.rs:231-276, 518-560).
THEOREM ConnectionsReachOwner == ~Reuses => (Spec => []RoutesToOwner)
<1>. SUFFICES ASSUME ~Reuses PROVE Spec => []RoutesToOwner
  OBVIOUS
<1>1. Init => MeshInv /\ PortsInv
  BY MeshInit
<1>2. MeshInv /\ PortsInv /\ [Next]_vars => (MeshInv /\ PortsInv)'
  BY MeshInvStep, PortsStep
<1>3. MeshInv /\ PortsInv => RoutesToOwner
  BY DEF PortsInv
<1>. QED  BY <1>1, <1>2, <1>3, PTL DEF Spec

\* A VM of a row comes up for the first time only after the services it waits for
\* have been up since their own rows were inserted, whatever the store remembers
\* of earlier rows, passes and processes, unless the process itself still holds
\* `started` of a deleted row of the same runtime id, which it does only until a
\* pass finds that row and its VM gone (lifecycle.rs:39-64, node/mod.rs:203-220).
THEOREM DependenciesComeFirst == Spec => DependenciesFirst
<1>1. ASSUME MeshInv, [Next]_vars, NEW i \in Instances,
             vms[i] = NoVM, vms'[i] # NoVM, ~seenUp[i], ~Inherits(i),
             NEW d \in DependsOn[ServiceOf[i]]
      PROVE  \E j \in Instances : ServiceOf[j] = d.service /\ seenUp[j]
  <2>1. TypeOK /\ SeenMatches /\ GatePassed /\ ~started[i]
    BY <1>1 DEF MeshInv, StartedMatches, Inherits
  <2>2. cur = i /\ pc \in {"ensure", "observe"}
    <3>. USE DEF world, table, state, pass, history
    <3>2. ASSUME NEW j \in Instances,
                 \/ Apply(j) \/ Delete(j) \/ BackoffElapses(j)
                 \/ HoldBack(j) \/ BackOff(j) \/ RefuseToStart(j)
          PROVE  FALSE
      BY <1>1, <3>2 DEF Apply, Delete, BackoffElapses, HoldBack, BackOff, RefuseToStart
    <3>3. ASSUME NEW j \in Instances, VMExits(j)
          PROVE  FALSE
      BY <1>1, <2>1, <3>3, ExitVMs
    <3>4. ASSUME NEW p, ForeignTakes(p) \/ ForeignLeaves(p) \/ SpliceGivesUp(p)
          PROVE  FALSE
      BY <1>1, <3>4 DEF ForeignTakes, ForeignLeaves, SpliceGivesUp
    <3>5. ASSUME \/ CrashRestart \/ EnsureListeners \/ FindRunning
                 \/ FailToBringUp \/ EndPass \/ UNCHANGED vars
          PROVE  FALSE
      BY <1>1, <3>5
      DEF CrashRestart, EnsureListeners, FindRunning, FailToBringUp, EndPass, vars
    <3>6. ASSUME StartPass \/ RemoveForRecreate
          PROVE  FALSE
      BY <1>1, <2>1, <3>6 DEF StartPass, RemoveForRecreate, TypeOK
    <3>7. ASSUME NEW j \in Instances, BeginTurn(j)
          PROVE  FALSE
      BY <1>1, <3>7, TurnBegins
    <3>8. CASE BringUp \/ ReplaceUnhealthy
      BY <1>1, <2>1, <3>8 DEF BringUp, ReplaceUnhealthy, TypeOK
    <3>9. ASSUME ObserveRunning
          PROVE  FALSE
      <4>1. ~Up(i) /\ cur \in Instances
        BY <1>1, <2>1, <3>9 DEF ObserveRunning, TypeOK, Up, NoVM
      <4>2. vms'[i] = vms[i]
        BY <2>1, <3>9, <4>1 DEF ObserveRunning, InjectHosts, TypeOK
      <4>. QED  BY <1>1, <4>2
    <3>. QED
      BY <1>1, <3>2, <3>3, <3>4, <3>5, <3>6, <3>7, <3>8, <3>9
      DEF Next, Operator, World, PassStep
  <2>3. pc = "ensure" /\ DepsSeen(i)
    BY <1>1, <2>1, <2>2 DEF SeenMatches, GatePassed
  <2>. QED  BY <2>1, <2>3 DEF DepsSeen, TypeOK
<1>2. MeshInv /\ [Next]_vars =>
        [\A i \in Instances :
          /\ vms[i] = NoVM /\ vms'[i] # NoVM /\ ~seenUp[i] /\ ~Inherits(i)
          => \A d \in DependsOn[ServiceOf[i]] :
                \E j \in Instances : ServiceOf[j] = d.service /\ seenUp[j]]_vars
  BY <1>1
<1>. QED  BY <1>2, MeshInvHolds, PTL DEF Spec, DependenciesFirst
=============================================================================
