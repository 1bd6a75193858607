------------------------- MODULE NodeReconcileProofs -------------------------
(***************************************************************************)
(* Theorems about NodeReconcile, for any slots, specs, ports and bounds,   *)
(* and, at the end, that it implements DesiredState.                       *)
(***************************************************************************)
EXTENDS NodeReconcile, TLAPS

\* "No configuration" is not one a service can ask for.
LEMMA CfgFacts == NoCfg \notin Cfgs
  BY SentinelsDiffer DEF NoCfg, Cfgs

\* The sandboxes the backend can leave behind.
LEMMA NoVMFacts ==
    /\ NoVM \in VMs /\ ~Ours(NoVM) /\ ~Running(NoVM) /\ NoVM.own = "none"
    /\ ForeignVM \in VMs /\ ~Ours(ForeignVM)
  BY DEF NoVM, ForeignVM, VMs, Ours, Running

\* A created sandbox is ours, runs, and has the configuration asked for.
LEMMA FreshFacts ==
    ASSUME NEW c \in Cfgs
    PROVE  /\ Fresh(c) \in VMs
           /\ Ours(Fresh(c)) /\ Running(Fresh(c))
           /\ Fresh(c).cfg = c
  BY DEF Fresh, VMs, Ours, Running

\* Starting, stopping or exiting changes neither holder nor configuration.
LEMMA SamePhaseFacts ==
    ASSUME NEW v \in VMs, NEW w \in {Halted(v), Started(v)}
    PROVE  /\ w \in VMs
           /\ w.cfg = v.cfg
           /\ w.own = v.own
           /\ w = Halted(v) => ~Running(w)
<1>1. ASSUME NEW p \in {"none", "running", "stopped", "failed"}
      PROVE  LET u == [v EXCEPT !.phase = p]
             IN  u \in VMs /\ u.cfg = v.cfg /\ u.own = v.own /\ u.phase = p
  BY DEF VMs
<1>. QED  BY <1>1 DEF Halted, Started, Running

\* What ensure_removed leaves behind (msb_sdk.rs:447-485).
LEMMA RemoveFacts ==
    ASSUME NEW v \in VMs, NEW r \in RemoveResults(v)
    PROVE  /\ r.vm \in VMs
           /\ r.outcome \in {"Ok", "Err"}
           /\ r.outcome = "Ok" /\ ~GetFails => ~Ours(r.vm)
           /\ Ours(r.vm) => Ours(v) /\ r.vm.cfg = v.cfg
           /\ Running(r.vm) => Running(v)
           /\ ~Ours(v) => r.vm = v
<1>1. CASE r = Result(NoVM, "Ok", FALSE) /\ Ours(v)
  BY <1>1, NoVMFacts DEF Result, Ours, Running
<1>2. CASE r \in {Result(v, "Err", TRUE), Result(Halted(v), "Err", TRUE)} /\ Ours(v)
  <2>1. r.vm \in {v, Halted(v)} /\ r.outcome = "Err" /\ (r.vm = v \/ Ours(v))
    BY <1>2 DEF Result
  <2>. QED  BY <2>1, SamePhaseFacts DEF Ours, Running
<1>3. CASE r = Result(v, "Ok", TRUE) /\ GetFails /\ Ours(v)
  BY <1>3 DEF Result, Ours
<1>4. CASE r = Result(v, "Ok", FALSE) /\ ~Ours(v)
  BY <1>4 DEF Result, Ours, Running
<1>. QED  BY <1>1, <1>2, <1>3, <1>4 DEF RemoveResults

\* What ensure_running leaves behind (msb_sdk.rs:346-445).
LEMMA EnsureFacts ==
    ASSUME NEW v \in VMs, NEW c \in Cfgs, NEW never \in BOOLEAN,
           NEW r \in EnsureResults(v, c, never)
    PROVE  /\ r.vm \in VMs
           /\ r.outcome \in {"Err", "Created", "AlreadyRunning", "Left", "Restarted"}
           /\ Ours(r.vm) => \/ r.vm.cfg = c
                            \/ Ours(v) /\ r.vm.cfg = v.cfg
           /\ r.outcome = "Err" => r.vm = v \/ r.vm = NoVM
           /\ v.own = "foreign" => r.vm = v
<1>1. CASE r.vm = v
  <2>1. r.outcome \in {"Err", "Created", "AlreadyRunning", "Left", "Restarted"}
    BY DEF Result, EnsureResults, FailedLookup, DownResults
  <2>. QED  BY <1>1, <2>1 DEF Ours
<1>2. CASE r.vm # v
  <2>1. /\ v.own # "foreign"
        /\ \/ r = Result(Fresh(c), "Created", FALSE)
           \/ r = Result(Fresh(c), "Restarted", TRUE)
           \/ r = Result(Fresh(c), "Restarted", FALSE)
           \/ r = Result(Started(v), "Restarted", FALSE) /\ Ours(v)
           \/ r = Result(NoVM, "Err", TRUE)
    BY <1>2 DEF Result, EnsureResults, FailedLookup, DownResults, VMs, Ours
  <2>2. CASE r.vm = Fresh(c) /\ r.outcome # "Err"
    BY <2>1, <2>2, FreshFacts DEF Result
  <2>3. CASE r = Result(Started(v), "Restarted", FALSE) /\ Ours(v)
    BY <2>1, <2>3, SamePhaseFacts DEF Result, Ours
  <2>4. CASE r = Result(NoVM, "Err", TRUE)
    BY <2>1, <2>4, NoVMFacts DEF Result
  <2>. QED  BY <2>1, <2>2, <2>3, <2>4 DEF Result
<1>. QED  BY <1>1, <1>2

-----------------------------------------------------------------------------
\* Every variable keeps its type, and a pass has a current instance exactly
\* while it is inside that instance's turn.
THEOREM TypeCorrect == Spec => []TypeOK
<1>1. Init => TypeOK
  <2> SUFFICES ASSUME Init PROVE TypeOK  OBVIOUS
  <2>1. rows \in [Slots -> Rows \cup {NoRow}] /\ resolvable \in [Slots -> BOOLEAN]
    BY DEF Init
  <2>2. vms \in [Slots -> VMs] /\ hash \in [Slots -> Cfgs \cup {NoCfg}]
    BY NoVMFacts DEF Init
  <2>3. backoff \in [Slots -> BOOLEAN] /\ binding \in [Slots -> Bindings \cup {NoBinding}]
    BY DEF Init
  <2>4. snap \in [Slots -> Snaps \cup {Absent}]
    BY DEF Init
  <2>5. /\ applying \in BOOLEAN /\ seeded \in BOOLEAN /\ faults \in Nat
        /\ owned = {} /\ stale = {} /\ todo = {} /\ pc = "idle" /\ cur = NoSlot
        /\ want = NoCfg
    BY DEF Init
  <2>. QED  BY <2>1, <2>2, <2>3, <2>4, <2>5 DEF TypeOK, Working
<1>2. TypeOK /\ [Next]_vars => TypeOK'
  <2> SUFFICES ASSUME TypeOK, [Next]_vars PROVE TypeOK'  OBVIOUS
  <2> USE DEF TypeOK
  <2>1. ASSUME NEW s \in Slots, NEW x \in Specs, Apply(s, x) PROVE TypeOK'
    <3>1. rows' \in [Slots -> Rows \cup {NoRow}]
      <4>1. CASE HasRow(s) /\ rows' = [rows EXCEPT ![s].spec = x]
        <5>1. rows[s] \in Rows  BY <4>1 DEF HasRow, NoRow
        <5>2. [rows[s] EXCEPT !.spec = x] \in Rows  BY <5>1 DEF Rows
        <5>. QED  BY <4>1, <5>2
      <4>2. ASSUME NEW i \in FreshIds(s),
                   rows' = [rows EXCEPT ![s] = [id |-> i, spec |-> x, bound |-> FALSE,
                                                applied |-> NoCfg]]
            PROVE  rows' \in [Slots -> Rows \cup {NoRow}]
        BY <4>2 DEF FreshIds, Rows
      <4>. QED  BY <2>1, <4>1, <4>2 DEF Apply
    <3>. QED  BY <2>1, <3>1 DEF Apply, memory, pass
  <2>2. CASE Schedule
    <3>1. ASSUME NEW s \in Slots, HasRow(s)
          PROVE  [rows[s] EXCEPT !.bound = TRUE] \in Rows
      <4>1. rows[s] \in Rows  BY <3>1 DEF HasRow, NoRow
      <4>. QED  BY <4>1 DEF Rows
    <3>. QED  BY <2>2, <3>1 DEF Schedule, memory, pass
  <2>3. ASSUME NEW s \in Slots, Delete(s) PROVE TypeOK'
    BY <2>3 DEF Delete, memory, pass
  <2>4. ASSUME NEW s \in Slots, FlipSecret(s) PROVE TypeOK'
    BY <2>4 DEF FlipSecret, memory, pass
  <2>5. ASSUME NEW s \in Slots, VMExits(s) PROVE TypeOK'
    <3>1. ASSUME NEW p \in {"stopped", "failed"}
          PROVE  [vms[s] EXCEPT !.phase = p] \in VMs
      BY DEF VMs
    <3>. QED  BY <2>5, <3>1, Switches DEF VMExits, Fault, store, memory, pass
  <2>6. ASSUME NEW s \in Slots, ForeignTakes(s) PROVE TypeOK'
    BY <2>6, NoVMFacts DEF ForeignTakes, store, memory, pass
  <2>7. ASSUME NEW s \in Slots, ForeignLeaves(s) PROVE TypeOK'
    BY <2>7, NoVMFacts DEF ForeignLeaves, store, memory, pass
  <2>8. ASSUME NEW s \in Slots, BackoffElapses(s) PROVE TypeOK'
    BY <2>8 DEF BackoffElapses, store, pass
  <2>9. CASE CrashRestart
    <3>1. /\ hash' \in [Slots -> Cfgs \cup {NoCfg}]
          /\ backoff' \in [Slots -> BOOLEAN]
          /\ binding' \in [Slots -> Bindings \cup {NoBinding}]
          /\ snap' \in [Slots -> Snaps \cup {Absent}]
      BY <2>9 DEF CrashRestart
    <3>2. /\ applying' \in BOOLEAN /\ seeded' \in BOOLEAN
          /\ owned' = {} /\ stale' = {} /\ todo' = {} /\ pc' = "idle" /\ cur' = NoSlot
          /\ want' = NoCfg
          /\ UNCHANGED <<rows, resolvable, vms>>
      BY <2>9, Zenon DEF CrashRestart
    <3>3. faults' \in Nat
      <4>1. faults' = faults + 1  BY <2>9, Zenon DEF CrashRestart, Fault
      <4>. QED  BY <4>1
    <3>. QED  BY <3>1, <3>2, <3>3 DEF Working
  <2>10. CASE StartPass
    BY <2>10 DEF StartPass, store, Working
  <2>11. CASE BuildDesiredSet
    <3>1. ASSUME NEW s \in Slots PROVE Observe(s) \in Snaps \cup {Absent}
      <4>1. CASE rows[s].bound
        <5>1. rows[s] \in Rows  BY <4>1 DEF NoRow
        <5>. QED  BY <4>1, <5>1 DEF Observe, Rows, Snaps
      <4>. QED  BY <4>1 DEF Observe
    <3>. QED  BY <2>11, <3>1 DEF BuildDesiredSet, StaleOwned, store, memory, Working
  <2>12. ASSUME NEW s \in Slots, CollectOrphan(s) PROVE TypeOK'
    <3>1. PICK r \in RemoveResults(vms[s]) :
             /\ Spend(r)
             /\ vms' = [vms EXCEPT ![s] = r.vm]
             /\ \/ /\ owned' = owned \ {s}
                   /\ hash' = [hash EXCEPT ![s] = NoCfg]
                   /\ backoff' = [backoff EXCEPT ![s] = FALSE]
                \/ UNCHANGED <<owned, hash, backoff>>
      BY <2>12 DEF CollectOrphan
    <3>2. r.vm \in VMs  BY RemoveFacts
    <3>3. faults' \in Nat  BY <3>1, Switches DEF Spend, Fault
    <3>4. /\ vms' \in [Slots -> VMs]
          /\ owned' \in SUBSET Slots
          /\ hash' \in [Slots -> Cfgs \cup {NoCfg}]
          /\ backoff' \in [Slots -> BOOLEAN]
      BY <3>1, <3>2
    <3>5. /\ stale' \in SUBSET Slots
          /\ UNCHANGED <<rows, applying, resolvable, seeded, binding, pc, snap, todo, cur, want>>
      BY <2>12 DEF CollectOrphan, store
    <3>. QED  BY <3>3, <3>4, <3>5
  <2>13. CASE FinishGC
    BY <2>13, Switches DEF FinishGC, Kept, Fault, Snaps, Absent, store, Working
  <2>14. ASSUME NEW s \in Slots, HoldInstance(s) PROVE TypeOK'
    BY <2>14 DEF HoldInstance, store, memory, Working
  <2>15. ASSUME NEW s \in Slots, PrepareInstance(s) PROVE TypeOK'
    <3>1. PICK b \in BindingFor(s) :
             /\ binding' = [binding EXCEPT ![s] = b]
             /\ \/ /\ cur' = s
                   /\ want' = [spec |-> snap[s].spec, port |-> b.port]
                   /\ pc' \in {"remove", "ensure"}
                   /\ UNCHANGED todo
                   /\ Fault \/ UNCHANGED faults
                \/ /\ Fault
                   /\ todo' = todo \ {s}
                   /\ UNCHANGED <<cur, want, pc>>
      BY <2>15 DEF PrepareInstance
    <3>2. pc = "next" /\ s \in todo /\ cur = NoSlot
          /\ UNCHANGED <<rows, applying, resolvable, vms, owned, seeded, hash, backoff,
                         snap, stale>>
      BY <2>15 DEF PrepareInstance, store, Working
    <3>3. snap[s] \in Snaps /\ snap[s].spec \in Specs /\ snap[s].id \in Ids
      BY <3>2 DEF Snaps, Absent
    <3>4. b \in Bindings \cup {NoBinding} /\ b.port \in Ports \cup {NoPort}
      BY <3>3 DEF BindingFor, FreePorts, Bindings, NoBinding
    <3>5. binding' \in [Slots -> Bindings \cup {NoBinding}]
      BY <3>1, <3>4
    <3>6. [spec |-> snap[s].spec, port |-> b.port] \in Cfgs
      BY <3>3, <3>4 DEF Cfgs
    <3>7. faults' \in Nat  BY <3>1, Switches DEF Fault
    <3>8. CASE cur' = s /\ want' \in Cfgs /\ pc' \in {"remove", "ensure"} /\ todo' = todo
      BY <3>2, <3>5, <3>7, <3>8, Sentinels DEF Working
    <3>9. CASE todo' = todo \ {s} /\ UNCHANGED <<cur, want, pc>>
      BY <3>2, <3>5, <3>7, <3>9 DEF Working
    <3>. QED  BY <3>1, <3>6, <3>8, <3>9
  <2>16. CASE RemoveForRecreate
    <3>1. cur \in Slots  BY <2>16, Sentinels DEF RemoveForRecreate, Working
    <3>2. PICK r \in RemoveResults(vms[cur]) :
             /\ Spend(r)
             /\ vms' = [vms EXCEPT ![cur] = r.vm]
             /\ \/ /\ owned' = owned \ {cur}
                   /\ hash' = [hash EXCEPT ![cur] = NoCfg]
                   /\ pc' = "ensure"
                   /\ UNCHANGED <<todo, cur, want>>
                \/ LeaveInstance /\ UNCHANGED <<owned, hash>>
      BY <2>16 DEF RemoveForRecreate
    <3>3. r.vm \in VMs  BY <3>1, RemoveFacts
    <3>. QED  BY <2>16, <3>1, <3>2, <3>3, Switches
              DEF RemoveForRecreate, LeaveInstance, Spend, Fault, store, Working
  <2>17. CASE EnsureInstance
    <3>1. cur \in Slots  BY <2>17, Sentinels DEF EnsureInstance, Working
    <3>2. PICK r \in EnsureResults(vms[cur], want, cur \in NoRestart) :
             /\ Spend(r)
             /\ vms' = [vms EXCEPT ![cur] = r.vm]
             /\ \/ /\ owned' = owned \cup {cur}
                   /\ hash' = [hash EXCEPT ![cur] = want]
                   /\ backoff' = [backoff EXCEPT ![cur] =
                                    r.outcome = "Restarted" /\ cur \notin NoRestart]
                   /\ pc' = "persist"
                   /\ UNCHANGED <<todo, cur, want>>
                \/ /\ backoff' = [backoff EXCEPT ![cur] = cur \notin NoRestart]
                   /\ LeaveInstance
                   /\ UNCHANGED <<owned, hash>>
      BY <2>17 DEF EnsureInstance
    <3>3. want \in Cfgs  BY <2>17 DEF EnsureInstance, Working
    <3>4. r.vm \in VMs
      <4>1. (cur \in NoRestart) \in BOOLEAN  OBVIOUS
      <4>2. vms[cur] \in VMs  BY <3>1
      <4>. QED  BY <4>1, <4>2, <3>3, EnsureFacts
    <3>5. /\ vms' \in [Slots -> VMs]
          /\ owned' \in SUBSET Slots
          /\ hash' \in [Slots -> Cfgs \cup {NoCfg}]
      BY <3>1, <3>2, <3>3, <3>4
    <3>6. backoff' \in [Slots -> BOOLEAN]
      BY <3>1, <3>2
    <3>7. faults' \in Nat  BY <3>2, Switches DEF Spend, Fault
    <3>8. /\ todo' \in SUBSET todo
          /\ \/ pc' = "persist" /\ UNCHANGED <<todo, cur, want>>
             \/ pc' = "next" /\ cur' = NoSlot /\ want' = NoCfg
      BY <3>2 DEF LeaveInstance
    <3>9. UNCHANGED <<rows, applying, resolvable, seeded, binding, snap, stale>>
      BY <2>17 DEF EnsureInstance, store
    <3>10. pc = "ensure"  BY <2>17 DEF EnsureInstance
    <3>. QED  BY <3>5, <3>6, <3>7, <3>8, <3>9, <3>10 DEF Working
  <2>18. CASE PersistHash
    <3>1. cur \in Slots  BY <2>18, Sentinels DEF PersistHash, Working
    <3>2. ASSUME rows[cur].id = snap[cur].id
          PROVE  [rows[cur] EXCEPT !.applied = want] \in Rows
      <4>1. rows[cur] \in Rows
        BY <2>18, <3>1, <3>2, Sentinels DEF PersistHash, Working, NoRow, Snaps, Absent
      <4>. QED  BY <4>1 DEF Rows
    <3>. QED  BY <2>18, <3>1, <3>2, Switches DEF PersistHash, Fault, memory, Working
  <2>19. CASE PassHealth
    BY <2>19 DEF PassHealth, LeaveInstance, store, memory, Working
  <2>20. CASE FailHealth
    <3>1. cur \in Slots  BY <2>20, Sentinels DEF FailHealth, Working
    <3>2. PICK r \in RemoveResults(vms[cur]) : vms' = [vms EXCEPT ![cur] = r.vm]
      BY <2>20 DEF FailHealth
    <3>3. r.vm \in VMs  BY <3>1, RemoveFacts
    <3>. QED  BY <2>20, <3>1, <3>2, <3>3, Switches DEF FailHealth, Fault, store, Working
  <2>21. CASE ReviveUnhealthy
    <3>1. cur \in Slots  BY <2>21, Sentinels DEF ReviveUnhealthy, Working
    <3>2. PICK r \in EnsureResults(vms[cur], want, FALSE) :
             Spend(r) /\ vms' = [vms EXCEPT ![cur] = r.vm]
      BY <2>21 DEF ReviveUnhealthy
    <3>3. want \in Cfgs  BY <2>21 DEF ReviveUnhealthy, Working
    <3>4. r.vm \in VMs  BY <3>1, <3>3, EnsureFacts
    <3>. QED  BY <2>21, <3>1, <3>2, <3>4, Switches
              DEF ReviveUnhealthy, LeaveInstance, Spend, Fault, store, memory, Working
  <2>22. CASE EndPass
    BY <2>22 DEF EndPass, store, Working
  <2>23. CASE UNCHANGED vars
    BY <2>23 DEF vars, store, memory, pass
  <2>. QED
    BY <2>1, <2>2, <2>3, <2>4, <2>5, <2>6, <2>7, <2>8, <2>9, <2>10, <2>11, <2>12, <2>13,
       <2>14, <2>15, <2>16, <2>17, <2>18, <2>19, <2>20, <2>21, <2>22, <2>23
       DEF Next, Operator, World, PassStep
<1>. QED  BY <1>1, <1>2, PTL DEF Spec

\* A sandbox that exits is still the sandbox it was.
LEMMA ExitFacts ==
    ASSUME NEW v \in VMs, NEW p \in {"stopped", "failed"}
    PROVE  /\ [v EXCEPT !.phase = p].cfg = v.cfg
           /\ Ours([v EXCEPT !.phase = p]) <=> Ours(v)
  BY DEF VMs, Ours

-----------------------------------------------------------------------------
\* OwnershipComplete needs to know that a pass runs only after ownership was
\* recovered, and that a created sandbox is owned for the rest of its turn.
OInv ==
    /\ OwnershipComplete
    /\ pc # "idle" => seeded
    /\ pc \in {"persist", "health", "revive"} => cur \in owned

\* Provided looking a sandbox up never fails: every sandbox of this install is
\* owned in every reachable state, crashes and torn writes included.
THEOREM OwnershipIsComplete ==
    ASSUME ~GetFails
    PROVE  Spec => []OwnershipComplete
<1>1. Init => OInv
  BY DEF Init, OInv, OwnershipComplete
<1>2. TypeOK /\ OInv /\ [Next]_vars => OInv'
  <2> SUFFICES ASSUME TypeOK, OInv, [Next]_vars PROVE OInv'  OBVIOUS
  <2>0. /\ vms \in [Slots -> VMs] /\ owned \subseteq Slots
        /\ pc \in Working => cur \in Slots /\ want \in Cfgs
    BY DEF TypeOK
  <2> USE DEF OInv, OwnershipComplete
  <2>1. CASE UNCHANGED <<vms, owned, seeded, pc, cur>>
    BY <2>1
  <2>2. ASSUME NEW s \in Slots, VMExits(s) PROVE OInv'
    <3>1. PICK p \in {"stopped", "failed"} : vms' = [vms EXCEPT ![s].phase = p]
      BY <2>2 DEF VMExits
    <3>2. vms' = [vms EXCEPT ![s] = [vms[s] EXCEPT !.phase = p]]  BY <3>1
    <3>3. Ours([vms[s] EXCEPT !.phase = p]) => Ours(vms[s])  BY <2>0, ExitFacts
    <3>4. UNCHANGED <<owned, seeded, pc, cur>>  BY <2>2 DEF VMExits, memory, pass
    <3>. QED  BY <2>0, <3>2, <3>3, <3>4
  <2>3. ASSUME NEW s \in Slots, ForeignTakes(s) \/ ForeignLeaves(s) PROVE OInv'
    BY <2>0, <2>3, NoVMFacts DEF ForeignTakes, ForeignLeaves, memory, pass
  <2>4. CASE CrashRestart
    BY <2>4 DEF CrashRestart
  <2>5. CASE StartPass
    BY <2>5 DEF StartPass, store
  <2>6. CASE BuildDesiredSet
    BY <2>6 DEF BuildDesiredSet, store, memory
  <2>7. ASSUME NEW s \in Slots, CollectOrphan(s) PROVE OInv'
    <3>1. PICK r \in RemoveResults(vms[s]) :
             /\ vms' = [vms EXCEPT ![s] = r.vm]
             /\ \/ r.outcome = "Ok" /\ owned' = owned \ {s}
                \/ UNCHANGED owned
      BY <2>7 DEF CollectOrphan
    <3>2. /\ r.outcome = "Ok" => ~Ours(r.vm)
          /\ Ours(r.vm) => Ours(vms[s])
      BY <2>0, RemoveFacts
    <3>3. pc = "gc" /\ UNCHANGED <<seeded, pc, cur>>  BY <2>7 DEF CollectOrphan
    <3>. QED  BY <2>0, <3>1, <3>2, <3>3
  <2>8. CASE FinishGC
    BY <2>8 DEF FinishGC, store
  <2>9. ASSUME NEW s \in Slots, PrepareInstance(s) PROVE OInv'
    <3>1. /\ pc = "next" /\ pc' \in {"next", "remove", "ensure"}
          /\ UNCHANGED <<vms, owned, seeded>>
      BY <2>9 DEF PrepareInstance, store
    <3>. QED  BY <3>1
  <2>10. CASE RemoveForRecreate
    <3>1. pc = "remove" /\ cur \in Slots /\ seeded' = seeded
      BY <2>0, <2>10 DEF RemoveForRecreate, Working
    <3>2. PICK r \in RemoveResults(vms[cur]) :
             /\ vms' = [vms EXCEPT ![cur] = r.vm]
             /\ \/ r.outcome = "Ok" /\ owned' = owned \ {cur} /\ pc' = "ensure"
                \/ UNCHANGED owned /\ pc' = "next"
      BY <2>10 DEF RemoveForRecreate, LeaveInstance
    <3>3. /\ r.outcome = "Ok" => ~Ours(r.vm)
          /\ Ours(r.vm) => Ours(vms[cur])
      BY <2>0, <3>1, RemoveFacts
    <3>. QED  BY <2>0, <3>1, <3>2, <3>3
  <2>11. CASE EnsureInstance
    <3>1. pc = "ensure" /\ cur \in Slots /\ want \in Cfgs /\ seeded' = seeded
      BY <2>0, <2>11 DEF EnsureInstance, Working
    <3>2. PICK r \in EnsureResults(vms[cur], want, cur \in NoRestart) :
             /\ vms' = [vms EXCEPT ![cur] = r.vm]
             /\ \/ owned' = owned \cup {cur} /\ pc' = "persist" /\ cur' = cur
                \/ r.outcome = "Err" /\ UNCHANGED owned /\ pc' = "next"
      BY <2>11 DEF EnsureInstance, LeaveInstance
    <3>3. r.outcome = "Err" => r.vm = vms[cur] \/ r.vm = NoVM
      <4>1. (cur \in NoRestart) \in BOOLEAN /\ vms[cur] \in VMs  BY <2>0, <3>1
      <4>. QED  BY <3>1, <4>1, EnsureFacts
    <3>. QED  BY <2>0, <3>1, <3>2, <3>3, NoVMFacts
  <2>12. CASE PersistHash
    BY <2>12 DEF PersistHash, memory
  <2>13. CASE PassHealth
    BY <2>13 DEF PassHealth, LeaveInstance, memory
  <2>14. CASE FailHealth
    <3>1. pc = "health" /\ cur \in Slots /\ UNCHANGED <<owned, seeded, cur>> /\ pc' = "revive"
      BY <2>0, <2>14 DEF FailHealth, Working
    <3>2. PICK r \in RemoveResults(vms[cur]) : vms' = [vms EXCEPT ![cur] = r.vm]
      BY <2>14 DEF FailHealth
    <3>3. Ours(r.vm) => Ours(vms[cur])  BY <2>0, <3>1, RemoveFacts
    <3>. QED  BY <2>0, <3>1, <3>2, <3>3
  <2>15. CASE ReviveUnhealthy
    <3>1. /\ pc = "revive" /\ cur \in Slots /\ UNCHANGED <<owned, seeded>> /\ pc' = "next"
          /\ \E r \in EnsureResults(vms[cur], want, FALSE) : vms' = [vms EXCEPT ![cur] = r.vm]
      BY <2>0, <2>15 DEF ReviveUnhealthy, LeaveInstance, memory, Working
    <3>. QED  BY <2>0, <3>1
  <2>16. CASE EndPass
    BY <2>16 DEF EndPass, store
  <2>17. CASE \/ \E s \in Slots : \/ \E x \in Specs : Apply(s, x)
                                  \/ Delete(s) \/ FlipSecret(s)
                                  \/ BackoffElapses(s) \/ HoldInstance(s)
              \/ Schedule \/ UNCHANGED vars
    <3>1. UNCHANGED <<vms, owned, seeded, pc, cur>>
      BY <2>17 DEF Apply, Delete, FlipSecret, BackoffElapses, HoldInstance, Schedule,
                   vars, store, memory, pass
    <3>. QED  BY <2>1, <3>1
  <2>. QED
    BY <2>2, <2>3, <2>4, <2>5, <2>6, <2>7, <2>8, <2>9, <2>10, <2>11, <2>12, <2>13,
       <2>14, <2>15, <2>16, <2>17
       DEF Next, Operator, World, PassStep
<1>3. OInv => OwnershipComplete
  BY DEF OInv
<1>. QED  BY <1>1, <1>2, <1>3, TypeCorrect, PTL DEF Spec

-----------------------------------------------------------------------------
\* What the process, the store and the backend agree on: IInv beyond the two
\* invariants above.
HInv ==
    /\ HashTruthful
    /\ AppliedTruthful
    /\ NewRowsBlank
    /\ TurnConsistent

\* A call that changes only the sandbox of one slot, to one of the same
\* configuration or to one that is not ours.
LEMMA SameCfgKeepsHInv ==
    ASSUME TypeOK, HInv, NEW s \in Slots, NEW w,
           vms' = [vms EXCEPT ![s] = w],
           Ours(w) => Ours(vms[s]) /\ w.cfg = vms[s].cfg,
           UNCHANGED <<rows, snap, seeded, owned, hash, pc, cur, want>>
    PROVE  HInv'
<1>0. vms \in [Slots -> VMs] /\ (pc \in Working => cur \in Slots)
  BY DEF TypeOK
<1>1. \A t \in Slots : Ours(vms'[t]) => Ours(vms[t]) /\ vms'[t].cfg = vms[t].cfg
  BY <1>0
<1>2. HashTruthful'  BY <1>1 DEF HInv, HashTruthful
<1>3. AppliedTruthful'  BY <1>1 DEF HInv, AppliedTruthful
<1>4. NewRowsBlank'  BY DEF HInv, NewRowsBlank
<1>5. TurnConsistent'  BY <1>0, <1>1 DEF HInv, TurnConsistent, Working
<1>. QED  BY <1>2, <1>3, <1>4, <1>5 DEF HInv

\* The store, the process and the backend agree throughout: in particular the
\* in-memory hash is the configuration the sandbox runs.
THEOREM HashIsTruthful ==
    ASSUME ~GetFails, ~TornWrites
    PROVE  Spec => []IInv /\ []HashTruthful
<1>1. Init => HInv
  <2> SUFFICES ASSUME Init PROVE HInv  OBVIOUS
  <2>1. /\ pc = "idle"
        /\ \A s \in Slots : ~Ours(vms[s]) /\ snap[s] = Absent
    BY NoVMFacts DEF Init
  <2>. QED
    BY <2>1 DEF HInv, HashTruthful, AppliedTruthful, NewRowsBlank, TurnConsistent,
                Working, Absent
<1>2. TypeOK /\ TypeOK' /\ OwnershipComplete /\ HInv /\ [Next]_vars => HInv'
  <2> SUFFICES ASSUME TypeOK, TypeOK', OwnershipComplete, HInv, [Next]_vars
               PROVE  HInv'
    OBVIOUS
  <2> DEFINE All == <<rows, snap, vms, seeded, owned, hash, pc, cur, want>>
  <2>0. /\ vms \in [Slots -> VMs] /\ hash \in [Slots -> Cfgs \cup {NoCfg}]
        /\ rows \in [Slots -> Rows \cup {NoRow}] /\ snap \in [Slots -> Snaps \cup {Absent}]
        /\ pc \in Working => /\ cur \in Slots /\ want \in Cfgs
                             /\ snap[cur].kind = "desired"
    BY DEF TypeOK
  <2>a. ASSUME UNCHANGED All PROVE HInv'
    BY <2>a DEF HInv, HashTruthful, AppliedTruthful, NewRowsBlank, TurnConsistent
  <2> USE DEF HInv, HashTruthful, AppliedTruthful, NewRowsBlank, TurnConsistent
  <2>1. ASSUME NEW s \in Slots, NEW x \in Specs, Apply(s, x) PROVE HInv'
    <3>1. UNCHANGED <<snap, vms, seeded, owned, hash, pc, cur, want>>
      BY <2>1 DEF Apply, memory, pass
    <3>2. PICK w : /\ rows' = [rows EXCEPT ![s] = w]
                   /\ \/ w.id = rows[s].id /\ w.applied = rows[s].applied
                      \/ w.id # snap[s].id /\ w.applied = NoCfg
      <4>1. CASE HasRow(s) /\ rows' = [rows EXCEPT ![s].spec = x]
        <5>1. rows[s] \in Rows  BY <2>0, <4>1 DEF HasRow, NoRow
        <5>2. LET w == [rows[s] EXCEPT !.spec = x]
              IN  w.id = rows[s].id /\ w.applied = rows[s].applied
          BY <5>1 DEF Rows
        <5>. QED  BY <4>1, <5>2
      <4>2. CASE \E i \in FreshIds(s) :
                    rows' = [rows EXCEPT ![s] = [id |-> i, spec |-> x, bound |-> FALSE,
                                                 applied |-> NoCfg]]
        BY <4>2 DEF FreshIds
      <4>. QED  BY <2>1, <4>1, <4>2 DEF Apply
    <3>. QED  BY <2>0, <3>1, <3>2 DEF Working
  <2>2. CASE Schedule
    <3>1. UNCHANGED <<snap, vms, seeded, owned, hash, pc, cur, want>>
      BY <2>2 DEF Schedule, memory, pass
    <3>2. ASSUME NEW s \in Slots
          PROVE  rows'[s].id = rows[s].id /\ rows'[s].applied = rows[s].applied
      <4>1. CASE HasRow(s)
        <5>1. rows[s] \in Rows  BY <2>0, <4>1 DEF HasRow, NoRow
        <5>2. rows'[s] = [rows[s] EXCEPT !.bound = TRUE]  BY <2>2, <4>1 DEF Schedule
        <5>. QED  BY <5>1, <5>2 DEF Rows
      <4>. QED  BY <2>2, <4>1 DEF Schedule
    <3>. QED  BY <2>0, <3>1, <3>2 DEF Working
  <2>3. ASSUME NEW s \in Slots, Delete(s) PROVE HInv'
    <3>1. /\ UNCHANGED <<snap, vms, seeded, owned, hash, pc, cur, want>>
          /\ rows' = [rows EXCEPT ![s] = NoRow]
      BY <2>3 DEF Delete, memory, pass
    <3>2. NoRow.applied = NoCfg /\ NoRow.id = NoId  BY DEF NoRow
    <3>3. snap[s].kind # "absent" => snap[s].id # NoId
      BY <2>0, Sentinels DEF Snaps, Absent
    <3>. QED  BY <2>0, <3>1, <3>2, <3>3 DEF Working
  <2>4. ASSUME NEW s \in Slots, VMExits(s) PROVE HInv'
    <3>1. PICK p \in {"stopped", "failed"} :
             vms' = [vms EXCEPT ![s] = [vms[s] EXCEPT !.phase = p]]
      BY <2>4 DEF VMExits
    <3>2. LET w == [vms[s] EXCEPT !.phase = p]
          IN  Ours(w) => Ours(vms[s]) /\ w.cfg = vms[s].cfg
      BY <2>0, ExitFacts
    <3>3. UNCHANGED <<rows, snap, seeded, owned, hash, pc, cur, want>>
      BY <2>4 DEF VMExits, store, memory, pass
    <3>. QED  BY <3>1, <3>2, <3>3, SameCfgKeepsHInv
  <2>5. ASSUME NEW s \in Slots, ForeignTakes(s) \/ ForeignLeaves(s) PROVE HInv'
    <3>1. PICK w \in {NoVM, ForeignVM} : vms' = [vms EXCEPT ![s] = w]
      BY <2>5 DEF ForeignTakes, ForeignLeaves
    <3>2. UNCHANGED <<rows, snap, seeded, owned, hash, pc, cur, want>>
      BY <2>5 DEF ForeignTakes, ForeignLeaves, store, memory, pass
    <3>. QED  BY <3>1, <3>2, NoVMFacts, SameCfgKeepsHInv
  <2>6. CASE CrashRestart
    <3>1. /\ pc # "persist" /\ pc' = "idle" /\ UNCHANGED <<rows, vms>>
          /\ hash' = [s \in Slots |-> NoCfg] /\ snap' = [s \in Slots |-> Absent]
      BY <2>6 DEF CrashRestart
    <3>. QED  BY <2>0, <3>1 DEF Working, Absent
  <2>7. CASE StartPass
    BY <2>7 DEF StartPass, store, Working
  <2>8. CASE BuildDesiredSet
    <3>1. /\ pc = "build" /\ pc' = "gc"
          /\ UNCHANGED <<rows, vms, seeded, owned, hash>>
          /\ \A s \in Slots : snap'[s].kind # "absent" => snap'[s].id = rows[s].id
      BY <2>8 DEF BuildDesiredSet, Observe, Absent, store, memory
    <3>. QED  BY <2>0, <3>1 DEF Working
  <2>9. ASSUME NEW s \in Slots, CollectOrphan(s) PROVE HInv'
    <3>1. PICK r \in RemoveResults(vms[s]) :
             /\ vms' = [vms EXCEPT ![s] = r.vm]
             /\ hash' \in {hash, [hash EXCEPT ![s] = NoCfg]}
      BY <2>9 DEF CollectOrphan
    <3>2. Ours(r.vm) => Ours(vms[s]) /\ r.vm.cfg = vms[s].cfg
      BY <2>0, RemoveFacts
    <3>3. pc = "gc" /\ UNCHANGED <<rows, snap, seeded, pc, cur>>
      BY <2>9 DEF CollectOrphan, store
    <3>. QED  BY <2>0, <3>1, <3>2, <3>3 DEF Working
  <2>10. CASE FinishGC
    <3>1. /\ pc = "gc" /\ pc' \in {"next", "idle"} /\ UNCHANGED <<rows, vms, seeded>>
          /\ \A s \in Slots : hash'[s] \in {hash[s], NoCfg}
          /\ snap' \in {snap, [s \in Slots |-> Absent]}
      BY <2>10 DEF FinishGC, store
    <3>. QED  BY <2>0, <3>1 DEF Working, Absent
  <2>11. ASSUME NEW s \in Slots, HoldInstance(s) PROVE HInv'
    BY <2>a, <2>11 DEF HoldInstance, store, memory
  <2>12. ASSUME NEW s \in Slots, PrepareInstance(s) PROVE HInv'
    <3>1. /\ pc = "next" /\ UNCHANGED <<rows, snap, vms, seeded, owned, hash>>
      BY <2>12 DEF PrepareInstance, store
    <3>2. PICK c \in [spec : {snap[s].spec}, port : Ports \cup {NoPort}] :
             \/ /\ cur' = s /\ want' = c
                /\ pc' = "remove" \/ (pc' = "ensure" /\ ~RecreateDecision(s, c))
             \/ UNCHANGED <<cur, want, pc>>
      <4>1. PICK b \in BindingFor(s) :
               LET c == [spec |-> snap[s].spec, port |-> b.port]
               IN  \/ /\ cur' = s /\ want' = c
                      /\ pc' = "remove" \/ (pc' = "ensure" /\ ~RecreateDecision(s, c))
                   \/ UNCHANGED <<cur, want, pc>>
        BY <2>12 DEF PrepareInstance
      <4>2. s \in todo /\ snap[s] \in Snaps
        BY <2>0, <2>12 DEF PrepareInstance, TypeOK, Absent
      <4>3. b.port \in Ports \cup {NoPort}
        <5>1. binding[s] \in Bindings \cup {NoBinding} /\ snap[s].id \in Ids
          BY <4>2 DEF TypeOK, Snaps
        <5>. QED  BY <5>1 DEF BindingFor, FreePorts, Bindings, NoBinding
      <4>. QED  BY <4>1, <4>3
    <3>3. c.spec = snap[s].spec /\ c # NoCfg
      <4>1. snap[s].spec \in Specs
        BY <2>0, <2>12 DEF PrepareInstance, TypeOK, Snaps, Absent
      <4>. QED  BY <4>1, SentinelsDiffer DEF NoCfg
    <3>4. seeded  BY <3>1
    <3>5. ~RecreateDecision(s, c) /\ Ours(vms[s]) => vms[s].cfg = c
      <4>1. CASE hash[s] # NoCfg
        BY <4>1 DEF RecreateDecision
      <4>2. CASE hash[s] = NoCfg
        <5>1. Ours(vms[s]) => s \in owned  BY <3>4 DEF OwnershipComplete
        <5>2. ~RecreateDecision(s, c) /\ Ours(vms[s]) => rows[s].applied = c
          BY <3>3, <4>2, <5>1 DEF RecreateDecision, AppliedOf
        <5>. QED  BY <3>1, <3>3, <5>2
      <4>. QED  BY <4>1, <4>2
    <3>. QED  BY <2>0, <3>1, <3>2, <3>3, <3>4, <3>5 DEF Working
  <2>13. CASE RemoveForRecreate
    <3>1. /\ pc = "remove" /\ cur \in Slots /\ seeded
          /\ UNCHANGED <<rows, snap, seeded>>
      BY <2>0, <2>13 DEF RemoveForRecreate, Working, store
    <3>2. PICK r \in RemoveResults(vms[cur]) :
             /\ vms' = [vms EXCEPT ![cur] = r.vm]
             /\ \/ /\ r.outcome = "Ok" /\ hash' = [hash EXCEPT ![cur] = NoCfg]
                   /\ pc' = "ensure" /\ UNCHANGED <<cur, want>>
                \/ UNCHANGED hash /\ pc' = "next"
      BY <2>13 DEF RemoveForRecreate, LeaveInstance
    <3>3. /\ r.outcome = "Ok" => ~Ours(r.vm)
          /\ Ours(r.vm) => Ours(vms[cur]) /\ r.vm.cfg = vms[cur].cfg
      BY <2>0, <3>1, RemoveFacts
    <3>. QED  BY <2>0, <3>1, <3>2, <3>3 DEF Working
  <2>14. CASE EnsureInstance
    <3>1. /\ pc = "ensure" /\ cur \in Slots /\ want \in Cfgs /\ seeded
          /\ UNCHANGED <<rows, snap, seeded>>
      BY <2>0, <2>14 DEF EnsureInstance, Working, store
    <3>2. PICK r \in EnsureResults(vms[cur], want, cur \in NoRestart) :
             /\ vms' = [vms EXCEPT ![cur] = r.vm]
             /\ \/ /\ hash' = [hash EXCEPT ![cur] = want] /\ owned' = owned \cup {cur}
                   /\ pc' = "persist" /\ UNCHANGED <<cur, want>>
                \/ r.outcome = "Err" /\ UNCHANGED hash /\ pc' = "next"
      BY <2>14 DEF EnsureInstance, LeaveInstance
    <3>3. /\ r.outcome = "Err" => r.vm = vms[cur] \/ r.vm = NoVM
          /\ Ours(r.vm) => r.vm.cfg = want
      <4>1. (cur \in NoRestart) \in BOOLEAN /\ vms[cur] \in VMs  BY <2>0, <3>1
      <4>2. Ours(vms[cur]) => vms[cur].cfg = want  BY <3>1 DEF Working
      <4>. QED  BY ZenonT(40), <3>1, <4>1, <4>2, EnsureFacts
    <3>4. rows[cur].id # snap[cur].id => rows[cur].applied = NoCfg
      BY <2>0, <3>1 DEF Working
    <3>. QED  BY <2>0, <3>1, <3>2, <3>3, <3>4, NoVMFacts DEF Working
  <2>15. CASE PersistHash
    <3>1. /\ pc = "persist" /\ pc' = "health" /\ cur \in Slots /\ want \in Cfgs
          /\ UNCHANGED <<vms, owned, seeded, hash, snap, cur, want>>
      BY <2>0, <2>15 DEF PersistHash, Working, memory
    <3>2. /\ \A s \in Slots : rows'[s].id = rows[s].id
          /\ \A s \in Slots \ {cur} : rows'[s] = rows[s]
          /\ rows[cur].id = snap[cur].id => rows'[cur].applied = want
          /\ rows[cur].id # snap[cur].id => rows'[cur] = rows[cur]
      <4>1. rows' = IF rows[cur].id = snap[cur].id
                    THEN [rows EXCEPT ![cur].applied = want] ELSE rows
        BY <2>15 DEF PersistHash
      <4>2. ASSUME rows[cur].id = snap[cur].id
            PROVE  LET w == [rows[cur] EXCEPT !.applied = want]
                   IN  w.id = rows[cur].id /\ w.applied = want
        <5>1. rows[cur] \in Rows \/ rows[cur] = NoRow  BY <2>0, <3>1
        <5>. QED  BY <5>1 DEF Rows, NoRow
      <4>. QED  BY <2>0, <3>1, <4>1, <4>2
    <3>. QED  BY <2>0, <3>1, <3>2 DEF Working
  <2>16. CASE PassHealth
    <3>1. /\ pc = "health" /\ pc' = "next"
          /\ UNCHANGED <<rows, snap, vms, seeded, owned, hash>>
      BY <2>16 DEF PassHealth, LeaveInstance, store, memory
    <3>. QED  BY <2>0, <3>1 DEF Working
  <2>17. CASE FailHealth
    <3>1. /\ pc = "health" /\ pc' = "revive" /\ cur \in Slots
          /\ UNCHANGED <<rows, snap, owned, seeded, hash, cur, want>>
      BY <2>0, <2>17 DEF FailHealth, Working, store
    <3>2. PICK r \in RemoveResults(vms[cur]) : vms' = [vms EXCEPT ![cur] = r.vm]
      BY <2>17 DEF FailHealth
    <3>3. Ours(r.vm) => Ours(vms[cur]) /\ r.vm.cfg = vms[cur].cfg
      BY <2>0, <3>1, RemoveFacts
    <3>. QED  BY <2>0, <3>1, <3>2, <3>3 DEF Working
  <2>18. CASE ReviveUnhealthy
    <3>1. /\ pc = "revive" /\ pc' = "next" /\ cur \in Slots /\ want \in Cfgs
          /\ UNCHANGED <<rows, snap, owned, seeded, hash>>
      BY <2>0, <2>18 DEF ReviveUnhealthy, LeaveInstance, store, memory, Working
    <3>2. PICK r \in EnsureResults(vms[cur], want, FALSE) : vms' = [vms EXCEPT ![cur] = r.vm]
      BY <2>18 DEF ReviveUnhealthy
    <3>3. Ours(r.vm) => r.vm.cfg = want
      <4>1. FALSE \in BOOLEAN /\ vms[cur] \in VMs  BY <2>0, <3>1
      <4>2. Ours(vms[cur]) => vms[cur].cfg = want  BY <3>1 DEF Working
      <4>. QED  BY <3>1, <4>1, <4>2, EnsureFacts
    <3>4. /\ rows[cur].id = snap[cur].id => rows[cur].applied = want
          /\ rows[cur].id # snap[cur].id => rows[cur].applied = NoCfg
          /\ hash[cur] = want
      BY <2>0, <3>1 DEF Working
    <3>. QED  BY <2>0, <3>1, <3>2, <3>3, <3>4 DEF Working
  <2>19. CASE EndPass
    <3>1. /\ pc = "next" /\ pc' = "idle" /\ UNCHANGED <<rows, vms, seeded, hash>>
          /\ snap' = [s \in Slots |-> Absent]
      BY <2>19 DEF EndPass, store
    <3>. QED  BY <2>0, <3>1 DEF Working, Absent
  <2>20. CASE (\E s \in Slots : FlipSecret(s) \/ BackoffElapses(s)) \/ UNCHANGED vars
    BY <2>a, <2>20 DEF FlipSecret, BackoffElapses, vars, store, memory, pass
  <2>. QED
    BY <2>1, <2>2, <2>3, <2>4, <2>5, <2>6, <2>7, <2>8, <2>9, <2>10, <2>11, <2>12, <2>13,
       <2>14, <2>15, <2>16, <2>17, <2>18, <2>19, <2>20
       DEF Next, Operator, World, PassStep
<1>3. TypeOK /\ OwnershipComplete /\ HInv => IInv /\ HashTruthful
  BY DEF IInv, HInv
<1>. QED  BY <1>1, <1>2, <1>3, TypeCorrect, OwnershipIsComplete, PTL DEF Spec

\* The inductive invariant itself, with types, ownership and the turn in progress
\* (lifecycle.rs:150-242, 409-425).
THEOREM LoopInvariantHolds ==
    ASSUME ~GetFails, ~TornWrites
    PROVE  Spec => []IInv
BY HashIsTruthful, PTL

-----------------------------------------------------------------------------
\* A step of a pass touches only the orphan it collects or the instance whose
\* turn it is, and neither ensure_removed nor ensure_running touches a foreign
\* sandbox.
LEMMA PassTouches ==
    ASSUME TypeOK, [Next]_vars, pass' # pass,
           NEW s \in Slots, vms'[s] # vms[s]
    PROVE  /\ s \in stale \/ (pc \in Working /\ s = cur)
           /\ vms[s].own # "foreign"
<1>0. /\ vms \in [Slots -> VMs] /\ (cur \in NoRestart) \in BOOLEAN
      /\ pc \in Working => cur \in Slots /\ want \in Cfgs
  BY DEF TypeOK
<1>1. ASSUME NEW t \in Slots, CollectOrphan(t)
      PROVE  s \in stale /\ vms[s].own # "foreign"
  <2>1. PICK r \in RemoveResults(vms[t]) : vms' = [vms EXCEPT ![t] = r.vm]
    BY <1>1 DEF CollectOrphan
  <2>2. ~Ours(vms[t]) => r.vm = vms[t]  BY <1>0, RemoveFacts
  <2>. QED  BY <1>0, <1>1, <2>1, <2>2 DEF CollectOrphan, Ours
<1>2. CASE RemoveForRecreate \/ FailHealth
  <2>1. pc \in Working /\ cur \in Slots
    BY <1>0, <1>2 DEF RemoveForRecreate, FailHealth, Working
  <2>2. PICK r \in RemoveResults(vms[cur]) : vms' = [vms EXCEPT ![cur] = r.vm]
    BY <1>2 DEF RemoveForRecreate, FailHealth
  <2>3. ~Ours(vms[cur]) => r.vm = vms[cur]  BY <1>0, <2>1, RemoveFacts
  <2>. QED  BY <1>0, <2>1, <2>2, <2>3 DEF Ours
<1>3. CASE EnsureInstance \/ ReviveUnhealthy
  <2>1. pc \in Working /\ cur \in Slots /\ want \in Cfgs
    BY <1>0, <1>3 DEF EnsureInstance, ReviveUnhealthy, Working
  <2>2. PICK never \in BOOLEAN :
           \E r \in EnsureResults(vms[cur], want, never) : vms' = [vms EXCEPT ![cur] = r.vm]
    <3>1. CASE EnsureInstance
      <4>1. \E r \in EnsureResults(vms[cur], want, cur \in NoRestart) :
               vms' = [vms EXCEPT ![cur] = r.vm]
        BY <3>1 DEF EnsureInstance
      <4>. QED  BY <1>0, <4>1
    <3>2. CASE ReviveUnhealthy
      BY <3>2 DEF ReviveUnhealthy
    <3>. QED  BY <1>3, <3>1, <3>2
  <2>3. PICK r \in EnsureResults(vms[cur], want, never) : vms' = [vms EXCEPT ![cur] = r.vm]
    BY <2>2
  <2>4. vms[cur].own = "foreign" => r.vm = vms[cur]  BY <1>0, <2>1, EnsureFacts
  <2>. QED  BY <1>0, <2>1, <2>3, <2>4
<1>4. CASE UNCHANGED pass \/ UNCHANGED vms
  BY <1>4
<1>5. CASE \/ StartPass \/ BuildDesiredSet \/ FinishGC \/ PersistHash \/ PassHealth
           \/ EndPass \/ CrashRestart
           \/ \E t \in Slots : HoldInstance(t) \/ PrepareInstance(t)
  BY <1>4, <1>5 DEF StartPass, BuildDesiredSet, FinishGC, PersistHash, PassHealth, EndPass,
                    CrashRestart, HoldInstance, PrepareInstance
<1>6. CASE \/ Operator \/ UNCHANGED vars
           \/ \E t \in Slots : \/ VMExits(t) \/ ForeignTakes(t)
                               \/ ForeignLeaves(t) \/ BackoffElapses(t)
  BY <1>4, <1>6 DEF Operator, Apply, Schedule, Delete, FlipSecret, VMExits, ForeignTakes,
                    ForeignLeaves, BackoffElapses, vars
<1>. QED
  BY <1>1, <1>2, <1>3, <1>5, <1>6 DEF Next, World, PassStep

\* No pass ever changes a sandbox of another microsandbox user, whatever the
\* backend, the store and the other user do in between.
THEOREM ForeignSandboxesUntouched == Spec => ForeignUntouched
<1>1. TypeOK /\ [Next]_vars =>
        (pass' # pass => \A s \in Slots : vms[s].own = "foreign" => vms'[s] = vms[s])
  BY PassTouches
<1>2. TypeOK /\ [Next]_vars =>
        [pass' # pass => \A s \in Slots : vms[s].own = "foreign" => vms'[s] = vms[s]]_vars
  BY <1>1
<1>. QED  BY <1>2, TypeCorrect, PTL DEF Spec, ForeignUntouched

\* Only ids the snapshot does not mention are collected.
StaleAbsent == \A s \in stale : snap[s].kind = "absent"

\* In every reachable state, the collector's list holds only ids of that kind.
LEMMA StaleAreAbsent == Spec => []StaleAbsent
<1>1. Init => StaleAbsent
  BY DEF Init, StaleAbsent
<1>2. TypeOK /\ StaleAbsent /\ [Next]_vars => StaleAbsent'
  <2> SUFFICES ASSUME TypeOK, StaleAbsent, [Next]_vars PROVE StaleAbsent'  OBVIOUS
  <2>0. stale \subseteq Slots  BY DEF TypeOK
  <2> USE DEF StaleAbsent
  <2>1. CASE BuildDesiredSet
    BY <2>1 DEF BuildDesiredSet, StaleOwned, TypeOK
  <2>2. CASE FinishGC \/ EndPass \/ CrashRestart
    BY <2>0, <2>2 DEF FinishGC, EndPass, CrashRestart, Absent
  <2>3. CASE stale' \subseteq stale /\ snap' = snap
    BY <2>3
  <2>4. CASE \/ StartPass \/ RemoveForRecreate \/ EnsureInstance \/ PersistHash
             \/ PassHealth \/ FailHealth \/ ReviveUnhealthy
             \/ \E t \in Slots : CollectOrphan(t) \/ HoldInstance(t) \/ PrepareInstance(t)
    BY <2>3, <2>4 DEF StartPass, RemoveForRecreate, EnsureInstance, PersistHash, PassHealth,
                      FailHealth, ReviveUnhealthy, CollectOrphan, HoldInstance,
                      PrepareInstance
  <2>5. CASE \/ Operator \/ UNCHANGED vars
             \/ \E t \in Slots : \/ VMExits(t) \/ ForeignTakes(t)
                                 \/ ForeignLeaves(t) \/ BackoffElapses(t)
    BY <2>3, <2>5 DEF Operator, Apply, Schedule, Delete, FlipSecret, VMExits, ForeignTakes,
                      ForeignLeaves, BackoffElapses, vars, pass
  <2>. QED
    BY <2>1, <2>2, <2>4, <2>5 DEF Next, World, PassStep
<1>. QED  BY <1>1, <1>2, TypeCorrect, PTL DEF Spec

\* A pass that could not resolve an instance's desired state leaves its sandbox
\* alone, and so does every later pass until it resolves again.
THEOREM UnresolvedSandboxesKept == Spec => UnresolvedKept
<1>1. TypeOK /\ StaleAbsent /\ [Next]_vars =>
        (pass' # pass => \A s \in Slots : snap[s].kind = "failed" => vms'[s] = vms[s])
  <2>1. TypeOK => (pc \in Working => snap[cur].kind = "desired")
    BY DEF TypeOK
  <2>. QED  BY <2>1, PassTouches DEF StaleAbsent
<1>2. TypeOK /\ StaleAbsent /\ [Next]_vars =>
        [pass' # pass => \A s \in Slots : snap[s].kind = "failed" => vms'[s] = vms[s]]_vars
  BY <1>1
<1>. QED  BY <1>2, StaleAreAbsent, TypeCorrect, PTL DEF Spec, UnresolvedKept

-----------------------------------------------------------------------------
\* ensure_running leaves a sandbox that runs alone, whatever it was asked for.
LEMMA EnsureKeepsRunning ==
    ASSUME NEW v \in VMs, Running(v), NEW c, NEW never, NEW r \in EnsureResults(v, c, never)
    PROVE  r.vm = v
  BY DEF EnsureResults, FailedLookup, Result, Running

\* Where no service exposes a port, no configuration has one, and the loop is
\* about to remove only what differs from the store.
RInv ==
    /\ \A s \in Slots : Ours(vms[s]) => vms[s].cfg.port = NoPort
    /\ pc \in Working => want.port = NoPort
    /\ pc = "remove" => ~Satisfied(cur)

\* A step that leaves the turn alone and neither starts a sandbox nor persists
\* a hash gives no reason to keep what was to be removed.
LEMMA TurnKeepsRInv ==
    ASSUME TypeOK, RInv, UNCHANGED <<pc, cur, want, snap>>,
           \A s \in Slots : Ours(vms'[s]) => Ours(vms[s]) /\ vms'[s].cfg = vms[s].cfg,
           \A s \in Slots : Running(vms'[s]) => Running(vms[s]),
           \A s \in Slots : rows'[s].id # snap[s].id \/ ( /\ rows'[s].id = rows[s].id
                                                          /\ rows'[s].applied = rows[s].applied )
    PROVE  RInv'
<1>1. pc \in Working => cur \in Slots /\ snap[cur].spec \in Specs
  BY DEF TypeOK, Snaps, Absent
<1>2. ASSUME pc = "remove", Satisfied(cur)' PROVE FALSE
  <2>1. cur \in Slots /\ snap[cur].spec \in Specs /\ ~Satisfied(cur)
    BY <1>1, <1>2 DEF RInv, Working
  <2>2. /\ Running(vms'[cur]) /\ snap[cur].kind = "desired"
        /\ vms'[cur].cfg.spec = snap[cur].spec
        /\ (IF rows'[cur].id = snap[cur].id THEN rows'[cur].applied ELSE NoCfg) = vms'[cur].cfg
    BY <1>2 DEF Satisfied, AppliedOf
  <2>3. Running(vms[cur]) /\ vms'[cur].cfg = vms[cur].cfg
    BY <2>1, <2>2 DEF Running, Ours
  <2>4. rows'[cur].id = snap[cur].id
    BY <2>1, <2>2, SentinelsDiffer DEF NoCfg
  <2>. QED  BY <2>1, <2>2, <2>3, <2>4 DEF Satisfied, AppliedOf
<1>. QED  BY <1>2 DEF RInv

\* With no exposed ports, a step of the loop keeps RInv.
LEMMA StepKeepsRInv ==
    ASSUME Exposing = {}, IInv, TypeOK', RInv, [Next]_vars
    PROVE  RInv'
<1>0. /\ TypeOK /\ HashTruthful
      /\ vms \in [Slots -> VMs] /\ rows \in [Slots -> Rows \cup {NoRow}]
      /\ snap \in [Slots -> Snaps \cup {Absent}]
      /\ pc \in Working => /\ cur \in Slots /\ want \in Cfgs
                           /\ snap[cur].kind = "desired"
      /\ (cur \in NoRestart) \in BOOLEAN
  BY DEF IInv, TypeOK
<1>1. ASSUME NEW s \in Slots, NEW x \in Specs, Apply(s, x) PROVE RInv'
  <2>1. UNCHANGED <<snap, vms, pc, cur, want>>
    BY <1>1 DEF Apply, memory, pass
  <2>2. CASE HasRow(s) /\ rows' = [rows EXCEPT ![s].spec = x]
    <3>1. rows[s] \in Rows  BY <1>0, <2>2 DEF HasRow, NoRow
    <3>2. [rows[s] EXCEPT !.spec = x].id = rows[s].id
          /\ [rows[s] EXCEPT !.spec = x].applied = rows[s].applied
      BY <3>1 DEF Rows
    <3>3. \A t \in Slots : rows'[t].id = rows[t].id /\ rows'[t].applied = rows[t].applied
      BY <1>0, <2>2, <3>2
    <3>. QED  BY <1>0, <2>1, <3>3, TurnKeepsRInv
  <2>3. CASE \E i \in FreshIds(s) :
                rows' = [rows EXCEPT ![s] = [id |-> i, spec |-> x, bound |-> FALSE,
                                             applied |-> NoCfg]]
    <3>1. rows'[s].id # snap[s].id /\ \A t \in Slots \ {s} : rows'[t] = rows[t]
      BY <1>0, <2>3 DEF FreshIds
    <3>2. \A t \in Slots : rows'[t].id # snap[t].id \/ ( /\ rows'[t].id = rows[t].id
                                                         /\ rows'[t].applied = rows[t].applied )
      BY <3>1
    <3>. QED  BY <1>0, <2>1, <3>2, TurnKeepsRInv
  <2>. QED  BY <1>1, <2>2, <2>3 DEF Apply
<1>2. CASE Schedule
  <2>1. UNCHANGED <<snap, vms, pc, cur, want>>
    BY <1>2 DEF Schedule, memory, pass
  <2>2. \A t \in Slots : rows'[t].id = rows[t].id /\ rows'[t].applied = rows[t].applied
    BY <1>0, <1>2 DEF Schedule, Rows, NoRow, HasRow
  <2>. QED  BY <1>0, <2>1, <2>2, TurnKeepsRInv
<1>3. ASSUME NEW s \in Slots, Delete(s) PROVE RInv'
  <2>1. UNCHANGED <<snap, vms, pc, cur, want>>
        /\ rows'[s] = NoRow /\ \A t \in Slots \ {s} : rows'[t] = rows[t]
    BY <1>0, <1>3 DEF Delete, memory, pass
  <2>2. CASE snap[s].id = NoId
    <3>1. snap[s].kind # "desired"
      BY <1>0, <2>2, Sentinels DEF Snaps, Absent
    <3>2. pc = "remove" => cur # s  BY <1>0, <3>1 DEF Working
    <3>. QED  BY <1>0, <2>1, <3>2 DEF RInv, Satisfied, AppliedOf, Working
  <2>3. CASE snap[s].id # NoId
    <3>1. \A t \in Slots : rows'[t].id # snap[t].id \/ ( /\ rows'[t].id = rows[t].id
                                                         /\ rows'[t].applied = rows[t].applied )
      BY <2>1, <2>3 DEF NoRow
    <3>. QED  BY <1>0, <2>1, <3>1, TurnKeepsRInv
  <2>. QED  BY <2>2, <2>3
<1>4. ASSUME NEW s \in Slots, VMExits(s) PROVE RInv'
  <2>1. PICK p \in {"stopped", "failed"} : vms' = [vms EXCEPT ![s].phase = p]
    BY <1>4 DEF VMExits
  <2>2. LET w == [vms[s] EXCEPT !.phase = p]
        IN  w.cfg = vms[s].cfg /\ w.own = vms[s].own /\ ~Running(w) /\ vms'[s] = w
    BY <1>0, <2>1 DEF VMs, Running
  <2>3. \A t \in Slots : /\ Ours(vms'[t]) => Ours(vms[t]) /\ vms'[t].cfg = vms[t].cfg
                         /\ Running(vms'[t]) => Running(vms[t])
    BY <1>0, <2>1, <2>2 DEF Ours
  <2>. QED  BY <1>0, <1>4, <2>3, TurnKeepsRInv DEF VMExits, store, pass
<1>5. ASSUME NEW s \in Slots, ForeignTakes(s) \/ ForeignLeaves(s) PROVE RInv'
  <2>1. vms'[s] \in {ForeignVM, NoVM} /\ \A t \in Slots \ {s} : vms'[t] = vms[t]
    BY <1>0, <1>5 DEF ForeignTakes, ForeignLeaves
  <2>2. \A t \in Slots : /\ Ours(vms'[t]) => Ours(vms[t]) /\ vms'[t].cfg = vms[t].cfg
                         /\ Running(vms'[t]) => Running(vms[t])
    BY <2>1, NoVMFacts DEF Ours, Running
  <2>. QED
    BY <1>0, <1>5, <2>2, TurnKeepsRInv DEF ForeignTakes, ForeignLeaves, store, pass
<1>6. ASSUME NEW s \in Slots, CollectOrphan(s) PROVE RInv'
  <2>1. PICK r \in RemoveResults(vms[s]) : vms' = [vms EXCEPT ![s] = r.vm]
    BY <1>6 DEF CollectOrphan
  <2>2. \A t \in Slots : Ours(vms'[t]) => Ours(vms[t]) /\ vms'[t].cfg = vms[t].cfg
    BY <1>0, <2>1, RemoveFacts
  <2>. QED  BY <1>6, <2>2 DEF RInv, CollectOrphan, Working
<1>7. ASSUME NEW s \in Slots, PrepareInstance(s) PROVE RInv'
  <2>1. UNCHANGED <<rows, vms, hash, owned, snap>> /\ pc = "next" /\ snap[s].kind = "desired"
    BY <1>0, <1>7 DEF PrepareInstance, store, TypeOK
  <2>2. CASE UNCHANGED pc
    BY <2>1, <2>2 DEF RInv, Working
  <2>3. CASE pc' # pc
    <3> DEFINE c == [spec |-> snap[s].spec, port |-> NoPort]
    <3>1. /\ cur' = s /\ want' = c
          /\ pc' = "remove" => RecreateDecision(s, c)
      <4>1. BindingFor(s) = {NoBinding} /\ Sluggish = {}
        BY SlotSubsets DEF BindingFor
      <4>. QED  BY <1>7, <2>3, <4>1 DEF PrepareInstance, NoBinding, HostPortsDead
    <3>2. ASSUME Satisfied(s) PROVE ~RecreateDecision(s, c)
      <4>1. /\ Ours(vms[s]) /\ vms[s].cfg.spec = snap[s].spec /\ AppliedOf(s) = vms[s].cfg
        BY <3>2 DEF Satisfied, Running, Ours
      <4>2. vms[s].cfg.port = NoPort  BY <4>1 DEF RInv
      <4>3. vms[s].cfg = c
        BY <1>0, <4>1, <4>2 DEF VMs, Cfgs, NoCfg
      <4>4. hash[s] # NoCfg => hash[s] = c
        BY <1>0, <4>1, <4>3 DEF HashTruthful
      <4>. QED  BY <4>1, <4>3, <4>4 DEF RecreateDecision
    <3>3. Satisfied(s)' <=> Satisfied(s)
      BY <2>1 DEF Satisfied, AppliedOf
    <3>. QED  BY <2>1, <3>1, <3>2, <3>3 DEF RInv
  <2>. QED  BY <2>2, <2>3
<1>8. CASE RemoveForRecreate \/ FailHealth
  <2>1. pc \in Working /\ cur \in Slots /\ pc' # "remove" /\ (pc' \in Working => want' = want)
    BY <1>0, <1>8 DEF RemoveForRecreate, FailHealth, Working, LeaveInstance
  <2>2. PICK r \in RemoveResults(vms[cur]) : vms' = [vms EXCEPT ![cur] = r.vm]
    BY <1>8 DEF RemoveForRecreate, FailHealth
  <2>3. \A t \in Slots : Ours(vms'[t]) => Ours(vms[t]) /\ vms'[t].cfg = vms[t].cfg
    BY <1>0, <2>1, <2>2, RemoveFacts
  <2>. QED  BY <2>1, <2>3 DEF RInv
<1>9. CASE EnsureInstance \/ ReviveUnhealthy
  <2>1. /\ pc \in Working /\ cur \in Slots /\ want \in Cfgs /\ want.port = NoPort
        /\ pc' # "remove" /\ (pc' \in Working => want' = want)
    BY <1>0, <1>9 DEF EnsureInstance, ReviveUnhealthy, Working, LeaveInstance, RInv
  <2>2. PICK never \in BOOLEAN :
           \E r \in EnsureResults(vms[cur], want, never) : vms' = [vms EXCEPT ![cur] = r.vm]
    <3>1. CASE EnsureInstance
      <4>1. \E r \in EnsureResults(vms[cur], want, cur \in NoRestart) :
               vms' = [vms EXCEPT ![cur] = r.vm]
        BY <3>1 DEF EnsureInstance
      <4>. QED  BY <1>0, <4>1
    <3>2. CASE ReviveUnhealthy
      BY <3>2 DEF ReviveUnhealthy
    <3>. QED  BY <1>9, <3>1, <3>2
  <2>3. PICK r \in EnsureResults(vms[cur], want, never) : vms' = [vms EXCEPT ![cur] = r.vm]
    BY <2>2
  <2>4. Ours(r.vm) => r.vm.cfg = want \/ (Ours(vms[cur]) /\ r.vm.cfg = vms[cur].cfg)
    BY <1>0, <2>1, EnsureFacts
  <2>5. \A t \in Slots : Ours(vms'[t]) => vms'[t].cfg.port = NoPort
    BY <1>0, <2>1, <2>3, <2>4 DEF RInv
  <2>. QED  BY <2>1, <2>5 DEF RInv
<1>10. CASE \/ StartPass \/ BuildDesiredSet \/ FinishGC \/ PersistHash \/ PassHealth
            \/ EndPass \/ CrashRestart \/ \E t \in Slots : HoldInstance(t)
  <2>1. UNCHANGED vms /\ pc' # "remove" /\ (pc' \in Working => want' = want /\ pc \in Working)
    BY <1>10 DEF StartPass, BuildDesiredSet, FinishGC, PersistHash, PassHealth, EndPass,
                 CrashRestart, HoldInstance, Working, LeaveInstance, memory
  <2>. QED  BY <2>1 DEF RInv
<1>11. CASE (\E s \in Slots : FlipSecret(s) \/ BackoffElapses(s)) \/ UNCHANGED vars
  BY <1>11 DEF FlipSecret, BackoffElapses, vars, store, memory, pass, RInv, Satisfied, AppliedOf
<1>. QED
  BY <1>1, <1>2, <1>3, <1>4, <1>5, <1>6, <1>7, <1>8, <1>9, <1>10, <1>11
     DEF Next, Operator, World, PassStep

\* Apart from a failed healthcheck, no pass takes down a sandbox that is what
\* the store says, adopted or not, of any number of instances that expose no
\* port: the hash decides, and the hash is truthful.
THEOREM NoRecreateWithoutNeed ==
    ASSUME ~GetFails, ~TornWrites, Exposing = {}
    PROVE  Spec => NoNeedlessRecreate
<1>1. Init => RInv
  BY NoVMFacts DEF Init, RInv, Working
<1>2. IInv => TypeOK
  BY DEF IInv
<1>3. IInv /\ TypeOK' /\ RInv /\ [Next]_vars => RInv'
  BY StepKeepsRInv
<1>4. ASSUME TypeOK, StaleAbsent, RInv, [Next]_vars, pass' # pass, pc # "health",
             NEW s \in Slots, Satisfied(s)
      PROVE  vms'[s] = vms[s]
  <2> SUFFICES ASSUME vms'[s] # vms[s] PROVE FALSE  OBVIOUS
  <2>1. snap[s].kind = "desired" /\ Running(vms[s])  BY <1>4 DEF Satisfied
  <2>2. pc \in Working /\ s = cur
    BY <1>4, <2>1, PassTouches DEF StaleAbsent
  <2>3. /\ vms \in [Slots -> VMs] /\ cur \in Slots /\ pc # "remove"
    BY <1>4, <2>2 DEF TypeOK, RInv
  <2>4. CASE EnsureInstance \/ ReviveUnhealthy
    <3>1. \E never : \E r \in EnsureResults(vms[cur], want, never) :
             vms' = [vms EXCEPT ![cur] = r.vm]
      BY <2>4 DEF EnsureInstance, ReviveUnhealthy
    <3>2. PICK never : \E r \in EnsureResults(vms[cur], want, never) :
             vms' = [vms EXCEPT ![cur] = r.vm]
      BY <3>1
    <3>3. PICK r \in EnsureResults(vms[cur], want, never) : vms' = [vms EXCEPT ![cur] = r.vm]
      BY <3>2
    <3>4. r.vm = vms[cur]  BY <2>1, <2>2, <2>3, EnsureKeepsRunning
    <3>. QED  BY <2>2, <2>3, <3>3, <3>4
  <2>5. CASE \/ StartPass \/ BuildDesiredSet \/ FinishGC \/ PersistHash \/ PassHealth
             \/ EndPass \/ CrashRestart
             \/ \E t \in Slots : HoldInstance(t) \/ PrepareInstance(t)
    BY <2>5 DEF StartPass, BuildDesiredSet, FinishGC, PersistHash, PassHealth, EndPass,
                CrashRestart, HoldInstance, PrepareInstance
  <2>6. CASE RemoveForRecreate \/ FailHealth \/ \E t \in Slots : CollectOrphan(t)
    BY <1>4, <2>2, <2>3, <2>6 DEF RemoveForRecreate, FailHealth, CollectOrphan, Working
  <2>7. CASE \/ Operator \/ UNCHANGED vars
             \/ \E t \in Slots : \/ VMExits(t) \/ ForeignTakes(t)
                                 \/ ForeignLeaves(t) \/ BackoffElapses(t)
    BY <1>4, <2>7 DEF Operator, Apply, Schedule, Delete, FlipSecret, VMExits, ForeignTakes,
                      ForeignLeaves, BackoffElapses, vars
  <2>. QED
    BY <1>4, <2>4, <2>5, <2>6, <2>7 DEF Next, World, PassStep
<1>5. TypeOK /\ StaleAbsent /\ RInv /\ [Next]_vars =>
        [pass' # pass /\ pc # "health" =>
            \A s \in Slots : Satisfied(s) => vms'[s] = vms[s]]_vars
  BY <1>4
<1>. QED
  BY <1>1, <1>2, <1>3, <1>5, HashIsTruthful, StaleAreAbsent, PTL DEF Spec, NoNeedlessRecreate

(***************************************************************************)
(* NodeReconcile implements DesiredState, under the refinement mapping DS  *)
(* of NodeReconcile.                                                       *)
(***************************************************************************)

\* How each call changes the abstract box of the sandbox it is about.
Box(v) == IF Ours(v) THEN [spec |-> v.cfg.spec, up |-> Running(v)]
                     ELSE [spec |-> NoSpec, up |-> FALSE]

\* A removal takes the box away, stops it, or leaves it.
LEMMA RemoveBox ==
    ASSUME NEW v \in VMs, NEW r \in RemoveResults(v)
    PROVE  \/ Box(r.vm) = Box(v)
           \/ Box(r.vm) = DS!NoBox
           \/ Box(r.vm) = DS!Off(Box(v))
<1>1. r.vm \in {NoVM, v, Halted(v)}
  BY DEF RemoveResults, Result
<1>2. CASE r.vm = NoVM
  BY <1>2, NoVMFacts DEF Box, DS!NoBox
<1>3. CASE r.vm = Halted(v) /\ r.vm # v
  <2>1. ~Running(r.vm) /\ r.vm.cfg = v.cfg /\ r.vm.own = v.own
    BY <1>3, SamePhaseFacts
  <2>2. CASE Ours(v)
    <3>1. Box(v) = [spec |-> v.cfg.spec, up |-> Running(v)]  BY <2>2 DEF Box
    <3>2. Running(r.vm) = FALSE /\ Ours(r.vm)  BY <2>1, <2>2 DEF Ours
    <3>3. Box(r.vm) = [spec |-> v.cfg.spec, up |-> FALSE]  BY <2>1, <3>2, Zenon DEF Box
    <3>. QED  BY <3>1, <3>3 DEF DS!Off
  <2>3. CASE ~Ours(v)
    BY <2>1, <2>3 DEF Box, Ours
  <2>. QED  BY <2>2, <2>3
<1>. QED  BY <1>1, <1>2, <1>3

\* ensure_running leaves the box, takes it away, or brings the wanted spec up
\* where nothing was up.
LEMMA EnsureBox ==
    ASSUME NEW v \in VMs, NEW c \in Cfgs, NEW never \in BOOLEAN,
           NEW r \in EnsureResults(v, c, never),
           Ours(v) => v.cfg = c
    PROVE  \/ Box(r.vm) = Box(v)
           \/ Box(r.vm) = DS!NoBox
           \/ ~Running(v) /\ Box(r.vm) = [spec |-> c.spec, up |-> TRUE]
<1>1. \/ r.vm \in {v, NoVM}
      \/ ~Running(v) /\ r.vm = Fresh(c)
      \/ ~Running(v) /\ Ours(v) /\ r.vm = Started(v)
  <2>1. CASE Ours(v) /\ ~Running(v)
    <3>1. r.vm \in {v, NoVM, Fresh(c), Started(v)}
      BY <2>1 DEF EnsureResults, DownResults, FailedLookup, Result, Ours
    <3>. QED  BY <2>1, <3>1
  <2>2. CASE ~Ours(v) \/ Running(v)
    BY <2>2 DEF EnsureResults, FailedLookup, Result, Ours, VMs, Running
  <2>. QED  BY <2>1, <2>2
<1>2. CASE r.vm \in {v, NoVM}
  BY <1>2, NoVMFacts DEF Box, DS!NoBox
<1>3. CASE ~Running(v) /\ r.vm = Fresh(c)
  BY <1>3, FreshFacts DEF Box
<1>4. CASE ~Running(v) /\ Ours(v) /\ r.vm = Started(v)
  <2>1. r.vm.own = "ours" /\ r.vm.cfg = c /\ r.vm \in VMs
    BY <1>4, SamePhaseFacts DEF Ours
  <2>2. r.vm.phase = "running"
    BY <1>4 DEF Started, VMs
  <2>. QED  BY <1>4, <2>1, <2>2 DEF Box, Ours, Running
<1>. QED  BY <1>1, <1>2, <1>3, <1>4

\* The mapped variables.
IntentBar == [s \in Slots |-> IntentOf(s)]
PlanBar   == [s \in Slots |-> PlanOf(s)]
BoxBar    == [s \in Slots |-> BoxOf(s)]

\* The refinement mapping's box, sandbox by sandbox.
LEMMA BoxBarIs == BoxBar = [s \in Slots |-> Box(vms[s])]
  BY DEF BoxBar, BoxOf, Box

\* A step that changes one sandbox as a removal may is TakeDown or a stutter.
LEMMA TakeDownStep ==
    ASSUME TypeOK, NEW s \in Slots, NEW w,
           vms' = [vms EXCEPT ![s] = w],
           \/ Box(w) = Box(vms[s])
           \/ Box(w) = DS!NoBox
           \/ Box(w) = DS!Off(Box(vms[s])),
           PlanOf(s).kind \in {"gone", "run"},
           IntentBar' = IntentBar, PlanBar' = PlanBar
    PROVE  DS!TakeDown(s) \/ UNCHANGED DS!vars
<1>1. BoxBar' = [BoxBar EXCEPT ![s] = Box(w)]
  BY BoxBarIs DEF TypeOK, BoxBar, BoxOf, Box
<1>2. BoxBar[s] = Box(vms[s]) /\ PlanBar[s] = PlanOf(s) /\ BoxBar = [BoxBar EXCEPT ![s] = BoxBar[s]]
  BY DEF BoxBar, BoxOf, Box, PlanBar
<1>. QED
  BY <1>1, <1>2 DEF DS!TakeDown, DS!vars, IntentBar, PlanBar, BoxBar

\* A step that changes one sandbox as ensure_running may is BringUp, TakeDown or
\* a stutter.
LEMMA BringUpStep ==
    ASSUME TypeOK, NEW s \in Slots, NEW c \in Cfgs, NEW w,
           vms' = [vms EXCEPT ![s] = w],
           \/ Box(w) = Box(vms[s])
           \/ Box(w) = DS!NoBox
           \/ ~Running(vms[s]) /\ Box(w) = [spec |-> c.spec, up |-> TRUE],
           PlanOf(s).kind = "run", PlanOf(s).spec = c.spec,
           IntentBar' = IntentBar, PlanBar' = PlanBar
    PROVE  DS!TakeDown(s) \/ DS!BringUp(s) \/ UNCHANGED DS!vars
<1>1. BoxBar' = [BoxBar EXCEPT ![s] = Box(w)]
  BY BoxBarIs DEF TypeOK, BoxBar, BoxOf, Box
<1>2. BoxBar[s] = Box(vms[s]) /\ PlanBar[s] = PlanOf(s)
  BY DEF BoxBar, BoxOf, Box, PlanBar
<1>3. CASE ~Running(vms[s]) /\ Box(w) = [spec |-> c.spec, up |-> TRUE]
  <2>1. ~BoxBar[s].up
    BY <1>2, <1>3 DEF Box
  <2>. QED
    BY <1>1, <1>2, <1>3, <2>1 DEF DS!BringUp, IntentBar, PlanBar, BoxBar
<1>4. CASE Box(w) = Box(vms[s]) \/ Box(w) = DS!NoBox
  BY <1>4, TakeDownStep
<1>. QED  BY <1>3, <1>4

\* A step that leaves the snapshot's plan and the sandboxes alone only changes
\* what users ask for.
LEMMA IntentStep ==
    ASSUME TypeOK, TypeOK', UNCHANGED <<vms, pc, snap>>
    PROVE  DS!ChangeIntent
<1>1. PlanBar' = PlanBar /\ BoxBar' = BoxBar
  BY DEF PlanBar, PlanOf, BoxBar, BoxOf
<1>2. ASSUME NEW s \in Slots PROVE IntentOf(s)' \in Specs \cup {NoSpec}
  <2>1. rows'[s] \in Rows \cup {NoRow}  BY DEF TypeOK
  <2>. QED  BY <2>1 DEF IntentOf, Rows, NoRow
<1>. QED  BY <1>1, <1>2 DEF DS!ChangeIntent, PlanBar, BoxBar

\* A step that changes neither intents, plan nor sandboxes is a stutter.
LEMMA Stutter ==
    ASSUME IntentBar' = IntentBar, PlanBar' = PlanBar, BoxBar' = BoxBar
    PROVE  UNCHANGED DS!vars
  BY DEF DS!vars, IntentBar, PlanBar, BoxBar

\* Giving the plan up: the pass ends, aborts, or dies with the process.
LEMMA DropStep ==
    ASSUME pc' = "idle", UNCHANGED <<rows, vms>>
    PROVE  DS!DropPlan
<1>1. IntentBar' = IntentBar /\ BoxBar' = BoxBar
  BY DEF IntentBar, IntentOf, BoxBar, BoxOf
<1>2. \A s \in Slots : PlanOf(s)' = DS!NoPlan
  BY DEF PlanOf, DS!NoPlan
<1>. QED  BY <1>1, <1>2 DEF DS!DropPlan, IntentBar, BoxBar

\* The loop starts where DesiredState does.
LEMMA InitRefines == Init => DS!Init
<1> SUFFICES ASSUME Init PROVE DS!Init  OBVIOUS
<1>1. \A s \in Slots : IntentOf(s) = NoSpec /\ PlanOf(s) = DS!NoPlan
  BY DEF Init, IntentOf, PlanOf, NoRow, DS!NoPlan
<1>2. \A s \in Slots : BoxOf(s) = DS!NoBox
  BY NoVMFacts DEF Init, BoxOf, DS!NoBox
<1>. QED  BY <1>1, <1>2 DEF DS!Init

\* Every step of the loop is a step of DesiredState or a stutter.
LEMMA StepRefines ==
    ASSUME IInv, StaleAbsent, TypeOK', [Next]_vars
    PROVE  [DS!Next]_(DS!vars)
<1>0. /\ vms \in [Slots -> VMs] /\ snap \in [Slots -> Snaps \cup {Absent}]
      /\ stale \subseteq Slots /\ (cur \in NoRestart) \in BOOLEAN
      /\ pc \in Working => /\ cur \in Slots /\ want \in Cfgs
                           /\ snap[cur].kind = "desired"
      /\ TypeOK
  BY DEF IInv, TypeOK
<1>1. ASSUME NEW s \in Slots, VMExits(s) PROVE [DS!Next]_(DS!vars)
  <2>1. IntentBar' = IntentBar /\ PlanBar' = PlanBar
    BY <1>1 DEF VMExits, store, pass, IntentBar, IntentOf, PlanBar, PlanOf
  <2>2. PICK p \in {"stopped", "failed"} : vms' = [vms EXCEPT ![s] = [vms[s] EXCEPT !.phase = p]]
    BY <1>1 DEF VMExits
  <2> DEFINE w == [vms[s] EXCEPT !.phase = p]
  <2>3. w.cfg = vms[s].cfg /\ Ours(w) /\ Ours(vms[s]) /\ Running(vms[s])
    BY <1>0, <1>1, ExitFacts DEF VMExits, Running, Ours
  <2>4. Running(w) = FALSE
    BY <1>0 DEF Running, VMs
  <2>5. Box(w) = DS!Off(Box(vms[s]))
    <3>1. Box(w) = [spec |-> vms[s].cfg.spec, up |-> FALSE]
      BY <2>3, <2>4, Zenon DEF Box
    <3>. QED  BY <2>3, <3>1 DEF Box, DS!Off
  <2>6. Box(vms[s]).up
    BY <2>3, Zenon DEF Box
  <2>7. BoxBar' = [BoxBar EXCEPT ![s] = DS!Off(@)] /\ BoxBar[s].up
    BY <1>0, <2>2, <2>5, <2>6, BoxBarIs DEF BoxBar, BoxOf, Box
  <2>8. DS!Exit(s)
    BY <2>1, <2>7 DEF DS!Exit, IntentBar, PlanBar, BoxBar
  <2>. QED  BY <2>8 DEF DS!Next
<1>2. ASSUME NEW s \in Slots, ForeignTakes(s) \/ ForeignLeaves(s)
      PROVE  [DS!Next]_(DS!vars)
  <2>1. IntentBar' = IntentBar /\ PlanBar' = PlanBar
    BY <1>2 DEF ForeignTakes, ForeignLeaves, store, pass, IntentBar, IntentOf, PlanBar, PlanOf
  <2>2. \A t \in Slots : \/ vms'[t] = vms[t]
                         \/ ~Ours(vms'[t]) /\ ~Ours(vms[t])
    BY <1>0, <1>2, NoVMFacts DEF ForeignTakes, ForeignLeaves, Ours
  <2>3. BoxBar' = BoxBar
    BY <2>2, BoxBarIs DEF BoxBar, BoxOf, Box
  <2>. QED  BY <2>1, <2>3, Stutter
<1>3. CASE CrashRestart \/ EndPass
  BY <1>3, DropStep DEF CrashRestart, EndPass, store, DS!Next
<1>4. CASE StartPass
  <2>1. IntentBar' = IntentBar /\ PlanBar' = PlanBar /\ BoxBar' = BoxBar
    BY <1>4 DEF StartPass, store, IntentBar, IntentOf, PlanBar, PlanOf, BoxBar, BoxOf
  <2>. QED  BY <2>1, Stutter
<1>5. CASE BuildDesiredSet
  <2>1. IntentBar' = IntentBar /\ BoxBar' = BoxBar
    BY <1>5 DEF BuildDesiredSet, store, IntentBar, IntentOf, BoxBar, BoxOf
  <2>2. ASSUME NEW s \in Slots
        PROVE  PlanOf(s)' \in DS!Plans /\ PlanOf(s)' \in DS!PlansFor(IntentOf(s))
    <3>0. /\ pc' = "gc" /\ snap'[s] = Observe(s)
          /\ PlanOf(s)' = [kind |-> PlanKind(Observe(s).kind), spec |-> Observe(s).spec]
      BY <1>5 DEF BuildDesiredSet, PlanOf
    <3>1. rows[s] \in Rows \cup {NoRow}  BY <1>0 DEF TypeOK
    <3>2. CASE ~rows[s].bound
      BY <3>0, <3>2 DEF Observe, Absent, PlanKind, IntentOf, DS!PlansFor, DS!Plans
    <3>3. CASE rows[s].bound
      <4>1. rows[s].spec \in Specs  BY <3>1, <3>3 DEF Rows, NoRow
      <4>2. /\ Observe(s).kind \in {"desired", "failed"}
            /\ Observe(s).spec = rows[s].spec /\ IntentOf(s) = rows[s].spec
        BY <3>3 DEF Observe, IntentOf
      <4>. QED
        BY <3>0, <4>1, <4>2, SentinelsDiffer DEF PlanKind, DS!PlansFor, DS!Plans
    <3>. QED  BY <3>2, <3>3
  <2>3. DS!MakePlan
    BY <2>1, <2>2 DEF DS!MakePlan, IntentBar, BoxBar
  <2>. QED  BY <2>3 DEF DS!Next
<1>6. ASSUME NEW s \in Slots, CollectOrphan(s) PROVE [DS!Next]_(DS!vars)
  <2>1. IntentBar' = IntentBar /\ PlanBar' = PlanBar
    BY <1>6 DEF CollectOrphan, store, IntentBar, IntentOf, PlanBar, PlanOf
  <2>2. PICK r \in RemoveResults(vms[s]) : vms' = [vms EXCEPT ![s] = r.vm]
    BY <1>6 DEF CollectOrphan
  <2>3. PlanOf(s).kind = "gone"
    BY <1>6 DEF CollectOrphan, StaleAbsent, PlanOf, PlanKind
  <2>. QED  BY <1>0, <2>1, <2>2, <2>3, RemoveBox, TakeDownStep DEF DS!Next
<1>7. CASE FinishGC
  <2>1. CASE pc' = "idle"
    BY <1>7, <2>1, DropStep DEF FinishGC, store, DS!Next
  <2>2. CASE pc' = "next"
    <3>1. IntentBar' = IntentBar /\ PlanBar' = PlanBar /\ BoxBar' = BoxBar
      BY <1>7, <2>2 DEF FinishGC, store, IntentBar, IntentOf, PlanBar, PlanOf, BoxBar, BoxOf
    <3>. QED  BY <3>1, Stutter
  <2>. QED  BY <1>7, <2>1, <2>2 DEF FinishGC
<1>8. ASSUME NEW s \in Slots, PrepareInstance(s) PROVE [DS!Next]_(DS!vars)
  <2>1. pc = "next" /\ pc' \in {"next", "remove", "ensure"} /\ UNCHANGED <<rows, snap, vms>>
    BY <1>8 DEF PrepareInstance, store
  <2>2. IntentBar' = IntentBar /\ PlanBar' = PlanBar /\ BoxBar' = BoxBar
    BY <2>1 DEF IntentBar, IntentOf, PlanBar, PlanOf, BoxBar, BoxOf
  <2>. QED  BY <2>2, Stutter
<1>9. pc \in Working => PlanOf(cur).kind = "run" /\ PlanOf(cur).spec = want.spec
  BY <1>0 DEF PlanOf, PlanKind, Working, IInv, TurnConsistent
<1>10. CASE RemoveForRecreate \/ FailHealth
  <2>1. pc \in {"remove", "health"} /\ pc' \in Working \cup {"next"} /\ UNCHANGED <<rows, snap>>
    BY <1>10 DEF RemoveForRecreate, FailHealth, LeaveInstance, store, Working
  <2>2. IntentBar' = IntentBar /\ PlanBar' = PlanBar
    BY <2>1 DEF IntentBar, IntentOf, PlanBar, PlanOf, Working
  <2>3. PICK r \in RemoveResults(vms[cur]) : vms' = [vms EXCEPT ![cur] = r.vm]
    BY <1>10 DEF RemoveForRecreate, FailHealth
  <2>4. cur \in Slots /\ PlanOf(cur).kind = "run"
    BY <1>0, <1>9, <2>1 DEF Working
  <2>. QED  BY <1>0, <2>2, <2>3, <2>4, RemoveBox, TakeDownStep DEF DS!Next
<1>11. CASE EnsureInstance \/ ReviveUnhealthy
  <2>1. /\ pc \in {"ensure", "revive"} /\ pc' \in {"persist", "next"}
        /\ UNCHANGED <<rows, snap>>
    BY <1>11 DEF EnsureInstance, ReviveUnhealthy, LeaveInstance, store
  <2>2. IntentBar' = IntentBar /\ PlanBar' = PlanBar
    BY <2>1 DEF IntentBar, IntentOf, PlanBar, PlanOf
  <2>3. PICK never \in BOOLEAN :
           \E r \in EnsureResults(vms[cur], want, never) : vms' = [vms EXCEPT ![cur] = r.vm]
    <3>1. CASE EnsureInstance
      <4>1. \E r \in EnsureResults(vms[cur], want, cur \in NoRestart) :
               vms' = [vms EXCEPT ![cur] = r.vm]
        BY <3>1 DEF EnsureInstance
      <4>. QED  BY <1>0, <4>1
    <3>2. CASE ReviveUnhealthy
      BY <3>2 DEF ReviveUnhealthy
    <3>. QED  BY <1>11, <3>1, <3>2
  <2>4. PICK r \in EnsureResults(vms[cur], want, never) : vms' = [vms EXCEPT ![cur] = r.vm]
    BY <2>3
  <2>5. /\ cur \in Slots /\ want \in Cfgs /\ vms[cur] \in VMs
        /\ PlanOf(cur).kind = "run" /\ PlanOf(cur).spec = want.spec
        /\ Ours(vms[cur]) => vms[cur].cfg = want
    BY <1>0, <1>9, <2>1 DEF Working, IInv, TurnConsistent
  <2>6. \/ Box(r.vm) = Box(vms[cur])
        \/ Box(r.vm) = DS!NoBox
        \/ ~Running(vms[cur]) /\ Box(r.vm) = [spec |-> want.spec, up |-> TRUE]
    BY <2>5, EnsureBox
  <2>7. DS!TakeDown(cur) \/ DS!BringUp(cur) \/ UNCHANGED DS!vars
    BY <1>0, <2>2, <2>4, <2>5, <2>6, BringUpStep
  <2>. QED  BY <2>5, <2>7 DEF DS!Next
<1>12. CASE PersistHash
  <2>1. /\ pc = "persist" /\ pc' = "health" /\ UNCHANGED <<vms, snap>>
        /\ \/ UNCHANGED rows
           \/ rows' = [rows EXCEPT ![cur].applied = want] /\ rows[cur].id = snap[cur].id
    BY <1>12 DEF PersistHash
  <2>2. \A s \in Slots : rows'[s].bound = rows[s].bound /\ rows'[s].spec = rows[s].spec
    <3>1. cur \in Slots /\ rows \in [Slots -> Rows \cup {NoRow}]
      BY <1>0, <2>1 DEF Working, TypeOK
    <3>2. rows[cur] \in Rows \/ rows[cur] = NoRow  BY <3>1
    <3>3. LET w == [rows[cur] EXCEPT !.applied = want]
          IN  w.bound = rows[cur].bound /\ w.spec = rows[cur].spec
      BY <3>2 DEF Rows, NoRow
    <3>. QED  BY <2>1, <3>1, <3>3
  <2>3. IntentBar' = IntentBar /\ PlanBar' = PlanBar /\ BoxBar' = BoxBar
    BY <2>1, <2>2 DEF IntentBar, IntentOf, PlanBar, PlanOf, BoxBar, BoxOf
  <2>. QED  BY <2>3, Stutter
<1>13. CASE PassHealth
  <2>1. pc = "health" /\ pc' = "next" /\ UNCHANGED <<rows, snap, vms>>
    BY <1>13 DEF PassHealth, LeaveInstance, store
  <2>2. IntentBar' = IntentBar /\ PlanBar' = PlanBar /\ BoxBar' = BoxBar
    BY <2>1 DEF IntentBar, IntentOf, PlanBar, PlanOf, BoxBar, BoxOf
  <2>. QED  BY <2>2, Stutter
<1>14. CASE \/ Operator \/ UNCHANGED vars
            \/ \E s \in Slots : BackoffElapses(s) \/ HoldInstance(s)
  <2>1. UNCHANGED <<vms, pc, snap>>
    BY <1>14 DEF Operator, Apply, Schedule, Delete, FlipSecret, BackoffElapses, HoldInstance,
                 vars, memory, pass
  <2>. QED  BY <1>0, <2>1, IntentStep DEF DS!Next
<1>. QED
  BY <1>1, <1>2, <1>3, <1>4, <1>5, <1>6, <1>7, <1>8, <1>10, <1>11, <1>12, <1>13, <1>14
     DEF Next, Operator, World, PassStep

\* The loop implements the plan it samples: nothing is brought up or taken down
\* but as a snapshot of the users' intents says, through failures and crashes.
THEOREM Refines ==
    ASSUME ~GetFails, ~TornWrites
    PROVE  Spec => ImplementsDesiredState
<1>1. IInv /\ IInv' /\ StaleAbsent /\ [Next]_vars => [DS!Next]_(DS!vars)
  BY StepRefines DEF IInv
<1>. QED
  BY <1>1, InitRefines, HashIsTruthful, StaleAreAbsent, PTL
     DEF Spec, ImplementsDesiredState, DS!Spec
=============================================================================
