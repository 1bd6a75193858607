-------------------------- MODULE InstanceLifecycle --------------------------
(***************************************************************************)
(* One instance over time (crates/mc2-server/src/node/lifecycle.rs,        *)
(* health.rs and state.rs, crates/mc2-runtime/src/restart.rs): the restart *)
(* backoff, the sustained-running clock, and the health probe that runs in *)
(* a task of its own while passes come and go and the VM lives and dies.   *)
(*                                                                         *)
(* Time is counted in ticks.  A pass reads the clock once, at its start    *)
(* (node/mod.rs:224), and everything it writes is relative to that reading;*)
(* `st` is what the process remembers as of that reading, `lag` how old it *)
(* is.                                                                     *)
(***************************************************************************)
EXTENDS Integers, Sequences

CONSTANTS
    BackoffSecs,   \* <<2, 5, 15, 30>>: the wait after the 1st, 2nd, ... restart
    Sustained,     \* 60: running for so long clears the restart count
    Interval, Retries, StartPeriod,   \* the healthcheck
    Policies,      \* may the policy be `restart: no`?  A set of answers
    Exposes,       \* does the service expose ports?
    MaxLag,        \* bound on the ticks one pass takes; it may be more than Sustained
    MaxFaults      \* bound on backend failures and server crashes

ASSUME LifecycleConstants ==
    /\ BackoffSecs \in Seq(Nat \ {0}) /\ Len(BackoffSecs) > 0
    /\ \A j, k \in DOMAIN BackoffSecs : j <= k => BackoffSecs[j] <= BackoffSecs[k]
    /\ Sustained \in Nat \ {0} /\ Interval \in Nat \ {0} /\ Retries \in Nat \ {0}
    /\ StartPeriod \in 0..Sustained
    /\ Policies \subseteq BOOLEAN /\ Exposes \in BOOLEAN
    /\ MaxLag \in Nat /\ MaxFaults \in Nat

VARIABLES
    vm,       \* phase of the sandbox, "none" when there is none
    never,    \* is the policy `restart: no`?
    changed,  \* does the sandbox differ from what the next snapshot asks for?
    pc,       \* where the pass is in the instance's turn
    lag,      \* ticks since the pass read the clock
    st,       \* InstanceRuntimeState
    report,   \* what the last turn reported
    past,     \* what really happened to the VM (history, read by no action)
    faults

vars == <<vm, never, changed, pc, lag, st, report, past, faults>>

Unset == -1
Age(t, d, most) == IF t = Unset THEN Unset ELSE IF t + d < most THEN t + d ELSE most

Least(n) == IF n < Sustained THEN n ELSE Sustained

MaxCount == Len(BackoffSecs)
Longest  == BackoffSecs[MaxCount]

\* backoff_secs, whose last wait repeats.
Wait(count) == IF count = 0 THEN 0 ELSE BackoffSecs[count]
More(count) == IF count < MaxCount THEN count + 1 ELSE MaxCount

\* health_probe: `fresh` while its generation is health_generation; `own` (history)
\* while the VM it was started for is still the one that runs.
Probes == [fresh : BOOLEAN, own : BOOLEAN,
           result : {"none", "running", "pass", "fail", "died"}]
NoProbe == [fresh |-> FALSE, own |-> FALSE, result |-> "none"]
NewProbe == [fresh |-> TRUE, own |-> TRUE, result |-> "running"]

\* restart_count, next_restart_ok (as what is left), running_since and last_health
\* (as ages), health_ok, health_failures (up to Retries), health_probe.
States == [count : 0..MaxCount, wait : 0..Longest, since : Unset..Sustained,
           probed : Unset..Interval, ok : BOOLEAN, failures : 0..Retries,
           probe : Probes]
Blank == [count |-> 0, wait |-> 0, since |-> Unset, probed |-> Unset,
          ok |-> FALSE, failures |-> 0, probe |-> NoProbe]

\* Ticks since the pass that booted this VM began, and since the one of the last
\* restart; restarts since a pass last found it sustained; is it down, or has it been
\* removed for its health, with no restart tried since?
\* Did a probe of this VM pass, and how many of them failed?
Pasts == [up : 0..Sustained, tried : 0..(Longest + MaxLag), tries : 0..MaxCount,
          died : BOOLEAN, passed : BOOLEAN, failures : 0..Retries]
Nothing == [up |-> 0, tried |-> 0, tries |-> 0, died |-> FALSE,
            passed |-> FALSE, failures |-> 0]

TypeOK ==
    /\ vm \in {"none", "creating", "running", "stopped", "failed"}
    /\ never \in Policies
    /\ changed \in BOOLEAN
    /\ pc \in {"idle", "turn", "remove", "ensure", "health", "revive", "done"}
    /\ lag \in 0..MaxLag
    /\ st \in States
    /\ report \in {"none", "held", "down", "up", "healthy", "unhealthy"}
    /\ past \in Pasts
    /\ faults \in 0..MaxFaults
    /\ pc = "idle" => lag = 0

Init ==
    /\ vm = "none"
    /\ never \in Policies
    /\ changed = FALSE
    /\ pc = "idle"
    /\ lag = 0
    /\ st = Blank
    /\ report = "none"
    /\ past = Nothing
    /\ faults = 0

Fault == faults < MaxFaults /\ faults' = faults + 1

-----------------------------------------------------------------------------
(***************************************************************************)
(* Time, the VM and the probe task.                                        *)
(***************************************************************************)
Aged(s, d) == [s EXCEPT !.wait = IF @ < d THEN 0 ELSE @ - d,
                        !.since = Age(@, d, Sustained),
                        !.probed = Age(@, d, Interval)]

Tick ==
    /\ \/ /\ pc = "idle"
          /\ st' = Aged(st, 1)
          /\ UNCHANGED lag
       \/ /\ pc # "idle" /\ lag < MaxLag
          /\ lag' = lag + 1
          /\ UNCHANGED st
    /\ past' = [past EXCEPT !.up = Age(@, 1, Sustained),
                            !.tried = Age(@, 1, Longest + MaxLag)]
    /\ UNCHANGED <<vm, never, changed, pc, report, faults>>

\* A booting VM comes up.
VMComesUp ==
    /\ vm = "creating"
    /\ vm' = "running"
    /\ UNCHANGED <<never, changed, pc, lag, st, report, past, faults>>

\* Its command exits, or it crashes.
VMExits ==
    /\ vm \in {"creating", "running"}
    /\ vm' \in {"stopped", "failed"}
    /\ past' = [past EXCEPT !.died = TRUE]
    /\ UNCHANGED <<never, changed, pc, lag, st, report, faults>>

\* The task of spawn_probe ends: the command's verdict, its deadline, or a task
\* that died without sending anything.
ProbeEnds ==
    /\ st.probe.result = "running"
    /\ \E r \in {"pass", "fail", "died"} :
          /\ r = "pass" => vm = "running"
          /\ st' = [st EXCEPT !.probe.result = r]
          /\ past' = IF ~st.probe.own THEN past
                     ELSE IF r = "pass" THEN [past EXCEPT !.passed = TRUE]
                     ELSE [past EXCEPT !.failures = IF @ < Retries THEN @ + 1 ELSE @]
    /\ UNCHANGED <<vm, never, changed, pc, lag, report, faults>>

\* An apply, or a change of ports, asks for another configuration; the policy is
\* part of it.
ConfigChanges ==
    /\ pc = "idle"
    /\ vm # "none"
    /\ changed' = TRUE
    /\ never' \in Policies
    /\ UNCHANGED <<vm, pc, lag, st, report, past, faults>>

\* The server dies and starts again; its backoff is not persisted.
CrashRestart ==
    /\ Fault
    /\ st' = Blank
    /\ pc' = "idle"
    /\ lag' = 0
    /\ report' = "none"
    /\ past' = [past EXCEPT !.tries = 0, !.died = @ /\ vm # "none"]
    /\ UNCHANGED <<vm, never, changed>>

-----------------------------------------------------------------------------
(***************************************************************************)
(* The instance's turn in a pass.                                          *)
(***************************************************************************)

\* Running, with Sustained ticks between the start of the pass that booted it and
\* the start of this one: whatever went before is forgiven.  That is what the code
\* counts: `now` is read once per pass, so a VM that a slow pass boots at its end
\* is forgiven before it has itself run for so long.
Forgiven(p) == IF vm = "running" /\ p.up = Sustained THEN [p EXCEPT !.tries = 0] ELSE p

StartPass ==
    /\ pc = "idle"
    /\ pc' = "turn"
    /\ past' = Forgiven(past)
    /\ UNCHANGED <<vm, never, changed, lag, st, report, faults>>

\* The backoff gate.
Backoff ==
    /\ pc = "turn"
    /\ st.wait > 0
    /\ pc' = "done"
    /\ report' = "held"
    /\ UNCHANGED <<vm, never, changed, lag, st, past, faults>>

\* recreate_decision and, for an exposing service, host_ports_accepting.
BeginTurn ==
    /\ pc = "turn"
    /\ st.wait = 0
    /\ pc' = IF changed \/ (Exposes /\ vm # "running") THEN "remove" ELSE "ensure"
    /\ UNCHANGED <<vm, never, changed, lag, st, report, past, faults>>

\* reset_health: the probe in flight is of an earlier generation from now on.
ResetHealthKeepsProbe(s) == [s EXCEPT !.probed = Unset, !.ok = FALSE, !.failures = 0]  \* mutation
ResetHealth(s) == [s EXCEPT !.probed = Unset, !.ok = FALSE, !.failures = 0,
                            !.probe.fresh = FALSE]

\* One more restart: count it, and wait from the pass's `now` on.
Penalize(s) == LET n == More(s.count) IN [s EXCEPT !.count = n, !.wait = Wait(n)]

Down == {"none", "stopped", "failed"}

\* One more try after the VM went down, since when `died` holds; a create that
\* follows a failed one is the same restart.
Tried(p) == IF never THEN p ELSE [p EXCEPT !.tried = lag, !.tries = More(@)]

\* A new VM, or none after a failed call.
Boot(phase) ==
    /\ vm' = phase
    /\ LET p == IF past.died THEN Tried(past) ELSE past
       IN past' = [Nothing EXCEPT !.up = Least(lag), !.tried = p.tried, !.tries = p.tries,
                                  !.died = phase \in Down]
BootFails ==
    past' = IF vm \in Down THEN [Tried(past) EXCEPT !.died = vm' # "none"] ELSE past

\* The probe of the VM that was there is not the next VM's.
Disown(s) == [s EXCEPT !.probe.own = FALSE]

RemoveForRecreate ==
    /\ pc = "remove"
    /\ \/ /\ vm' = "none"
          /\ st' = [Disown(ResetHealth(st)) EXCEPT !.since = Unset]
          /\ past' = [past EXCEPT !.died = @ /\ ~changed]
          /\ changed' = FALSE
          /\ pc' = "ensure"
          /\ UNCHANGED <<report, faults>>
       \/ /\ Fault
          /\ pc' = "done"
          /\ report' = "down"
          /\ UNCHANGED <<vm, changed, st, past>>
    /\ UNCHANGED <<never, lag>>

\* ensure_running answered.  A restart by the backend is a new generation and is
\* penalized; the first sighting of a running VM starts its clocks at this pass's
\* `now`; one seen Sustained ticks after that has its restarts forgotten.
RestartedUncounted(s, phase) ==                                   \* mutation
    [ResetHealth(s) EXCEPT !.since = IF phase = "running" THEN 0 ELSE Unset]
Restarted(s, phase) ==
    LET r == [ResetHealth(s) EXCEPT !.since = IF phase = "running" THEN 0 ELSE Unset]
    IN IF never THEN r ELSE Penalize(r)

SightedTooSoon(s, phase) ==                                       \* mutation
    IF phase # "running" THEN s
    ELSE IF s.since = Unset THEN [ResetHealth(s) EXCEPT !.since = 0]
    ELSE [s EXCEPT !.count = 0, !.wait = 0]
SightedKeepsClock(s, phase) ==                                    \* mutation
    IF phase = "running" /\ s.since = Unset THEN [s EXCEPT !.since = Sustained] ELSE s
Sighted(s, phase) ==
    IF phase # "running" THEN [s EXCEPT !.since = Unset]
    ELSE IF s.since = Unset THEN [ResetHealth(s) EXCEPT !.since = 0]
    ELSE IF s.since >= Sustained THEN [s EXCEPT !.count = 0, !.wait = 0]
    ELSE s

Ensured(s, phase) ==
    /\ st' = Sighted(s, phase)
    /\ pc' = IF phase = "running" THEN "health" ELSE "done"
    /\ report' = IF phase = "running" THEN report ELSE "down"

\* What a sandbox just booted may be seen doing.
Booted == {"creating", "running", "stopped", "failed"}

EnsureLeavesFailed ==                                             \* mutation
    /\ pc = "ensure"
    /\ vm # "none" /\ (vm # "stopped" \/ never)
    /\ Ensured(st, vm)
    /\ UNCHANGED <<vm, never, changed, lag, past, faults>>
EnsureLeaves ==
    /\ pc = "ensure"
    /\ vm \in {"creating", "running"} \/ (vm # "none" /\ never)
    /\ Ensured(st, vm)
    /\ UNCHANGED <<vm, never, changed, lag, past, faults>>

EnsureCreates ==
    /\ pc = "ensure"
    /\ vm = "none"
    /\ \E phase \in Booted : Boot(phase) /\ Ensured(Disown(st), phase)
    /\ UNCHANGED <<never, changed, lag, faults>>

EnsureRestarts ==
    /\ pc = "ensure"
    /\ vm \in {"stopped", "failed"}
    /\ ~never
    /\ \E phase \in Booted : Boot(phase) /\ Ensured(Restarted(Disown(st), phase), phase)
    /\ UNCHANGED <<never, changed, lag, faults>>

\* It failed: before it did anything, or after it removed a sandbox that was down.
EnsureFails ==
    /\ pc = "ensure"
    /\ Fault
    /\ vm' \in {vm} \cup (IF vm \in {"stopped", "failed"} /\ ~never
                         THEN {"none"} ELSE {})
    /\ st' = IF never THEN st ELSE [Penalize(st) EXCEPT !.since = Unset]
    /\ pc' = "done"
    /\ report' = "down"
    /\ BootFails
    /\ UNCHANGED <<never, changed, lag>>

-----------------------------------------------------------------------------
(***************************************************************************)
(* run_healthcheck.                                                        *)
(***************************************************************************)

\* discard_stale_probe and take_completed_probe.
Probe == IF st.probe.fresh THEN st.probe ELSE NoProbe
CompletedIfSent == Probe.result \in {"pass", "fail"}              \* mutation
Completed == Probe.result \notin {"none", "running"}

ProbeDue == Probe.result = "none" /\ st.probed \in {Unset, Interval}

Healthy(ok) == IF ok THEN "healthy" ELSE "up"

SpawnProbe ==
    /\ pc = "health"
    /\ ProbeDue
    /\ st' = [st EXCEPT !.probed = 0,
                        !.probe = NewProbe]
    /\ pc' = "done"
    /\ report' = Healthy(st.ok)
    /\ UNCHANGED <<vm, never, changed, lag, past, faults>>

AwaitProbe ==
    /\ pc = "health"
    /\ ~Completed /\ ~ProbeDue
    /\ st' = [st EXCEPT !.probe = Probe]
    /\ pc' = "done"
    /\ report' = Healthy(st.ok)
    /\ UNCHANGED <<vm, never, changed, lag, past, faults>>

ProbePassed ==
    /\ pc = "health"
    /\ Completed /\ Probe.result = "pass"
    /\ st' = [st EXCEPT !.probe = NoProbe, !.ok = TRUE, !.failures = 0]
    /\ pc' = "done"
    /\ report' = "healthy"
    /\ UNCHANGED <<vm, never, changed, lag, past, faults>>

InStartPeriod == st.since # Unset /\ st.since < StartPeriod
Failures == IF InStartPeriod THEN st.failures
            ELSE IF st.failures < Retries THEN st.failures + 1 ELSE Retries

ProbeFailed ==
    /\ pc = "health"
    /\ Completed /\ Probe.result # "pass"
    /\ InStartPeriod \/ Failures < Retries
    /\ st' = [st EXCEPT !.probe = NoProbe, !.ok = FALSE, !.failures = Failures]
    /\ pc' = "done"
    /\ report' = "up"
    /\ UNCHANGED <<vm, never, changed, lag, past, faults>>

PastRetries == Completed /\ Probe.result # "pass" /\ ~InStartPeriod /\ Failures >= Retries

\* handle_health_failure: `restart: no` only reports it ...
ReportUnhealthy ==
    /\ pc = "health"
    /\ PastRetries
    /\ never
    /\ st' = [st EXCEPT !.probe = NoProbe, !.ok = FALSE, !.failures = Retries]
    /\ pc' = "done"
    /\ report' = "unhealthy"
    /\ UNCHANGED <<vm, never, changed, lag, past, faults>>

\* ... any other policy removes the VM, whether or not that works, and creates it
\* again.
RemoveUnhealthy ==
    /\ pc = "health"
    /\ PastRetries
    /\ ~never
    /\ st' = [Penalize(ResetHealth([st EXCEPT !.probe = NoProbe])) EXCEPT !.since = Unset]
    /\ pc' = "revive"
    /\ \/ /\ vm' = "none"
          /\ past' = [past EXCEPT !.died = TRUE]
          /\ UNCHANGED faults
       \/ /\ Fault
          /\ UNCHANGED <<vm, past>>
    /\ UNCHANGED <<never, changed, lag, report>>

Revive ==
    /\ pc = "revive"
    /\ \/ /\ vm \in {"creating", "running"}
          /\ report' = IF vm = "running" THEN "up" ELSE "down"
          /\ UNCHANGED <<vm, past, faults>>
       \/ /\ vm \notin {"creating", "running"}
          /\ \E phase \in Booted :
                /\ Boot(phase)
                /\ report' = IF phase = "running" THEN "up" ELSE "down"
          /\ UNCHANGED faults
       \/ /\ Fault
          /\ vm' \in {vm} \cup (IF vm \in {"stopped", "failed"} THEN {"none"} ELSE {})
          /\ report' = "down"
          /\ BootFails
    /\ pc' = "done"
    /\ UNCHANGED <<never, changed, lag, st>>

\* The pass ends.
EndPass ==
    /\ pc = "done"
    /\ pc' = "idle"
    /\ st' = Aged(st, lag)
    /\ lag' = 0
    /\ UNCHANGED <<vm, never, changed, report, past, faults>>

-----------------------------------------------------------------------------
Turn == \/ Backoff \/ BeginTurn \/ RemoveForRecreate
        \/ EnsureLeaves \/ EnsureCreates \/ EnsureRestarts \/ EnsureFails
        \/ SpawnProbe \/ AwaitProbe \/ ProbePassed \/ ProbeFailed
        \/ ReportUnhealthy \/ RemoveUnhealthy \/ Revive

PassStep == StartPass \/ Turn \/ EndPass

World == Tick \/ VMComesUp \/ VMExits \/ ProbeEnds \/ ConfigChanges \/ CrashRestart

Next == PassStep \/ World

Spec == Init /\ [][Next]_vars

\* Time passes, the ticker keeps starting passes and a pass keeps advancing; a
\* probe ends at its deadline at the latest (health.rs:44-52).
FairSpec == /\ Spec
            /\ WF_vars(Tick) /\ WF_vars(PassStep) /\ WF_vars(ProbeEnds)

-----------------------------------------------------------------------------
(***************************************************************************)
(* Properties.                                                             *)
(***************************************************************************)

\* Tries to bring the instance up again after it went down are spaced by the
\* backoff, from the start of a pass to the start of a pass, until a pass begins with
\* it running and 60 s after the start of the pass that booted it: however long the
\* passes take, a crash loop, a failing create or a failing healthcheck cannot
\* restart it on every pass (B10; lifecycle.rs:256-308, 364-374, services.mdx:99).
Attempts == /\ pc \in {"ensure", "revive"} /\ pc' \in {"health", "done"}
            /\ vm \in Down /\ ~never
RestartsSpaced ==
    [][Attempts => past.tried - lag >= Wait(past.tries)]_vars

\* What is reported healthy is: the VM that runs, and not the one before it, passed
\* a probe (B6b; state.rs:46-55, health.rs:60-70).
HealthyIsTrue == pc = "done" /\ report = "healthy" => past.passed

\* A VM is taken down, or reported unhealthy, only after it failed `retries` probes
\* itself, at least one of them after its start period (B6b; health.rs:185-224).
OnlyUnhealthyReplaced ==
    [][pc = "health" /\ (pc' = "revive" \/ (pc' = "done" /\ report' = "unhealthy")) =>
          past.failures >= Retries /\ past.up >= StartPeriod]_vars

\* Why they hold.  The clock of st.since runs for the VM that is there, and what st
\* says of health is about that VM ...
ClocksMatch ==
    /\ vm = "none" \/ pc = "revive" => st.since = Unset
    /\ pc = "health" => st.since # Unset
    /\ st.since # Unset => vm # "creating" /\ past.up >= Least(st.since + lag)
    /\ past.up >= Least(lag)

HealthMatches ==
    /\ st.probe.own /\ st.probe.result = "pass" => past.passed
    /\ pc = "revive" => st.probe = NoProbe
    /\ st.since # Unset =>
          /\ st.ok => past.passed
          /\ st.probe.fresh /\ st.probe.result # "none" => st.probe.own
          /\ past.failures >= st.failures
          /\ st.probe.fresh /\ st.probe.result \in {"fail", "died"} =>
                past.failures = Retries \/ past.failures > st.failures

\* ... and what it says of restarts is at least what happened.
RestartsMatch ==
    /\ past.tries <= st.count
    /\ past.tried - lag + st.wait >= Wait(past.tries)
    /\ pc \in {"remove", "ensure"} => st.wait = 0
    /\ pc = "remove" => changed
    /\ pc = "health" /\ st.wait > 0 => ~st.probe.fresh
    /\ pc = "revive" =>
          /\ More(past.tries) <= st.count /\ st.wait = Wait(st.count)
          /\ past.tried - lag >= Wait(past.tries)
    /\ vm = "none" /\ pc # "revive" => ~past.died
    /\ pc \in {"turn", "remove", "ensure"} /\ vm = "running" /\ st.since >= Sustained =>
          past.tries = 0

\* The inductive invariant behind the properties above (state.rs:22-57,
\* lifecycle.rs:180-308, 364-378).
LInv ==
    /\ TypeOK
    /\ ClocksMatch
    /\ HealthMatches
    /\ HealthyIsTrue
    /\ ~Exposes => RestartsMatch

\* Under a restart policy an instance is never given up: whatever it and the
\* backend did before, once the sandboxes that are booted come up it is up again,
\* however often it goes down (restart.rs:38-67, lifecycle.rs:256-268, 364-374).
Up == {"creating", "running"}
Revived ==
    <>[](~never) /\ <>[][EnsureCreates \/ EnsureRestarts \/ Revive => vm' \in Up]_vars
    => []<>(vm \in Up)

\* A VM that stays up and passes its probes from some time on is reported healthy
\* from some time on, whatever became of the probes before (health.rs:74-93).
BecomesHealthy ==
    <>[](vm = "running" /\ ~changed) /\ <>[][ProbeEnds => st'.probe.result = "pass"]_vars
    => <>[](report = "healthy")
=============================================================================
