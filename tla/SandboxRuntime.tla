--------------------------- MODULE SandboxRuntime ---------------------------
(***************************************************************************)
(* The microVM backend as the node loop sees it: who holds a sandbox name, *)
(* and every way `ensure_removed` and `ensure_running`                     *)
(* (crates/mc2-runtime/src/msb_sdk.rs) can end.  The microsandbox SDK is   *)
(* external; what an SDK call may do is taken from how msb_sdk.rs handles  *)
(* its results.  `Starting` is folded into "running".                      *)
(***************************************************************************)
CONSTANTS
    Specs,      \* service specifications (the create-time part of one)
    Ports,      \* ephemeral host ports an expose may be published on
    NoSpec,
    NoPort,
    GetFails    \* TRUE when `Sandbox::get` may fail for a sandbox that exists

ASSUME SentinelsDiffer == NoSpec \notin Specs /\ NoPort \notin Ports
ASSUME GetFailsIsBoolean == GetFails \in BOOLEAN

\* Create-time configuration: what desired_recreate_hash fingerprints.
Cfgs  == [spec : Specs, port : Ports \cup {NoPort}]
NoCfg == [spec |-> NoSpec, port |-> NoPort]

\* A sandbox name: free, held by this install, or held by someone else.
VMs  == [own   : {"none", "ours", "foreign"},
         cfg   : Cfgs \cup {NoCfg},
         phase : {"none", "running", "stopped", "failed"}]
NoVM      == [own |-> "none",    cfg |-> NoCfg, phase |-> "none"]
ForeignVM == [own |-> "foreign", cfg |-> NoCfg, phase |-> "running"]
Fresh(c)  == [own |-> "ours",    cfg |-> c,     phase |-> "running"]

Started(v) == [v EXCEPT !.phase = "running"]
Halted(v)  == IF v.phase = "running" THEN [v EXCEPT !.phase = "stopped"] ELSE v

Ours(v)    == v.own = "ours"
Running(v) == v.own = "ours" /\ v.phase = "running"

\* The VM a call leaves behind, how the call ended, and whether it took a
\* failure of the backend to end that way.
Result(v, outcome, fault) == [vm |-> v, outcome |-> outcome, fault |-> fault]

\* Mutations for the checks: a remove error that is only logged; a removal that
\* does not look at the install label.
RemoveResultsErrorIgnored(v) ==
    IF Ours(v) THEN {Result(NoVM, "Ok", FALSE), Result(v, "Ok", TRUE)}
               ELSE {Result(v, "Ok", FALSE)}
RemoveResultsAnyOwner(v) == {Result(NoVM, "Ok", FALSE)}

\* ensure_removed: a free or foreign name is success and nothing is touched;
\* our own sandbox is stopped and removed, and a failing remove may come after
\* the stop.  `lookup` reports a failing `Sandbox::get` as "no such sandbox".
RemoveResults(v) ==
    IF Ours(v)
    THEN {Result(NoVM, "Ok", FALSE)}
         \cup {Result(v, "Err", TRUE), Result(Halted(v), "Err", TRUE)}
         \cup {r \in {Result(v, "Ok", TRUE)} : GetFails}
    ELSE {Result(v, "Ok", FALSE)}

\* action_for_phase, for a sandbox of ours that is not running.
RestartAction(phase, never) ==
    IF never THEN "Leave" ELSE IF phase = "stopped" THEN "Start" ELSE "Recreate"

\* ensure_running on a sandbox of ours that is not running: a stopped one is
\* started as it is (and replaced when that fails), a crashed one replaced.
DownResults(v, c, never) ==
    IF RestartAction(v.phase, never) = "Leave"
    THEN {Result(v, "Left", FALSE)}
    ELSE {Result(IF RestartAction(v.phase, never) = "Start"
                 THEN Started(v) ELSE Fresh(c),
                 "Restarted", FALSE),
          Result(Fresh(c), "Restarted", TRUE),
          Result(NoVM, "Err", TRUE)}

\* A call that fails before it changes anything.
FailedLookup(v) == {r \in {Result(v, "Err", TRUE)} : Ours(v) /\ GetFails}

\* ensure_running for configuration c.  The configuration of a sandbox that
\* exists is never compared with c.
EnsureResults(v, c, never) ==
    FailedLookup(v) \cup
    IF v.own = "foreign" THEN {Result(v, "Err", FALSE)}
    ELSE IF v.own = "none" THEN {Result(Fresh(c), "Created", FALSE), Result(v, "Err", TRUE)}
    ELSE IF Running(v) THEN {Result(v, "AlreadyRunning", FALSE)}
    ELSE DownResults(v, c, never) \cup {r \in {Result(v, "Err", TRUE)} : ~never}
=============================================================================
