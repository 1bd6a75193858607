---------------------------- MODULE DesiredState ----------------------------
(***************************************************************************)
(* What the node loop promises, without how: users state an intent per     *)
(* slot, the controller samples the intents into a plan, and microVMs only *)
(* ever come up, or are taken down, as the plan in force says.             *)
(***************************************************************************)
CONSTANTS Slots, Specs, NoSpec

VARIABLES
    intent,   \* the spec each slot is asked to run, NoSpec for none
    plan,     \* what the controller set out to do, per slot
    box       \* the microVM each slot has

vars == <<intent, plan, box>>

Plans  == [kind : {"none", "gone", "keep", "run"}, spec : Specs \cup {NoSpec}]
NoPlan == [kind |-> "none", spec |-> NoSpec]
Boxes  == [spec : Specs \cup {NoSpec}, up : BOOLEAN]
NoBox  == [spec |-> NoSpec, up |-> FALSE]
Off(b) == [spec |-> b.spec, up |-> FALSE]

Init ==
    /\ intent = [s \in Slots |-> NoSpec]
    /\ plan = [s \in Slots |-> NoPlan]
    /\ box = [s \in Slots |-> NoBox]

\* The user changes what should run.
ChangeIntent ==
    /\ intent' \in [Slots -> Specs \cup {NoSpec}]
    /\ UNCHANGED <<plan, box>>

\* Sample the intents.  A slot whose intent cannot be carried out is kept as is.
PlansFor(x) ==
    IF x = NoSpec
    THEN {[kind |-> "gone", spec |-> NoSpec]}
    ELSE {[kind |-> "keep", spec |-> x], [kind |-> "run", spec |-> x]}

MakePlan ==
    /\ plan' \in [Slots -> Plans]
    /\ \A s \in Slots : plan'[s] \in PlansFor(intent[s])
    /\ UNCHANGED <<intent, box>>

\* The plan is carried out, abandoned, or lost with the process.
DropPlan ==
    /\ plan' = [s \in Slots |-> NoPlan]
    /\ UNCHANGED <<intent, box>>

\* A microVM is stopped or removed: because nothing wants it, or on the way to
\* running what the plan says.
TakeDown(s) ==
    /\ plan[s].kind \in {"gone", "run"}
    /\ box' \in {[box EXCEPT ![s] = NoBox], [box EXCEPT ![s] = Off(@)]}
    /\ UNCHANGED <<intent, plan>>

\* A slot with no microVM, or one that is down, comes up as planned: whatever
\* is brought up is the planned spec, a microVM of another spec never is.
BringUp(s) ==
    /\ plan[s].kind = "run"
    /\ ~box[s].up
    /\ box' = [box EXCEPT ![s] = [spec |-> plan[s].spec, up |-> TRUE]]
    /\ UNCHANGED <<intent, plan>>

\* A microVM exits by itself.
Exit(s) ==
    /\ box[s].up
    /\ box' = [box EXCEPT ![s] = Off(@)]
    /\ UNCHANGED <<intent, plan>>

Next ==
    \/ ChangeIntent
    \/ MakePlan
    \/ DropPlan
    \/ \E s \in Slots : TakeDown(s) \/ BringUp(s) \/ Exit(s)

Spec == Init /\ [][Next]_vars
=============================================================================
