--------------------------- MODULE StackDocument ---------------------------
(* The check a stack document's depends_on passes before anything is stored   *)
(* (crates/mc2-api/src/stack/validate.rs): every dependency names a service   *)
(* of the document, a service_healthy condition needs a health check on the   *)
(* other side, and a depth-first search over the services in name order finds *)
(* cycles. The search is modelled step by step, its recursion as a stack of   *)
(* frames. What it protects is the node's gate (ServiceMesh!Held): a service  *)
(* waits until what it depends on is up, so an accepted cycle would wait for  *)
(* itself for ever.                                                           *)
(*                                                                            *)
(* Left out: the other checks of validate_stack, which look at one name or    *)
(* value at a time, and the wording of the errors.                            *)
EXTENDS Naturals, Sequences, FiniteSetsExt

CONSTANTS DocServices, \* the services of the document: numbers, in name order
          DocNames,    \* every name a depends_on may mention
          DocChecked,  \* the services with an enabled healthcheck.test
          DocInputs    \* the depends_on maps submitted

DocConditions == {"service_started", "service_healthy"}

ASSUME DocumentsAreNumbered ==
    /\ DocServices \subseteq DocNames /\ DocChecked \subseteq DocServices
    /\ IsFiniteSet(DocNames) /\ DocNames \subseteq Nat
    /\ DocInputs \subseteq
         [DocServices -> [DocNames -> DocConditions \cup {"no"}]]

VARIABLES docDepends, \* per service: what it depends on, and its condition
          docColor,   \* "on_stack" is the code's 1, "done" its 2
          docStack,   \* the frames of visit: the service and what is left of it
          docVerdict

docVars == <<docDepends, docColor, docStack, docVerdict>>

Dependencies(s) == {d \in DocNames : docDepends[s][d] # "no"}

DocInit ==
    /\ docDepends \in DocInputs
    /\ docColor = [s \in DocServices |-> "new"]
    /\ docStack = <<>>
    /\ docVerdict = "references"

\* validate_depends_on, first loop: who a service may depend on, and how.
ReferencesHold ==
    \A s \in DocServices : \A d \in Dependencies(s) :
        /\ d \in DocServices
        /\ docDepends[s][d] = "service_healthy" => d \in DocChecked

CheckReferences ==
    /\ docVerdict = "references"
    /\ docVerdict' = IF ReferencesHold THEN "searching" ELSE "bad_reference"
    /\ UNCHANGED <<docDepends, docColor, docStack>>

-----------------------------------------------------------------------------
\* visit(name): the search enters a service it has not seen.
Visit(s) ==
    /\ docColor' = [docColor EXCEPT ![s] = "on_stack"]
    /\ UNCHANGED <<docDepends, docVerdict>>

Frame(s) == [service |-> s, left |-> Dependencies(s)]

\* The outer loop, in name order; a service already done returns at once.
VisitRoot ==
    LET new == {s \in DocServices : docColor[s] = "new"} IN
    /\ docVerdict = "searching" /\ docStack = <<>> /\ new # {}
    /\ Visit(Min(new))
    /\ docStack' = <<Frame(Min(new))>>

Top == docStack[Len(docStack)]
NextDependency == Min(Top.left)
Advanced == [docStack EXCEPT ![Len(docStack)].left = @ \ {NextDependency}]

Searching == docVerdict = "searching" /\ docStack # <<>>

\* The inner loop: the next dependency of the service on top.
VisitDependency ==
    /\ Searching /\ Top.left # {} /\ docColor[NextDependency] = "new"
    /\ Visit(NextDependency)
    /\ docStack' = Append(Advanced, Frame(NextDependency))

SkipDependency ==
    /\ Searching /\ Top.left # {} /\ docColor[NextDependency] = "done"
    /\ docStack' = Advanced
    /\ UNCHANGED <<docDepends, docColor, docVerdict>>

FindCycle ==
    /\ Searching /\ Top.left # {} /\ docColor[NextDependency] = "on_stack"
    /\ docVerdict' = "cycle"
    /\ UNCHANGED <<docDepends, docColor, docStack>>

\* mutation: a service the search leaves keeps the colour of the stack
ColorOnLeavingKept == docColor

ColorOnLeaving == [docColor EXCEPT ![Top.service] = "done"]

\* visit returns: the service is done and off the stack.
Leave ==
    /\ Searching /\ Top.left = {}
    /\ docColor' = ColorOnLeaving
    /\ docStack' = SubSeq(docStack, 1, Len(docStack) - 1)
    /\ UNCHANGED <<docDepends, docVerdict>>

Accept ==
    /\ docVerdict = "searching" /\ docStack = <<>>
    /\ \A s \in DocServices : docColor[s] # "new"
    /\ docVerdict' = "accepted"
    /\ UNCHANGED <<docDepends, docColor, docStack>>

DocNext == \/ CheckReferences \/ VisitRoot \/ VisitDependency
           \/ SkipDependency \/ FindCycle \/ Leave \/ Accept

DocSpec == DocInit /\ [][DocNext]_docVars

-----------------------------------------------------------------------------
DocTypeOK ==
    /\ docDepends \in [DocServices -> [DocNames -> DocConditions \cup {"no"}]]
    /\ docColor \in [DocServices -> {"new", "on_stack", "done"}]
    /\ docVerdict \in {"references", "bad_reference", "searching", "cycle",
                       "accepted"}
    /\ Len(docStack) <= Cardinality(DocServices)

\* There is an order in which every service starts after what it depends on.
StartOrderExists ==
    \E rank \in [DocServices -> 1 .. Cardinality(DocServices)] :
        \A s \in DocServices : \A d \in Dependencies(s) : rank[d] < rank[s]

\* The search accepts exactly the documents the node's gate can start: an
\* accepted one has a start order, with a health check wherever somebody waits
\* for health, and one refused for a cycle has none (validate_depends_on against
\* gate).
AcceptedDocumentsStart ==
    /\ docVerdict = "accepted" => StartOrderExists /\ ReferencesHold
    /\ docVerdict = "cycle" => ~StartOrderExists

=============================================================================
