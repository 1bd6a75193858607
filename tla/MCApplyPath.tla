----------------------------- MODULE MCApplyPath -----------------------------
(* What a stack document meets on its way in: the decoding of its keys, whose *)
(* result the node reads back from the store (ServiceSpecs), the validation   *)
(* of its depends_on (StackDocument), the apply handler with the scheduler    *)
(* (StackApply), the store's tables under several callers (SqliteStore), and  *)
(* a declared volume size on its way to the guest's writes (Volumes).         *)
(* StackApply has its own, coarser tables, so the five share no state: an     *)
(* initial state picks the part that runs, and the others stand still.        *)
EXTENDS MCStackApply, MCServiceSpecs, StackDocument, SqliteStore, Volumes, TLC

VARIABLE part

ASSUME NoneIsApart == NoneIsNone

\* Three services and a name that is not one of them; what the third asks for
\* has no condition on health.
Documents ==
    LET any   == [1 .. 4 -> DocConditions \cup {"no"}]
        known == {d \in any : d[4] = "no"}
        plain == {d \in known : \A s \in 1 .. 3 : d[s] # "service_healthy"}
    IN  {(1 :> a) @@ (2 :> b) @@ (3 :> c) : a, b \in known, c \in plain}
        \cup {(1 :> a) @@ (2 :> a) @@ (3 :> a) : a \in any}

DocIdle ==
    /\ docDepends = [s \in DocServices |-> [d \in DocNames |-> "no"]]
    /\ docColor = [s \in DocServices |-> "new"]
    /\ docStack = <<>> /\ docVerdict = "references"

PathInit ==
    /\ part \in {"specs", "document", "apply", "store", "volumes"}
    /\ IF part = "specs" THEN SpecInit
       ELSE specKey = "mode" /\ specForm = "mediated" /\ SpecInit
    /\ IF part = "document" THEN DocInit ELSE DocIdle
    /\ Init /\ StoreInit /\ VolInit

PathNext ==
    /\ UNCHANGED part
    /\ \/ part = "specs" /\ SpecNext
          /\ UNCHANGED <<docVars, vars, storeVars, volVars>>
       \/ part = "document" /\ DocNext
          /\ UNCHANGED <<specVars, vars, storeVars, volVars>>
       \/ part = "apply" /\ Next
          /\ UNCHANGED <<specVars, docVars, storeVars, volVars>>
       \/ part = "store" /\ StoreNext
          /\ UNCHANGED <<specVars, docVars, vars, volVars>>
       \/ part = "volumes" /\ VolNext
          /\ UNCHANGED <<specVars, docVars, vars, storeVars>>

PathSpec ==
    /\ PathInit
    /\ [][PathNext]_<<part, specVars, docVars, vars, storeVars, volVars>>
    /\ WF_volVars(part = "volumes" /\ VolPassStep)
    /\ WF_volVars(part = "volumes" /\ SampleAges)

\* The types of the five parts.
PathTypeOK == SpecTypeOK /\ DocTypeOK /\ TypeOK /\ StoreTypeOK /\ VolTypeOK
=============================================================================
