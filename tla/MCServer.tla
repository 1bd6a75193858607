------------------------------ MODULE MCServer ------------------------------
(* The SSH listeners, the proxy's files, the process with its shutdown, and   *)
(* the operator's token and contexts: parts that share no state. An initial   *)
(* state picks the part that runs; the others stand still.                    *)
EXTENDS SshServe, IngressFiles, ServerProcess, OperatorAccess, TLC

CONSTANTS i1, kweb, kapi   \* an instance; the proxy keys of two routes

Yaml == i1 :> {}
Keys == (1 :> kweb) @@ (2 :> kapi)

VARIABLE part

vars == <<part, sshVars, ingVars, srvVars, oprVars>>

Init ==
    /\ part \in {"ssh", "ingress", "process", "operator"}
    /\ SshInit /\ IngInit /\ SrvInit /\ OprInit

SshPart == part = "ssh"     /\ SshNext /\ UNCHANGED <<part, ingVars, srvVars, oprVars>>
IngPart == part = "ingress" /\ IngNext /\ UNCHANGED <<part, sshVars, srvVars, oprVars>>
SrvPart == part = "process" /\ SrvNext /\ UNCHANGED <<part, sshVars, ingVars, oprVars>>
OprPart == part = "operator" /\ OprNext /\ UNCHANGED <<part, sshVars, ingVars, srvVars>>

Next == SshPart \/ IngPart \/ SrvPart \/ OprPart

Fairness ==
    /\ WF_sshVars(part = "ssh" /\ SshPassStep)
    /\ \A i \in SshInstances : WF_sshVars(part = "ssh" /\ SocketDropped(i))
    /\ \A c \in SshClients : WF_sshVars(part = "ssh" /\ DeadlinePasses(c))
    /\ WF_ingVars(part = "ingress" /\ IngPassStep)
    /\ WF_srvVars(part = "process" /\ SrvShutdown)
    /\ WF_srvVars(part = "process" /\ SrvTick)

Spec == Init /\ [][Next]_vars /\ Fairness

\* The types of the four parts.
ServerTypeOK == SshTypeOK /\ IngTypeOK /\ SrvTypeOK /\ OprTypeOK
=============================================================================
