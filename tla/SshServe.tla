------------------------------ MODULE SshServe ------------------------------
(***************************************************************************)
(* SSH into instances: the key registry and the per-instance override the  *)
(* API writes (api/ssh.rs), their resolution at the start of a pass        *)
(* (ssh.rs), the listeners the pass keeps in step with it and the sessions *)
(* those accept (ssh_serve.rs).                                            *)
(*                                                                         *)
(* The listener's configuration is the set of key values it accepts; bind  *)
(* address, user and sftp are left out.  SshFixedPorts are the instances   *)
(* whose endpoint has a port of its own and not one the kernel picks.      *)
(***************************************************************************)
EXTENDS Naturals, FiniteSets

CONSTANTS SshInstances, SshKeyNames, SshValues, SshClients, NoSsh,
          YamlSsh,            \* instance |-> key names of its `ssh:`, or NoSsh
          SshFixedPorts,
          MaxSessions, MaxSessionsPerListener,
          MaxSshEdits,        \* bound: writes through the API
          MaxAcceptErrors     \* bound: accept loops that end by themselves

ASSUME YamlSshShape ==
  YamlSsh \in [SshInstances -> (SUBSET SshKeyNames) \cup {NoSsh}]
ASSUME SshBounds == MaxSshEdits \in Nat /\ MaxAcceptErrors \in Nat

VARIABLES
  sshRegistry,   \* name |-> public key
  sshOverride,   \* instance |-> what PUT .../ssh asked for
  sshVm,         \* "up"; "held" by depends_on; "down": every other state
  sshPass,       \* the node loop's pass and the state it resolved
  sshActive,     \* instance |-> its listener
  sshClosing,    \* listeners aborted whose socket is not dropped yet
  sshSession,    \* client |-> its session
  sshEdits, sshErrors

sshVars == <<sshRegistry, sshOverride, sshVm, sshPass, sshActive, sshClosing,
             sshSession, sshEdits, sshErrors>>

sshDesiredVars == <<sshRegistry, sshOverride, sshEdits>>

Closed == [keys |-> {}, names |-> {}, resolved |-> TRUE]
Unresolved == [Closed EXCEPT !.resolved = FALSE]

Idle == [at |-> "idle", todo |-> {}, want |-> [i \in SshInstances |-> Closed]]

SshInit ==
  /\ sshRegistry = [n \in SshKeyNames |-> NoSsh]
  /\ sshOverride = [i \in SshInstances |-> NoSsh]
  /\ sshVm = [i \in SshInstances |-> "down"]
  /\ sshPass = Idle
  /\ sshActive = [i \in SshInstances |-> NoSsh]
  /\ sshClosing = {}
  /\ sshSession = [c \in SshClients |-> NoSsh]
  /\ sshEdits = 0
  /\ sshErrors = 0
-----------------------------------------------------------------------------
Registered == {n \in SshKeyNames : sshRegistry[n] # NoSsh}

ValuesOf(names) == {sshRegistry[n] : n \in names}

SshEdit ==
  /\ sshEdits < MaxSshEdits
  /\ sshEdits' = sshEdits + 1
  /\ UNCHANGED <<sshVm, sshPass, sshActive, sshClosing, sshSession, sshErrors>>

PutKey(n, v) ==
  /\ SshEdit
  /\ sshRegistry' = [sshRegistry EXCEPT ![n] = v]
  /\ UNCHANGED sshOverride

DeleteKey(n) ==
  /\ SshEdit
  /\ sshRegistry[n] # NoSsh
  /\ sshRegistry' = [sshRegistry EXCEPT ![n] = NoSsh]
  /\ UNCHANGED sshOverride

\* put_instance_ssh: enabled needs names, and every name is registered
PutOverride(i, enabled, names) ==
  /\ SshEdit
  /\ enabled => names # {}
  /\ names \subseteq Registered
  /\ sshOverride' = [sshOverride EXCEPT ![i] =
                       [enabled |-> enabled, names |-> names]]
  /\ UNCHANGED sshRegistry

ClearOverride(i) ==
  /\ SshEdit
  /\ sshOverride' = [sshOverride EXCEPT ![i] = NoSsh]
  /\ UNCHANGED sshRegistry
-----------------------------------------------------------------------------
(***************************************************************************)
(* resolve_ssh_desired: the override if there is one, else the document;   *)
(* no names are all registered keys.  A name that is not registered, or    *)
(* none registered at all, leaves the instance unresolved in this pass.    *)
(***************************************************************************)
Opened(asked) ==
  LET names == IF asked = {} THEN Registered ELSE asked
  IN IF names = {} \/ ~(names \subseteq Registered) THEN Unresolved
     ELSE [keys |-> ValuesOf(names), names |-> names, resolved |-> TRUE]

SshDesired(i) ==
  IF sshOverride[i] # NoSsh
  THEN IF sshOverride[i].enabled THEN Opened(sshOverride[i].names) ELSE Closed
  ELSE IF YamlSsh[i] # NoSsh THEN Opened(YamlSsh[i]) ELSE Closed

BeginPass ==
  /\ sshPass.at = "idle"
  /\ sshPass' = [sshPass EXCEPT !.at = "resolve", !.todo = SshInstances]
  /\ UNCHANGED <<sshDesiredVars, sshVm, sshActive, sshClosing, sshSession,
                 sshErrors>>

Resolve(i) ==
  /\ sshPass.at = "resolve"
  /\ i \in sshPass.todo
  /\ LET want == [sshPass.want EXCEPT ![i] = SshDesired(i)]
     IN sshPass' = IF sshPass.todo = {i}
                   THEN [at |-> "turns", want |-> want,
                         todo |-> {j \in SshInstances : want[j].resolved}]
                   ELSE [sshPass EXCEPT !.todo = @ \ {i}, !.want = want]
  /\ UNCHANGED <<sshDesiredVars, sshVm, sshActive, sshClosing, sshSession,
                 sshErrors>>
-----------------------------------------------------------------------------
(***************************************************************************)
(* A listener that is closed stops accepting; its socket goes when the     *)
(* runtime drops the aborted task, its sessions stay.                      *)
(***************************************************************************)
Orphaned(gone) ==
  [c \in SshClients |->
     IF sshSession[c] # NoSsh /\ sshSession[c].inst \in gone
     THEN [sshSession[c] EXCEPT !.current = FALSE] ELSE sshSession[c]]

Open(i) == sshActive[i] # NoSsh

\* mutation: the hash covers the names of the keys and not their values
SameConfigByName(i, want) == sshActive[i].names = want.names

SameConfig(i, want) == sshActive[i].keys = want.keys

\* mutation: a listener whose accept loop has ended counts as open
KeepsDeadListener(i, want) == Open(i) /\ SameConfig(i, want)

KeepsListener(i, want) ==
  Open(i) /\ SameConfig(i, want) /\ sshActive[i].accepting

(***************************************************************************)
(* reconcile: the bind of a port of the instance's own fails while the     *)
(* socket it replaces is still there; the next pass tries again.           *)
(***************************************************************************)
Listens(i, want) ==
  IF i \in SshFixedPorts /\ (i \in sshClosing \/ Open(i)) THEN NoSsh
  ELSE [keys |-> want.keys, names |-> want.names, accepting |-> TRUE]

TurnDone(i) == sshPass' = [sshPass EXCEPT !.todo = @ \ {i}]

\* mutation: whether any key may come in is not looked at
WantsListenerWithoutKeys(i, want) == sshVm[i] = "up"

WantsListener(i, want) == want.keys # {} /\ sshVm[i] = "up"

ReconcileSsh(i) ==
  LET want == sshPass.want[i]
      wanted == WantsListener(i, want)
      kept == wanted /\ KeepsListener(i, want)
      closed == Open(i) /\ ~kept
  IN /\ sshPass.at = "turns"
     /\ i \in sshPass.todo
     /\ sshVm[i] # "held"
     /\ sshActive' = [sshActive EXCEPT ![i] =
                        IF kept THEN @
                        ELSE IF wanted THEN Listens(i, want) ELSE NoSsh]
     /\ sshClosing' = IF closed THEN sshClosing \cup {i} ELSE sshClosing
     /\ sshSession' = IF closed THEN Orphaned({i}) ELSE sshSession
     /\ TurnDone(i)
     /\ UNCHANGED <<sshDesiredVars, sshVm, sshErrors>>

\* the depends_on gate returns before the listener's turn
HeldBack(i) ==
  /\ sshPass.at = "turns"
  /\ i \in sshPass.todo
  /\ sshVm[i] = "held"
  /\ TurnDone(i)
  /\ UNCHANGED <<sshDesiredVars, sshVm, sshActive, sshClosing, sshSession,
                 sshErrors>>

\* mutation: the listeners of instances that did not resolve are kept
KeepAll == SshInstances

Keep == {i \in SshInstances : sshPass.want[i].resolved}

CloseMissing ==
  /\ sshPass.at = "turns"
  /\ sshPass.todo = {}
  /\ LET stale == {i \in SshInstances \ Keep : Open(i)}
     IN /\ sshActive' = [i \in SshInstances |->
                           IF i \in stale THEN NoSsh ELSE sshActive[i]]
        /\ sshClosing' = sshClosing \cup stale
        /\ sshSession' = Orphaned(stale)
  /\ sshPass' = Idle
  /\ UNCHANGED <<sshDesiredVars, sshVm, sshErrors>>

SocketDropped(i) ==
  /\ i \in sshClosing
  /\ sshClosing' = sshClosing \ {i}
  /\ UNCHANGED <<sshDesiredVars, sshVm, sshPass, sshActive, sshSession,
                 sshErrors>>

AcceptFails(i) ==
  /\ Open(i)
  /\ sshActive[i].accepting
  /\ sshErrors < MaxAcceptErrors
  /\ sshErrors' = sshErrors + 1
  /\ sshActive' = [sshActive EXCEPT ![i].accepting = FALSE]
  /\ UNCHANGED <<sshDesiredVars, sshVm, sshPass, sshClosing, sshSession>>

VmChanges(i, state) ==
  /\ sshVm[i] # state
  /\ sshVm' = [sshVm EXCEPT ![i] = state]
  /\ UNCHANGED <<sshDesiredVars, sshPass, sshActive, sshClosing, sshSession,
                 sshErrors>>
-----------------------------------------------------------------------------
(***************************************************************************)
(* Sessions.  `got` and `sent` say that the client and the server have     *)
(* written HANDSHAKE_ARM_BYTES: more than their identification.            *)
(***************************************************************************)
SessionChanged ==
  UNCHANGED <<sshDesiredVars, sshVm, sshPass, sshActive, sshClosing, sshErrors>>

InUse == {c \in SshClients : sshSession[c] # NoSsh}

InUseOf(i) ==
  {c \in InUse : sshSession[c].inst = i /\ sshSession[c].current}

\* both permits are there; without them the connection is dropped
Connect(c, i) ==
  /\ Open(i)
  /\ sshActive[i].accepting
  /\ c \notin InUse
  /\ Cardinality(InUse) < MaxSessions
  /\ Cardinality(InUseOf(i)) < MaxSessionsPerListener
  /\ sshSession' = [sshSession EXCEPT ![c] =
                      [inst |-> i, current |-> TRUE, got |-> FALSE, sent |-> FALSE,
                       armed |-> TRUE]]
  /\ SessionChanged

\* mutation: the server's own packets alone disarm the deadline
DisarmedBySending(got, sent) == sent

Handshaked(got, sent) == got /\ sent

Transfer(c, got, sent) ==
  /\ c \in InUse
  /\ sshSession[c].got => got
  /\ sshSession[c].sent => sent
  /\ <<got, sent>> # <<sshSession[c].got, sshSession[c].sent>>
  /\ sshSession' = [sshSession EXCEPT
                      ![c].got = got, ![c].sent = sent,
                      ![c].armed = @ /\ ~Handshaked(got, sent)]
  /\ SessionChanged

\* the next read or write after the deadline fails and ends the session
DeadlinePasses(c) ==
  /\ c \in InUse
  /\ sshSession[c].armed
  /\ sshSession' = [sshSession EXCEPT ![c] = NoSsh]
  /\ SessionChanged

\* the peer leaves, or TCP keepalive finds it gone
SessionEnds(c) ==
  /\ c \in InUse
  /\ sshSession' = [sshSession EXCEPT ![c] = NoSsh]
  /\ SessionChanged
-----------------------------------------------------------------------------
SshApi ==
  \/ \E n \in SshKeyNames : DeleteKey(n) \/ \E v \in SshValues : PutKey(n, v)
  \/ \E i \in SshInstances :
       \/ ClearOverride(i)
       \/ \E b \in BOOLEAN, names \in SUBSET SshKeyNames :
            PutOverride(i, b, names)

SshPassStep ==
  \/ BeginPass
  \/ CloseMissing
  \/ \E i \in SshInstances : Resolve(i) \/ ReconcileSsh(i) \/ HeldBack(i)

SshNext ==
  \/ SshApi
  \/ SshPassStep
  \/ \E i \in SshInstances :
       \/ SocketDropped(i)
       \/ AcceptFails(i)
       \/ \E state \in {"up", "down", "held"} : VmChanges(i, state)
  \/ \E c \in SshClients :
       \/ \E i \in SshInstances : Connect(c, i)
       \/ \E got, sent \in BOOLEAN : Transfer(c, got, sent)
       \/ DeadlinePasses(c)
       \/ SessionEnds(c)
-----------------------------------------------------------------------------
SshTypeOK ==
  /\ sshRegistry \in [SshKeyNames -> SshValues \cup {NoSsh}]
  /\ \A i \in SshInstances :
       /\ sshOverride[i] \in {NoSsh} \cup [enabled : BOOLEAN,
                                           names : SUBSET SshKeyNames]
       /\ sshActive[i] \in {NoSsh} \cup [keys : (SUBSET SshValues) \ {{}},
                                         names : SUBSET SshKeyNames,
                                         accepting : BOOLEAN]
  /\ sshVm \in [SshInstances -> {"up", "down", "held"}]
  /\ sshPass.at \in {"idle", "resolve", "turns"}
  /\ sshPass.todo \subseteq SshInstances
  /\ sshClosing \subseteq SshInstances
  /\ sshEdits \in 0..MaxSshEdits
  /\ sshErrors \in 0..MaxAcceptErrors

(***************************************************************************)
(* A key taken out of the registry, deleted or replaced under its name, is *)
(* let out: every listener stops accepting it, whether its instance        *)
(* resolves or not, unless the key comes back or depends_on holds the      *)
(* instance back.  (reconcile and close_missing, hash_ssh_config)          *)
(***************************************************************************)
Listening(i, v) == Open(i) /\ v \in sshActive[i].keys

RevokedKeysOut ==
  \A i \in SshInstances, v \in SshValues :
    (v \notin ValuesOf(Registered))
      ~> \/ v \in ValuesOf(Registered)
         \/ ~Listening(i, v)
         \/ sshVm[i] = "held"

(***************************************************************************)
(* A client that takes a place under the session caps and never starts the *)
(* key exchange gives it back, also when its listener is closed meanwhile. *)
(* (SshConnection, SessionCaps)                                            *)
(***************************************************************************)
SlowClientsLeave ==
  \A c \in SshClients :
    (c \in InUse) ~> \/ c \notin InUse
                     \/ sshSession[c].got /\ sshSession[c].sent

(***************************************************************************)
(* Once what an instance asks for resolves and stays, and its VM stays up, *)
(* an accepting listener with exactly those keys stays: after bind         *)
(* conflicts with its own predecessor, rotations and accept loops that     *)
(* died.  (reconcile, start_serve_sdk)                                     *)
(***************************************************************************)
Wants(i, keys) ==
  /\ sshVm[i] = "up"
  /\ SshDesired(i).resolved
  /\ SshDesired(i).keys = keys

SshEventuallyOpen ==
  \A i \in SshInstances, keys \in (SUBSET SshValues) \ {{}} :
    <>[]Wants(i, keys) =>
      <>[](Open(i) /\ sshActive[i].accepting /\ sshActive[i].keys = keys)
=============================================================================
