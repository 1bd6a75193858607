--------------------------- MODULE ServerProcess ---------------------------
(***************************************************************************)
(* One server process after another on a data directory: the start and the *)
(* secrets key it insists on (bootstrap.rs), the two critical tasks and    *)
(* the health they are reported in (lib.rs, liveness.rs, http_serve.rs),   *)
(* and the bounded shutdown.  One process at a time uses the directory.    *)
(*                                                                         *)
(* A key is known by its identity, and a stored secret by the key that     *)
(* encrypted it; cluster row, install id and node row are SqliteStore's.   *)
(***************************************************************************)
EXTENDS Naturals, FiniteSets

CONSTANTS SrvKeys, SrvSecrets,
          NoKey,          \* no file, no key, no secret
          ShortFile,      \* a key file of less than 32 bytes
          MaxConnections,
          StaleAfter,     \* ticks: 3 reconcile intervals and the grace
          MaxStarts       \* bound: processes

ASSUME SrvBounds == MaxConnections \in Nat /\ StaleAfter \in Nat
ASSUME NoKeyIsNoKey == {NoKey, ShortFile} \cap SrvKeys = {} /\ NoKey # ShortFile

VARIABLES
  srvFile,      \* the key file
  srvStored,    \* secret |-> the key it is encrypted with
  srvAt,        \* where the process is: "off" .. "up", "stopping"
  srvKey,       \* the key in memory
  srvPass,      \* the node loop: "waiting", in a pass, or "ended"
  srvLast,      \* how the last pass ended
  srvAge,       \* ticks since last_pass_ms
  srvRest,      \* the REST task: "accepting", "draining", "ended"
  srvOpen,      \* its connections
  srvDrain,     \* drain_or_abort: "no", "graceful", "aborted"
  srvExit,      \* how the last process ended
  srvStarts

srvDisk == <<srvFile, srvStored>>
srvTasks == <<srvPass, srvLast, srvAge, srvRest, srvOpen>>
srvVars == <<srvDisk, srvAt, srvKey, srvTasks, srvDrain, srvExit, srvStarts>>

SrvInit ==
  /\ srvFile = NoKey
  /\ srvStored = [s \in SrvSecrets |-> NoKey]
  /\ srvAt = "off"
  /\ srvKey = NoKey
  /\ srvPass = "ended"
  /\ srvLast = "none"
  /\ srvAge = 0
  /\ srvRest = "ended"
  /\ srvOpen = 0
  /\ srvDrain = "no"
  /\ srvExit = "none"
  /\ srvStarts = 0
-----------------------------------------------------------------------------
Stored == {s \in SrvSecrets : srvStored[s] # NoKey}

Launch ==
  /\ srvAt = "off"
  /\ srvStarts < MaxStarts
  /\ srvAt' = "boot"
  /\ srvStarts' = srvStarts + 1
  /\ srvExit' = "none"
  /\ UNCHANGED <<srvDisk, srvKey, srvTasks, srvDrain>>

Refuse ==
  /\ srvAt' = "off"
  /\ srvExit' = "failed"
  /\ srvKey' = NoKey
  /\ UNCHANGED <<srvDisk, srvTasks, srvDrain, srvStarts>>

\* mutation: any key of the right length is taken
AnyKeyDecrypts(k) == TRUE

\* verify_secrets_key tries the first secret of list_secret_meta, whichever
FirstStored == CHOOSE s \in Stored : TRUE

Decrypts(k) == Stored # {} => srvStored[FirstStored] = k

\* mutation: a missing file means a first run
MissingMeansNew == srvFile = NoKey

MayGenerate == srvFile = NoKey /\ Stored = {}

LoadKey ==
  /\ srvAt = "boot"
  /\ srvFile \in SrvKeys
  /\ Decrypts(srvFile)
  /\ srvKey' = srvFile
  /\ srvAt' = "bind"
  /\ UNCHANGED <<srvDisk, srvTasks, srvDrain, srvExit, srvStarts>>

\* a short or wrong file, or none where secrets are stored
RefuseKey ==
  /\ srvAt = "boot"
  /\ ~MayGenerate
  /\ srvFile \in SrvKeys => ~Decrypts(srvFile)
  /\ Refuse

(***************************************************************************)
(* write_private creates the file, then writes the key: a crash in between *)
(* leaves a file that every later start refuses.                           *)
(***************************************************************************)
CreateKeyFile ==
  /\ srvAt = "boot"
  /\ MayGenerate
  /\ srvFile' = ShortFile
  /\ srvAt' = "keyfile"
  /\ UNCHANGED <<srvStored, srvKey, srvTasks, srvDrain, srvExit, srvStarts>>

WriteKeyFile(k) ==
  /\ srvAt = "keyfile"
  /\ srvFile' = k
  /\ srvKey' = k
  /\ srvAt' = "bind"
  /\ UNCHANGED <<srvStored, srvTasks, srvDrain, srvExit, srvStarts>>

\* the REST address is bound and the node registered before either task runs
SpawnTasks ==
  /\ srvAt = "bind"
  /\ srvAt' = "up"
  /\ srvPass' = "waiting"
  /\ srvLast' = "none"
  /\ srvAge' = 0
  /\ srvRest' = "accepting"
  /\ srvOpen' = 0
  /\ UNCHANGED <<srvDisk, srvKey, srvDrain, srvExit, srvStarts>>

BindFails == srvAt = "bind" /\ Refuse
-----------------------------------------------------------------------------
(***************************************************************************)
(* The node loop.  Nothing says that a pass ends; cancellation is seen     *)
(* between passes only, and a tick that is due may win against it once     *)
(* more.                                                                   *)
(***************************************************************************)
Cancelled == srvAt = "stopping"

NodeStep ==
  UNCHANGED <<srvDisk, srvAt, srvKey, srvRest, srvOpen, srvDrain, srvExit,
              srvStarts>>

BeginReconcile ==
  /\ srvAt \in {"up", "stopping"}
  /\ srvPass = "waiting"
  /\ srvPass' = "in"
  /\ UNCHANGED <<srvLast, srvAge>>
  /\ NodeStep

\* mutation: every pass that ends is stamped
RecordsAny(result) == TRUE

RecordsPass(result) == result = "ok"

EndReconcile(result) ==
  /\ srvPass = "in"
  /\ srvPass' = "waiting"
  /\ srvLast' = result
  /\ srvAge' = IF RecordsPass(result) THEN 0 ELSE srvAge
  /\ NodeStep

\* a panic in either half of the loop
NodeDies ==
  /\ srvAt = "up"
  /\ srvPass # "ended"
  /\ srvPass' = "ended"
  /\ UNCHANGED <<srvLast, srvAge>>
  /\ NodeStep

NodeStops ==
  /\ Cancelled
  /\ srvPass = "waiting"
  /\ srvPass' = "ended"
  /\ UNCHANGED <<srvLast, srvAge>>
  /\ NodeStep

SrvTick ==
  /\ srvAt = "up"
  /\ srvAge <= StaleAfter
  /\ srvAge' = srvAge + 1
  /\ UNCHANGED <<srvPass, srvLast>>
  /\ NodeStep

\* Liveness::check; a loop that returns, which it does when cancelled, is dead
Healthy == srvAge <= StaleAfter /\ ~(Cancelled /\ srvPass = "ended")
-----------------------------------------------------------------------------
(***************************************************************************)
(* The REST task: a connection past the cap is shed with a 503.            *)
(***************************************************************************)
RestStep ==
  UNCHANGED <<srvDisk, srvAt, srvKey, srvPass, srvLast, srvAge, srvDrain,
              srvExit, srvStarts>>

AcceptConnection ==
  /\ srvRest = "accepting"
  /\ srvOpen < MaxConnections
  /\ srvOpen' = srvOpen + 1
  /\ UNCHANGED srvRest
  /\ RestStep

ConnectionEnds ==
  /\ srvOpen > 0
  /\ srvOpen' = srvOpen - 1
  /\ UNCHANGED srvRest
  /\ RestStep

CloseListener ==
  /\ Cancelled
  /\ srvRest = "accepting"
  /\ srvRest' = "draining"
  /\ UNCHANGED srvOpen
  /\ RestStep

\* every connection has ended, or SHUTDOWN_DRAIN_TIMEOUT has passed
RestStops ==
  /\ srvRest = "draining"
  /\ srvRest' = "ended"
  /\ UNCHANGED srvOpen
  /\ RestStep

RestDies ==
  /\ srvAt = "up"
  /\ srvRest = "accepting"
  /\ srvRest' = "ended"
  /\ UNCHANGED srvOpen
  /\ RestStep

\* a connection outlives its listener and is served until the process ends
PutSecret(s) ==
  /\ srvAt \in {"up", "stopping"}
  /\ srvOpen > 0
  /\ srvStored' = [srvStored EXCEPT ![s] = srvKey]
  /\ UNCHANGED <<srvFile, srvAt, srvKey, srvTasks, srvDrain, srvExit, srvStarts>>
-----------------------------------------------------------------------------
(***************************************************************************)
(* supervise: a signal is a clean stop, a critical task that ends is not.  *)
(***************************************************************************)
Stop(outcome) ==
  /\ srvAt = "up"
  /\ srvAt' = "stopping"
  /\ srvDrain' = "graceful"
  /\ srvExit' = outcome
  /\ UNCHANGED <<srvDisk, srvKey, srvTasks, srvStarts>>

ShutdownSignal == Stop("ok")

TaskEnded ==
  /\ srvPass = "ended" \/ srvRest = "ended"
  /\ Stop("failed")

Joined == srvPass = "ended" /\ srvRest = "ended"

\* the deadline, less the slice kept for aborting
AbortRemaining ==
  /\ srvDrain = "graceful"
  /\ ~Joined
  /\ srvDrain' = "aborted"
  /\ UNCHANGED <<srvDisk, srvAt, srvKey, srvTasks, srvExit, srvStarts>>

\* an aborted task ends at its next await
AbortedEnds ==
  /\ srvDrain = "aborted"
  /\ ~Joined
  /\ srvPass' = "ended"
  /\ srvRest' = "ended"
  /\ UNCHANGED <<srvDisk, srvAt, srvKey, srvLast, srvAge, srvOpen, srvDrain,
                 srvExit, srvStarts>>

\* mutation: the reaping of aborted tasks is not bounded
AllReaped == Joined

Drained == Joined \/ srvDrain = "aborted"

Gone ==
  /\ srvAt' = "off"
  /\ srvKey' = NoKey
  /\ srvPass' = "ended"
  /\ srvRest' = "ended"
  /\ srvOpen' = 0
  /\ srvLast' = "none"
  /\ srvAge' = 0
  /\ srvDrain' = "no"
  /\ UNCHANGED srvStarts

Exit ==
  /\ srvAt = "stopping"
  /\ Drained
  /\ Gone
  /\ UNCHANGED <<srvDisk, srvExit>>

Killed ==
  /\ srvAt # "off"
  /\ Gone
  /\ srvExit' = "failed"
  /\ UNCHANGED srvDisk
-----------------------------------------------------------------------------
\* the operator, at any time: the key file lost, restored, exchanged
KeyFileChanges(f) ==
  /\ srvFile # f
  /\ srvAt # "keyfile"
  /\ srvFile' = f
  /\ UNCHANGED <<srvStored, srvAt, srvKey, srvTasks, srvDrain, srvExit,
                 srvStarts>>

\* `mc2 secret rm`, and `mc2 server secrets purge` one by one
SecretDeleted(s) ==
  /\ s \in Stored
  /\ srvStored' = [srvStored EXCEPT ![s] = NoKey]
  /\ UNCHANGED <<srvFile, srvAt, srvKey, srvTasks, srvDrain, srvExit, srvStarts>>

SrvBoot ==
  \/ LoadKey
  \/ RefuseKey
  \/ CreateKeyFile
  \/ \E k \in SrvKeys : WriteKeyFile(k)
  \/ SpawnTasks

SrvShutdown ==
  \/ TaskEnded
  \/ CloseListener
  \/ RestStops
  \/ AbortRemaining
  \/ Exit

SrvNext ==
  \/ Launch
  \/ SrvBoot
  \/ BindFails
  \/ BeginReconcile
  \/ \E result \in {"ok", "failed"} : EndReconcile(result)
  \/ NodeDies
  \/ NodeStops
  \/ SrvTick
  \/ AcceptConnection
  \/ ConnectionEnds
  \/ RestDies
  \/ ShutdownSignal
  \/ SrvShutdown
  \/ AbortedEnds
  \/ Killed
  \/ \E s \in SrvSecrets : PutSecret(s) \/ SecretDeleted(s)
  \/ \E f \in SrvKeys \cup {NoKey} : KeyFileChanges(f)

SrvSpec == SrvInit /\ [][SrvNext]_srvVars
-----------------------------------------------------------------------------
SrvTypeOK ==
  /\ srvFile \in SrvKeys \cup {NoKey, ShortFile}
  /\ srvStored \in [SrvSecrets -> SrvKeys \cup {NoKey}]
  /\ srvAt \in {"off", "boot", "keyfile", "bind", "up", "stopping"}
  /\ srvKey \in SrvKeys \cup {NoKey}
  /\ srvAt \in {"bind", "up", "stopping"} => srvKey # NoKey
  /\ srvPass \in {"waiting", "in", "ended"}
  /\ srvLast \in {"none", "ok", "failed"}
  /\ srvAge \in 0..(StaleAfter + 1)
  /\ srvRest \in {"accepting", "draining", "ended"}
  /\ srvOpen \in 0..MaxConnections
  /\ srvDrain \in {"no", "graceful", "aborted"}
  /\ srvExit \in {"none", "ok", "failed"}

(***************************************************************************)
(* A server that answers requests can decrypt every secret it has stored,  *)
(* whatever was done to the key file while it ran or was down, and         *)
(* although a start tries only one of them.  (resolve_secrets_key)         *)
(***************************************************************************)
SecretsReadable ==
  srvAt \in {"up", "stopping"} => \A s \in Stored : srvStored[s] = srvKey

(***************************************************************************)
(* A shutdown ends, with a pass that never returns and clients that never  *)
(* hang up.  (drain_or_abort, serve)                                       *)
(***************************************************************************)
ShutdownEnds == (srvAt = "stopping") ~> (srvAt = "off")

(***************************************************************************)
(* A node loop that hangs in a pass, or whose passes all fail, shows in    *)
(* /health for good.  (Liveness::check, record_pass)                       *)
(***************************************************************************)
HealthHonest ==
  <>[](srvAt = "up" /\ (srvPass = "in" \/ srvLast = "failed"))
    => <>[](srvAt = "up" => ~Healthy)
=============================================================================
