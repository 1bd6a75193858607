---------------------------- MODULE ServerProofs ----------------------------
(***************************************************************************)
(* Theorems about the parts MCServer puts side by side, for any constants: *)
(* the proxy's files (IngressFiles), the server process and its secrets    *)
(* (ServerProcess), the operator's token and contexts (OperatorAccess),    *)
(* and the types of these and of the SSH listeners (SshServe).             *)
(***************************************************************************)
EXTENDS MCServer, TLAPS

(***************************************************************************)
(* The proxy's files.                                                      *)
(***************************************************************************)

(***************************************************************************)
(* What the fingerprint remembers of the proxy's file is what is in it.    *)
(* Of the catalog this does not hold: it is written first, and the print   *)
(* last.  A step of the pass that judges the routes again cannot come      *)
(* between the comparison and the end of the pass, so both what a pass has *)
(* found right and what the print says stay true together.                 *)
(***************************************************************************)
PrintTrue ==
  \/ ingPrint = <<>>
  \/ \E q : ingPrint = <<[proxy |-> ingProxy, pending |-> q]>>

PassIsRecord ==
  ingPass = [at |-> ingPass.at, chosen |-> ingPass.chosen,
             found |-> ingPass.found, todo |-> ingPass.todo,
             ready |-> ingPass.ready, ok |-> ingPass.ok]

OkComesLast == ingPass.ok => ingPass.at = "persist"

ProxyInv == PassIsRecord /\ OkComesLast /\ PrintTrue /\ ProxyCurrent

\* What is rendered depends on the routes' backends and readiness only.
LEMMA RenderedKept ==
    ASSUME ingPass'.chosen = ingPass.chosen, ingPass'.ready = ingPass.ready
    PROVE  Rendered' = Rendered
  BY DEF Rendered

LEMMA ProxyInit == IngInit => ProxyInv
  BY DEF IngInit, NoPass, ProxyInv, PassIsRecord, OkComesLast, PrintTrue,
         ProxyCurrent

\* A pass that is not at its end promises nothing yet.
LEMMA EarlyStep ==
    ASSUME ProxyInv, PassIsRecord', UNCHANGED <<ingProxy, ingPrint>>,
           ~ingPass'.ok
    PROVE  ProxyInv'
  BY DEF ProxyInv, OkComesLast, PrintTrue, ProxyCurrent

LEMMA ProxyNext == ProxyInv /\ [IngNext]_ingVars => ProxyInv'
<1> SUFFICES ASSUME ProxyInv, [IngNext]_ingVars PROVE ProxyInv'
  OBVIOUS
<1>0. PassIsRecord /\ (ingPass.at # "persist" => ~ingPass.ok)
  BY DEF ProxyInv, OkComesLast
<1>1. CASE PlanRoutes
  <2>1. PassIsRecord' /\ ~ingPass'.ok
    BY <1>1 DEF PlanRoutes, NoPass, PassIsRecord
  <2>. QED  BY <1>1, <2>1, EarlyStep DEF PlanRoutes, ingFiles
<1>2. CASE ReportPhases
  <2>1. PassIsRecord' /\ ~ingPass'.ok
    BY <1>0, <1>2 DEF ReportPhases, PassIsRecord
  <2>. QED  BY <1>2, <2>1, EarlyStep DEF ReportPhases, ingFiles
<1>3. ASSUME NEW r \in IngRoutes, ProbeRoute(r) PROVE ProxyInv'
  <2>1. PassIsRecord' /\ ~ingPass'.ok
    BY <1>0, <1>3 DEF ProbeRoute, PassIsRecord
  <2>. QED  BY <1>3, <2>1, EarlyStep DEF ProbeRoute, ingFiles
<1>4. CASE Unchanged
  <2>1. /\ PassIsRecord' /\ ingProxy' = ingProxy /\ ingPrint' = ingPrint
        /\ ingPass'.chosen = ingPass.chosen /\ ingPass'.ready = ingPass.ready
        /\ ingPass'.at = "persist"
    BY <1>0, <1>4 DEF Unchanged, PassIsRecord, ingFiles
  <2>2. PICK q : ingPrint = <<[proxy |-> ingProxy, pending |-> q]>>
    BY <1>4 DEF Unchanged, ProxyInv, PrintTrue
  <2>3. ingPrint[1].proxy = Rendered
    BY <1>4 DEF Unchanged, Fingerprint
  <2>4. ingProxy = Rendered
    BY <2>2, <2>3
  <2>5. ingProxy' = Rendered'
    BY <2>1, <2>4, RenderedKept
  <2>6. PrintTrue'
    BY <2>1 DEF ProxyInv, PrintTrue
  <2>. QED  BY <2>1, <2>5, <2>6 DEF ProxyInv, OkComesLast, ProxyCurrent
<1>5. CASE WriteCatalog
  <2>1. PassIsRecord' /\ ~ingPass'.ok
    BY <1>0, <1>5 DEF WriteCatalog, PassIsRecord
  <2>. QED  BY <1>5, <2>1, EarlyStep DEF WriteCatalog, PrintAfterCatalog
<1>6. CASE WriteProxy
  <2>1. /\ PassIsRecord' /\ ingProxy' = Rendered
        /\ ingPass'.chosen = ingPass.chosen /\ ingPass'.ready = ingPass.ready
        /\ ingPass'.at = "persist"
    BY <1>0, <1>6 DEF WriteProxy, PassIsRecord
  <2>2. Rendered' = Rendered
    BY <2>1, RenderedKept
  <2>3. PrintTrue'
    BY <1>6 DEF WriteProxy, Fingerprint, PrintTrue
  <2>. QED  BY <2>1, <2>2, <2>3 DEF ProxyInv, OkComesLast, ProxyCurrent
<1>7. CASE PersistReports
  <2>1. PassIsRecord' /\ ~ingPass'.ok
    BY <1>7 DEF PersistReports, NoPass, PassIsRecord
  <2>. QED  BY <1>7, <2>1, EarlyStep DEF PersistReports, ingFiles
<1>8. CASE WriteFails
  <2>1. PassIsRecord' /\ ~ingPass'.ok
    BY <1>0, <1>8 DEF WriteFails, PassIsRecord
  <2>. QED  BY <1>8, <2>1, EarlyStep DEF WriteFails, ingFiles
<1>9. CASE ServerDies
  <2>1. PassIsRecord' /\ ~ingPass'.ok
    BY <1>9 DEF ServerDies, NoPass, PassIsRecord
  <2>. QED  BY <1>9, <2>1 DEF ServerDies, ingFiles, ProxyInv, OkComesLast, PrintTrue,
                      ProxyCurrent
<1>10. ASSUME UNCHANGED <<ingPass, ingProxy, ingPrint>> PROVE ProxyInv'
  BY <1>10, RenderedKept DEF ProxyInv, PassIsRecord, OkComesLast, PrintTrue, ProxyCurrent
<1>11. ASSUME NEW o \in IngReplicas, PortChanges(o) PROVE ProxyInv'
  BY <1>10, <1>11 DEF PortChanges, ingFiles
<1>12. ASSUME NEW o \in IngReplicas, NEW r \in Replica, ReplicaChanges(o, r)
       PROVE  ProxyInv'
  BY <1>10, <1>12 DEF ReplicaChanges, ingFiles
<1>13. CASE UNCHANGED ingVars
  BY <1>10, <1>13 DEF ingVars, ingFiles
<1>. QED
  BY <1>1, <1>2, <1>3, <1>4, <1>5, <1>6, <1>7, <1>8, <1>9, <1>11, <1>12, <1>13
  DEF IngNext, IngPassStep

\* Whatever write failed and wherever the server died before, a pass that ends
\* in order leaves the proxy with the routes it found (reconcile).
THEOREM ProxyStaysCurrent == IngSpec => []ProxyCurrent
<1>1. ProxyInv => ProxyCurrent
  BY DEF ProxyInv
<1>. QED  BY <1>1, ProxyInit, ProxyNext, PTL DEF IngSpec
-----------------------------------------------------------------------------
(***************************************************************************)
(* The process.                                                            *)
(***************************************************************************)

LEMMA SrvInitType == SrvInit => SrvTypeOK
  BY SrvBounds DEF SrvInit, SrvTypeOK

LEMMA SrvNextType == SrvTypeOK /\ [SrvNext]_srvVars => SrvTypeOK'
<1> SUFFICES ASSUME SrvTypeOK, [SrvNext]_srvVars PROVE SrvTypeOK'
  OBVIOUS
<1> USE NoKeyIsNoKey
<1>1. ASSUME Launch PROVE SrvTypeOK'
  BY <1>1 DEF Launch, SrvTypeOK, srvDisk, srvTasks
<1>2. ASSUME LoadKey PROVE SrvTypeOK'
  BY <1>2 DEF LoadKey, SrvTypeOK, srvDisk, srvTasks
<1>3. ASSUME RefuseKey PROVE SrvTypeOK'
  BY <1>3 DEF RefuseKey, Refuse, MayGenerate, SrvTypeOK, srvDisk, srvTasks
<1>4. ASSUME CreateKeyFile PROVE SrvTypeOK'
  BY <1>4 DEF CreateKeyFile, MayGenerate, SrvTypeOK, srvDisk, srvTasks
<1>5. ASSUME NEW k \in SrvKeys, WriteKeyFile(k) PROVE SrvTypeOK'
  BY <1>5 DEF WriteKeyFile, SrvTypeOK, srvDisk, srvTasks
<1>6. ASSUME SpawnTasks PROVE SrvTypeOK'
  BY <1>6, SrvBounds DEF SpawnTasks, SrvTypeOK, srvDisk, srvTasks
<1>7. ASSUME BindFails PROVE SrvTypeOK'
  BY <1>7 DEF BindFails, Refuse, SrvTypeOK, srvDisk, srvTasks
<1>8. ASSUME BeginReconcile PROVE SrvTypeOK'
  BY <1>8 DEF BeginReconcile, NodeStep, SrvTypeOK, srvDisk, srvTasks
<1>9. ASSUME NEW r \in {"ok", "failed"}, EndReconcile(r) PROVE SrvTypeOK'
  BY <1>9, SrvBounds DEF EndReconcile, NodeStep, RecordsPass, SrvTypeOK, srvDisk, srvTasks
<1>10. ASSUME NodeDies PROVE SrvTypeOK'
  BY <1>10 DEF NodeDies, NodeStep, SrvTypeOK, srvDisk, srvTasks
<1>11. ASSUME NodeStops PROVE SrvTypeOK'
  BY <1>11 DEF NodeStops, NodeStep, Cancelled, SrvTypeOK, srvDisk, srvTasks
<1>12. ASSUME SrvTick PROVE SrvTypeOK'
  BY <1>12, SrvBounds DEF SrvTick, NodeStep, SrvTypeOK, srvDisk, srvTasks
<1>13. ASSUME AcceptConnection PROVE SrvTypeOK'
  BY <1>13, SrvBounds DEF AcceptConnection, RestStep, SrvTypeOK, srvDisk, srvTasks
<1>14. ASSUME ConnectionEnds PROVE SrvTypeOK'
  BY <1>14, SrvBounds DEF ConnectionEnds, RestStep, SrvTypeOK, srvDisk, srvTasks
<1>15. ASSUME RestDies PROVE SrvTypeOK'
  BY <1>15 DEF RestDies, RestStep, SrvTypeOK, srvDisk, srvTasks
<1>16. ASSUME ShutdownSignal PROVE SrvTypeOK'
  BY <1>16 DEF ShutdownSignal, Stop, SrvTypeOK, srvDisk, srvTasks
<1>17. ASSUME TaskEnded PROVE SrvTypeOK'
  BY <1>17 DEF TaskEnded, Stop, SrvTypeOK, srvDisk, srvTasks
<1>18. ASSUME CloseListener PROVE SrvTypeOK'
  BY <1>18 DEF CloseListener, RestStep, Cancelled, SrvTypeOK, srvDisk, srvTasks
<1>19. ASSUME RestStops PROVE SrvTypeOK'
  BY <1>19 DEF RestStops, RestStep, SrvTypeOK, srvDisk, srvTasks
<1>20. ASSUME AbortRemaining PROVE SrvTypeOK'
  BY <1>20 DEF AbortRemaining, Joined, SrvTypeOK, srvDisk, srvTasks
<1>21. ASSUME Exit PROVE SrvTypeOK'
  BY <1>21, SrvBounds DEF Exit, Gone, Drained, Joined, SrvTypeOK, srvDisk, srvTasks
<1>22. ASSUME AbortedEnds PROVE SrvTypeOK'
  BY <1>22 DEF AbortedEnds, Joined, SrvTypeOK, srvDisk, srvTasks
<1>23. ASSUME Killed PROVE SrvTypeOK'
  BY <1>23, SrvBounds DEF Killed, Gone, SrvTypeOK, srvDisk, srvTasks
<1>24. ASSUME NEW s \in SrvSecrets, PutSecret(s) PROVE SrvTypeOK'
  BY <1>24 DEF PutSecret, SrvTypeOK, srvDisk, srvTasks
<1>25. ASSUME NEW s \in SrvSecrets, SecretDeleted(s) PROVE SrvTypeOK'
  BY <1>25 DEF SecretDeleted, SrvTypeOK, srvDisk, srvTasks, Stored
<1>26. ASSUME NEW f \in SrvKeys \cup {NoKey}, KeyFileChanges(f) PROVE SrvTypeOK'
  BY <1>26 DEF KeyFileChanges, SrvTypeOK, srvDisk, srvTasks
<1>27. ASSUME UNCHANGED srvVars PROVE SrvTypeOK'
  BY <1>27 DEF srvVars, srvDisk, srvTasks, SrvTypeOK
<1>. QED
  BY <1>1, <1>2, <1>3, <1>4, <1>5, <1>6, <1>7, <1>8, <1>9, <1>10, <1>11, <1>12,
     <1>13, <1>14, <1>15, <1>16, <1>17, <1>18, <1>19, <1>20, <1>21, <1>22,
     <1>23, <1>24, <1>25, <1>26, <1>27
  DEF SrvNext, SrvBoot, SrvShutdown

\* Every variable keeps its type, and a process that binds or serves has a key.
THEOREM ServerTypes == SrvSpec => []SrvTypeOK
  BY SrvInitType, SrvNextType, PTL DEF SrvSpec

(***************************************************************************)
(* A start tries the key in memory on one stored secret only, so all of    *)
(* them must have one key at any time, not only while a process serves;    *)
(* and from the check to the end of the process, through the writing of a  *)
(* new key file, nothing else may store one.                               *)
(***************************************************************************)
OneKey == \A s, t \in Stored : srvStored[s] = srvStored[t]

KeyInMemory ==
  srvAt \in {"bind", "up", "stopping"} => \A s \in Stored : srvStored[s] = srvKey

SecretsInv ==
  /\ SrvTypeOK
  /\ OneKey
  /\ srvAt = "keyfile" => Stored = {}
  /\ KeyInMemory

\* verify_secrets_key: a key that decrypts one stored secret decrypts them all.
LEMMA OneDecryptsAll ==
    ASSUME OneKey, NEW k, Decrypts(k)
    PROVE  \A s \in Stored : srvStored[s] = k
<1> SUFFICES ASSUME NEW s \in Stored PROVE srvStored[s] = k  OBVIOUS
<1>1. FirstStored \in Stored  BY DEF FirstStored
<1>. QED  BY <1>1 DEF OneKey, Decrypts

LEMMA SecretsInit == SrvInit => SecretsInv
  BY SrvInitType DEF SrvInit, SecretsInv, OneKey, KeyInMemory, Stored

\* A step of the tasks or of the shutdown, which leaves the disk and the key and
\* does not go on in the start.
LEMMA CalmStep ==
    ASSUME SecretsInv, UNCHANGED <<srvStored, srvKey>>,
           srvAt' \in {srvAt, "off", "boot", "up", "stopping"},
           srvAt' \in {"up", "stopping"} => srvAt \in {"bind", "up", "stopping"}
    PROVE  OneKey' /\ (srvAt' = "keyfile" => Stored' = {}) /\ KeyInMemory'
  BY DEF SecretsInv, OneKey, KeyInMemory, Stored

\* The process is gone: what is stored stays, and no key is in memory.
LEMMA GoneStep ==
    ASSUME SecretsInv, UNCHANGED srvStored, srvAt' \in {"off", "boot"}
    PROVE  OneKey' /\ (srvAt' = "keyfile" => Stored' = {}) /\ KeyInMemory'
  BY DEF SecretsInv, OneKey, KeyInMemory, Stored

LEMMA SecretsNext == SecretsInv /\ [SrvNext]_srvVars => SecretsInv'
<1> SUFFICES ASSUME SecretsInv, [SrvNext]_srvVars PROVE SecretsInv'
  OBVIOUS
<1> DEFINE Kept == OneKey' /\ (srvAt' = "keyfile" => Stored' = {}) /\ KeyInMemory'
<1>0. SrvTypeOK'
  BY SrvNextType DEF SecretsInv
<1> SUFFICES Kept
  BY <1>0 DEF SecretsInv
<1> USE DEF SecretsInv
<1>1. ASSUME Launch PROVE Kept
  BY <1>1, GoneStep DEF Launch, srvDisk
<1>2. ASSUME LoadKey PROVE Kept
  BY <1>2, OneDecryptsAll DEF LoadKey, srvDisk, OneKey, KeyInMemory, Stored
<1>3. ASSUME RefuseKey PROVE Kept
  BY <1>3, GoneStep DEF RefuseKey, Refuse, srvDisk
<1>4. ASSUME CreateKeyFile PROVE Kept
  BY <1>4 DEF CreateKeyFile, MayGenerate, OneKey, KeyInMemory, Stored
<1>5. ASSUME NEW k \in SrvKeys, WriteKeyFile(k) PROVE Kept
  BY <1>5 DEF WriteKeyFile, OneKey, KeyInMemory, Stored
<1>6. ASSUME SpawnTasks PROVE Kept
  BY <1>6, CalmStep DEF SpawnTasks, srvDisk
<1>7. ASSUME BindFails PROVE Kept
  BY <1>7, GoneStep DEF BindFails, Refuse, srvDisk
<1>8. ASSUME BeginReconcile PROVE Kept
  BY <1>8, CalmStep DEF BeginReconcile, NodeStep, srvDisk
<1>9. ASSUME NEW r \in {"ok", "failed"}, EndReconcile(r) PROVE Kept
  BY <1>9, CalmStep DEF EndReconcile, NodeStep, srvDisk
<1>10. ASSUME NodeDies PROVE Kept
  BY <1>10, CalmStep DEF NodeDies, NodeStep, srvDisk
<1>11. ASSUME NodeStops PROVE Kept
  BY <1>11, CalmStep DEF NodeStops, NodeStep, srvDisk
<1>12. ASSUME SrvTick PROVE Kept
  BY <1>12, CalmStep DEF SrvTick, NodeStep, srvDisk
<1>13. ASSUME AcceptConnection PROVE Kept
  BY <1>13, CalmStep DEF AcceptConnection, RestStep, srvDisk
<1>14. ASSUME ConnectionEnds PROVE Kept
  BY <1>14, CalmStep DEF ConnectionEnds, RestStep, srvDisk
<1>15. ASSUME RestDies PROVE Kept
  BY <1>15, CalmStep DEF RestDies, RestStep, srvDisk
<1>16. ASSUME ShutdownSignal PROVE Kept
  BY <1>16, CalmStep DEF ShutdownSignal, Stop, srvDisk
<1>17. ASSUME TaskEnded PROVE Kept
  BY <1>17, CalmStep DEF TaskEnded, Stop, srvDisk
<1>18. ASSUME CloseListener PROVE Kept
  BY <1>18, CalmStep DEF CloseListener, RestStep, srvDisk
<1>19. ASSUME RestStops PROVE Kept
  BY <1>19, CalmStep DEF RestStops, RestStep, srvDisk
<1>20. ASSUME AbortRemaining PROVE Kept
  BY <1>20, CalmStep DEF AbortRemaining, srvDisk
<1>21. ASSUME Exit PROVE Kept
  BY <1>21, GoneStep DEF Exit, Gone, srvDisk
<1>22. ASSUME AbortedEnds PROVE Kept
  BY <1>22, CalmStep DEF AbortedEnds, srvDisk
<1>23. ASSUME Killed PROVE Kept
  BY <1>23, GoneStep DEF Killed, Gone, srvDisk
<1>24. ASSUME NEW s \in SrvSecrets, PutSecret(s) PROVE Kept
  BY <1>24 DEF PutSecret, SrvTypeOK, OneKey, KeyInMemory, Stored
<1>25. ASSUME NEW s \in SrvSecrets, SecretDeleted(s) PROVE Kept
  BY <1>25 DEF SecretDeleted, SrvTypeOK, OneKey, KeyInMemory, Stored
<1>26. ASSUME NEW f \in SrvKeys \cup {NoKey}, KeyFileChanges(f) PROVE Kept
  BY <1>26, CalmStep DEF KeyFileChanges
<1>27. ASSUME UNCHANGED srvVars PROVE Kept
  BY <1>27, CalmStep DEF srvVars, srvDisk
<1>. QED
  BY <1>1, <1>2, <1>3, <1>4, <1>5, <1>6, <1>7, <1>8, <1>9, <1>10, <1>11, <1>12,
     <1>13, <1>14, <1>15, <1>16, <1>17, <1>18, <1>19, <1>20, <1>21, <1>22,
     <1>23, <1>24, <1>25, <1>26, <1>27
  DEF SrvNext, SrvBoot, SrvShutdown

\* A serving process can decrypt every stored secret, although its start tried
\* one and the key file may be exchanged at any time (resolve_secrets_key).
THEOREM ServedSecretsReadable == SrvSpec => []SecretsReadable
<1>1. SecretsInv => SecretsReadable
  BY DEF SecretsInv, KeyInMemory, SecretsReadable
<1>. QED  BY <1>1, SecretsInit, SecretsNext, PTL DEF SrvSpec
-----------------------------------------------------------------------------
(***************************************************************************)
(* The operator's way in.  Each part of OperatorGetsIn has an inductive    *)
(* invariant of its own: who holds the first token, what a request in      *)
(* flight remembers, and what a save in progress will put in place.        *)
(***************************************************************************)

First(s) == oprCmd[s].at \in {"deliver", "file"}

\* Only the process that inserted the cluster row delivers a first token, and
\* it does so before there is a token file; tokens are numbered in order.
TokenInv ==
  /\ oprCmd = [s \in Shells |-> oprCmd[s]]
  /\ oprMade \in Nat
  /\ oprHash \in 0..oprMade
  /\ oprHash = NoToken => oprFile = NoToken /\ \A s \in Shells : ~First(s)
  /\ oprFile # NoToken => \A s \in Shells : ~First(s)
  /\ \A s, r \in Shells : First(s) /\ First(r) => s = r
  /\ TokenDelivered
  /\ oprDead \subseteq 1..oprMade
  /\ oprHash \notin oprDead

\* A request in flight whose token was replaced before it was made
RevokedInv ==
  /\ RevokedStaysOut
  /\ \A s \in Shells : At(s, "sent") /\ oprCmd[s].dead => oprCmd[s].token \in oprDead

Usable(cfg) ==
  /\ cfg.whole
  /\ cfg.contexts = [n \in Names |-> cfg.contexts[n]]
  /\ cfg.current \in Names \cup {NoName}
  /\ cfg.current # NoName => Defined(cfg, cfg.current)

\* What a save holds, has written, and renames is a usable config
ConfigInv ==
  /\ oprCmd = [s \in Shells |-> oprCmd[s]]
  /\ oprTmp = [s \in Shells |-> oprTmp[s]]
  /\ Usable(oprConfig)
  /\ \A s \in Shells :
       /\ At(s, "save") \/ At(s, "write") => Usable(oprCmd[s].cfg)
       /\ At(s, "rename") => Usable(oprTmp[s])
-----------------------------------------------------------------------------
\* A step changes the command of the shell that takes it, and no other.
LEMMA OneShell ==
  ASSUME oprCmd = [q \in Shells |-> oprCmd[q]],
         NEW s \in Shells, NEW c, Become(s, c)
  PROVE  /\ oprCmd' = [q \in Shells |-> oprCmd'[q]]
         /\ oprCmd'[s] = c
         /\ \A q \in Shells \ {s} : oprCmd'[q] = oprCmd[q]
BY DEF Become

\* Steps of commands that neither hold an undelivered token nor come to
\* hold one leave the tokens as they are.
LEMMA QuietStep ==
  ASSUME TokenInv, NEW s \in Shells, NEW c, Become(s, c),
         ~Delivering(s), c.at \notin {"deliver", "file", "print"},
         UNCHANGED oprTokens
  PROVE  TokenInv'
<1>1. /\ oprCmd' = [q \in Shells |-> oprCmd'[q]]
      /\ oprCmd'[s] = c
      /\ \A q \in Shells \ {s} : oprCmd'[q] = oprCmd[q]
  BY OneShell DEF TokenInv
<1>2. \A q \in Shells : First(q)' <=> First(q)
  BY <1>1 DEF First, Delivering
<1>3. Held' = Held
  <2>1. \A q \in Shells : Delivering(q)' <=> Delivering(q)
    BY <1>1 DEF Delivering
  <2>2. \A q \in Shells : Delivering(q) => oprCmd'[q] = oprCmd[q]
    BY <1>1
  <2> QED BY <2>1, <2>2 DEF Held
<1>4. TokenDelivered'
  BY <1>3 DEF TokenInv, TokenDelivered, oprTokens
<1> QED BY <1>1, <1>2, <1>4 DEF TokenInv, oprTokens

LEMMA TokenInit == OprInit => TokenInv
BY DEF OprInit, TokenInv, TokenDelivered, First, NotRunning, NoToken

\* The cluster row is inserted while nobody delivers and no file exists.
LEMMA TokenInitCluster ==
  ASSUME TokenInv, NEW s \in Shells, InitCluster(s)
  PROVE  TokenInv'
<1> DEFINE c == [at |-> "deliver", noAuth |-> oprCmd[s].noAuth, token |-> oprMade']
<1>1. Become(s, c) BY DEF InitCluster
<1>2. /\ oprCmd' = [q \in Shells |-> oprCmd'[q]]
      /\ oprCmd'[s] = c
      /\ \A q \in Shells \ {s} : oprCmd'[q] = oprCmd[q]
  BY <1>1, OneShell DEF TokenInv
<1>3. /\ oprHash = NoToken
      /\ oprMade' = oprMade + 1
      /\ oprHash' = oprMade'
      /\ UNCHANGED <<oprFile, oprDead>>
  BY DEF InitCluster, MayInsert
<1>4. oprFile' = NoToken /\ \A q \in Shells \ {s} : ~First(q)'
  BY <1>2, <1>3 DEF TokenInv, First
<1>5. TokenDelivered'
  <2>1. Delivering(s)' /\ oprCmd'[s].token = oprHash'
    BY <1>2, <1>3 DEF Delivering
  <2> QED BY <2>1 DEF TokenDelivered, Held
<1>6. oprHash' \in 0..oprMade' /\ oprHash' # NoToken /\ oprMade' \in Nat
  BY <1>3 DEF TokenInv, NoToken
<1>7. oprDead' \subseteq 1..oprMade' /\ oprHash' \notin oprDead'
  BY <1>3 DEF TokenInv
<1> QED BY <1>2, <1>4, <1>5, <1>6, <1>7 DEF TokenInv

\* A delivered token moves from its process to a terminal or to the file.
LEMMA TokenDeliver ==
  ASSUME TokenInv, NEW s \in Shells,
         DeliverOnTerminal(s) \/ WriteTokenFile(s) \/ PrintToken(s)
  PROVE  TokenInv'
<1>1. PICK c : Become(s, c) /\ c.at \in {"bind", "idle"}
  BY DEF DeliverOnTerminal, WriteTokenFile, PrintToken, NotRunning
<1>2. /\ oprCmd' = [q \in Shells |-> oprCmd'[q]]
      /\ oprCmd'[s] = c
      /\ \A q \in Shells \ {s} : oprCmd'[q] = oprCmd[q]
  BY <1>1, OneShell DEF TokenInv
<1>3. /\ UNCHANGED <<oprHash, oprMade, oprDead, oprLost>>
      /\ oprShown \subseteq oprShown'
      /\ oprCmd[s].token \in oprShown' \cup {oprFile'}
      /\ oprFile' # oprFile => First(s)
  BY DEF DeliverOnTerminal, WriteTokenFile, PrintToken, At, First
<1>4. \A q \in Shells : First(q)' => First(q) /\ q # s
  BY <1>1, <1>2 DEF First
<1>5. oprFile' # oprFile => oprFile = NoToken /\ oprHash # NoToken /\ \A q \in Shells : ~First(q)'
  BY <1>3, <1>4 DEF TokenInv
<1>6. TokenDelivered'
  <2> SUFFICES ASSUME oprHash # NoToken
               PROVE  oprHash \in oprShown' \cup {oprFile'} \cup Held' \cup oprLost
    BY <1>3 DEF TokenDelivered
  <2>1. CASE oprHash \in Held
    <3>1. PICK q \in Shells : Delivering(q) /\ oprHash = oprCmd[q].token
      BY <2>1 DEF Held
    <3>2. CASE q = s BY <3>1, <3>2, <1>3
    <3>3. CASE q # s
      <4>1. Delivering(q)' /\ oprHash = oprCmd'[q].token
        BY <3>1, <3>3, <1>2 DEF Delivering
      <4> QED BY <4>1 DEF Held
    <3> QED BY <3>2, <3>3
  <2>2. CASE oprHash = oprFile
    BY <2>2, <1>5, <1>3
  <2> QED BY <2>1, <2>2, <1>3 DEF TokenInv, TokenDelivered
<1> QED BY <1>2, <1>3, <1>4, <1>5, <1>6 DEF TokenInv

\* Truncating the file loses nothing: there was none.
LEMMA TokenCreateFile ==
  ASSUME TokenInv, NEW s \in Shells, CreateTokenFile(s)
  PROVE  TokenInv'
<1> DEFINE c == [at |-> "file", noAuth |-> oprCmd[s].noAuth, token |-> oprCmd[s].token]
<1>1. Become(s, c) /\ First(s) /\ Delivering(s)
  BY DEF CreateTokenFile, At, First, Delivering
<1>2. /\ oprCmd' = [q \in Shells |-> oprCmd'[q]]
      /\ oprCmd'[s] = c
      /\ \A q \in Shells \ {s} : oprCmd'[q] = oprCmd[q]
  BY <1>1, OneShell DEF TokenInv
<1>3. oprFile' = NoToken /\ oprFile = NoToken
  BY <1>1 DEF CreateTokenFile, TokenInv
<1>4. UNCHANGED <<oprHash, oprMade, oprShown, oprLost, oprDead>>
  BY DEF CreateTokenFile
<1>5. \A q \in Shells : First(q)' <=> First(q)
  BY <1>1, <1>2 DEF First
<1>6. \A q \in Shells : /\ Delivering(q)' <=> Delivering(q)
                        /\ oprCmd'[q].token = oprCmd[q].token \/ oprCmd'[q] = oprCmd[q]
  BY <1>1, <1>2 DEF Delivering
<1>7. Held' = Held
  BY <1>6 DEF Held
<1>8. TokenDelivered'
  BY <1>3, <1>4, <1>7 DEF TokenInv, TokenDelivered
<1> QED BY <1>2, <1>3, <1>4, <1>5, <1>8 DEF TokenInv

LEMMA TokenRotate ==
  ASSUME TokenInv, NEW s \in Shells, Rotate(s)
  PROVE  TokenInv'
<1> DEFINE c == [at |-> "print", token |-> oprMade']
<1>1. Become(s, c) BY DEF Rotate
<1>2. /\ oprCmd' = [q \in Shells |-> oprCmd'[q]]
      /\ oprCmd'[s] = c
      /\ \A q \in Shells \ {s} : oprCmd'[q] = oprCmd[q]
  BY <1>1, OneShell DEF TokenInv
<1>3. /\ oprHash # NoToken /\ oprMade' = oprMade + 1 /\ oprHash' = oprMade'
      /\ oprDead' = oprDead \cup {oprHash} /\ oprFile' = oprFile
  BY DEF Rotate
<1>4. \A q \in Shells : First(q)' => First(q)
  BY <1>2 DEF First
<1>5. TokenDelivered'
  <2>1. Delivering(s)' /\ oprCmd'[s].token = oprHash'
    BY <1>2, <1>3 DEF Delivering
  <2> QED BY <2>1 DEF TokenDelivered, Held
<1>6. /\ oprMade' \in Nat /\ oprHash' \in 0..oprMade' /\ oprHash' # NoToken
      /\ oprDead' \subseteq 1..oprMade' /\ oprHash' \notin oprDead'
  BY <1>3 DEF TokenInv, NoToken
<1> QED BY <1>2, <1>3, <1>4, <1>5, <1>6 DEF TokenInv

\* A process that dies holding a token is remembered.
LEMMA TokenDies ==
  ASSUME TokenInv, NEW s \in Shells, Dies(s)
  PROVE  TokenInv'
<1>1. Become(s, NotRunning) BY DEF Dies
<1>2. /\ oprCmd' = [q \in Shells |-> oprCmd'[q]]
      /\ oprCmd'[s] = NotRunning
      /\ \A q \in Shells \ {s} : oprCmd'[q] = oprCmd[q]
  BY <1>1, OneShell DEF TokenInv
<1>3. /\ UNCHANGED <<oprHash, oprMade, oprFile, oprShown, oprDead>>
      /\ oprLost \subseteq oprLost'
      /\ Delivering(s) => oprCmd[s].token \in oprLost'
  BY DEF Dies
<1>4. \A q \in Shells : First(q)' => First(q)
  BY <1>2 DEF First, NotRunning
<1>5. Held \subseteq Held' \cup oprLost'
  <2> SUFFICES ASSUME NEW q \in Shells, Delivering(q)
               PROVE  oprCmd[q].token \in Held' \cup oprLost'
    BY DEF Held
  <2>1. CASE q = s BY <2>1, <1>3
  <2>2. CASE q # s
    <3>1. Delivering(q)' /\ oprCmd'[q] = oprCmd[q]
      BY <2>2, <1>2 DEF Delivering
    <3> QED BY <3>1 DEF Held
  <2> QED BY <2>1, <2>2
<1>6. TokenDelivered'
  BY <1>3, <1>5 DEF TokenInv, TokenDelivered
<1> QED BY <1>2, <1>3, <1>4, <1>6 DEF TokenInv

LEMMA TokenRead ==
  ASSUME TokenInv, ReadTokenFile
  PROVE  TokenInv'
<1>1. Held' = Held BY DEF ReadTokenFile, Held, Delivering
<1>2. \A q \in Shells : First(q)' <=> First(q) BY DEF ReadTokenFile, First
<1>3. TokenDelivered' BY <1>1 DEF ReadTokenFile, TokenInv, TokenDelivered
<1> QED BY <1>2, <1>3 DEF ReadTokenFile, TokenInv

LEMMA TokenNext == TokenInv /\ [OprNext]_oprVars => TokenInv'
<1> SUFFICES ASSUME TokenInv, [OprNext]_oprVars PROVE TokenInv'
  OBVIOUS
<1>1. ASSUME NEW s \in Shells, OprServer(s) PROVE TokenInv'
  <2>1. ASSUME NEW f \in Flags, StartServer(s, f) PROVE TokenInv'
    BY <2>1, QuietStep DEF StartServer, At, Delivering
  <2>2. CASE FindCluster(s)
    BY <2>2, QuietStep DEF FindCluster, At, Delivering
  <2>3. CASE InitFails(s)
    BY <2>3, QuietStep DEF InitFails, At, Delivering, NotRunning
  <2>4. CASE BindRest(s)
    BY <2>4, QuietStep DEF BindRest, At, Delivering
  <2> QED
    BY <1>1, <2>1, <2>2, <2>3, <2>4, TokenInitCluster, TokenDeliver, TokenCreateFile
    DEF OprServer
<1>2. ASSUME NEW s \in Shells, OprEdit(s) PROVE TokenInv'
  <2>1. CASE LoadAndEdit(s)
    <3>1. PICK c : Become(s, c) /\ c.at = "save"
      BY <2>1 DEF LoadAndEdit
    <3> QED BY <2>1, <3>1, QuietStep DEF LoadAndEdit, At, Delivering
  <2>2. CASE OpenTmp(s)
    BY <2>2, QuietStep DEF OpenTmp, At, Delivering
  <2>3. CASE WriteTmp(s)
    BY <2>3, QuietStep DEF WriteTmp, At, Delivering
  <2>4. CASE RenameTmp(s)
    BY <2>4, QuietStep DEF RenameTmp, At, Delivering, NotRunning
  <2> QED BY <1>2, <2>1, <2>2, <2>3, <2>4 DEF OprEdit
<1>3. ASSUME NEW s \in Shells, OprRequest(s) PROVE TokenInv'
  <2>1. ASSUME NEW api, NEW flag, NEW name, NEW insecure,
               SendRequest(s, api, flag, name, insecure)
        PROVE  TokenInv'
    BY <2>1, QuietStep DEF SendRequest, At, Delivering
  <2>2. CASE RequireAuth(s)
    <3>1. PICK c : Become(s, c) /\ c.at \in {"handler", "idle"}
      BY <2>2 DEF RequireAuth, NotRunning
    <3> QED BY <2>2, <3>1, QuietStep DEF RequireAuth, At, Delivering
  <2>3. CASE Respond(s)
    BY <2>3, QuietStep DEF Respond, At, Delivering, NotRunning
  <2> QED BY <1>3, <2>1, <2>2, <2>3 DEF OprRequest
<1>4. CASE UNCHANGED oprVars
  <2>1. Held' = Held BY <1>4 DEF oprVars, Held, Delivering
  <2>2. \A q \in Shells : First(q)' <=> First(q) BY <1>4 DEF oprVars, First
  <2>3. TokenDelivered' BY <2>1, <1>4 DEF oprVars, oprTokens, TokenInv, TokenDelivered
  <2> QED BY <2>2, <2>3, <1>4 DEF oprVars, oprTokens, TokenInv
<1> QED
  BY <1>1, <1>2, <1>3, <1>4, TokenDeliver, TokenRotate, TokenDies, TokenRead DEF OprNext
-----------------------------------------------------------------------------
\* A request remembers, from its making to its handler, whether its token had
\* been replaced; the check lets no such token through.
LEMMA RevokedNext == TokenInv /\ RevokedInv /\ [OprNext]_oprVars => RevokedInv'
<1> SUFFICES ASSUME TokenInv, RevokedInv, [OprNext]_oprVars PROVE RevokedInv'
  OBVIOUS
<1> USE DEF At
<1>1. ASSUME NEW s \in Shells, NEW c, Become(s, c), oprDead \subseteq oprDead',
             c.at = "sent" /\ c.dead => c.token \in oprDead',
             c.at = "handler" => ~(c.checked /\ c.dead)
      PROVE  RevokedInv'
  <2>1. /\ oprCmd'[s] = c
        /\ \A q \in Shells \ {s} : oprCmd'[q] = oprCmd[q]
    BY <1>1, OneShell DEF TokenInv
  <2> QED BY <2>1, <1>1 DEF RevokedInv, RevokedStaysOut
<1>2. ASSUME NEW s \in Shells, OprServer(s) PROVE RevokedInv'
  <2>1. ASSUME NEW f \in Flags, StartServer(s, f) PROVE RevokedInv'
    BY <2>1, <1>1 DEF StartServer, oprTokens
  <2>2. CASE FindCluster(s)
    BY <2>2, <1>1 DEF FindCluster, oprTokens
  <2>3. CASE InitCluster(s)
    BY <2>3, <1>1 DEF InitCluster
  <2>4. CASE InitFails(s)
    BY <2>4, <1>1 DEF InitFails, oprTokens, NotRunning
  <2>5. CASE DeliverOnTerminal(s) \/ CreateTokenFile(s) \/ WriteTokenFile(s)
    BY <2>5, <1>1 DEF DeliverOnTerminal, CreateTokenFile, WriteTokenFile
  <2>6. CASE BindRest(s)
    BY <2>6, <1>1 DEF BindRest, oprTokens
  <2> QED BY <1>2, <2>1, <2>2, <2>3, <2>4, <2>5, <2>6 DEF OprServer
<1>3. ASSUME NEW s \in Shells, Rotate(s) \/ PrintToken(s) \/ Dies(s) PROVE RevokedInv'
  <2>1. PICK c : Become(s, c) /\ c.at \notin {"sent", "handler"}
    BY <1>3 DEF Rotate, PrintToken, Dies, NotRunning
  <2>2. oprDead \subseteq oprDead'
    BY <1>3 DEF Rotate, PrintToken, Dies
  <2> QED BY <1>1, <2>1, <2>2
<1>4. ASSUME NEW s \in Shells, OprEdit(s) PROVE RevokedInv'
  <2>1. CASE LoadAndEdit(s)
    BY <2>1, <1>1 DEF LoadAndEdit, oprTokens
  <2>2. CASE OpenTmp(s) \/ WriteTmp(s)
    BY <2>2, <1>1 DEF OpenTmp, WriteTmp, oprTokens
  <2>3. CASE RenameTmp(s)
    BY <2>3, <1>1 DEF RenameTmp, oprTokens, NotRunning
  <2> QED BY <1>4, <2>1, <2>2, <2>3 DEF OprEdit
<1>5. ASSUME NEW s \in Shells, NEW api, NEW flag, NEW name, NEW insecure,
             SendRequest(s, api, flag, name, insecure)
      PROVE  RevokedInv'
  BY <1>5, <1>1 DEF SendRequest, oprTokens
<1>6. ASSUME NEW s \in Shells, RequireAuth(s) PROVE RevokedInv'
  <2>1. PICK server \in Shells :
          Become(s, IF oprCmd[server].noAuth \/ VerifyApiToken(oprCmd[s].token)
                    THEN [at |-> "handler", dead |-> oprCmd[s].dead,
                          checked |-> ~oprCmd[server].noAuth]
                    ELSE NotRunning)
    BY <1>6 DEF RequireAuth
  <2>2. At(s, "sent") /\ oprDead' = oprDead
    BY <1>6 DEF RequireAuth, oprTokens
  <2>3. CASE oprCmd[server].noAuth \/ VerifyApiToken(oprCmd[s].token)
    <3> DEFINE c == [at |-> "handler", dead |-> oprCmd[s].dead,
                     checked |-> ~oprCmd[server].noAuth]
    <3>1. ASSUME c.checked, c.dead PROVE FALSE
      <4>1. oprCmd[s].token = oprHash BY <2>3, <3>1 DEF VerifyApiToken
      <4>2. oprCmd[s].token \in oprDead BY <2>2, <3>1 DEF RevokedInv
      <4> QED BY <4>1, <4>2 DEF TokenInv
    <3>2. Become(s, c) BY <2>1, <2>3
    <3> QED BY <3>1, <3>2, <2>2, <1>1
  <2>4. CASE ~(oprCmd[server].noAuth \/ VerifyApiToken(oprCmd[s].token))
    <3>1. Become(s, NotRunning) BY <2>1, <2>4
    <3> QED BY <3>1, <2>2, <1>1 DEF NotRunning
  <2> QED BY <2>3, <2>4
<1>7. ASSUME NEW s \in Shells, Respond(s) PROVE RevokedInv'
  BY <1>7, <1>1 DEF Respond, oprTokens, NotRunning
<1>8. CASE ReadTokenFile \/ UNCHANGED oprVars
  BY <1>8 DEF ReadTokenFile, oprVars, oprTokens, RevokedInv, RevokedStaysOut
<1> QED
  BY <1>2, <1>3, <1>4, <1>5, <1>6, <1>7, <1>8 DEF OprNext, OprRequest
-----------------------------------------------------------------------------
\* Setting, selecting and setup's upsert each keep a usable config usable.
LEMMA EditsKeepUsable ==
  ASSUME NEW cfg, Usable(cfg), NEW n \in Names, NEW url \in Urls, NEW token,
         NEW edit \in Edited(cfg, n, url, token)
  PROVE  Usable(edit)
<1>1. [url |-> url, key |-> token] # NoEntry
  BY DEF Urls, NoEntry
<1>2. \A k : [url |-> url, key |-> k] # NoEntry
  BY DEF Urls, NoEntry
<1>3. NoName \notin Names
  BY NoNameIsNoName
<1>4. CASE edit = SetContext(cfg, n, url, token)
  <2> DEFINE key == IF token = NoToken THEN cfg.contexts[n].key ELSE token
             entry == [url |-> url, key |-> key]
  <2>1. entry # NoEntry BY <1>2
  <2>2. edit = Config(cfg.current, [cfg.contexts EXCEPT ![n] = entry])
    BY <1>4 DEF SetContext
  <2> HIDE DEF entry
  <2> QED BY <2>1, <2>2, <1>3 DEF Usable, Defined, Config
<1>5. CASE edit = ApplyClient(cfg, n, url, token)
  BY <1>1, <1>5, <1>3 DEF ApplyClient, Usable, Defined, Config
<1>6. ASSUME NEW m \in Names, Defined(cfg, m), edit = SetCurrent(cfg, m)
      PROVE  Usable(edit)
  BY <1>6 DEF SetCurrent, Usable, Defined, Config
<1> QED BY <1>4, <1>5, <1>6 DEF Edited

LEMMA ConfigInit == OprInit => ConfigInv
BY DEF OprInit, ConfigInv, Usable, Default, Config, NotRunning, At

\* Only a save's own steps touch what it holds, and only whole configs are
\* renamed into place.
LEMMA ConfigNext == ConfigInv /\ [OprNext]_oprVars => ConfigInv'
<1> SUFFICES ASSUME ConfigInv, [OprNext]_oprVars PROVE ConfigInv'
  OBVIOUS
<1> USE DEF At
<1>1. ASSUME NEW s \in Shells, NEW c, Become(s, c), UNCHANGED <<oprConfig, oprTmp>>,
             c.at \in {"save", "write"} => Usable(c.cfg), c.at # "rename"
      PROVE  ConfigInv'
  <2>1. /\ oprCmd' = [q \in Shells |-> oprCmd'[q]]
        /\ oprCmd'[s] = c
        /\ \A q \in Shells \ {s} : oprCmd'[q] = oprCmd[q]
    BY <1>1, OneShell DEF ConfigInv
  <2> QED BY <2>1, <1>1 DEF ConfigInv, Usable, Defined
<1>2. ASSUME NEW s \in Shells, OprServer(s) PROVE ConfigInv'
  <2>1. ASSUME NEW f \in Flags, StartServer(s, f) PROVE ConfigInv'
    BY <2>1, <1>1 DEF StartServer, oprClient
  <2>2. CASE FindCluster(s)
    BY <2>2, <1>1 DEF FindCluster, oprClient
  <2>3. CASE InitCluster(s)
    BY <2>3, <1>1 DEF InitCluster, oprClient
  <2>4. CASE InitFails(s)
    BY <2>4, <1>1 DEF InitFails, oprClient, NotRunning
  <2>5. CASE DeliverOnTerminal(s) \/ CreateTokenFile(s) \/ WriteTokenFile(s)
    BY <2>5, <1>1 DEF DeliverOnTerminal, CreateTokenFile, WriteTokenFile, oprClient
  <2>6. CASE BindRest(s)
    BY <2>6, <1>1 DEF BindRest, oprClient
  <2> QED BY <1>2, <2>1, <2>2, <2>3, <2>4, <2>5, <2>6 DEF OprServer
<1>3. ASSUME NEW s \in Shells, Rotate(s) \/ PrintToken(s) PROVE ConfigInv'
  BY <1>3, <1>1 DEF Rotate, PrintToken, oprClient, NotRunning
<1>4. ASSUME NEW s \in Shells, LoadAndEdit(s) PROVE ConfigInv'
  <2>1. PICK n \in Names, url \in Urls, token \in oprShown \cup {NoToken} :
          \E cfg \in Edited(oprConfig, n, url, token) :
            Become(s, [at |-> "save", cfg |-> cfg])
    BY <1>4 DEF LoadAndEdit
  <2>2. PICK cfg \in Edited(oprConfig, n, url, token) :
          Become(s, [at |-> "save", cfg |-> cfg])
    BY <2>1
  <2>3. Usable(cfg)
    BY EditsKeepUsable DEF ConfigInv
  <2> QED BY <2>2, <2>3, <1>4, <1>1 DEF LoadAndEdit
<1>5. ASSUME NEW s \in Shells, OpenTmp(s) \/ WriteTmp(s) PROVE ConfigInv'
  <2>1. /\ oprConfig' = oprConfig
        /\ oprTmp' = [q \in Shells |-> oprTmp'[q]]
        /\ \A q \in Shells \ {s} : oprTmp'[q] = oprTmp[q]
    BY <1>5 DEF OpenTmp, WriteTmp, TmpOf, ConfigInv
  <2>2. PICK c : /\ Become(s, c)
                 /\ \/ c.at = "write" /\ c.cfg = oprCmd[s].cfg /\ At(s, "save")
                    \/ c.at = "rename" /\ oprTmp'[s] = oprCmd[s].cfg /\ At(s, "write")
    <3>1. CASE OpenTmp(s) BY <3>1 DEF OpenTmp
    <3>2. CASE WriteTmp(s)
      <4>1. oprTmp'[s] = oprCmd[s].cfg BY <3>2 DEF WriteTmp, TmpOf, ConfigInv
      <4> QED BY <3>2, <4>1 DEF WriteTmp
    <3> QED BY <1>5, <3>1, <3>2
  <2>3. /\ oprCmd' = [q \in Shells |-> oprCmd'[q]]
        /\ oprCmd'[s] = c
        /\ \A q \in Shells \ {s} : oprCmd'[q] = oprCmd[q]
    BY <2>2, OneShell DEF ConfigInv
  <2> QED BY <2>1, <2>2, <2>3 DEF ConfigInv
<1>6. ASSUME NEW s \in Shells, RenameTmp(s) \/ Dies(s) PROVE ConfigInv'
  <2>1. Become(s, NotRunning) BY <1>6 DEF RenameTmp, Dies
  <2>2. /\ oprCmd' = [q \in Shells |-> oprCmd'[q]]
        /\ oprCmd'[s] = NotRunning
        /\ \A q \in Shells \ {s} : oprCmd'[q] = oprCmd[q]
    BY <2>1, OneShell DEF ConfigInv
  <2>3. /\ oprTmp' = [q \in Shells |-> oprTmp'[q]]
        /\ \A q \in Shells \ {s} : oprTmp'[q] = oprTmp[q]
    BY <1>6 DEF RenameTmp, Dies, TmpOf, ConfigInv
  <2>4. Usable(oprConfig)'
    <3>1. oprConfig' = oprConfig \/ (At(s, "rename") /\ oprConfig' = oprTmp[s])
      BY <1>6 DEF RenameTmp, Dies, TmpOf
    <3> QED BY <3>1 DEF ConfigInv
  <2> QED BY <2>2, <2>3, <2>4 DEF ConfigInv, Usable, Defined, NotRunning
<1>7. ASSUME NEW s \in Shells, OprRequest(s) PROVE ConfigInv'
  <2>1. ASSUME NEW api, NEW flag, NEW name, NEW insecure,
               SendRequest(s, api, flag, name, insecure)
        PROVE  ConfigInv'
    BY <2>1, <1>1 DEF SendRequest, oprClient
  <2>2. CASE RequireAuth(s)
    <3>1. PICK c : Become(s, c) /\ c.at \in {"handler", "idle"}
      BY <2>2 DEF RequireAuth, NotRunning
    <3> QED BY <2>2, <3>1, <1>1 DEF RequireAuth, oprClient
  <2>3. CASE Respond(s)
    BY <2>3, <1>1 DEF Respond, oprClient, NotRunning
  <2> QED BY <1>7, <2>1, <2>2, <2>3 DEF OprRequest
<1>8. CASE ReadTokenFile \/ UNCHANGED oprVars
  BY <1>8 DEF ReadTokenFile, oprVars, oprClient, ConfigInv, Usable, Defined
<1> QED
  BY <1>2, <1>3, <1>4, <1>5, <1>6, <1>7, <1>8 DEF OprNext, OprEdit
-----------------------------------------------------------------------------
\* The wizard's flags, whatever the answers
LEMMA WizardPlanStarts == PlanStarts
BY DEF PlanStarts, Answers, Hostnames, FlagsAccepted, PlanFlags, ResolveAuthPlan,
       WantsNoAuth, ConfirmsHatch, ValidateAuthStartup, ValidatePublicFlags

(***************************************************************************)
(* Whatever the commands, and wherever they die: the stored token reached  *)
(* the operator or its loss is known, no replaced token runs a handler,    *)
(* the contexts parse, and what the wizard prints can be run.              *)
(***************************************************************************)
THEOREM OperatorAlwaysGetsIn == OprSpec => []OperatorGetsIn
<1>1. OprInit => TokenInv /\ RevokedInv /\ ConfigInv
  <2>1. OprInit => RevokedInv
    BY DEF OprInit, RevokedInv, RevokedStaysOut, At, NotRunning
  <2> QED BY <2>1, TokenInit, ConfigInit
<1>2. TokenInv /\ RevokedInv /\ ConfigInv /\ [OprNext]_oprVars
        => TokenInv' /\ RevokedInv' /\ ConfigInv'
  BY TokenNext, RevokedNext, ConfigNext
<1>3. TokenInv /\ RevokedInv /\ ConfigInv => OperatorGetsIn
  <2>1. ConfigInv => ConfigUsable
    BY DEF ConfigInv, Usable, ConfigUsable
  <2> QED BY <2>1, WizardPlanStarts DEF TokenInv, RevokedInv, OperatorGetsIn
<1> QED BY <1>1, <1>2, <1>3, PTL DEF OprSpec
-----------------------------------------------------------------------------
(***************************************************************************)
(* The types.  Of the SSH listeners, SshTypeOK says what a listener may    *)
(* accept; what makes it true is what a pass has resolved for it.          *)
(***************************************************************************)
SshWant == [keys : SUBSET SshValues, names : SUBSET SshKeyNames, resolved : BOOLEAN]
SshAsked == [enabled : BOOLEAN, names : SUBSET SshKeyNames]
SshListener ==
  [keys : (SUBSET SshValues) \ {{}}, names : SUBSET SshKeyNames, accepting : BOOLEAN]

SshInv ==
  /\ sshRegistry \in [SshKeyNames -> SshValues \cup {NoSsh}]
  /\ sshOverride \in [SshInstances -> SshAsked \cup {NoSsh}]
  /\ sshActive \in [SshInstances -> SshListener \cup {NoSsh}]
  /\ sshVm \in [SshInstances -> {"up", "down", "held"}]
  /\ sshPass \in [at : {"idle", "resolve", "turns"}, todo : SUBSET SshInstances,
                  want : [SshInstances -> SshWant]]
  /\ sshClosing \subseteq SshInstances
  /\ sshEdits \in 0..MaxSshEdits
  /\ sshErrors \in 0..MaxAcceptErrors

LEMMA SshInvTypes == SshInv => SshTypeOK
  BY DEF SshInv, SshTypeOK, SshAsked, SshListener

\* A pass without an instance to resolve wants nothing of any.
LEMMA SshIdle ==
  Idle \in [at : {"idle", "resolve", "turns"}, todo : SUBSET SshInstances,
            want : [SshInstances -> SshWant]]
  BY DEF Idle, Closed, SshWant

LEMMA SshInitTypes == SshInit => SshInv
  BY SshIdle, SshBounds DEF SshInit, SshInv

\* Only values in the registry are let in, whoever asks for which names.
LEMMA SshDesiredType ==
  ASSUME SshInv, NEW i \in SshInstances
  PROVE  SshDesired(i) \in SshWant
<1>1. Closed \in SshWant /\ Unresolved \in SshWant
  BY DEF Closed, Unresolved, SshWant
<1>2. ASSUME NEW asked \in SUBSET SshKeyNames
      PROVE  Opened(asked) \in SshWant
  <2>. DEFINE names == IF asked = {} THEN Registered ELSE asked
  <2>1. names \subseteq SshKeyNames
    BY DEF Registered
  <2>2. names \subseteq Registered => ValuesOf(names) \subseteq SshValues
    BY DEF SshInv, Registered, ValuesOf
  <2>. HIDE DEF names
  <2>3. Opened(asked) =
          IF names = {} \/ ~(names \subseteq Registered) THEN Unresolved
          ELSE [keys |-> ValuesOf(names), names |-> names, resolved |-> TRUE]
    BY DEF Opened, names
  <2>4. names \subseteq Registered =>
          [keys |-> ValuesOf(names), names |-> names, resolved |-> TRUE] \in SshWant
    BY <2>1, <2>2 DEF SshWant
  <2>. QED  BY <1>1, <2>3, <2>4
<1>3. YamlSsh[i] # NoSsh => YamlSsh[i] \in SUBSET SshKeyNames
  BY YamlSshShape
<1>4. sshOverride[i] # NoSsh => sshOverride[i].names \in SUBSET SshKeyNames
  BY DEF SshInv, SshAsked
<1>. QED  BY <1>1, <1>2, <1>3, <1>4 DEF SshDesired

LEMMA SshNextTypes ==
  ASSUME SshInv, [SshNext]_sshVars PROVE SshInv'
<1>. USE DEF SshInv, sshDesiredVars
<1>1. ASSUME SshEdit,
             sshRegistry' \in [SshKeyNames -> SshValues \cup {NoSsh}],
             sshOverride' \in [SshInstances -> SshAsked \cup {NoSsh}]
      PROVE  SshInv'
  <2>1. sshEdits' \in 0..MaxSshEdits
    BY <1>1, SshBounds DEF SshEdit
  <2>. QED  BY <1>1, <2>1 DEF SshEdit
<1>2. CASE SshApi
  <2>1. ASSUME NEW n \in SshKeyNames, NEW v \in SshValues, PutKey(n, v) PROVE SshInv'
    BY <1>1, <2>1 DEF PutKey
  <2>2. ASSUME NEW n \in SshKeyNames, DeleteKey(n) PROVE SshInv'
    BY <1>1, <2>2 DEF DeleteKey
  <2>3. ASSUME NEW i \in SshInstances, ClearOverride(i) PROVE SshInv'
    BY <1>1, <2>3 DEF ClearOverride
  <2>4. ASSUME NEW i \in SshInstances, NEW b \in BOOLEAN,
               NEW names \in SUBSET SshKeyNames, PutOverride(i, b, names)
        PROVE  SshInv'
    <3>1. [enabled |-> b, names |-> names] \in SshAsked
      BY DEF SshAsked
    <3>. QED  BY <1>1, <2>4, <3>1 DEF PutOverride
  <2>. QED  BY <1>2, <2>1, <2>2, <2>3, <2>4 DEF SshApi
<1>3. ASSUME NEW i \in SshInstances, Resolve(i) PROVE SshInv'
  <2>. DEFINE want == [sshPass.want EXCEPT ![i] = SshDesired(i)]
  <2>1. want \in [SshInstances -> SshWant]
    BY SshDesiredType
  <2>. HIDE DEF want
  <2>2. sshPass' = IF sshPass.todo = {i}
                   THEN [at |-> "turns", want |-> want,
                         todo |-> {j \in SshInstances : want[j].resolved}]
                   ELSE [sshPass EXCEPT !.todo = @ \ {i}, !.want = want]
    BY <1>3 DEF Resolve, want
  <2>3. sshPass' \in [at : {"idle", "resolve", "turns"}, todo : SUBSET SshInstances,
                      want : [SshInstances -> SshWant]]
    BY <2>1, <2>2
  <2>. QED  BY <1>3, <2>3 DEF Resolve
<1>4. ASSUME NEW i \in SshInstances, ReconcileSsh(i) PROVE SshInv'
  <2>. DEFINE want == sshPass.want[i]
  <2>1. want \in SshWant
    OBVIOUS
  <2>2. WantsListener(i, want) => Listens(i, want) \in SshListener \cup {NoSsh}
    BY <2>1 DEF WantsListener, Listens, SshWant, SshListener
  <2>3. sshActive' \in [SshInstances -> SshListener \cup {NoSsh}]
    BY <1>4, <2>2 DEF ReconcileSsh
  <2>4. sshClosing' \subseteq SshInstances
    BY <1>4 DEF ReconcileSsh
  <2>. QED  BY <1>4, <2>3, <2>4 DEF ReconcileSsh, TurnDone
<1>5. ASSUME NEW i \in SshInstances, HeldBack(i) PROVE SshInv'
  BY <1>5 DEF HeldBack, TurnDone
<1>6. CASE CloseMissing
  BY <1>6, SshIdle DEF CloseMissing
<1>7. ASSUME NEW i \in SshInstances, SocketDropped(i) PROVE SshInv'
  BY <1>7 DEF SocketDropped
<1>8. ASSUME NEW i \in SshInstances, AcceptFails(i) PROVE SshInv'
  <2>1. sshActive' \in [SshInstances -> SshListener \cup {NoSsh}]
    BY ZenonT(40), <1>8 DEF AcceptFails, Open, SshListener
  <2>2. sshErrors' \in 0..MaxAcceptErrors
    BY <1>8, SshBounds DEF AcceptFails
  <2>. QED  BY <1>8, <2>1, <2>2 DEF AcceptFails
<1>9. ASSUME NEW i \in SshInstances, NEW state \in {"up", "down", "held"},
             VmChanges(i, state)
      PROVE  SshInv'
  BY <1>9 DEF VmChanges
<1>10. ASSUME SessionChanged PROVE SshInv'
  BY <1>10 DEF SessionChanged
<1>11. CASE UNCHANGED sshVars
  BY <1>11 DEF sshVars
<1>12. CASE BeginPass
  BY <1>12 DEF BeginPass
<1>. QED
  BY <1>1, <1>2, <1>3, <1>4, <1>5, <1>6, <1>7, <1>8, <1>9, <1>10, <1>11, <1>12
  DEF SshNext, SshPassStep, Connect, Transfer, DeadlinePasses, SessionEnds
\* The pass is a record of these, with no route left to probe once the files'
\* turn has come, and the print holds at most one fingerprint.
IngInv ==
  /\ IngTypeOK
  /\ PassIsRecord
  /\ ingPrint = <<>> \/ \E q : ingPrint = <<q>>

LEMMA IngInitTypes == IngInit => IngInv
<1>. SUFFICES ASSUME IngInit PROVE IngInv
  OBVIOUS
<1>1. [o \in IngReplicas |-> Nobody] \in [IngReplicas -> Replica]
  BY DEF Nobody, Replica
<1>2. PassIsRecord
  BY DEF IngInit, NoPass, PassIsRecord
<1>. QED  BY <1>1, <1>2, IngBounds DEF IngInit, IngInv, IngTypeOK, NoPass

LEMMA IngNextTypes ==
  ASSUME IngInv, [IngNext]_ingVars PROVE IngInv'
<1>. USE DEF IngInv
<1>1. ASSUME UNCHANGED <<ingRow, ingWorld, ingFaults>>,
             PassIsRecord',
             ingPass'.at \in {"idle", "turns", "probe", "catalog", "proxy", "persist"},
             ingPass'.found \in [IngReplicas -> Replica],
             ingPass'.ready \subseteq AllRoutes, ingPass'.todo \subseteq AllRoutes,
             ingPass'.at \in {"catalog", "proxy", "persist"} => ingPass'.todo = {},
             ingPrint' = ingPrint \/ \E q : ingPrint' = <<q>>
      PROVE  IngInv'
  <2>1. ingPrint' = <<>> \/ \E q : ingPrint' = <<q>>
    BY <1>1
  <2>2. Len(ingPrint') <= 1
    <3>1. CASE ingPrint' = <<>>
      BY <3>1
    <3>2. ASSUME NEW q, ingPrint' = <<q>> PROVE Len(ingPrint') <= 1
      BY <3>2
    <3>. QED  BY <2>1, <3>1, <3>2
  <2>. QED  BY <1>1, <2>1, <2>2 DEF IngTypeOK, ingWorld, AllRoutes
<1>2. CASE PlanRoutes
  <2>1. [o \in IngReplicas |-> Nobody] \in [IngReplicas -> Replica]
    BY DEF Nobody, Replica
  <2>. QED  BY <1>1, <1>2, <2>1 DEF PlanRoutes, NoPass, PassIsRecord
<1>3. CASE ReportPhases
  BY <1>1, <1>3 DEF ReportPhases, IngTypeOK, PassIsRecord, AllRoutes
<1>4. ASSUME NEW r \in IngRoutes, ProbeRoute(r) PROVE IngInv'
  BY <1>1, <1>4 DEF ProbeRoute, IngTypeOK, PassIsRecord, AllRoutes
<1>5. CASE Unchanged
  BY <1>1, <1>5 DEF Unchanged, IngTypeOK, PassIsRecord
<1>6. CASE WriteCatalog
  BY <1>1, <1>6 DEF WriteCatalog, PrintAfterCatalog, IngTypeOK, PassIsRecord
<1>7. CASE WriteProxy
  BY <1>1, <1>7 DEF WriteProxy, IngTypeOK, PassIsRecord
<1>8. CASE PersistReports
  <2>1. /\ ingPass' = NoPass /\ ingRow' = ingPass.found
        /\ UNCHANGED <<ingWorld, ingPrint, ingFaults>>
    BY <1>8 DEF PersistReports
  <2>2. [o \in IngReplicas |-> Nobody] \in [IngReplicas -> Replica]
    BY DEF Nobody, Replica
  <2>. QED  BY <2>1, <2>2 DEF NoPass, IngTypeOK, PassIsRecord, ingWorld, AllRoutes
<1>9. CASE WriteFails
  <2>1. ingFaults' \in 0..MaxIngFaults
    BY <1>9, IngBounds DEF WriteFails, IngTypeOK
  <2>2. PassIsRecord' /\ ingPass'.at = "persist" /\ ingPass'.found = ingPass.found
        /\ ingPass'.ready = ingPass.ready /\ ingPass'.todo = ingPass.todo
        /\ ingPass.todo = {}
    BY <1>9 DEF WriteFails, PassIsRecord, IngTypeOK
  <2>. QED  BY <1>9, <2>1, <2>2 DEF WriteFails, IngTypeOK, ingWorld, AllRoutes
<1>10. CASE ServerDies
  <2>1. /\ ingPass' = NoPass /\ ingPrint' = <<>>
        /\ UNCHANGED <<ingRow, ingWorld>>
        /\ ingFaults' \in 0..MaxIngFaults
    BY <1>10, IngBounds DEF ServerDies, IngTypeOK
  <2>2. [o \in IngReplicas |-> Nobody] \in [IngReplicas -> Replica]
    BY DEF Nobody, Replica
  <2>. QED  BY <2>1, <2>2 DEF NoPass, IngTypeOK, PassIsRecord, ingWorld, AllRoutes
<1>11. ASSUME UNCHANGED <<ingRow, ingPass, ingPrint, ingFaults>>,
              ingVm' \in [IngReplicas -> Replica], ingPort' \subseteq IngReplicas
       PROVE  IngInv'
  BY <1>11 DEF IngTypeOK, PassIsRecord, AllRoutes
<1>12. ASSUME NEW o \in IngReplicas, PortChanges(o) PROVE IngInv'
  BY <1>11, <1>12 DEF PortChanges, IngTypeOK
<1>13. ASSUME NEW o \in IngReplicas, NEW r \in Replica, ReplicaChanges(o, r)
       PROVE  IngInv'
  BY <1>11, <1>13 DEF ReplicaChanges, IngTypeOK
<1>14. CASE UNCHANGED ingVars
  BY <1>11, <1>14 DEF ingVars, ingWorld, IngTypeOK
<1>. QED
  BY <1>2, <1>3, <1>4, <1>5, <1>6, <1>7, <1>8, <1>9, <1>10, <1>12, <1>13, <1>14
  DEF IngNext, IngPassStep

\* Tokens in a file or in flight have been created, and what a save holds or has
\* written has the shape of a config.
Configs == [whole : BOOLEAN, current : Names \cup {NoName}, contexts : [Names -> Entries]]

OprInv ==
  /\ OprTypeOK
  /\ oprCmd = [s \in Shells |-> oprCmd[s]]
  /\ oprTmp \in [Shells -> Configs]
  /\ \A s \in Shells :
       /\ Delivering(s) => oprCmd[s].token \in 1..oprMade
       /\ At(s, "save") \/ At(s, "write") => oprCmd[s].cfg \in Configs
LEMMA OprInitTypes == OprInit => OprInv
<1>. SUFFICES ASSUME OprInit PROVE OprInv
  OBVIOUS
<1>1. Default \in Configs /\ CutShort \in Configs
  BY DEF Default, CutShort, Config, Configs, Entries
<1>2. oprTmp \in [Shells -> Configs]
  BY <1>1 DEF OprInit
<1>3. /\ oprCmd = [s \in Shells |-> oprCmd[s]]
      /\ \A s \in Shells : oprCmd[s].at = "idle"
  BY DEF OprInit, NotRunning
<1>. QED  BY <1>1, <1>2, <1>3, OprBounds DEF OprInit, OprInv, OprTypeOK, NoToken, Delivering,
          At, Configs

\* Setting, selecting and setup's upsert keep the shape of a config.
LEMMA EditsKeepShape ==
  ASSUME NEW cfg \in Configs, NEW n \in Names, NEW url \in Urls,
         NEW token \in Tokens \cup {NoToken}, NEW edit \in Edited(cfg, n, url, token)
  PROVE  edit \in Configs
<1>1. \A k \in Tokens \cup {NoToken} : [url |-> url, key |-> k] \in Entries
  BY DEF Entries
<1>2. \A e \in Entries : e.key \in Tokens \cup {NoToken}
  BY DEF Entries, NoEntry
<1>3. CASE edit = SetContext(cfg, n, url, token)
  <2>. DEFINE key == IF token = NoToken THEN cfg.contexts[n].key ELSE token
  <2>1. key \in Tokens \cup {NoToken}
    BY <1>2 DEF Configs
  <2>. HIDE DEF key
  <2>2. edit = Config(cfg.current, [cfg.contexts EXCEPT ![n] = [url |-> url, key |-> key]])
    BY <1>3 DEF SetContext, key
  <2>. QED  BY <1>1, <2>1, <2>2 DEF Config, Configs
<1>4. CASE edit = ApplyClient(cfg, n, url, token)
  BY <1>1, <1>4 DEF ApplyClient, Config, Configs
<1>5. ASSUME NEW m \in Names, edit = SetCurrent(cfg, m) PROVE edit \in Configs
  BY <1>5 DEF SetCurrent, Config, Configs
<1>. QED  BY <1>3, <1>4, <1>5 DEF Edited

\* A command that neither delivers a token nor saves a config keeps the types.
LEMMA OprQuiet ==
  ASSUME OprInv, NEW s \in Shells, NEW c, Become(s, c), UNCHANGED <<oprTokens, oprClient>>,
         c.at \notin {"deliver", "file", "print", "save", "write"}
  PROVE  OprInv'
<1>1. /\ oprCmd' = [q \in Shells |-> oprCmd'[q]]
      /\ oprCmd'[s] = c
      /\ \A q \in Shells \ {s} : oprCmd'[q] = oprCmd[q]
  BY OneShell DEF OprInv
<1>2. DOMAIN oprTmp' = Shells /\ DOMAIN oprCmd' = Shells
  BY <1>1 DEF OprInv, oprClient
<1>. QED  BY <1>1, <1>2 DEF OprInv, OprTypeOK, oprTokens, oprClient, Delivering, At

\* Nothing a shell holds is newer than the last token created.
LEMMA OprHeld ==
  ASSUME OprInv, NEW s \in Shells, NEW c, Become(s, c),
         c.at \in {"deliver", "file", "print"} => c.token \in 1..oprMade',
         c.at \in {"save", "write"} => c.cfg \in Configs,
         oprMade' \in 0..MaxTokens, oprMade <= oprMade'
  PROVE  /\ oprCmd' = [q \in Shells |-> oprCmd'[q]]
         /\ \A q \in Shells :
              /\ Delivering(q)' => oprCmd'[q].token \in 1..oprMade'
              /\ At(q, "save")' \/ At(q, "write")' => oprCmd'[q].cfg \in Configs
         /\ 1..oprMade \subseteq 1..oprMade' /\ 0..oprMade \subseteq 0..oprMade'
<1>1. /\ oprCmd' = [q \in Shells |-> oprCmd'[q]]
      /\ oprCmd'[s] = c
      /\ \A q \in Shells \ {s} : oprCmd'[q] = oprCmd[q]
  BY OneShell DEF OprInv
<1>2. oprMade \in Nat /\ oprMade' \in Nat
  BY OprBounds DEF OprInv, OprTypeOK
<1>3. 1..oprMade \subseteq 1..oprMade' /\ 0..oprMade \subseteq 0..oprMade'
  BY <1>2
<1>. QED  BY <1>1, <1>3 DEF OprInv, Delivering, At

\* A new token is the next number, and the step that makes it holds it.
LEMMA OprCreates ==
  ASSUME OprInv, NEW s \in Shells, InitCluster(s) \/ Rotate(s) PROVE OprInv'
<1>1. /\ oprMade < MaxTokens /\ oprMade' = oprMade + 1 /\ oprHash' = oprMade'
      /\ oprFile' = oprFile /\ oprShown' = oprShown /\ oprLost' = oprLost
      /\ UNCHANGED oprClient
      /\ oprDead' \subseteq oprDead \cup {oprHash}
      /\ oprHash = NoToken => oprDead' = oprDead
  BY DEF InitCluster, Rotate
<1>2. PICK c : Become(s, c) /\ c.at \in {"deliver", "print"} /\ c.token = oprMade'
  BY DEF InitCluster, Rotate
<1>3. oprMade \in Nat /\ oprMade' \in 0..MaxTokens /\ oprMade <= oprMade'
  BY <1>1, OprBounds DEF OprInv, OprTypeOK
<1>4. /\ oprCmd' = [q \in Shells |-> oprCmd'[q]]
      /\ \A q \in Shells :
           /\ Delivering(q)' => oprCmd'[q].token \in 1..oprMade'
           /\ At(q, "save")' \/ At(q, "write")' => oprCmd'[q].cfg \in Configs
      /\ 1..oprMade \subseteq 1..oprMade' /\ 0..oprMade \subseteq 0..oprMade'
  BY <1>1, <1>2, <1>3, OprHeld
<1>5. oprHash' \in 0..oprMade' /\ oprFile' \in 0..oprMade'
  BY <1>1, <1>3, <1>4 DEF OprInv, OprTypeOK
<1>6. oprShown' \cup oprLost' \cup oprDead' \subseteq 1..oprMade'
  <2>1. oprHash # NoToken => oprHash \in 1..oprMade
    BY <1>3 DEF OprInv, OprTypeOK, NoToken
  <2>. QED  BY <1>1, <1>4, <2>1 DEF OprInv, OprTypeOK
<1>. QED  BY <1>1, <1>3, <1>4, <1>5, <1>6 DEF OprInv, OprTypeOK, oprClient

\* Delivering, printing, reading a token and dying move tokens that exist.
LEMMA OprMoves ==
  ASSUME OprInv, NEW s \in Shells,
         \/ DeliverOnTerminal(s) \/ CreateTokenFile(s) \/ WriteTokenFile(s)
         \/ PrintToken(s) \/ Dies(s)
  PROVE  OprInv'
<1>1. /\ UNCHANGED <<oprHash, oprMade, oprDead, oprConfig, oprEdits>>
      /\ \/ oprFile' \in {oprFile, NoToken}
         \/ Delivering(s) /\ oprFile' = oprCmd[s].token
      /\ \/ oprShown' = oprShown
         \/ Delivering(s) /\ oprShown' = oprShown \cup {oprCmd[s].token}
      /\ \/ oprLost' = oprLost
         \/ Delivering(s) /\ oprLost' = oprLost \cup {oprCmd[s].token}
  <2>1. CASE DeliverOnTerminal(s) \/ PrintToken(s)
    BY <2>1 DEF DeliverOnTerminal, PrintToken, Delivering, At, oprClient
  <2>2. CASE CreateTokenFile(s) \/ WriteTokenFile(s)
    BY <2>2 DEF CreateTokenFile, WriteTokenFile, Delivering, At, oprClient
  <2>3. CASE Dies(s)
    BY <2>3 DEF Dies
  <2>. QED  BY <2>1, <2>2, <2>3
<1>2. PICK c : /\ Become(s, c)
               /\ c.at \in {"idle", "bind", "file"}
               /\ c.at = "file" => Delivering(s) /\ c.token = oprCmd[s].token
  BY DEF DeliverOnTerminal, CreateTokenFile, WriteTokenFile, PrintToken, Dies, NotRunning,
         Delivering, At
<1>3. Delivering(s) => oprCmd[s].token \in 1..oprMade
  BY DEF OprInv
<1>4. oprMade \in Nat /\ oprMade' \in 0..MaxTokens /\ oprMade <= oprMade'
  BY <1>1, OprBounds DEF OprInv, OprTypeOK
<1>5. /\ oprCmd' = [q \in Shells |-> oprCmd'[q]]
      /\ \A q \in Shells :
           /\ Delivering(q)' => oprCmd'[q].token \in 1..oprMade'
           /\ At(q, "save")' \/ At(q, "write")' => oprCmd'[q].cfg \in Configs
  BY <1>1, <1>2, <1>3, <1>4, OprHeld
<1>6. oprTmp' \in [Shells -> Configs]
  <2>1. CutShort \in Configs
    BY DEF Default, CutShort, Config, Configs, Entries
  <2>. QED  BY <2>1 DEF DeliverOnTerminal, CreateTokenFile, WriteTokenFile, PrintToken, Dies,
             oprClient, OprInv
<1>7. oprFile' \in 0..oprMade'
  BY <1>1, <1>3, <1>4 DEF OprInv, OprTypeOK, NoToken
<1>8. oprShown' \cup oprLost' \cup oprDead' \subseteq 1..oprMade'
  BY <1>1, <1>3 DEF OprInv, OprTypeOK
<1>. QED  BY <1>1, <1>4, <1>5, <1>6, <1>7, <1>8 DEF OprInv, OprTypeOK

\* A save holds, writes and renames what an edit made.
LEMMA OprSaves ==
  ASSUME OprInv, NEW s \in Shells, OprEdit(s) PROVE OprInv'
<1>1. CutShort \in Configs
  BY DEF Default, CutShort, Config, Configs, Entries
<1>2. ASSUME NEW c, Become(s, c),
             c.at \in {"save", "write"} => c.cfg \in Configs,
             c.at \notin {"deliver", "file", "print"},
             UNCHANGED oprTokens, oprConfig' \in Configs,
             oprTmp' \in [Shells -> Configs], oprEdits' \in 0..MaxEdits
      PROVE  OprInv'
  <2>1. oprMade' \in 0..MaxTokens /\ oprMade <= oprMade'
    BY <1>2, OprBounds DEF OprInv, OprTypeOK, oprTokens
  <2>2. /\ oprCmd' = [q \in Shells |-> oprCmd'[q]]
        /\ \A q \in Shells :
             /\ Delivering(q)' => oprCmd'[q].token \in 1..oprMade'
             /\ At(q, "save")' \/ At(q, "write")' => oprCmd'[q].cfg \in Configs
    BY <1>2, <2>1, OprHeld
  <2>3. DOMAIN oprTmp' = Shells /\ DOMAIN oprCmd' = Shells
    BY <1>2, <2>2
  <2>. QED  BY <1>2, <2>2, <2>3 DEF OprInv, OprTypeOK, oprTokens, Configs
<1>3. CASE LoadAndEdit(s)
  <2>1. oprEdits' \in 0..MaxEdits
    BY <1>3, OprBounds DEF LoadAndEdit, OprInv, OprTypeOK
  <2>2. PICK n \in Names, url \in Urls, token \in oprShown \cup {NoToken} :
          \E cfg \in Edited(oprConfig, n, url, token) : Become(s, [at |-> "save", cfg |-> cfg])
    BY <1>3 DEF LoadAndEdit
  <2>3. PICK cfg \in Edited(oprConfig, n, url, token) : Become(s, [at |-> "save", cfg |-> cfg])
    BY <2>2
  <2>4. token \in Tokens \cup {NoToken}
    BY OprBounds DEF OprInv, OprTypeOK, Tokens
  <2>5. cfg \in Configs
    BY <2>4, EditsKeepShape DEF OprInv, OprTypeOK, Configs
  <2>. QED  BY <1>2, <1>3, <2>1, <2>3, <2>5 DEF LoadAndEdit, OprInv, OprTypeOK, Configs
<1>4. CASE OpenTmp(s)
  <2>1. oprTmp' \in [Shells -> Configs]
    BY <1>1, <1>4 DEF OpenTmp, TmpOf, OprInv
  <2>2. oprCmd[s].cfg \in Configs
    BY <1>4 DEF OpenTmp, OprInv
  <2>. QED  BY <1>2, <1>4, <2>1, <2>2 DEF OpenTmp, OprInv, OprTypeOK, Configs
<1>5. CASE WriteTmp(s)
  <2>1. oprCmd[s].cfg \in Configs
    BY <1>5 DEF WriteTmp, OprInv
  <2>2. oprTmp' \in [Shells -> Configs]
    BY <1>5, <2>1 DEF WriteTmp, TmpOf, OprInv
  <2>. QED  BY <1>2, <1>5, <2>2 DEF WriteTmp, OprInv, OprTypeOK, Configs
<1>6. CASE RenameTmp(s)
  <2>1. oprTmp' \in [Shells -> Configs] /\ oprConfig' \in Configs
    BY <1>1, <1>6 DEF RenameTmp, TmpOf, OprInv
  <2>. QED  BY <1>2, <1>6, <2>1 DEF RenameTmp, NotRunning, OprInv, OprTypeOK
<1>. QED  BY <1>3, <1>4, <1>5, <1>6 DEF OprEdit

LEMMA OprNextTypes == OprInv /\ [OprNext]_oprVars => OprInv'
<1>. SUFFICES ASSUME OprInv, [OprNext]_oprVars PROVE OprInv'
  OBVIOUS
<1>1. ASSUME NEW s \in Shells, NEW f \in Flags, StartServer(s, f) PROVE OprInv'
  BY <1>1, OprQuiet DEF StartServer
<1>2. ASSUME NEW s \in Shells, FindCluster(s) PROVE OprInv'
  BY <1>2, OprQuiet DEF FindCluster
<1>3. ASSUME NEW s \in Shells, InitFails(s) PROVE OprInv'
  BY <1>3, OprQuiet DEF InitFails, NotRunning
<1>4. ASSUME NEW s \in Shells, BindRest(s) PROVE OprInv'
  BY <1>4, OprQuiet DEF BindRest
<1>5. ASSUME NEW s \in Shells, NEW api, NEW flag, NEW name, NEW insecure,
             SendRequest(s, api, flag, name, insecure)
      PROVE  OprInv'
  BY <1>5, OprQuiet DEF SendRequest
<1>6. ASSUME NEW s \in Shells, RequireAuth(s) PROVE OprInv'
  <2>1. PICK c : Become(s, c) /\ c.at \in {"handler", "idle"}
    BY <1>6 DEF RequireAuth, NotRunning
  <2>. QED  BY <1>6, <2>1, OprQuiet DEF RequireAuth
<1>7. ASSUME NEW s \in Shells, Respond(s) PROVE OprInv'
  BY <1>7, OprQuiet DEF Respond, NotRunning
<1>8. CASE ReadTokenFile
  <2>1. oprFile \in 1..oprMade /\ oprMade \in Nat
    BY <1>8, OprBounds DEF ReadTokenFile, NoToken, OprInv, OprTypeOK
  <2>. QED  BY <1>8, <2>1 DEF ReadTokenFile, NoToken, OprInv, OprTypeOK, oprClient, Delivering, At
<1>9. CASE UNCHANGED oprVars
  BY <1>9 DEF oprVars, oprTokens, oprClient, OprInv, OprTypeOK, Delivering, At
<1>. QED
  BY <1>1, <1>2, <1>3, <1>4, <1>5, <1>6, <1>7, <1>8, <1>9, OprCreates, OprMoves, OprSaves
  DEF OprNext, OprServer, OprRequest

\* A step of the composition is one of each part, or leaves that part alone.
LEMMA ServerSteps ==
    [Next]_vars => [SshNext]_sshVars /\ [IngNext]_ingVars /\ [SrvNext]_srvVars /\ [OprNext]_oprVars
  BY DEF Next, vars, SshPart, IngPart, SrvPart, OprPart

(***************************************************************************)
(* The types of the four parts, in every state of their composition: what  *)
(* a listener lets in is in the registry's values, a delivered token has   *)
(* been created, and no pass carries a route over into its files' turn.    *)
(***************************************************************************)
THEOREM ServerPartsTyped == Spec => []ServerTypeOK
<1>. DEFINE Inv == SshInv /\ IngInv /\ SrvTypeOK /\ OprInv
<1>1. Init => Inv
  BY SshInitTypes, IngInitTypes, SrvInitType, OprInitTypes DEF Init
<1>2. Inv /\ [Next]_vars => Inv'
  BY ServerSteps, SshNextTypes, IngNextTypes, SrvNextType, OprNextTypes
<1>3. Inv => ServerTypeOK
  BY SshInvTypes DEF IngInv, OprInv, ServerTypeOK
<1>. QED  BY <1>1, <1>2, <1>3, PTL DEF Spec

\* What is proved of each part holds of the four side by side: the proxy has the
\* routes of the last pass that ended in order, a serving process can decrypt
\* what is stored, and the operator gets in.
THEOREM ServerSafe == Spec => [](ProxyCurrent /\ SecretsReadable /\ OperatorGetsIn)
<1>1. Init => IngInit /\ SrvInit /\ OprInit
  BY DEF Init
<1>2. Spec => IngSpec /\ SrvSpec /\ OprSpec
  BY <1>1, ServerSteps, PTL DEF Spec, IngSpec, SrvSpec, OprSpec
<1>. QED
  BY <1>2, ProxyStaysCurrent, ServedSecretsReadable, OperatorAlwaysGetsIn, PTL
=============================================================================
