--------------------------- MODULE OperatorAccess ---------------------------
(***************************************************************************)
(* How an operator gets in.  Commands run at once in several shells of one *)
(* machine: servers that start on the data directory, create its API token *)
(* and deliver it once (bootstrap.rs); `mc2 server token rotate`; edits of *)
(* the client's contexts (context.rs, setup.rs), each a read, a change and *)
(* a replacement of one file; and requests, whose connection is resolved   *)
(* from flags and contexts and whose token is checked (auth.rs).           *)
(*                                                                         *)
(* A token is the number of its creation and stands for its hash.          *)
(***************************************************************************)
EXTENDS Naturals, FiniteSets

CONSTANTS Shells, Names,
          NoName,
          MaxTokens,      \* bound: tokens ever created
          MaxEdits        \* bound: edits of the contexts

ASSUME NoNameIsNoName == NoName \notin Names
ASSUME OprBounds == MaxTokens \in Nat /\ MaxEdits \in Nat

VARIABLES
  oprHash,      \* cluster_meta: the token whose hash is stored
  oprMade,      \* tokens created so far
  oprFile,      \* <data-dir>/bootstrap-token
  oprShown,     \* tokens an operator has seen
  oprLost,      \* tokens whose process died before it delivered them
  oprDead,      \* tokens that a rotation replaced
  oprConfig,    \* ~/.mc2/config.toml
  oprTmp,       \* each shell's temporary file beside it
  oprEdits,
  oprCmd        \* the command each shell runs, and where it is

oprTokens == <<oprHash, oprMade, oprFile, oprShown, oprLost, oprDead>>
oprClient == <<oprConfig, oprTmp, oprEdits>>
oprVars == <<oprTokens, oprClient, oprCmd>>

NoToken == 0
Tokens == 1..MaxTokens

\* "plain" is http:// to another host; a loopback host or https:// is "safe"
Urls == {"safe", "plain"}
NoEntry == [url |-> "none", key |-> NoToken]
Entries == [url : Urls, key : Tokens \cup {NoToken}] \cup {NoEntry}

\* a file that is missing reads as the default, one cut short does not parse
Config(current, contexts) == [whole |-> TRUE, current |-> current, contexts |-> contexts]
Default == Config(NoName, [n \in Names |-> NoEntry])
CutShort == [whole |-> FALSE, current |-> NoName, contexts |-> Default.contexts]

NotRunning == [at |-> "idle"]

OprInit ==
  /\ oprHash = NoToken
  /\ oprMade = 0
  /\ oprFile = NoToken
  /\ oprShown = {}
  /\ oprLost = {}
  /\ oprDead = {}
  /\ oprConfig = Default
  /\ oprTmp = [s \in Shells |-> CutShort]
  /\ oprEdits = 0
  /\ oprCmd = [s \in Shells |-> NotRunning]

At(s, where) == oprCmd[s].at = where
Become(s, c) == oprCmd' = [oprCmd EXCEPT ![s] = c]
-----------------------------------------------------------------------------
(***************************************************************************)
(* Starting a server.  The setup wizard turns answers into flags, and the  *)
(* server checks flags again, however they came about.                     *)
(***************************************************************************)
Hostnames == {"none", "valid", "invalid"}
Answers == [loopback : BOOLEAN, host : Hostnames, unprotected : BOOLEAN, hatch : BOOLEAN]
Flags == [loopback : BOOLEAN, host : Hostnames, noAuth : BOOLEAN, hatch : BOOLEAN]

\* the wizard does not offer what it would have to take back
WantsNoAuth(a) == a.unprotected /\ a.host = "none"
ConfirmsHatch(a) == WantsNoAuth(a) /\ ~a.loopback /\ a.hatch

ResolveAuthPlan(a) ==
  LET open == WantsNoAuth(a) /\ (a.loopback \/ ConfirmsHatch(a))
  IN [noAuth |-> open, hatch |-> open /\ ~a.loopback]

PlanFlags(a) ==
  [loopback |-> a.loopback, host |-> a.host,
   noAuth |-> ResolveAuthPlan(a).noAuth, hatch |-> ResolveAuthPlan(a).hatch]

ValidateAuthStartup(f) ==
  f.noAuth => f.host = "none" /\ (f.loopback \/ f.hatch)

ValidatePublicFlags(f) == f.host # "invalid"

FlagsAccepted(f) == ValidateAuthStartup(f) /\ ValidatePublicFlags(f)

StartServer(s, f) ==
  /\ At(s, "idle")
  /\ FlagsAccepted(f)
  /\ Become(s, [at |-> "ensure", noAuth |-> f.noAuth])
  /\ UNCHANGED <<oprTokens, oprClient>>

\* Bootstrap::ensure looks for the cluster row
FindCluster(s) ==
  /\ At(s, "ensure")
  /\ Become(s, [at |-> IF oprHash = NoToken THEN "init" ELSE "bind",
                noAuth |-> oprCmd[s].noAuth])
  /\ UNCHANGED <<oprTokens, oprClient>>

\* mutation: INSERT OR REPLACE
ReplacesRow == TRUE

\* another process may have inserted it since: the row has one id
MayInsert == oprHash = NoToken

InitCluster(s) ==
  /\ At(s, "init")
  /\ MayInsert
  /\ oprMade < MaxTokens
  /\ oprMade' = oprMade + 1
  /\ oprHash' = oprMade'
  /\ Become(s, [at |-> "deliver", noAuth |-> oprCmd[s].noAuth, token |-> oprMade'])
  /\ UNCHANGED <<oprFile, oprShown, oprLost, oprDead, oprClient>>

InitFails(s) ==
  /\ At(s, "init")
  /\ ~MayInsert
  /\ Become(s, NotRunning)
  /\ UNCHANGED <<oprTokens, oprClient>>

\* deliver_bootstrap_token: on a terminal, or into a file truncated first
DeliverOnTerminal(s) ==
  /\ At(s, "deliver")
  /\ oprShown' = oprShown \cup {oprCmd[s].token}
  /\ Become(s, [at |-> "bind", noAuth |-> oprCmd[s].noAuth])
  /\ UNCHANGED <<oprHash, oprMade, oprFile, oprLost, oprDead, oprClient>>

CreateTokenFile(s) ==
  /\ At(s, "deliver")
  /\ oprFile' = NoToken
  /\ Become(s, [at |-> "file", noAuth |-> oprCmd[s].noAuth, token |-> oprCmd[s].token])
  /\ UNCHANGED <<oprHash, oprMade, oprShown, oprLost, oprDead, oprClient>>

WriteTokenFile(s) ==
  /\ At(s, "file")
  /\ oprFile' = oprCmd[s].token
  /\ Become(s, [at |-> "bind", noAuth |-> oprCmd[s].noAuth])
  /\ UNCHANGED <<oprHash, oprMade, oprShown, oprLost, oprDead, oprClient>>

\* one process holds the REST address; --init-only and a failed bind leave here
BindRest(s) ==
  /\ At(s, "bind")
  /\ \A other \in Shells : ~At(other, "up")
  /\ Become(s, [at |-> "up", noAuth |-> oprCmd[s].noAuth])
  /\ UNCHANGED <<oprTokens, oprClient>>
-----------------------------------------------------------------------------
\* `mc2 server token rotate`: the row is replaced, then the token printed
Rotate(s) ==
  /\ At(s, "idle")
  /\ oprHash # NoToken
  /\ oprMade < MaxTokens
  /\ oprMade' = oprMade + 1
  /\ oprHash' = oprMade'
  /\ oprDead' = oprDead \cup {oprHash}
  /\ Become(s, [at |-> "print", token |-> oprMade'])
  /\ UNCHANGED <<oprFile, oprShown, oprLost, oprClient>>

PrintToken(s) ==
  /\ At(s, "print")
  /\ oprShown' = oprShown \cup {oprCmd[s].token}
  /\ Become(s, NotRunning)
  /\ UNCHANGED <<oprHash, oprMade, oprFile, oprLost, oprDead, oprClient>>

\* "read it, then delete the file"
ReadTokenFile ==
  /\ oprFile # NoToken
  /\ oprShown' = oprShown \cup {oprFile}
  /\ oprFile' = NoToken
  /\ UNCHANGED <<oprHash, oprMade, oprLost, oprDead, oprClient, oprCmd>>
-----------------------------------------------------------------------------
(***************************************************************************)
(* The contexts.  Nothing locks the file between load and save.            *)
(***************************************************************************)
Defined(cfg, n) == cfg.contexts[n] # NoEntry

SetContext(cfg, n, url, token) ==
  LET key == IF token = NoToken THEN cfg.contexts[n].key ELSE token
  IN Config(cfg.current, [cfg.contexts EXCEPT ![n] = [url |-> url, key |-> key]])

SetCurrent(cfg, n) == Config(n, cfg.contexts)

\* setup's client: an empty token clears the key, and the context is current
ApplyClient(cfg, n, url, token) ==
  Config(n, [cfg.contexts EXCEPT ![n] = [url |-> url, key |-> token]])

Edited(cfg, n, url, token) ==
  {SetContext(cfg, n, url, token), ApplyClient(cfg, n, url, token)}
    \cup {SetCurrent(cfg, m) : m \in {m \in Names : Defined(cfg, m)}}

LoadAndEdit(s) ==
  /\ At(s, "idle")
  /\ oprEdits < MaxEdits
  /\ oprConfig.whole
  /\ \E n \in Names, url \in Urls, token \in oprShown \cup {NoToken} :
       \E cfg \in Edited(oprConfig, n, url, token) :
         Become(s, [at |-> "save", cfg |-> cfg])
  /\ oprEdits' = oprEdits + 1
  /\ UNCHANGED <<oprTokens, oprConfig, oprTmp>>

\* mutation: one temporary file for every process
SharedTmp(s) == CHOOSE first \in Shells : TRUE

\* .config.toml.tmp-<pid>
TmpOf(s) == s

\* created or truncated, written, renamed over the config
OpenTmp(s) ==
  /\ At(s, "save")
  /\ oprTmp' = [oprTmp EXCEPT ![TmpOf(s)] = CutShort]
  /\ Become(s, [at |-> "write", cfg |-> oprCmd[s].cfg])
  /\ UNCHANGED <<oprTokens, oprConfig, oprEdits>>

WriteTmp(s) ==
  /\ At(s, "write")
  /\ oprTmp' = [oprTmp EXCEPT ![TmpOf(s)] = oprCmd[s].cfg]
  /\ Become(s, [at |-> "rename"])
  /\ UNCHANGED <<oprTokens, oprConfig, oprEdits>>

RenameTmp(s) ==
  /\ At(s, "rename")
  /\ oprConfig' = oprTmp[TmpOf(s)]
  /\ oprTmp' = [oprTmp EXCEPT ![TmpOf(s)] = CutShort]
  /\ Become(s, NotRunning)
  /\ UNCHANGED <<oprTokens, oprEdits>>
-----------------------------------------------------------------------------
(***************************************************************************)
(* A request: flags before contexts, a named context before the current    *)
(* one, and a plain URL only where that is allowed.                        *)
(***************************************************************************)
NoUrl == "none"

ContextOf(cfg, name) == IF name = NoName THEN cfg.current ELSE name

MissingContext(cfg, api, name) ==
  /\ name = NoName => api = NoUrl
  /\ ContextOf(cfg, name) # NoName
  /\ ~Defined(cfg, ContextOf(cfg, name))

EntryOf(cfg, name) ==
  IF ContextOf(cfg, name) = NoName THEN NoEntry ELSE cfg.contexts[ContextOf(cfg, name)]

UrlOf(cfg, api, name) ==
  IF api # NoUrl THEN api
  ELSE IF EntryOf(cfg, name) # NoEntry THEN EntryOf(cfg, name).url ELSE "safe"

TokenOf(cfg, flag, name) == IF flag # NoToken THEN flag ELSE EntryOf(cfg, name).key

PlaintextRefused(url, insecure) == url = "plain" /\ ~insecure

\* `dead`: its token was replaced before the request was made
SendRequest(s, api, flag, name, insecure) ==
  /\ At(s, "idle")
  /\ oprConfig.whole
  /\ ~MissingContext(oprConfig, api, name)
  /\ ~PlaintextRefused(UrlOf(oprConfig, api, name), insecure)
  /\ Become(s, [at |-> "sent", token |-> TokenOf(oprConfig, flag, name), dead |-> TokenOf(oprConfig, flag, name) \in oprDead])
  /\ UNCHANGED <<oprTokens, oprClient>>

\* mutation: a rotation adds a token beside those there were
AnyTokenEverStored(t) == t # NoToken /\ (t = oprHash \/ t \in oprDead)

VerifyApiToken(t) == t # NoToken /\ t = oprHash

\* require_auth, in front of every /v1 route
RequireAuth(s) ==
  /\ At(s, "sent")
  /\ \E server \in Shells :
       /\ At(server, "up")
       /\ Become(s, IF oprCmd[server].noAuth \/ VerifyApiToken(oprCmd[s].token)
                    THEN [at |-> "handler", dead |-> oprCmd[s].dead,
                          checked |-> ~oprCmd[server].noAuth]
                    ELSE NotRunning)
  /\ UNCHANGED <<oprTokens, oprClient>>

Respond(s) ==
  /\ At(s, "handler")
  /\ Become(s, NotRunning)
  /\ UNCHANGED <<oprTokens, oprClient>>

Delivering(s) == oprCmd[s].at \in {"deliver", "file", "print"}

\* a command ends early: killed, or one of its calls fails. What it leaves in
\* its temporary file carries its pid, and the shell's next command has another.
Dies(s) ==
  /\ ~At(s, "idle")
  /\ oprLost' = IF Delivering(s) THEN oprLost \cup {oprCmd[s].token} ELSE oprLost
  /\ Become(s, NotRunning)
  /\ oprTmp' = [oprTmp EXCEPT ![s] = CutShort]
  /\ UNCHANGED <<oprHash, oprMade, oprFile, oprShown, oprDead, oprConfig, oprEdits>>
-----------------------------------------------------------------------------
OprServer(s) ==
  \/ \E f \in Flags : StartServer(s, f)
  \/ FindCluster(s)
  \/ InitCluster(s)
  \/ InitFails(s)
  \/ DeliverOnTerminal(s)
  \/ CreateTokenFile(s)
  \/ WriteTokenFile(s)
  \/ BindRest(s)

OprEdit(s) == LoadAndEdit(s) \/ OpenTmp(s) \/ WriteTmp(s) \/ RenameTmp(s)

OprRequest(s) ==
  \/ \E api \in Urls \cup {NoUrl}, flag \in oprShown \cup {NoToken},
        name \in Names \cup {NoName}, insecure \in BOOLEAN :
       SendRequest(s, api, flag, name, insecure)
  \/ RequireAuth(s)
  \/ Respond(s)

OprNext ==
  \/ \E s \in Shells : \/ OprServer(s)
                       \/ Rotate(s)
                       \/ PrintToken(s)
                       \/ OprEdit(s)
                       \/ OprRequest(s)
                       \/ Dies(s)
  \/ ReadTokenFile

OprSpec == OprInit /\ [][OprNext]_oprVars
-----------------------------------------------------------------------------
Held == {oprCmd[s].token : s \in {s \in Shells : Delivering(s)}}

\* The token a server checks against has reached the operator, or a file the
\* operator can read, or a process that has yet to deliver it; if none of these,
\* its process died on the way and a rotation is due. Two first starts at once,
\* and a rotation during a first start, lose nothing.
\* (Bootstrap::ensure, deliver_bootstrap_token, token_rotate)
TokenDelivered ==
  oprHash # NoToken => oprHash \in oprShown \cup {oprFile} \cup Held \cup oprLost

\* A request made after its token was replaced runs no handler, whatever was
\* running when it was replaced. (require_auth: "takes effect immediately")
RevokedStaysOut ==
  \A s \in Shells :
    At(s, "handler") => ~(oprCmd[s].checked /\ oprCmd[s].dead)

\* Edits at once, and commands that die in them, leave a config that parses
\* and whose current context exists. (save, set_current)
ConfigUsable ==
  /\ oprConfig.whole
  /\ oprConfig.current # NoName => Defined(oprConfig, oprConfig.current)

\* What the wizard prints, the server starts with, unless the hostname, which
\* the wizard does not look at, is no hostname. (resolve_auth_plan)
PlanStarts ==
  \A a \in Answers : a.host # "invalid" => FlagsAccepted(PlanFlags(a))

(***************************************************************************)
(* The operator can get in, and nobody with a replaced token can: the four *)
(* parts above, over the same commands in any order.                       *)
(***************************************************************************)
OperatorGetsIn == TokenDelivered /\ RevokedStaysOut /\ ConfigUsable /\ PlanStarts

OprTypeOK ==
  /\ oprHash \in 0..oprMade
  /\ oprMade \in 0..MaxTokens
  /\ oprFile \in 0..oprMade
  /\ oprShown \cup oprLost \cup oprDead \subseteq 1..oprMade
  /\ oprConfig \in [whole : BOOLEAN, current : Names \cup {NoName}, contexts : [Names -> Entries]]
  /\ DOMAIN oprTmp = Shells /\ DOMAIN oprCmd = Shells
  /\ oprEdits \in 0..MaxEdits
=============================================================================
