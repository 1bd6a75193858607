\* An instance with two clients and a key that changes; a route with two
\* replicas beside the API's own; three processes with two keys and secrets;
\* two shells, a context, two tokens and two edits.
CONSTANTS
    i1 = i1
    SshInstances = {i1}
    SshKeyNames = {n1}
    SshValues = {v1, v2}
    SshClients = {c1, c2}
    NoSsh = NoSsh
    YamlSsh <- Yaml
    SshFixedPorts = {i1}
    MaxSessions = 2
    MaxSessionsPerListener = 1
    MaxSshEdits = 2
    MaxAcceptErrors = 1
    kweb = kweb
    kapi = kapi
    IngRoutes = {1}
    SelfRoute = 2
    RouteKey <- Keys
    IngReplicas = {1, 2}
    HealthChecked = TRUE
    NoFile = NoFile
    MaxIngFaults = 1
    SrvKeys = {kA, kB}
    SrvSecrets = {x, y}
    NoKey = NoKey
    ShortFile = ShortFile
    MaxConnections = 1
    StaleAfter = 1
    MaxStarts = 3
    Shells = {s1, s2}
    Names = {prod}
    NoName = NoName
    MaxTokens = 2
    MaxEdits = 2
SPECIFICATION Spec
INVARIANTS ServerTypeOK ProxyCurrent SecretsReadable OperatorGetsIn
PROPERTIES RevokedKeysOut SlowClientsLeave SshEventuallyOpen
           EventuallyRouted ShutdownEnds HealthHonest
CHECK_DEADLOCK FALSE
