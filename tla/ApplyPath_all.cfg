\* Every key of a document in many forms, every document on three services,
\* every way documents of two stacks can follow one another, four store
\* operations of two callers with one crash, and a volume declared at 1000 or
\* 1200 MiB that holds nothing, 900 or 1200.
CONSTANTS
    NameMax = 3
    MaxCpus = 3
    Kilo = 4
    MaxSizeMib = 40
    SpecKeys <- AllKeys
    SpecForms <- Forms
    DocServices = {1, 2, 3}
    DocNames = {1, 2, 3, 4}
    DocChecked = {1, 2}
    DocInputs <- Documents
    MaxPort = 6
    PoolFirst = 3
    ServerPorts = {1}
    Stacks = {"a", "b"}
    Docs <- ApplyDocs
    Capacity = 4
    Cancels = TRUE
    DbStacks = {s1, s2}
    Replicas = {1}
    Ports = {p1}
    Specs = {d1}
    Secrets = {n1}
    SshKeys = {k1}
    Blobs = {b1}
    NodeIds = {node1, node2}
    NodeNames = {x, y}
    Tokens = {t1}
    None = None
    MaxBorn = 2
    Callers = {c1, c2}
    MaxCalls = 4
    MaxRestarts = 1
    VolSizes = {1000, 1200}
    VolLevels = {0, 900, 1200}
    RootCapacity = 1200
    VolRestarts = TRUE
    MaxVolFaults = 1
SPECIFICATION PathSpec
INVARIANTS PathTypeOK AcceptedDocumentsStart
           ClaimsMatchRows PortsExclusive ReapplyStable
           CapacityRespected NodeKeepsItsPlacements AcceptedReachesGuest
PROPERTIES ImplementsMemoryStore FreshQuotaCaps NotesSettle
CHECK_DEADLOCK FALSE
