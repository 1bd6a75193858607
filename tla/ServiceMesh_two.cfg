CONSTANTS
    db = db  cache = cache  worker = worker  p1 = p1  p2 = p2
    Instances = {db, cache}
    Services = {db, cache}
    ServiceOf <- MeshServiceOf
    Exposed <- MeshExposed
    Networks <- MeshNetworks
    DependsOn <- MeshDependsOn
    Rank <- MeshRank
    Probed = {db}
    Ephemeral = {h1, h2, h3}
    NoPort = noport  Nobody = nobody
    Unresolvable = {db}
    Contested = {p2, h1}
    Reuses = FALSE
    MaxFaults = 1
SPECIFICATION FairSpec
INVARIANTS FailClosed BindingsTrue RoutesToOwner
PROPERTIES DependenciesFirst EventuallyServed
