CONSTANTS
    db = db  cache = cache  worker = worker  p1 = p1  p2 = p2
    Instances = {db, worker}
    Services = {db, worker}
    ServiceOf <- MeshServiceOf
    Exposed <- MeshExposed
    Networks <- MeshNetworks
    DependsOn <- MeshDependsOn
    Rank <- MeshRank
    Probed = {db}
    Ephemeral = {h1, h2}
    NoPort = noport  Nobody = nobody
    Unresolvable = {}
    Contested = {}
    Reuses = FALSE
    MaxFaults = 1
SPECIFICATION Spec
INVARIANTS NamesInGuest
