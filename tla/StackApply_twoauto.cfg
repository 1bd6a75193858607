\* Two services, each with an automatic port.
CONSTANTS
    MaxPort = 6
    PoolFirst = 3
    ServerPorts = {1}
    Stacks = {"a", "b"}
    Docs <- TwoAutoDocs
    Capacity = 6
    Cancels = FALSE
SPECIFICATION Spec
INVARIANT PlanCommits
