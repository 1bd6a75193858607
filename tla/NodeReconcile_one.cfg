\* One exposing slot with everything that can happen to it.
CONSTANTS
    Slots = {s1}
    Specs = {x1, x2}  NoSpec = nospec
    Ports = {p1, p2}  NoPort = noport
    Ids = {i1, i2, i3}  NoId = noid
    NoSlot = noslot
    Exposing = {s1}
    NoRestart = {}
    Gated = {}
    Sluggish = {s1}
    Probed = {s1}
    Unresolvable = {s1}
    Contested = {s1}
    GetFails = FALSE
    TornWrites = FALSE
    MaxFaults = 3
SPECIFICATION FairSpec
INVARIANTS OwnershipComplete HashTruthful IInv
PROPERTIES ForeignUntouched UnresolvedKept ImplementsDesiredState OrphansRemoved ConvergesToSpec
