\* Looking a sandbox up may fail for a moment.
CONSTANTS
    Slots = {s1}
    Specs = {x1, x2}  NoSpec = nospec
    Ports = {p1}  NoPort = noport
    Ids = {i1, i2}  NoId = noid
    NoSlot = noslot
    Exposing = {}
    NoRestart = {}
    Gated = {}
    Sluggish = {}
    Probed = {}
    Unresolvable = {}
    Contested = {}
    GetFails = TRUE
    TornWrites = FALSE
    MaxFaults = 1
SPECIFICATION Spec
INVARIANT OwnershipComplete
SYMMETRY Symmetry
