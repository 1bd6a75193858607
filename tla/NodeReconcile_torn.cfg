\* The server may die before the applied hash of a new VM is written.
CONSTANTS
    Slots = {s1}
    Specs = {x1, x2}  NoSpec = nospec
    Ports = {p1}  NoPort = noport
    Ids = {i1, i2}  NoId = noid
    NoSlot = noslot
    Exposing = {}
    NoRestart = {}
    Gated = {}
    Sluggish = {}
    Probed = {}
    Unresolvable = {}
    Contested = {}
    GetFails = FALSE
    TornWrites = TRUE
    MaxFaults = 1
SPECIFICATION Spec
INVARIANT HashTruthful
SYMMETRY Symmetry
