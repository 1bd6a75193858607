\* A server restart over an exposing service.
CONSTANTS
    Slots = {s1}
    Specs = {x1}  NoSpec = nospec
    Ports = {p1, p2}  NoPort = noport
    Ids = {i1, i2, i3}  NoId = noid
    NoSlot = noslot
    Exposing = {s1}
    NoRestart = {}
    Gated = {}
    Sluggish = {}
    Probed = {}
    Unresolvable = {}
    Contested = {}
    GetFails = FALSE
    TornWrites = FALSE
    MaxFaults = 1
SPECIFICATION Spec
PROPERTY NoNeedlessRecreate
