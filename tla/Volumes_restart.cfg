\* One replica's volume, no crash and no failed write: what a stop and a start
\* in place do to its size.
CONSTANTS
    VolSizes = {1000, 1200}
    VolLevels = {0, 900, 1200}
    RootCapacity = 1200
    VolRestarts = TRUE
    MaxVolFaults = 0
SPECIFICATION VolSpec
PROPERTIES VolumeSizeCaps
CHECK_DEADLOCK FALSE
