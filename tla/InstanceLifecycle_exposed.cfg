\* A service that exposes a port and crashes; nothing else goes wrong.
CONSTANTS
    BackoffSecs <- Waits
    Sustained = 3
    Interval = 1
    Retries = 2
    StartPeriod = 1
    Policies = {FALSE}
    Exposes = TRUE
    MaxLag = 1
    MaxFaults = 0
SPECIFICATION Spec
PROPERTIES RestartsSpaced
