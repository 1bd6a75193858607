\* A probed service that crashes, hangs, changes and fails its probes, under both
\* kinds of policy, in passes that may take as long as what counts as sustained, with
\* one backend failure or server crash.
CONSTANTS
    BackoffSecs <- Waits
    Sustained = 3
    Interval = 1
    Retries = 2
    StartPeriod = 1
    Policies = {TRUE, FALSE}
    Exposes = FALSE
    MaxLag = 3
    MaxFaults = 1
SPECIFICATION FairSpec
INVARIANTS HealthyIsTrue LInv
PROPERTIES RestartsSpaced OnlyUnhealthyReplaced Revived BecomesHealthy
