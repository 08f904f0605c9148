SPECIFICATION FairSpec
CONSTANTS
    Worker = {w1, w2}
    Receiver = {r1, r2}
    Event = {e1}
    MaxJobs = 2
    MaxDeliveries = 2
    BatchSize = 2
    MaxAttempts = 2
    RetryBase = 1
    MaxLag = 1
    MaxFaults = 2
    MaxCrashes = 1
    NoEvent = NoEvent
    NoJob = NoJob
PROPERTIES AcceptedIsApplied SettlesOrOrphaned ImplementsLease
