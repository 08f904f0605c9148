SPECIFICATION Spec
CONSTANTS
    Worker = {w1, w2}
    Receiver = {r1}
    Event = {e1}
    MaxJobs = 1
    MaxDeliveries = 1
    BatchSize = 1
    MaxAttempts = 2
    RetryBase = 1
    MaxLag = 1
    MaxFaults = 1
    MaxCrashes = 0
    NoEvent = NoEvent
    NoJob = NoJob
PROPERTIES RetryDelayKept
