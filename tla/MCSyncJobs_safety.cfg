SPECIFICATION Spec
CONSTANTS
    Worker = {w1, w2}
    Receiver = {r1, r2}
    Event = {e1, e2}
    MaxJobs = 3
    MaxDeliveries = 2
    BatchSize = 2
    MaxAttempts = 2
    RetryBase = 1
    MaxLag = 0
    MaxFaults = 2
    MaxCrashes = 1
    NoEvent = NoEvent
    NoJob = NoJob
SYMMETRY Symmetric
INVARIANTS TypeOK NoJobRunTwiceAtOnce AttemptsBudget CompletedMeansApplied
PROPERTIES SettledForGood
