CONSTANTS
    Jobs <- TwoJobs
    Accounts = {alice}
    OwnerOf <- OneOwner
    Requests = {r1}
    MaxRunning = 1
    MaxPerAccount = 2
    MaxAttempts = 2
    MaxBoots = 2
    MaxFailures = 0
    Faults = {"refused"}
    CanCrash = FALSE
SPECIFICATION Spec
INVARIANTS
    TypeOK
    RunningKeepsItsPlace
    DrainedIsQuiet
    StopIsRecorded
    UnfinishedIsLive
PROPERTIES
    FinishedIsFinal
    ConflictMeansFinished
