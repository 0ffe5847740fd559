CONSTANTS
    Jobs <- TwoJobs
    Accounts = {alice}
    OwnerOf <- OneOwner
    Requests = {}
    MaxRunning = 1
    MaxPerAccount = 2
    MaxAttempts = 2
    MaxBoots = 2
    MaxFailures = 0
    Faults = {"refused"}
    CanCrash = FALSE
SPECIFICATION Spec
PROPERTIES
    ResumedRunInOrder
CHECK_DEADLOCK FALSE
