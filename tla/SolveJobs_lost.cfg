CONSTANTS
    Jobs <- OneJob
    Accounts = {alice}
    OwnerOf <- OneOwner
    Requests = {r1}
    MaxRunning = 1
    MaxPerAccount = 1
    MaxAttempts = 2
    MaxBoots = 2
    MaxFailures = 1
    Faults = {"lost"}
    CanCrash = FALSE
SPECIFICATION Spec
PROPERTIES
    FinishedIsFinal
