CONSTANTS
    Jobs <- OneJob
    Accounts = {alice}
    OwnerOf <- OneOwner
    Requests = {r1, r2}
    MaxRunning = 1
    MaxPerAccount = 1
    MaxAttempts = 1
    MaxBoots = 2
    MaxFailures = 1
    Faults = {"refused"}
    CanCrash = TRUE
SPECIFICATION FairSpec
INVARIANTS
    AnswersAreKept
    EveryPlaceHasAnOwner
    StartsAreBounded
    StopIsRecorded
PROPERTIES
    ImplementsLifecycle
    RequestsAreAnswered
