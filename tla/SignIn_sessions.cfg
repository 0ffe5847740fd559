SPECIFICATION Spec
CONSTANTS
    Requests = {r1, r2}
    Names = {"ash", "Ash", "amiya", "?"}
    Fold <- MCFold
    NoName = "none"
    SlotOf <- MCSlotOf
    Passwords = {"p", "q"}
    TooLong = "long"
    Accepted <- MCAccepted
    FreeFailures = 1
    FirstWait = 1
    MaxWait = 2
    ForgetAfter = 2
    Lifetime = 2
    MaxConcurrent = 1
    Stored <- MCStored
    MaxTime = 2
    MaxTokens = 2
    MaxTroubles = 1
SYMMETRY MCSymmetry
INVARIANTS
    BurstsAreHeld
    EndedStaysEnded
    HashesAreBounded
PROPERTY
    SignInsAreProved
