SPECIFICATION Spec
CONSTANTS
    Accounts = {"ann", "bob"}
    Requests = {r1, r2}
    Docs = {"b1", "t1", "s1", "b2"}
    KindOf <- MCKindOf
    Names = {}
    Unnamed = "unnamed"
    Contents = {c1, c2}
    MaxSlots = 1
    Initial <- MCInitial
    MaxArrivals = 3
    MaxTroubles = 1
SYMMETRY MCSymmetry
INVARIANTS
    VersionsFit
    SlotsAreHeld
PROPERTIES
    AnswersWereTrue
    DeletedStaysDeleted
CHECK_DEADLOCK FALSE
