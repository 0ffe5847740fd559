CONSTANTS
    f1 = f1
    f2 = f2
    p1 = p1
    t1 = t1
    t2 = t2
    ash = ash
    bob = bob
    cat = cat
    dog = dog
    Nobody = Nobody
    Operators = {ash, bob, cat, dog}
    Slots <- MCSlots
    Rooms <- MCRooms
    RoomOf <- MCRoomOf
    Preceding <- MCPreceding
    Training = {"training"}
    Locked = {p1, t2}
    Candidates = {ash, bob, cat}
    Groups <- MCGroups
    CheckEvery = 4
SPECIFICATION SolveSpec
SYMMETRY MCSymmetry
INVARIANTS
    TypeOK
    SwapsExchange
    MovesAreReversible
    MovesChangeTheKey
PROPERTY
    Spec
