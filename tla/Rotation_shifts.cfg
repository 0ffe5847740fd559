CONSTANTS
    w1 = w1
    w2 = w2
    b1 = b1
    b2 = b2
    ash = ash
    bob = bob
    cat = cat
    dog = dog
    Nobody = Nobody
    Operators = {ash, bob, cat, dog}
    Slots <- MCSlots
    Dorms = {"dorm"}
    RoomOf <- OneDorm
    Bench = {dog}
    MaxMood <- MCMaxMood
    SwapOut = 0
    SwapIn = 2
    Supporting = {cat}
SPECIFICATION Spec
SYMMETRY SameRoom
INVARIANTS
    OwnersKeepTheirSlots
    NobodyIsLost
    PlanIsFollowed
    ShiftsAreChanged
