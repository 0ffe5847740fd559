SPECIFICATION Spec
CONSTANTS
    bed = bed
    desk = desk
    seat = seat
    ash = ash
    bob = bob
    Nobody = Nobody
    Operators = {ash, bob}
    Slots <- MCSlots
    RoomAt <- MCRoomAt
    TraineeSlot = desk
    Bases <- MCBases
    Tick = 2
    Horizon = 5
    Rates = {0, 1}
    Feelings <- MCFeelings
    Limits = {2, 4}
    MaxMood = 2
INVARIANTS
    NothingIsLost
    LossesAreReported
    HoursAddUp
PROPERTIES
    SharesAreFair
CHECK_DEADLOCK FALSE
