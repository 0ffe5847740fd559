SPECIFICATION Spec
CONSTANTS
    Operators = {"chief", "ada", "bolt", "cleo", "dora", "eve", "fox", "gil", "stranger"}
    Nobody = "nobody"
    Rooms <- MCRooms
    Skills <- MCSkills
    Members <- MCMembers
    Families <- MCMembers
    MaxMood <- MCMaxMood
    Rules <- MCRules
    Crews <- MCCrews
    MaxChanges = 2
    Stranger = "stranger"
INVARIANTS
    FillersAreFree
    SupportIsKnown
CHECK_DEADLOCK FALSE
