SPECIFICATION Spec
CONSTANTS
    Operators = {"chief", "ada", "bolt", "cleo", "dora", "eve", "fox", "gil", "hal", "ivy", "jo", "stranger"}
    Nobody = "nobody"
    Rooms <- ReadersRooms
    Skills <- MCSkills
    Members <- MCMembers
    Families <- MCMembers
    MaxMood <- MCMaxMood
    Rules <- MCRules
    Crews <- ReadersCrews
    MaxChanges = 2
    Stranger = "stranger"
INVARIANTS
    SeatsDoNotMatter
CHECK_DEADLOCK FALSE
