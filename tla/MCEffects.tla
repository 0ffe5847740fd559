----------------------------- MODULE MCEffects ------------------------------
(* A small base and a dozen operators whose skills are made of every kind of
   predicate, counter, amount and effect the game's descriptions use.        *)
EXTENDS Effects

Job == [profession |-> "guard", level |-> 3]
Room(k, l, n) == [kind |-> k, level |-> l, product |-> "none", training |-> NoJob, slots |-> n]

MCRooms == <<Room("control", 5, 1), [Room("factory", 3, 3) EXCEPT !.product = "gold"], Room("dorm", 2, 3),
             [Room("training", 1, 2) EXCEPT !.training = Job], Room("power", 3, 1)>>

Always == [kind |-> "always"]
Flat(n) == [kind |-> "flat", value |-> n]
Per(p, c) == [kind |-> "per", per |-> p, step |-> 1, counter |-> c, max |-> 9, total |-> 99]
Here == [kind |-> "this"]
Clause(p, e) == [when |-> p, effect |-> e]
Stat(st, a, sc) == [kind |-> "stat", stat |-> st, amount |-> a, scope |-> sc, product |-> "any"]
Prod(a) == Stat("productivity", a, Here)
MoodOf(n, t) == [kind |-> "mood", amount |-> Flat(n), target |-> [kind |-> t]]
Rhine(scope, others) == [kind |-> "operators", group |-> "rhine", scope |-> scope, others |-> others]
Others(st) == [kind |-> "others_stat", stat |-> st]
Best(room, cs) == [room |-> room, strongest |-> TRUE, clauses |-> cs]
Plus(room, cs) == [room |-> room, strongest |-> FALSE, clauses |-> cs]
Not(p) == [kind |-> "not", inner |-> p]
And(ps) == [kind |-> "and", parts |-> ps]
Or(ps) == [kind |-> "or", parts |-> ps]

MCSkills == [o \in Operators |->
  CASE o = "chief" -> <<Best("control", <<
          Clause(Always, Stat("productivity", Per(2, Rhine("target", FALSE)), [kind |-> "all", room |-> "factory"])),
          Clause([kind |-> "count", counter |-> [kind |-> "in_rooms", room |-> "dorm"], n |-> 2], MoodOf(1, "work"))>>)>>
    [] o = "ada" -> <<Plus("factory", <<Clause(Always, Prod(Flat(30))),
                                        Clause(Not([kind |-> "above", value |-> 1]), Stat("capacity", Flat(-5), Here))>>),
                      Best("dorm", <<Clause(Always, MoodOf(3, "one"))>>)>>
    [] o = "bolt" -> <<Plus("factory", <<Clause(Always, [kind |-> "scale", stat |-> "productivity", percent |-> -100]),
                                         Clause(Always, Prod(Per(10, [kind |-> "rooms", room |-> "power"])))>>)>>
    [] o = "cleo" -> <<Plus("factory", <<Clause([kind |-> "coworker_is", who |-> "ada"], Prod(Flat(20))),
                                         Clause(And(<<[kind |-> "producing", product |-> "gold"],
                                                      [kind |-> "coworker_in", group |-> "rhine"]>>), MoodOf(-1, "self"))>>),
                       Best("dorm", <<Clause(Always, MoodOf(6, "shared"))>>)>>
    [] o = "dora" -> <<Plus("power", <<Clause(Or(<<[kind |-> "in_base", who |-> "chief"], [kind |-> "alone"]>>),
                                              [kind |-> "facility", room |-> "power", delta |-> 1])>>),
                       Best("dorm", <<Clause([kind |-> "target_in", group |-> "knight"], MoodOf(2, "others")),
                                      Clause(Always, MoodOf(1, "all"))>>)>>
    [] o = "eve" -> <<Plus("training", <<Clause([kind |-> "training", profession |-> "guard"],
                         [kind |-> "stat", stat |-> "training", amount |-> [kind |-> "ramp", initial |-> 20, per |-> 5, max |-> 25],
                          scope |-> [kind |-> "trainees", professions |-> {"guard"}, levels |-> {3}], product |-> "any"])>>),
                      Best("dorm", <<Clause([kind |-> "in_room", who |-> "cleo", room |-> "dorm"], MoodOf(2, "self")),
                                     Clause([kind |-> "full"], MoodOf(2, "one"))>>)>>
    [] o = "fox" -> <<Plus("factory", <<Clause([kind |-> "target_is", who |-> "ada"], MoodOf(1, "others")),
                                        Clause([kind |-> "group_in_room", group |-> "nobody knows", room |-> "dorm"], Prod(Flat(5)))>>)>>
    [] o = "gil" -> <<Plus("factory", <<Clause([kind |-> "unmodeled"], Prod(Flat(9))),
                         Clause(Always, Stat("capacity", Per(1, [kind |-> "family", family |-> "rhine"]), Here))>>),
                      Plus("control", <<
                         Clause(Always, Stat("productivity", Per(1, [kind |-> "lines"]), [kind |-> "room_of", who |-> "ada"])),
                         Clause(Always, [kind |-> "mood", amount |-> Per(1, [kind |-> "room_levels", room |-> "dorm"]),
                                         target |-> [kind |-> "named", who |-> "eve"]]),
                         Clause([kind |-> "below", value |-> 2], [kind |-> "gain", amount |-> Per(1, Rhine("base", TRUE))])>>)>>
    [] o = "hal" -> <<Plus("trading", <<Clause(Always, Stat("orders", [Per(5, Others("orders")) EXCEPT !.step = 5, !.max = 99], Here))>>)>>
    [] o = "ivy" -> <<Plus("trading", <<Clause(Always, Stat("orders", Per(4, Others("limit")), Here))>>)>>
    [] o = "jo" -> <<Plus("trading", <<Clause(Always, Stat("limit", Flat(2), Here)),
                                       Clause(Always, Stat("orders", Flat(10), Here))>>)>>
    [] OTHER -> <<>>]

MCMembers == [g \in {"rhine", "knight"} |-> IF g = "rhine" THEN {"ada", "fox", "eve"} ELSE {"cleo", "gil"}]
MCMaxMood == [o \in Operators |-> 2]
MCRules == [relief |-> <<0, -5, -10>>, control |-> -5, drain |-> 100, rest |-> <<160, 170>>, buff |-> 1,
            room |-> [capacity |-> 3, limit |-> 2]]

MCCrews == {<<<<"chief">>, <<"ada", "bolt", "cleo">>, <<"dora", "eve", "gil">>, <<"fox", Nobody>>, <<Nobody>>>>,
            <<<<"gil">>, <<"fox", Nobody, "bolt">>, <<"ada", "eve", "cleo">>, <<Nobody, Nobody>>, <<"dora">>>>,
            <<<<Nobody>>, <<"cleo", "ada", "gil">>, <<"fox", "bolt", "dora">>, <<"eve", "chief">>, <<Nobody>>>>}

\* A Trading Post whose operators read what the others provide.
ReadersRooms == <<Room("trading", 3, 3)>>
ReadersCrews == {<<<<"hal", "ivy", "jo">>>>}
=============================================================================
