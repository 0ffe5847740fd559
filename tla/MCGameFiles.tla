---------------------------- MODULE MCGameFiles ----------------------------
(* Three commits: "a"; "b", with an operator, a skill and a team more; and   *)
(* drifted ones, each with one thing the domain does not know or lacks.      *)
EXTENDS GameFiles

MCVocabulary == [kind \in Kinds |->
    CASE kind = "rarity" -> {"TIER_6", "5"} [] kind = "rarityShape" -> {"TIER_6", "5", "TIER_9"} [] OTHER -> {"known"}]
MCRequired == [table \in Tables |->
    CASE table = "building" -> {"rooms"} [] table = "buff" -> {"buffId", "targets"} [] table = "char" -> {"maxManpower"}
      [] table = "character" -> {"name", "nationId", "teamId", "phases"} [] table = "team" -> {"powerId"}]
MCNeeded == [table \in Tables |-> MCRequired[table] \ {"targets", "nationId", "teamId", "phases"}]

Entry(fields) == fields @@ [lacks |-> {}]
Buff(key) == Entry([id |-> key, room |-> "known", kind |-> "known", targets |-> {"known"}])
Character(nation) == Entry([rarity |-> "TIER_6", profession |-> "known", nation |-> nation, team |-> "none",
                            maxLevels |-> <<2, 2>>])
Tier(buff, phase, level) == [buff |-> buff, phase |-> phase, level |-> level]
Char(slots) == Entry([slots |-> slots])

TablesA ==
    [building |-> Entry([constants |-> "a",
        rooms |-> [r \in {"known"} |-> [kind |-> "known", phases |-> 5]],
        buffs |-> [key \in {"u1", "u2"} |-> Buff(key)],
        chars |-> [op \in {"amy", "bea"} |->
            IF op = "amy" THEN Char(<< <<Tier("u2", 1, 1), Tier("u1", 0, 1)>> >>) ELSE Char(<< <<>>, <<Tier("u1", 0, 2)>> >>)],
        formulas |-> [f \in {"gold"} |-> [product |-> "known", rooms |-> {"known"}]],
        layouts |-> [l \in {"L"} |-> {[number |-> 10, kind |-> "known"], [number |-> 2, kind |-> "known"]}]]),
     characters |-> [op \in {"amy", "bea", "trap"} |->
        IF op = "trap" THEN [Character("none") EXCEPT !.profession = "TRAP"] ELSE Character("rhodes")],
     teams |-> [p \in {"rhodes"} |-> Entry([level |-> 0])]]

TablesB == [TablesA EXCEPT
    !.building = [@ EXCEPT !.constants = "b",
        !.buffs = [key \in {"u1", "u2", "u3"} |-> Buff(key)],
        !.chars = @ @@ [op \in {"cel"} |-> Char(<< <<Tier("u1", 0, 1), Tier("u3", 1, 2)>> >>)]],
    !.characters = @ @@ [op \in {"cel"} |-> [Character("iberia") EXCEPT !.maxLevels = <<1>>]],
    !.teams = @ @@ [p \in {"iberia"} |-> Entry([level |-> 0])]]

Drifts == [
    newRoom |-> [TablesB EXCEPT !.building.rooms = @ @@ [r \in {"new"} |-> [kind |-> "known", phases |-> 1]]],
    newRoomKind |-> [TablesB EXCEPT !.building.rooms = [r \in {"known"} |-> [kind |-> "new", phases |-> 5]]],
    otherKey |-> [TablesB EXCEPT !.building.buffs["u3"].id = "u9"],
    noTargets |-> [TablesB EXCEPT !.building.buffs["u3"].lacks = {"targets"}],
    newBuffKind |-> [TablesB EXCEPT !.building.buffs["u3"].kind = "new"],
    noSuchBuff |-> [TablesB EXCEPT !.building.chars["cel"].slots = << <<Tier("u7", 0, 1)>> >>],
    newPhase |-> [TablesB EXCEPT !.building.chars["cel"].slots = << <<Tier("u3", 3, 1)>> >>],
    newProduct |-> [TablesB EXCEPT !.building.formulas["gold"].product = "new"],
    newSlotKind |-> [TablesB EXCEPT !.building.layouts["L"] = {[number |-> 1, kind |-> "new"]}],
    noCharacter |-> [TablesB EXCEPT !.characters = [op \in {"amy", "bea"} |-> Character("rhodes")]],
    newRarity |-> [TablesB EXCEPT !.characters["cel"].rarity = "TIER_9"],
    newProfession |-> [TablesB EXCEPT !.characters["cel"].profession = "new"],
    noNation |-> [TablesB EXCEPT !.characters["cel"].lacks = {"nationId"}],
    noPhases |-> [TablesB EXCEPT !.characters["cel"].lacks = {"phases"}],
    noName |-> [TablesB EXCEPT !.characters["cel"].lacks = {"name"}],
    noSuchTeam |-> [TablesB EXCEPT !.characters["cel"].nation = "laterano"],
    newLevel |-> [TablesB EXCEPT !.teams["iberia"].level = 3]]

MCCommits == {"a", "b"} \cup DOMAIN Drifts
MCPinSets == {{"a", c} : c \in MCCommits \ {"a"}}
MCUpstream == [c \in MCCommits |-> CASE c = "a" -> TablesA [] c = "b" -> TablesB [] OTHER -> Drifts[c]]

(* Exports of up to two entries in every shape.                              *)
Ids == {"amy", "cel", NoId}
KroosterEntries ==
    {[form |-> form, id |-> id, disowned |-> FALSE, potential |-> 1, elite |-> elite, level |-> 1] :
        form \in Forms, id \in {"amy", "cel"}, elite \in {1, 2}}
    \cup {[form |-> form, id |-> id, disowned |-> FALSE, potential |-> 1, elite |-> 0, level |-> level] :
        form \in {"current", "older"}, id \in Ids, level \in {Wrong, 0, 3}}
    \cup {[form |-> form, id |-> "amy", disowned |-> disowned, potential |-> potential, elite |-> 0, level |-> 1] :
        form \in {"current", "older"}, disowned \in BOOLEAN, potential \in {Missing, Wrong, 0}}
Plans == {[id |-> id, elite |-> elite, level |-> level] : id \in Ids, elite \in {Missing, 0, 2}, level \in {2, 3}}
UpToTwo(S) == {<<>>} \cup {<<e>> : e \in S} \cup {<<e, f>> : e, f \in S}

MCExports ==
    {<<source, x>> : source \in {"krooster", "ak-planner"},
        x \in {[shape |-> shape, entries |-> entries] :
                 shape \in {"list", "map", "profile", "other"}, entries \in {<<>>}}
              \cup {[shape |-> "planner", entries |-> <<>>, selected |-> ids] : ids \in UpToTwo(Ids)}}
    \cup {<<"krooster", [shape |-> shape, entries |-> entries]>> :
        shape \in {"list", "map"}, entries \in UpToTwo(KroosterEntries)}
    \cup {<<"ak-planner", [shape |-> "planner", entries |-> entries, selected |-> ids]>> :
        entries \in UpToTwo(Plans), ids \in {<<>>, <<"cel">>, <<"amy", "cel">>}}
    \cup {<<"roster", [shape |-> "roster", roster |-> [op \in ops |-> [phase |-> 2, level |-> 9]]]>> :
        ops \in SUBSET {"amy", "cel"}}
=============================================================================
