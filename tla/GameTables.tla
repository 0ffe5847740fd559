----------------------------- MODULE GameTables -----------------------------
(***************************************************************************)
(* The game's tables and what is made of them: the check of their shape    *)
(* (ak-data/src/schema.rs), the reading of the fields the code consumes    *)
(* (raw/) and the transformation into the domain model (transform.rs), with *)
(* the order of skill tiers and the tier an operator has (ak-domain        *)
(* operator.rs).                                                           *)
(*                                                                         *)
(* A table is a function from its keys to entries; an entry keeps the      *)
(* fields that some check or reference is about, and "lacks", the names of *)
(* those the upstream file left out.  Names, descriptions and numbers that *)
(* are copied as they are stand in one field, "constants".                 *)
(***************************************************************************)
EXTENDS Integers, Sequences, FiniteSets, SequencesExt

CONSTANTS
    Vocabulary,     \* kind of word |-> the words the domain's enums know
    Required,       \* table |-> the fields the shape check asks for
    Needed,         \* table |-> the fields that have no default when read
    Layout,         \* the layout the planner uses
    NonOperators,   \* keys that do not start with char_
    NoPower         \* an affiliation that is null

Kinds == {"room", "roomKind", "buffKind", "target", "product", "slotKind",
          "profession", "rarity", "rarityShape"}
Tables == {"building", "buff", "char", "character", "team"}
ElitePhases == 0..2
PowerLevels == 0..2

ASSUME WordsAreGiven ==
    /\ DOMAIN Vocabulary = Kinds
    /\ Vocabulary.rarity \subseteq Vocabulary.rarityShape
ASSUME FieldsAreGiven == /\ DOMAIN Required = Tables /\ DOMAIN Needed = Tables
                         /\ {"nationId", "teamId"} \subseteq Required.character

Knows(kind, words) == words \subseteq Vocabulary[kind]
Entries(table) == {table[k] : k \in DOMAIN table}
Tiers(char) == UNION {Range(char.slots[i]) : i \in DOMAIN char.slots}
----------------------------------------------------------------------------
(* schema.rs: what the check of the raw files calls an error.              *)

Complete(table, entry) == entry.lacks \cap Required[table] = {}

\* check_rooms: the rooms of the domain, and no other.
RoomsFit(b) == DOMAIN b.rooms = Vocabulary.room

\* check_buffs
BuffsFit(b) == \A key \in DOMAIN b.buffs :
    LET buff == b.buffs[key] IN
    /\ Complete("buff", buff)
    /\ buff.id = key
    /\ Knows("room", {buff.room}) /\ Knows("buffKind", {buff.kind})
    /\ Knows("target", buff.targets)

\* check_building_chars
CharsFit(b) == \A char \in Entries(b.chars) :
    /\ Complete("char", char)
    /\ \A tier \in Tiers(char) : tier.buff \in DOMAIN b.buffs /\ tier.phase \in ElitePhases

\* check_formulas
FormulasFit(b) == \A f \in Entries(b.formulas) : Knows("product", {f.product}) /\ Knows("room", f.rooms)

\* check_building
BuildingFits(b) ==
    /\ Complete("building", b)
    /\ RoomsFit(b) /\ BuffsFit(b) /\ CharsFit(b) /\ FormulasFit(b)
    /\ Layout \in DOMAIN b.layouts

\* check_characters: a rarity need only look like one, and a profession that
\* is not known is a warning.
CharactersFit(t) == \A key \in DOMAIN t \ NonOperators :
    Complete("character", t[key]) /\ t[key].rarity \in Vocabulary.rarityShape

\* check_teams
TeamsFit(t) == \A team \in Entries(t) : Complete("team", team) /\ team.level \in PowerLevels

\* check_bundle
SchemaPasses(raw) ==
    /\ BuildingFits(raw.building) /\ CharactersFit(raw.characters) /\ TeamsFit(raw.teams)
    /\ DOMAIN raw.building.chars \subseteq DOMAIN raw.characters
----------------------------------------------------------------------------
(* raw/: reading fails on a missing field, unless it has a default.        *)

Present(table, entry) == entry.lacks \cap Needed[table] = {}

Deserializes(raw) ==
    /\ Present("building", raw.building)
    /\ \A buff \in Entries(raw.building.buffs) : Present("buff", buff)
    /\ \A char \in Entries(raw.building.chars) : Present("char", char)
    /\ \A character \in Entries(raw.characters) : Present("character", character)
    /\ \A team \in Entries(raw.teams) : Present("team", team)

\* A missing list is empty, a missing option is none.
Targets(buff) == IF "targets" \in buff.lacks THEN {} ELSE buff.targets
MaxLevels(character) == IF "phases" \in character.lacks THEN <<>> ELSE character.maxLevels
Nation(character) == IF "nationId" \in character.lacks THEN NoPower ELSE character.nation
Team(character) == IF "teamId" \in character.lacks THEN NoPower ELSE character.team
----------------------------------------------------------------------------
(* transform.rs                                                            *)

\* transform_powers
PowersLoad(teams) == \A team \in Entries(teams) : team.level \in PowerLevels
Powers(teams) == [p \in DOMAIN teams |-> teams[p].level]

\* transform_constants: copied.
Constants(b) == b.constants

\* transform_facilities: rooms the domain does not know are not looked at.
FacilitiesLoad(b) == \A r \in Vocabulary.room : r \in DOMAIN b.rooms /\ Knows("roomKind", {b.rooms[r].kind})
Facilities(b) == [r \in Vocabulary.room |-> [kind |-> b.rooms[r].kind, phases |-> b.rooms[r].phases]]

\* transform_skills
SkillLoads(key, buff) ==
    /\ buff.id = key
    /\ Knows("room", {buff.room}) /\ Knows("buffKind", {buff.kind}) /\ Knows("target", Targets(buff))
SkillsLoad(b) == \A key \in DOMAIN b.buffs : SkillLoads(key, b.buffs[key])
Skills(b) == [key \in DOMAIN b.buffs |->
    LET buff == b.buffs[key] IN [room |-> buff.room, kind |-> buff.kind, targets |-> Targets(buff)]]

\* transform_formulas
FormulasLoad(b) == \A f \in Entries(b.formulas) : Knows("product", {f.product}) /\ Knows("room", f.rooms)
Formulas(b) == b.formulas

\* transform_layout: the slots, by the number in their id.
LayoutLoads(b) == Layout \in DOMAIN b.layouts /\ \A s \in b.layouts[Layout] : Knows("slotKind", {s.kind})
LayoutSlots(b) == SetToSortSeq(b.layouts[Layout], LAMBDA s, t : s.number < t.number)

\* UnlockCond: by promotion, then by level.
Below(c, d) == c.phase < d.phase \/ (c.phase = d.phase /\ c.level < d.level)
AtMost(c, d) == ~Below(d, c)

\* A stable sort of a slot's tiers: the n-th has n - 1 before it.
Unlocks(tiers) ==
    LET Earlier(i) == {j \in DOMAIN tiers :
            Below(tiers[j], tiers[i]) \/ (~Below(tiers[i], tiers[j]) /\ j < i)}
    IN [n \in DOMAIN tiers |-> tiers[CHOOSE i \in DOMAIN tiers : Cardinality(Earlier(i)) = n - 1]]

\* SkillSlot::active_at: the last tier whose condition holds; 0 is none yet.
ActiveAt(unlocks, at) ==
    LET open == {n \in DOMAIN unlocks : AtMost(unlocks[n], at)}
    IN IF open = {} THEN 0 ELSE CHOOSE n \in open : \A m \in open : m <= n

\* transform_operator
OperatorLoads(raw, op) ==
    /\ op \in DOMAIN raw.characters
    /\ LET c == raw.characters[op] IN
       /\ Knows("rarity", {c.rarity}) /\ Knows("profession", {c.profession})
       /\ Len(MaxLevels(c)) \in 1..Cardinality(ElitePhases)
       /\ {Nation(c), Team(c)} \ {NoPower} \subseteq DOMAIN raw.teams
    /\ \A tier \in Tiers(raw.building.chars[op]) :
         tier.buff \in DOMAIN raw.building.buffs /\ tier.phase \in ElitePhases
Operator(raw, op) ==
    LET c == raw.characters[op]  slots == raw.building.chars[op].slots IN
    [profession |-> c.profession, rarity |-> c.rarity, nation |-> Nation(c), team |-> Team(c),
     maxLevels |-> MaxLevels(c), slots |-> [i \in DOMAIN slots |-> Unlocks(slots[i])]]

Refused == [refused |-> TRUE]

\* transform: what is not about one operator fails the whole; an operator
\* that fails is skipped, or fails the whole when strict.
Transformed(raw, strict) ==
    LET b == raw.building
        operators == {op \in DOMAIN b.chars : OperatorLoads(raw, op)}
    IN IF /\ PowersLoad(raw.teams) /\ FacilitiesLoad(b) /\ SkillsLoad(b) /\ FormulasLoad(b) /\ LayoutLoads(b)
          /\ strict => operators = DOMAIN b.chars
       THEN [powers |-> Powers(raw.teams), constants |-> Constants(b), facilities |-> Facilities(b),
             skills |-> Skills(b), formulas |-> Formulas(b), layout |-> LayoutSlots(b),
             operators |-> [op \in operators |-> Operator(raw, op)],
             skipped |-> DOMAIN b.chars \ operators]
       ELSE Refused
----------------------------------------------------------------------------
(* What users of a loaded model rely on: an operator's skills and powers   *)
(* are there, and the tier it has is the highest one it has unlocked.      *)
HoldsTogether(data) == \A op \in DOMAIN data.operators :
    LET o == data.operators[op] IN
    /\ {o.nation, o.team} \ {NoPower} \subseteq DOMAIN data.powers
    /\ \A i \in DOMAIN o.slots :
         /\ \A n \in DOMAIN o.slots[i] : o.slots[i][n].buff \in DOMAIN data.skills
         /\ \A m \in DOMAIN o.slots[i] :
              LET active == ActiveAt(o.slots[i], o.slots[i][m])
              IN active # 0 /\ ~Below(o.slots[i][active], o.slots[i][m])
=============================================================================
