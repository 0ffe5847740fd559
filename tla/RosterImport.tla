---------------------------- MODULE RosterImport ----------------------------
(***************************************************************************)
(* The import of other tools' rosters (ak-data/src/import: mod.rs,         *)
(* krooster.rs, ak_planner.rs) and its use by a request (rosters.rs, read). *)
(* An export is its shape and its entries, in the order they are read.     *)
(***************************************************************************)
EXTENDS GameTables

Missing == -1       \* a field that is absent
Wrong == -2         \* a field that is not of its type
NoId == "no id"     \* an id that is absent or not a text; empty, too, in an entry

Failed == [failed |-> TRUE]
Fresh == [roster |-> <<>>, warnings |-> <<>>, seen |-> {}, entries |-> 0, notOwned |-> 0]
Warn(b, kind, op) == [b EXCEPT !.warnings = Append(@, [kind |-> kind, op |-> op])]
----------------------------------------------------------------------------
(* Builder                                                                 *)

MaxPhase(o) == Len(o.maxLevels) - 1
Cap(o, phase) == o.maxLevels[phase + 1]
Clamp(level, cap) == IF level < 1 THEN 1 ELSE IF level > cap THEN cap ELSE level

NotOwned(b) == [b EXCEPT !.entries = @ + 1, !.notOwned = @ + 1]

\* The promotion and level the roster gets for an operator of the data.
Raised(o, elite, level) ==
    IF elite > MaxPhase(o) THEN [phase |-> MaxPhase(o), level |-> Cap(o, MaxPhase(o))]
    ELSE [phase |-> elite, level |-> Clamp(level, Cap(o, elite))]

\* What is said of the difference.
Told(b, o, op, elite, level) ==
    IF elite > MaxPhase(o) THEN Warn(b, "promotion clamped", op)
    ELSE IF Clamp(level, Cap(o, elite)) # level THEN Warn(b, "level clamped", op) ELSE b

\* An operator is noted as seen before it is looked up.
Add_SeenFirst(data, b, op, elite, level) ==
    LET counted == [b EXCEPT !.entries = @ + 1, !.seen = @ \cup {op}]
        noted == IF op \in b.seen THEN Warn(counted, "duplicate", op) ELSE counted
    IN IF op \notin DOMAIN data.operators THEN Warn(noted, "unknown", op)
       ELSE LET o == data.operators[op]  entry == Raised(o, elite, level)
            IN [Told(noted, o, op, elite, level) EXCEPT !.roster =
                  [x \in DOMAIN @ \cup {op} |-> IF x = op THEN entry ELSE @[x]]]

\* Builder::add: the last entry of an operator is kept.
Add(data, b, op, elite, level) ==
    LET counted == [b EXCEPT !.entries = @ + 1] IN
    IF op \notin DOMAIN data.operators THEN Warn(counted, "unknown", op)
    ELSE LET o == data.operators[op]
             entry == Raised(o, elite, level)
             seen == [counted EXCEPT !.seen = @ \cup {op}]
             noted == IF op \in b.seen THEN Warn(seen, "duplicate", op) ELSE seen
         IN [Told(noted, o, op, elite, level) EXCEPT !.roster =
               [x \in DOMAIN @ \cup {op} |-> IF x = op THEN entry ELSE @[x]]]

\* Entry::elite and Entry::int: a promotion is 0, 1 or 2, a level a number.
IsPromotion(elite) == elite \in ElitePhases
IsNumber(n) == n \notin {Missing, Wrong}

\* What an entry asks of the Builder: the import fails, or it is counted as not
\* owned, added, or added for want of a plan; one planned before asks nothing.
Bad == [asks |-> "failure"]
Unowned == [asks |-> "count"]
Planned == [asks |-> "nothing"]
Shown(id) == [asks |-> "show", op |-> id]
Owns(e) == IF IsPromotion(e.elite) /\ IsNumber(e.level)
           THEN [asks |-> "add", op |-> e.id, elite |-> e.elite, level |-> e.level] ELSE Bad

\* What is done for it; selected operators are shown at Elite 0 level 1.
Take(data, b, asked) ==
    CASE asked.asks = "count" -> NotOwned(b)
      [] asked.asks = "add" -> Add(data, b, asked.op, asked.elite, asked.level)
      [] asked.asks = "show" -> Add(data, Warn(b, "no saved plan", asked.op), asked.op, 0, 1)
      [] OTHER -> b

\* All entries, in turn; the first that fails fails the import.
Built(data, asked) ==
    LET after[n \in 0 .. Len(asked)] == IF n = 0 THEN Fresh ELSE Take(data, after[n - 1], asked[n])
    IN IF Bad \in Range(asked) THEN Failed ELSE after[Len(asked)]
----------------------------------------------------------------------------
(* krooster.rs.  The fields "elite" and "promotion" stand for both: "form" *)
(* says which of op_id and promotion the entry has.                        *)

Forms == {"current", "older", "both", "neither"}
HasOpId(e) == e.form \in {"current", "both"}
HasPromotion(e) == e.form \in {"older", "both"}

Current(e) ==
    IF ~HasOpId(e) \/ e.id = NoId \/ ~IsNumber(e.potential) THEN Bad
    ELSE IF e.potential < 1 THEN Unowned ELSE Owns(e)

Older(e) ==
    IF HasOpId(e) \/ e.id = NoId THEN Bad
    ELSE IF e.disowned THEN Unowned
    ELSE IF e.potential = Wrong THEN Bad
    ELSE IF e.potential < 1 THEN Unowned
    ELSE IF ~HasPromotion(e) THEN Bad ELSE Owns(e)

\* The first entry of a map decides which shape all of them must have.
AsCurrent(x) ==
    \/ x.shape \in {"list", "profile"}
    \/ x.shape = "map" /\ (x.entries = <<>> \/ HasOpId(x.entries[1]))

Krooster(data, x) ==
    IF AsCurrent(x) THEN Built(data, [i \in DOMAIN x.entries |-> Current(x.entries[i])])
    ELSE IF x.shape = "map" /\ HasPromotion(x.entries[1])
         THEN Built(data, [i \in DOMAIN x.entries |-> Older(x.entries[i])])
    ELSE Failed
----------------------------------------------------------------------------
(* ak_planner.rs: the saved plans, then what is selected without one.      *)

Plan(e) == IF e.id = NoId THEN Bad ELSE Owns(e)

\* Each once; the ids planned are a list of their own, known or not.
Selected(planned, ids) == [i \in DOMAIN ids |->
    IF ids[i] = NoId THEN Bad
    ELSE IF ids[i] \in planned \cup {ids[j] : j \in 1 .. i - 1} THEN Planned ELSE Shown(ids[i])]

Planner(data, x) ==
    IF x.shape # "planner" THEN Failed
    ELSE Built(data, [i \in DOMAIN x.entries |-> Plan(x.entries[i])]
                     \o Selected({e.id : e \in Range(x.entries)}, x.selected))
----------------------------------------------------------------------------
(* import, and read of rosters.rs: a roster in the planner's own form must *)
(* name known operators only; its entries are taken as they are.           *)

Canonical(data, x) ==
    IF x.shape # "roster" \/ ~(DOMAIN x.roster \subseteq DOMAIN data.operators) THEN Failed
    ELSE [Fresh EXCEPT !.roster = x.roster]

Read(data, source, x) ==
    CASE source = "krooster" -> Krooster(data, x)
      [] source = "ak-planner" -> Planner(data, x)
      [] source = "roster" -> Canonical(data, x)

Count(b, kind) == Cardinality({i \in DOMAIN b.warnings : b.warnings[i].kind = kind})
ToldOf(b, op) == {b.warnings[i].kind : i \in {j \in DOMAIN b.warnings : b.warnings[j].op = op}}
=============================================================================
