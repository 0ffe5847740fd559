------------------------------ MODULE Simulation ------------------------------
(***************************************************************************)
(* The fixed-tick loop of the simulator (ak-eval/src/sim.rs): production,  *)
(* orders, morale, collection and the actions of a rotation policy.        *)
(*                                                                         *)
(* Every step of a tick is an action: each room in turn, then the orders,  *)
(* morale, a collection if one is due, and the policy.  What the skills of *)
(* the moment make of a room and of morale (module Effects) is any rate of *)
(* a small set, and the policy is any policy.  Amounts are whole units of  *)
(* a size at which production and storage are exact; a Trading Post's      *)
(* share of what is short is rounded down.                                 *)
(***************************************************************************)
EXTENDS Assignment, Integers, Sequences, FiniteSets, FiniteSetsExt

CONSTANTS
    Bases,         \* bases: rooms, first assignment, how output is collected, stocks
    RoomAt,        \* the room, by its place in the base, of each slot
    TraineeSlot,
    Tick, Horizon,
    Rates,         \* what a room makes per unit of time
    Feelings,      \* what morale gains per unit of time
    Limits,        \* capacities and order limits
    MaxMood

Goods == {"gold", "shards"}
RoomKinds == {"factory", "trading", "power", "office", "training", "dorm"}
Buckets == {"working", "resting", "exhausted", "idle", "benched"}

\* RoomConfig, the stocks of SimConfig, BaseConfig.
RoomData == [kind : RoomKinds, item : STRING, cost : Nat, weight : Nat \ {0}, input : Nat,
             cap : Nat, target : Nat, instant : BOOLEAN]
StockData == [tracked : BOOLEAN, left : Nat]
BaseData == [rooms : Seq(RoomData), every : Nat, depot : [Goods -> Nat], stock : StockData,
             crew : Assignments, slots : SUBSET Slots]

ASSUME TimeAssumption == Tick \in Nat \ {0} /\ Horizon \in Nat \ {0}
ASSUME RatesAssumption == /\ Rates \subseteq Nat /\ Limits \subseteq Nat
                          /\ Feelings \subseteq Int /\ MaxMood \in Nat

\* Posts sell what the depot has, and nobody starts in two places.
ASSUME BasesAssumption ==
  \A b \in Bases : /\ b \in BaseData /\ b.rooms # <<>> /\ NoDuplicates(b.crew)
                   /\ \A r \in DOMAIN b.rooms :
                        b.rooms[r].kind = "trading" => b.rooms[r].item \in Goods /\ b.rooms[r].input > 0

VARIABLES
    base, hour,
    pc,          \* the step of the tick
    turn,        \* the room whose turn it is
    run,         \* RoomRun, by room
    depot,       \* Pure Gold and Originium Shards
    stock,       \* the Factories' input, if it is tracked
    totals,
    states,      \* OpState, by operator known to the run
    assignment,
    nextCollection,
    news,        \* the events of the last step
    lost,        \* history: rooms that lost output to a full store since the last collection
    told,        \* history: rooms whose store was reported full since then
    entered      \* history: when each operator last changed places, or was
                 \* put once more where they were

production == <<run, depot, stock, totals>>
people == <<states, assignment, entered>>
vars == <<base, hour, pc, turn, run, depot, stock, totals, states, assignment,
          nextCollection, news, lost, told, entered>>

Rooms == DOMAIN base.rooms
Dealing(kind, item) == {r \in Rooms : base.rooms[r].kind = kind /\ base.rooms[r].item = item}
Of(kinds) == {r \in Rooms : base.rooms[r].kind \in kinds}
Periodic == base.every > 0
AtOnce == IF Periodic THEN {"power"} ELSE {"power", "office"}
Span == Min({Tick, Horizon - hour})

NewRun == [stored |-> 0, pending |-> 0, made |-> 0, orders |-> 0, progress |-> 0, doneAt |-> -1,
           full |-> FALSE, starved |-> FALSE]
NewState == [mood |-> MaxMood, inRoom |-> 0, since |-> 0,
             spent |-> [b \in Buckets |-> 0]]

Event(kind, who, at) == [kind |-> kind, who |-> who, at |-> at]
EventIf(cond, e) == IF cond THEN {e} ELSE {}

Init ==
  /\ base \in Bases
  /\ hour = 0 /\ pc = "produce" /\ turn = 1
  /\ run = [r \in Rooms |-> NewRun]
  /\ depot = base.depot /\ stock = base.stock
  /\ totals = [made |-> [item \in Goods |-> 0], used |-> 0, sold |-> [item \in Goods |-> 0]]
  /\ assignment = base.crew
  /\ states = [o \in Stationed(base.crew) |-> NewState]
  /\ nextCollection = base.every
  /\ news = {} /\ lost = {} /\ told = {}
  /\ entered = [o \in Operators |-> 0]

-----------------------------------------------------------------------------
(* Production.                                                             *)

\* Sim::deliver: Pure Gold and Originium Shards go through the depot.
Delivered(t, item, units) ==
  IF item \in DOMAIN t THEN [t EXCEPT ![item] = @ + units] ELSE t

\* Sim::produce_factory.
Factory(r, rate, capacity) ==
  LET room == base.rooms[r]
      byTime == rate * Span
      bound == stock.tracked /\ room.cost > 0
      byInput == IF bound THEN Min({byTime, stock.left \div room.cost}) ELSE byTime
      byStore == IF Periodic THEN Max({0, capacity - run[r].stored * room.weight}) \div room.weight ELSE byTime
      batches == Min({byInput, byStore})
      storage == byStore < byInput
      input == ~storage /\ byInput < byTime
  IN IF byTime = 0 \/ (room.instant /\ ~stock.tracked)
     THEN UNCHANGED <<production, lost>> /\ news' = {}
     ELSE /\ totals' = [totals EXCEPT !.used = @ + batches * room.cost,
                          !.made = IF Periodic THEN @ ELSE Delivered(@, room.item, batches)]
          /\ stock' = IF bound THEN [stock EXCEPT !.left = Max({0, @ - batches * room.cost})] ELSE stock
          /\ depot' = IF Periodic THEN depot ELSE Delivered(depot, room.item, batches)
          /\ run' = [run EXCEPT ![r].stored = IF Periodic THEN @ + batches ELSE @,
                                ![r].made = IF Periodic THEN @ ELSE @ + batches,
                                ![r].full = @ \/ storage, ![r].starved = input]
          /\ news' = EventIf(storage /\ ~run[r].full, Event("full", r, hour))
                     \cup EventIf(input /\ ~run[r].starved, Event("starved", r, hour))
          /\ lost' = IF storage THEN lost \cup {r} ELSE lost

\* What flows into a queue of orders or a store of contacts.
Filled(r, amount, limit, field) ==
  LET put == Min({amount, Max({0, limit - run[r][field]})}) IN
  /\ run' = [run EXCEPT ![r][field] = @ + put, ![r].full = @ \/ put < amount]
  /\ news' = EventIf(put < amount /\ ~run[r].full, Event("full", r, hour))
  /\ lost' = IF put < amount THEN lost \cup {r} ELSE lost
  /\ UNCHANGED <<depot, stock, totals>>

\* Power Plants, and an Office when output is collected at once.
Gained(r, amount) ==
  /\ run' = [run EXCEPT ![r].made = @ + amount] /\ news' = {}
  /\ UNCHANGED <<depot, stock, totals, lost>>

\* Sim::produce_training: the hour of completion is within the tick.
Training(r, rate) ==
  LET need == base.rooms[r].target - run[r].progress
      over == rate * Span >= need
      when == hour + (IF rate > 0 THEN need \div rate ELSE Span)
  IN IF run[r].doneAt >= 0 THEN UNCHANGED <<production, lost>> /\ news' = {}
     ELSE /\ run' = IF over THEN [run EXCEPT ![r].progress = base.rooms[r].target, ![r].doneAt = when]
                    ELSE [run EXCEPT ![r].progress = @ + rate * Span]
          /\ news' = EventIf(over, Event("trained", r, when))
          /\ UNCHANGED <<depot, stock, totals, lost>>

Told == told' = told \cup {e.who : e \in {x \in news' : x.kind = "full"}}

Produce ==
  /\ pc = "produce"
  /\ \E rate \in Rates, limit \in Limits :
       LET kind == base.rooms[turn].kind IN
       \/ kind = "factory" /\ Factory(turn, rate, limit)
       \/ kind = "trading" /\ Filled(turn, rate * Span, limit, "pending")
       \/ kind = "office" /\ Periodic /\ Filled(turn, rate * Span, base.rooms[turn].cap, "stored")
       \/ kind = "training" /\ Training(turn, rate)
       \/ kind = "dorm" /\ UNCHANGED <<production, lost>> /\ news' = {}
       \/ kind \in AtOnce /\ Gained(turn, rate * Span)
  /\ Told
  /\ turn' = IF turn = Len(base.rooms) THEN 1 ELSE turn + 1
  /\ pc' = IF turn < Len(base.rooms) THEN pc ELSE IF Periodic THEN "mood" ELSE "fulfil"
  /\ UNCHANGED <<base, hour, people, nextCollection>>

-----------------------------------------------------------------------------
(* Orders and collection.                                                  *)

\* Mutant: the first posts take what they need.
Fulfils_First(runs, have, r) ==
  LET item == base.rooms[r].item
      before == SumFunctionOnSet([p \in Rooms |-> runs[p].pending * base.rooms[p].input],
                                 {p \in Dealing("trading", item) : p < r})
  IN Min({runs[r].pending, Max({0, have[item] - before}) \div base.rooms[r].input})

Demand(runs, item) ==
  SumFunctionOnSet([p \in Rooms |-> runs[p].pending * base.rooms[p].input], Dealing("trading", item))

\* What a post fulfils: all it has waiting, or its share of what there is.
Fulfils(runs, have, r) ==
  LET item == base.rooms[r].item IN
  IF Demand(runs, item) <= have[item] THEN runs[r].pending
  ELSE (runs[r].pending * have[item]) \div Demand(runs, item)

\* Sim::fulfil_all, after runs have filled and with have in the depot.
Sells(runs, have) ==
  LET posts == {r \in Of({"trading"}) : runs[r].pending > 0}
      Short(r) == Demand(runs, base.rooms[r].item) > have[base.rooms[r].item]
      Sold(item) == SumFunctionOnSet([r \in Dealing("trading", item) |-> Fulfils(runs, have, r) * base.rooms[r].input],
                                     Dealing("trading", item))
  IN /\ run' = [r \in Rooms |->
          IF r \notin posts THEN runs[r]
          ELSE [runs[r] EXCEPT !.pending = @ - Fulfils(runs, have, r), !.orders = @ + Fulfils(runs, have, r),
                               !.starved = Short(r)]]
     /\ depot' = [item \in DOMAIN have |-> Max({0, have[item] - Sold(item)})]
     /\ totals' = [totals EXCEPT
          !.made = [item \in DOMAIN @ |-> @[item] + have[item] - depot[item]],
          !.sold = [item \in DOMAIN @ |-> @[item] + Sold(item)]]
     /\ news' = {Event("starved", r, hour) : r \in {x \in posts : Short(x) /\ ~runs[x].starved}}
                \cup EventIf(pc = "collect", Event("collected", 0, hour))
     /\ UNCHANGED stock

Fulfil ==
  /\ pc = "fulfil" /\ pc' = "mood"
  /\ Sells(run, depot)
  /\ UNCHANGED <<base, hour, turn, people, nextCollection, lost, told>>

\* Mutants: stores that were full stay marked as full; nothing is taken out.
Emptied_StillFull == [r \in Rooms |->
  IF base.rooms[r].kind \in {"factory", "office"}
  THEN [run[r] EXCEPT !.stored = 0, !.made = @ + run[r].stored] ELSE run[r]]

Emptied_Twice == [r \in Rooms |->
  IF base.rooms[r].kind \in {"factory", "office"}
  THEN [run[r] EXCEPT !.made = @ + run[r].stored, !.full = FALSE]
  ELSE IF base.rooms[r].kind = "trading" THEN [run[r] EXCEPT !.full = FALSE] ELSE run[r]]

\* Sim::collect_all: every store is emptied into the depot, then the orders.
Emptied == [r \in Rooms |->
  IF base.rooms[r].kind \in {"factory", "office"}
  THEN [run[r] EXCEPT !.stored = 0, !.made = @ + run[r].stored, !.full = FALSE]
  ELSE IF base.rooms[r].kind = "trading" THEN [run[r] EXCEPT !.full = FALSE] ELSE run[r]]

\* Mutant: the next collection is counted from this one.
Due_Drifting == hour + base.every

Due == nextCollection + base.every

Collect ==
  /\ pc = "collect" /\ pc' = "rotate"
  /\ LET Stored(item) == SumFunctionOnSet([r \in Rooms |-> run[r].stored], Dealing("factory", item))
     IN Sells(Emptied, [item \in DOMAIN depot |-> depot[item] + Stored(item)])
  /\ nextCollection' = Due
  /\ lost' = {} /\ told' = {}
  /\ UNCHANGED <<base, hour, turn, people>>

-----------------------------------------------------------------------------
(* Morale and the policy.                                                  *)

PlaceOf(o) == RoomAt[CHOOSE s \in At(assignment, o) : TRUE]
KindOf(o) == base.rooms[PlaceOf(o)].kind

\* World::role, as the snapshot at the start of the tick has it: the tick in
\* which a specialisation ends is still worked.
Over(r) == run[r].doneAt >= 0 /\ run[r].doneAt <= hour
Idle(o) ==
  /\ KindOf(o) = "training"
  /\ At(assignment, o) = {TraineeSlot} \/ Over(PlaceOf(o))

\* The bucket this stretch of time goes to.
Doing(o) ==
  IF At(assignment, o) = {} THEN "benched"
  ELSE IF Idle(o) THEN "idle"
  ELSE IF KindOf(o) = "dorm" THEN "resting"
  ELSE IF states[o].mood = 0 THEN "exhausted" ELSE "working"

\* Sim::advance_mood, after which the tick's time has passed.
AdvanceMood ==
  /\ pc = "mood"
  /\ \E feeling \in [Stationed(assignment) -> Feelings] :
       LET After(o) == Min({MaxMood, Max({0, states[o].mood + feeling[o] * Span})})
           Here(o) == At(assignment, o) # {}
       IN /\ \A o \in Stationed(assignment) : Idle(o) => feeling[o] = 0
          /\ states' = [o \in DOMAIN states |->
               [states[o] EXCEPT !.mood = IF Here(o) THEN After(o) ELSE @,
                                 !.inRoom = IF Here(o) THEN @ + Span ELSE @,
                                 !.spent[Doing(o)] = @ + Span]]
          /\ news' = {Event("exhausted", o, hour + Span) :
               o \in {x \in Stationed(assignment) : Doing(x) = "working" /\ After(x) = 0}}
  /\ hour' = hour + Span
  /\ pc' = IF Periodic /\ hour + Span >= nextCollection THEN "collect" ELSE "rotate"
  /\ UNCHANGED <<base, turn, production, assignment, entered, nextCollection, lost, told>>

\* Sim::ensure_state: a policy may name an operator the run does not know.
Known(o) == IF o \in DOMAIN states THEN states
            ELSE [x \in DOMAIN states \cup {o} |-> IF x \in DOMAIN states THEN states[x] ELSE [NewState EXCEPT !.since = hour]]

\* Whoever an action moves starts anew, also where they were already.
Anew(known, who) == [o \in DOMAIN known |-> IF o \in who THEN [known[o] EXCEPT !.inRoom = 0] ELSE known[o]]

Changed(who) == /\ entered' = [o \in Operators |-> IF o \in who \/ At(assignment', o) # At(assignment, o) THEN hour
                                                   ELSE entered[o]]
                /\ news' = {Event("moved", o, hour) : o \in who}

MoveTo(o, s) ==
  LET displaced == {assignment[s]} \ {Nobody, o} IN
  /\ assignment' = Moved(assignment, o, s)
  /\ states' = Anew(Known(o), {o} \cup displaced)
  /\ Changed({o} \cup displaced)

TakeOff(o) ==
  /\ At(assignment, o) # {}
  /\ \E s \in At(assignment, o) : assignment' = Removed(assignment, s)
  /\ states' = Anew(states, {o})
  /\ Changed({o})

\* Mutant: only the operator of the first slot starts anew.
Traders_First(s, t) == {assignment[s]} \ {Nobody}

Traders(s, t) == {assignment[s], assignment[t]} \ {Nobody}

Trade(s, t) ==
  /\ assignment' = Swapped(assignment, s, t)
  /\ states' = Anew(states, Traders(s, t))
  /\ Changed(Traders(s, t))

\* Sim::apply, one of the policy's actions after another.
Rotate ==
  /\ pc = "rotate"
  /\ \/ \E o \in Operators, s \in base.slots : MoveTo(o, s)
     \/ \E o \in Operators : TakeOff(o)
     \/ \E s, t \in base.slots : Trade(s, t)
  /\ UNCHANGED <<base, hour, pc, turn, production, nextCollection, lost, told>>

NextTick ==
  /\ pc = "rotate" /\ pc' = IF hour < Horizon THEN "produce" ELSE "over"
  /\ news' = {}
  /\ UNCHANGED <<base, hour, turn, production, people, nextCollection, lost, told>>

Next == Produce \/ Fulfil \/ Collect \/ AdvanceMood \/ Rotate \/ NextTick

Spec == Init /\ [][Next]_vars

-----------------------------------------------------------------------------
RunData == [stored : Nat, pending : Nat, made : Nat, orders : Nat, progress : Nat, doneAt : Int,
            full : BOOLEAN, starved : BOOLEAN]
OpData == [mood : 0 .. MaxMood, inRoom : Nat, since : Nat, spent : [Buckets -> Nat]]

TypeOK ==
  /\ base \in Bases /\ hour \in 0 .. Horizon /\ turn \in Rooms
  /\ pc \in {"produce", "fulfil", "mood", "collect", "rotate", "over"}
  /\ run \in [Rooms -> RunData]
  /\ depot \in [Goods -> Nat] /\ stock \in StockData
  /\ totals \in [made : [Goods -> Nat], used : Nat, sold : [Goods -> Nat]]
  /\ assignment \in Assignments /\ Stationed(assignment) \subseteq DOMAIN states
  /\ DOMAIN states \subseteq Operators /\ states \in [DOMAIN states -> OpData]
  /\ entered \in [Operators -> Nat] /\ nextCollection \in Nat
  /\ \A e \in news : e.at \in Nat
  /\ lost \subseteq Rooms /\ told \subseteq Rooms

\* Nothing appears or vanishes: the depot holds what was there and was
\* delivered less what orders took, a Factory's stores and deliveries account
\* for the input used, and the posts' orders for what was sold.
NothingIsLost ==
  LET Inputs == [r \in Rooms |-> (run[r].stored + run[r].made) * base.rooms[r].cost]
      Orders(item) == SumFunctionOnSet([r \in Rooms |-> run[r].orders * base.rooms[r].input], Dealing("trading", item))
      Made(item) == SumFunctionOnSet([r \in Rooms |-> run[r].made], Dealing("factory", item))
  IN /\ \A item \in DOMAIN depot :
          /\ depot[item] = base.depot[item] + totals.made[item] - totals.sold[item] /\ depot[item] >= 0
          /\ totals.sold[item] = Orders(item) /\ totals.made[item] = Made(item)
     /\ totals.used = SumFunctionOnSet(Inputs, Of({"factory"}))
     /\ stock.tracked => stock.left = base.stock.left - totals.used /\ stock.left >= 0

\* When stock is short no post gets ahead of another: to within one order,
\* each fulfils the same part of what it has waiting.
SharesAreFair ==
  [][\A p, q \in Of({"trading"}) : base.rooms[p].item = base.rooms[q].item /\ pc \in {"fulfil", "collect"} =>
       (run'[p].orders - run[p].orders) * run[q].pending
         <= (run'[q].orders - run[q].orders + 1) * run[p].pending]_vars

\* A store is reported full exactly when output was lost to it since the last
\* collection, or ever if nothing is collected periodically.
LossesAreReported == lost = told

\* Every hour of everyone the run knows is accounted for once, and the time
\* in a room, on which ramps depend, starts anew with every change of place, also
\* of who is swapped or displaced, and else only with an action on themselves.
HoursAddUp ==
  LET now == hour IN
  \A o \in DOMAIN states :
    /\ SumFunction(states[o].spent) = now - states[o].since
    /\ At(assignment, o) # {} => states[o].inRoom = now - entered[o]

\* Collections fall due at the multiples of their interval and none is missed.
CollectionsAreOnTime ==
  Periodic => /\ nextCollection % base.every = 0
              /\ pc # "collect" => hour < nextCollection /\ nextCollection <= hour + base.every

\* As sim.rs has it, "Hours since entering the current room": they do not fall
\* as long as an operator stays in one room.
HoursSinceEntering ==
  [][\A o \in DOMAIN states :
       /\ At(assignment, o) # {} /\ At(assignment', o) # {}
       /\ PlaceOf(o)' = PlaceOf(o)
       => states'[o].inRoom >= states[o].inRoom]_vars

\* Events in time order.
EventsInOrder ==
  [][\A e \in news, f \in news' : e.at <= f.at]_vars
=============================================================================
