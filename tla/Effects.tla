------------------------------- MODULE Effects --------------------------------
(***************************************************************************)
(* What everyone's skills do at one instant (ak-eval/src/effects.rs, over  *)
(* the world that world.rs resolves and the base rates of rules.rs).       *)
(*                                                                         *)
(* A skill is a list of clauses: a predicate and an effect, whose amount   *)
(* may depend on a counter.  Evaluate runs the three passes of the code    *)
(* over them in the order of the seats and adds up what survives stacking  *)
(* and scaling.  Percentages and morale are integers; an amount that is    *)
(* shared out is one the number of recipients divides.                     *)
(*                                                                         *)
(* Left out: warnings, and the Workshop's own effects but for who has one. *)
(***************************************************************************)
EXTENDS Integers, Sequences, FiniteSets, FiniteSetsExt, SequencesExt

CONSTANTS
    Operators, Nobody,
    Rooms,        \* the base: kind, level, product, training of each room
    Skills,       \* the active skills of each operator, for every room kind
    Members,      \* the members of each group that has a definition
    Families,     \* the holders of each skill type that has a definition
    MaxMood,
    Rules,        \* the numbers of rules.rs and the game's constants
    Crews,        \* the assignments the exploration starts from
    MaxChanges,   \* bound: the changes explored after each of them
    Stranger      \* an operator without skills or groups

ASSUME StrangerAssumption ==
    /\ Stranger \in Operators /\ Skills[Stranger] = <<>>
    /\ \A g \in DOMAIN Members : Stranger \notin Members[g]
    /\ \A f \in DOMAIN Families : Stranger \notin Families[f]

WorkAreas == {"control", "factory", "trading", "power", "meeting", "hire", "training", "workshop"}
NoJob == [profession |-> "none", level |-> 0]

StatRoom == [productivity |-> "factory", capacity |-> "factory", orders |-> "trading",
             limit |-> "trading", drones |-> "power", clues |-> "meeting",
             contacts |-> "hire", training |-> "training"]

VARIABLES station,  \* station[r]: the slots of a room, from the first
          mood, hours,
          done,     \* the rooms whose training is over
          changes   \* counts up to MaxChanges

vars == <<station, mood, hours, done, changes>>

-----------------------------------------------------------------------------
(* World: who is where, doing what.                                        *)

World(st, md) ==
  LET Taken(q) == SelectSeq(q, LAMBDA o : o # Nobody)
      occ == [r \in DOMAIN Rooms |-> Taken(st[r])]
      order == FlattenSeq(occ)
      ops == ToSet(order)
      room == [o \in ops |-> CHOOSE r \in DOMAIN Rooms : o \in ToSet(occ[r])]
      training == {r \in DOMAIN Rooms : Rooms[r].training # NoJob /\ r \notin done}
      idle == {o \in ops : LET r == room[o] IN
                 \/ Rooms[r].kind \notin WorkAreas \cup {"dorm"}
                 \/ Rooms[r].kind = "training" /\ (r \notin training \/ st[r][2] = o)}
  IN [occ |-> occ, order |-> order, ops |-> ops, room |-> room, mood |-> md, training |-> training,
      idle |-> idle, exhausted |-> {o \in ops \ idle : md[o] = 0 /\ Rooms[room[o]].kind \in WorkAreas}]

KindOf(w, o) == Rooms[w.room[o]].kind
In(w, r) == ToSet(w.occ[r])
InKind(w, k) == {o \in w.ops : KindOf(w, o) = k}
AtWork(w) == {o \in w.ops : KindOf(w, o) \in WorkAreas}
RoomsOf(k) == {r \in DOMAIN Rooms : Rooms[r].kind = k}
Acting(w, o) == o \notin w.idle \cup w.exhausted
NotFull(w, o) == w.mood[o] < MaxMood[o]

-----------------------------------------------------------------------------
(* Predicates and counters.  Each also tells whom it picked out by who     *)
(* they are, and a predicate whose being there it needs.                   *)

When(ok, who) == [ok |-> ok, marks |-> IF ok THEN who ELSE {}, needs |-> {}]

\* Mutant: whom a skill counts is not noticed.
Belong_Unnoticed(groups, pool, g, o) ==
  IF g \in DOMAIN groups THEN [who |-> pool \cap groups[g], marks |-> {}]
  ELSE [who |-> {}, marks |-> IF pool = {} THEN {} ELSE {o}]

\* Eval::member over a pool: the owner is marked for a group nobody defined.
Belong(groups, pool, g, o) ==
  IF g \in DOMAIN groups THEN [who |-> pool \cap groups[g], marks |-> pool \cap groups[g]]
  ELSE [who |-> {}, marks |-> IF pool = {} THEN {} ELSE {o}]

Pool(w, scope, r, target) ==
  CASE scope = "room" -> In(w, r) [] scope = "target" -> In(w, target) [] scope = "base" -> w.ops
    [] scope = "work" -> AtWork(w) [] OTHER -> InKind(w, scope)

\* A record of another occupant of the room, made so far.
OthersStat(w, ev, stat, o) ==
  LET recs == {i \in DOMAIN ev.stats : LET rec == ev.stats[i] IN
                 rec.room = w.room[o] /\ rec.op # o /\ w.room[rec.op] = rec.room /\ rec.stat = stat}
  IN MapThenSumSet(LAMBDA i : ev.stats[i].value, recs)

Lines == {r \in RoomsOf("factory") : Rooms[r].product = "gold"}

Count(w, ev, c, o, target) ==
  LET r == w.room[o]
      Plain(n) == [n |-> n, marks |-> {}]
      Known(b) == [n |-> Cardinality(b.who), marks |-> b.marks]
  IN CASE c.kind = "operators" ->
            Known(Belong(Members, Pool(w, c.scope, r, target) \ (IF c.others THEN {o} ELSE {}), c.group, o))
       [] c.kind = "others_in_room" -> Plain(Cardinality(In(w, r)) - 1)
       [] c.kind = "in_rooms" -> Plain(Cardinality(InKind(w, c.room)))
       [] c.kind = "rooms" -> Plain(Cardinality(RoomsOf(c.room)) + ev.extra[c.room])
       [] c.kind = "room_levels" -> Plain(MapThenSumSet(LAMBDA x : Rooms[x].level, RoomsOf(c.room)))
       [] c.kind = "lines" -> Plain(Cardinality(Lines))
       [] c.kind = "family" -> Known(Belong(Families, In(w, r), c.family, o))
       [] c.kind = "others_stat" -> Plain(OthersStat(w, ev, c.stat, o))
       [] c.kind = "deficit" -> Plain(MaxMood[o] - w.mood[o])
       [] c.kind \in {"resource", "unmodeled"} -> [n |-> 0, marks |-> {o}]

\* h, after another part of the same condition.
After(h, part) == [h EXCEPT !.marks = @ \cup part.marks, !.needs = @ \cup part.needs]
AtLeast(n, c) == [ok |-> c.n >= n, marks |-> c.marks, needs |-> {}]

RECURSIVE Holds(_, _, _, _, _)
Holds(w, ev, p, o, t) ==
  LET r == w.room[o]
      job == Rooms[r].training
      \* All and Any stop at the first part that settles them.
      Until(ok, parts) == FoldLeft(LAMBDA sofar, q :
          IF sofar.ok = ok THEN sofar ELSE After(Holds(w, ev, q, o, t), sofar),
          [ok |-> ~ok, marks |-> {}, needs |-> {}], parts)
      Some(b) == [ok |-> b.who # {}, marks |-> b.marks, needs |-> {}]
  IN CASE p.kind = "always" -> When(TRUE, {})
       [] p.kind = "coworker_is" -> When(p.who \in In(w, r) \ {o}, {p.who})
       [] p.kind = "in_room" -> LET there == {p.who} \cap InKind(w, p.room) IN
            [ok |-> there # {}, marks |-> there, needs |-> there \ {o}]
       [] p.kind = "in_work_area" -> When(p.who \in AtWork(w), {p.who})
       [] p.kind = "in_base" -> When(p.who \in w.ops, {p.who})
       [] p.kind = "coworker_in" -> Some(Belong(Members, In(w, r) \ {o}, p.group, o))
       [] p.kind = "group_in_room" -> Some(Belong(Members, InKind(w, p.room) \ {o}, p.group, o))
       [] p.kind = "alone" -> When(In(w, r) = {o}, {})
       [] p.kind = "full" -> When(~NotFull(w, o), {})
       [] p.kind = "above" -> When(w.mood[o] > p.value, {})
       [] p.kind = "below" -> When(w.mood[o] < p.value, {})
       [] p.kind = "count" -> AtLeast(p.n, Count(w, ev, p.counter, o, r))
       [] p.kind = "target_is" -> When(t = p.who, {p.who})
       [] p.kind = "target_in" -> Some(Belong(Members, {t} \ {Nobody}, p.group, o))
       [] p.kind = "training" -> When(r \in w.training /\ job.profession = p.profession, {})
       [] p.kind = "producing" -> When(Rooms[r].product = p.product, {})
       [] p.kind = "not" -> [Holds(w, ev, p.inner, o, t) EXCEPT !.ok = ~@]
       [] p.kind \in {"and", "or"} -> Until(p.kind = "or", p.parts)
       [] p.kind = "unmodeled" -> [ok |-> FALSE, marks |-> {o}, needs |-> {}]

\* None of it for an amount the model does not know ("becomes N").
Upto(v, per, most, least) == IF per >= 0 THEN Min({v, most}) ELSE Max({v, least})
Times(a, c) ==
  [known |-> TRUE, marks |-> c.marks,
   v |-> Upto(a.per * (Min({c.n, a.max}) \div a.step), a.per, a.total, -a.total)]

AmountOf(w, ev, a, o, target) ==
  CASE a.kind = "flat" -> [known |-> TRUE, v |-> a.value, marks |-> {}]
    [] a.kind = "per" -> Times(a, Count(w, ev, a.counter, o, target))
    [] a.kind = "ramp" ->
         [known |-> TRUE, marks |-> {}, v |-> Upto(a.initial + a.per * hours[o], a.per, a.max, a.max)]
    [] a.kind = "set" -> [known |-> FALSE, v |-> 0, marks |-> {o}]
-----------------------------------------------------------------------------
(* Clauses.                                                                *)

\* The first of the lowest of those whose morale is not full.
Lowest(w, q) ==
  LET needy == {i \in DOMAIN q : NotFull(w, q[i])}
      low == {i \in needy : \A j \in needy : w.mood[q[i]] <= w.mood[q[j]]}
  IN IF low = {} THEN {} ELSE {q[Min(low)]}

Recipients(w, target, o) ==
  LET r == w.room[o]
      Others == In(w, r) \ {o}
  IN CASE target.kind = "self" -> {o}
       [] target.kind = "all" -> In(w, r)
       [] target.kind = "others" -> Others
       [] target.kind = "one" -> Lowest(w, SelectSeq(w.occ[r], LAMBDA t : t # o))
       [] target.kind = "shared" -> {t \in Others : NotFull(w, t)}
       [] target.kind = "rooms" -> InKind(w, target.room)
       [] target.kind = "work" -> AtWork(w)
       [] target.kind = "named" -> {target.who} \cap w.ops

MoodClass(target, recipients) ==
  CASE target.kind = "self" -> "owner"
    [] target.kind \in {"all", "others"} -> "whole room"
    [] target.kind = "one" -> "single"
    [] target.kind = "shared" -> IF Cardinality(recipients) = 1 THEN "single" ELSE "whole room"
    [] target.kind = "rooms" -> target.room
    [] OTHER -> target.kind

Mark(ev, marks) == [ev EXCEPT !.counted = @ \cup marks]
Judge(ev, h) == [Mark(ev, h.marks) EXCEPT !.supports = @ \cup h.needs]

Give(ev, h, rec) == [Judge(ev, h) EXCEPT !.moods = IF h.ok THEN Append(@, rec) ELSE @]
Probe(ev, h, rec) == [Judge(ev, h) EXCEPT !.probes = IF h.ok THEN Append(@, rec) ELSE @]

\* Mutant: a healer nobody needs right now is not taken for support.
Probed_Never(w, ev, o, c, rec, recipients) == ev

\* A healer who reaches nobody yet would reach a tired newcomer.
Probed(w, ev, o, c, rec, recipients) ==
  IF rec.value > 0 /\ recipients = {} /\ c.effect.target.kind \in {"one", "shared"}
  THEN FoldLeft(LAMBDA e, t :
         IF e.probes # ev.probes \/ t = o THEN e
         ELSE Probe(e, Holds(w, e, c.when, o, t), [rec EXCEPT !.class = "single"]),
         ev, w.occ[w.room[o]])
  ELSE ev

Recover(w, ev, o, sk, c, a, to) ==
  LET target == c.effect.target
      rec == [recipient |-> Nobody, source |-> o, strongest |-> sk.strongest, value |-> a.v,
              class |-> MoodClass(target, to)]
      share == IF target.kind = "shared" /\ to # {} THEN a.v \div Cardinality(to) ELSE a.v
      marked == Mark(ev, a.marks \cup IF target.kind = "named" THEN to ELSE {})
      Each(e, t) ==
        Give(e, Holds(w, e, c.when, o, t), [rec EXCEPT !.recipient = t, !.value = share])
  IN FoldLeft(Each, Probed(w, marked, o, c, rec, to), SelectSeq(w.order, LAMBDA t : t \in to))

ApplyMood(w, ev, o, sk, c, a) ==
  IF a.known THEN Recover(w, ev, o, sk, c, a, Recipients(w, c.effect.target, o))
  ELSE Mark(ev, a.marks)

\* scope_rooms, natural_rooms and training_matches.
Receiving(w, o, e) ==
  LET r == w.room[o]
      natural == IF Rooms[r].kind = StatRoom[e.stat] THEN {r} ELSE RoomsOf(StatRoom[e.stat])
  IN CASE e.scope.kind = "this" -> {r}
       [] e.scope.kind = "all" -> RoomsOf(e.scope.room)
       [] e.scope.kind = "room_of" -> IF e.scope.who \in w.ops THEN {w.room[e.scope.who]} ELSE {}
       [] e.scope.kind = "natural" -> natural
       [] e.scope.kind = "trainees" ->
            {x \in natural \cap w.training : /\ Rooms[x].training.profession \in e.scope.professions
                                             /\ Rooms[x].training.level \in e.scope.levels}

ApplyStat(w, ev, o, sk, e) ==
  LET rooms == {x \in Receiving(w, o, e) : /\ Rooms[x].kind = StatRoom[e.stat]
                                           /\ e.product \in {"any", Rooms[x].product}}
      named == IF e.scope.kind = "room_of" THEN {e.scope.who} \cap w.ops ELSE {}
      Provide(acc, x, a) ==
        [Mark(acc, a.marks) EXCEPT !.stats = IF ~a.known THEN @ ELSE Append(@,
           [room |-> x, op |-> o, stat |-> e.stat, value |-> a.v, strongest |-> sk.strongest,
            facility |-> e.amount.kind = "per" /\ e.amount.counter.kind \in {"rooms", "lines"}])]
  IN FoldLeft(LAMBDA acc, x : Provide(acc, x, AmountOf(w, acc, e.amount, o, x)), Mark(ev, named), SelectSeq([x \in DOMAIN Rooms |-> x], LAMBDA x : x \in rooms))

Applied(w, ev, o, sk, e, h) ==
  CASE ~h.ok -> ev
    [] h.ok /\ e.kind = "stat" -> ApplyStat(w, ev, o, sk, e)
    [] h.ok /\ e.kind = "scale" -> [ev EXCEPT !.scalers = @ \cup
         {[room |-> w.room[o], owner |-> o, stat |-> e.stat, percent |-> e.percent]}]
    [] h.ok /\ e.kind = "gain" -> Mark(ev, {o} \cup AmountOf(w, ev, e.amount, o, w.room[o]).marks)
    [] h.ok /\ e.kind \in {"workshop", "clue_bias", "convert", "unmodeled"} -> Mark(ev, {o})

\* What acts on morale is judged for each recipient.
Apply(w, ev, o, sk, c) ==
  IF c.effect.kind = "mood"
  THEN ApplyMood(w, ev, o, sk, c, AmountOf(w, ev, c.effect.amount, o, w.room[o]))
  ELSE LET Judged(h) == Applied(w, Judge(ev, h), o, sk, c.effect, h)
       IN Judged(Holds(w, ev, c.when, o, Nobody))

-----------------------------------------------------------------------------
(* The three passes.                                                       *)

\* The clauses that act, in the order of rooms, seats and skills.
Clauses(w) ==
  LET Here(o) == SelectSeq(Skills[o], LAMBDA sk : sk.room = KindOf(w, o))
      Parts(o, sk) == [i \in DOMAIN sk.clauses |-> [owner |-> o, skill |-> sk, clause |-> sk.clauses[i]]]
      Of(o) == IF Acting(w, o) THEN FlattenSeq([i \in DOMAIN Here(o) |-> Parts(o, Here(o)[i])]) ELSE <<>>
  IN FlattenSeq([i \in DOMAIN w.order |-> Of(w.order[i])])

IsFacility(x) == x.clause.effect.kind = "facility"

ReadsOthers(x) ==
  LET e == x.clause.effect
      p == x.clause.when
      Reads(c) == c.kind = "others_stat"
  IN \/ e.kind \in {"stat", "mood", "gain"} /\ e.amount.kind = "per" /\ Reads(e.amount.counter)
     \/ p.kind = "count" /\ Reads(p.counter)

Extend(ev, x, h) ==
  IF h.ok THEN [Mark(Judge(ev, h), {x.owner}) EXCEPT
                  !.extra[x.clause.effect.room] = @ + x.clause.effect.delta]
  ELSE Judge(ev, h)
FacilityPass(w, ev, x) == Extend(ev, x, Holds(w, ev, x.clause.when, x.owner, Nobody))

ApplyPass(w, ev, x) == Apply(w, ev, x.owner, x.skill, x.clause)

Start(w) ==
  [counted |-> {o \in w.ops : Acting(w, o) /\ KindOf(w, o) = "meeting"}, supports |-> {},
   extra |-> [k \in WorkAreas \cup {"dorm"} |-> 0],
   stats |-> <<>>, moods |-> <<>>, probes |-> <<>>, scalers |-> {}]

Passes(w) ==
  LET all == Clauses(w)
      one == FoldLeft(LAMBDA ev, x : FacilityPass(w, ev, x), Start(w), SelectSeq(all, IsFacility))
      rest == SelectSeq(all, LAMBDA x : ~IsFacility(x))
      inOrder == SelectSeq(rest, LAMBDA x : ~ReadsOthers(x)) \o SelectSeq(rest, ReadsOthers)
  IN FoldLeft(LAMBDA ev, x : ApplyPass(w, ev, x), one, inOrder)

-----------------------------------------------------------------------------
(* Stacking, scaling and the base rates.                                   *)

AbsOf(n) == IF n < 0 THEN -n ELSE n

\* The records that take place: the additive ones and, of those of one type,
\* the strongest, the first of equals.  type[i] is the type of the record i.
Standing(recs, type) ==
  {i \in DOMAIN recs : recs[i].strongest =>
     \A j \in DOMAIN recs \ {i} : recs[j].strongest /\ type[j] = type[i] =>
        \/ AbsOf(recs[j].value) < AbsOf(recs[i].value)
        \/ AbsOf(recs[j].value) = AbsOf(recs[i].value) /\ i < j}

Scales(w, sc, rec) == /\ sc.room = rec.room /\ sc.stat = rec.stat /\ sc.owner # rec.op
                      /\ w.room[rec.op] = rec.room /\ ~rec.facility

Scaled(w, ev, rec) ==
  LET by == {sc.percent : sc \in {x \in ev.scalers : Scales(w, x, rec)}}
  IN IF by = {} THEN rec.value ELSE (rec.value * Max({0, 100 + Min(by)})) \div 100

ActiveControl(w) == Cardinality({o \in InKind(w, "control") : Acting(w, o)})

\* rules::base_mood_rate: a working operator tires, less so in company and
\* under an active Control Center; a Workshop costs nothing.
BaseMood(w, o) ==
  LET room == Rooms[w.room[o]]
      k == room.kind
      heads == Cardinality(In(w, w.room[o]))
      relief == IF k \in {"factory", "trading"} THEN Rules.relief[Min({heads, Len(Rules.relief)})] ELSE 0
  IN IF o \in w.idle \cup w.exhausted \/ k = "workshop" THEN 0
     ELSE IF k = "dorm" THEN Rules.rest[room.level] ELSE -(Rules.drain + relief + Rules.control * ActiveControl(w))

Outcome(w, ev) ==
  LET stats == ev.stats
      moods == ev.moods
      kept == Standing(stats, [i \in DOMAIN stats |-> <<stats[i].room, stats[i].stat, KindOf(w, stats[i].op)>>])
      keptMoods == Standing(moods, [i \in DOMAIN moods |-> <<moods[i].recipient, KindOf(w, moods[i].source), moods[i].class>>])
      probes == Standing(ev.probes, [i \in DOMAIN ev.probes |-> <<w.room[ev.probes[i].source], ev.probes[i].class>>])
      Bonus(r, stat) == MapThenSumSet(LAMBDA i : Scaled(w, ev, stats[i]),
                          {i \in kept : stats[i].room = r /\ stats[i].stat = stat})
      Base(r) == 100 + Rules.buff * Cardinality({o \in In(w, r) : Acting(w, o)})
      Staffed(r) == w.occ[r] # <<>> \/ Rooms[r].kind \notin {"factory", "trading", "hire"}
      Skilled(o) == MapThenSumSet(LAMBDA i : moods[i].value, {i \in keptMoods : moods[i].recipient = o})
  IN [stats |-> [r \in DOMAIN Rooms |->
                  [stat \in {x \in DOMAIN StatRoom : StatRoom[x] = Rooms[r].kind} |->
                     IF stat \in {"capacity", "limit"} THEN Max({0, Rules.room[stat] + Bonus(r, stat)})
                     ELSE IF Staffed(r) THEN Max({0, Base(r) + Bonus(r, stat)}) ELSE 0]],
      mood |-> [o \in w.ops |-> IF o \in w.idle THEN 0 ELSE BaseMood(w, o) + Skilled(o)],
      counted |-> ev.counted
        \cup {stats[i].op : i \in {i \in kept : Scaled(w, ev, stats[i]) # 0}}
        \cup {sc.owner : sc \in {x \in ev.scalers : \E i \in kept : stats[i].value # 0 /\ Scales(w, x, stats[i])}}
        \cup {moods[i].source : i \in {i \in keptMoods : moods[i].value # 0}},
      supports |-> ev.supports
        \cup {moods[i].source : i \in {i \in keptMoods : moods[i].value > 0 /\ moods[i].recipient # moods[i].source}}
        \cup {ev.probes[i].source : i \in probes}]

Evaluate(w) == Outcome(w, Passes(w))

-----------------------------------------------------------------------------
(* What the solver and the simulator change between two evaluations.       *)

Stationed == World(station, mood).ops

Init ==
  /\ station \in Crews
  /\ mood = MaxMood
  /\ hours = [o \in Operators |-> 0]
  /\ done = {} /\ changes = 0

\* Assignment::place: someone else in a slot, at full morale.
Place ==
  \E r \in DOMAIN Rooms, o \in Operators \ (Stationed \cup {Stranger}) :
    \E i \in DOMAIN station[r] :
      /\ station' = [station EXCEPT ![r][i] = o]
      /\ mood' = IF station[r][i] = Nobody THEN mood ELSE [mood EXCEPT ![station[r][i]] = MaxMood[station[r][i]]]
      /\ hours' = [hours EXCEPT ![o] = 0]
      /\ UNCHANGED done

\* Sim::advance_mood.
Feel ==
  \E o \in Stationed, m \in 0 .. 1 :
    /\ m # mood[o]
    /\ mood' = [mood EXCEPT ![o] = m]
    /\ hours' = [hours EXCEPT ![o] = 1]
    /\ UNCHANGED <<station, done>>

\* Sim::produce_training.
Train ==
  \E r \in World(station, mood).training :
    /\ done' = done \cup {r}
    /\ UNCHANGED <<station, mood, hours>>

Next == /\ changes < MaxChanges /\ changes' = changes + 1
        /\ Place \/ Feel \/ Train

Spec == Init /\ [][Next]_vars

-----------------------------------------------------------------------------
\* The station with someone else in o's slot.
Instead(st, o, x) == [r \in DOMAIN st |-> [i \in DOMAIN st[r] |-> IF st[r][i] = o THEN x ELSE st[r][i]]]
Feeling(o, x) == [mood EXCEPT ![x] = mood[o]]

Now == World(station, mood)

\* Whoever works and does not count could be replaced by any operator without
\* skills or groups, as tired as they are, and nothing would change: no room's
\* stats and nobody's morale.
FillersAreFree ==
  LET e == Evaluate(Now) IN
  \A o \in Now.ops \ (e.counted \cup Now.idle) :
    KindOf(Now, o) \in WorkAreas /\ MaxMood[o] = MaxMood[Stranger] =>
      LET f == Evaluate(World(Instead(station, o, Stranger), Feeling(o, Stranger))) IN
      /\ f.stats = e.stats
      /\ \A t \in Now.ops \ {o} : f.mood[t] = e.mood[t]
      /\ f.mood[Stranger] = e.mood[o]

\* Whoever rests in a Dormitory without supporting it can leave it: nobody
\* else there recovers more slowly, and neither would a stranger who came,
\* tired, to the bed of another.
SupportIsKnown ==
  LET e == Evaluate(Now) IN
  \A o \in InKind(Now, "dorm") \ e.supports :
    LET gone == Instead(station, o, Nobody)
        f == Evaluate(World(gone, mood))
    IN /\ \A t \in Now.ops \ {o} : f.mood[t] >= e.mood[t]
       /\ \A x \in In(Now, Now.room[o]) \ ({o} \cup e.supports) :
            (\A t \in In(Now, Now.room[o]) : ~NotFull(Now, t)) =>
              LET tired == [mood EXCEPT ![Stranger] = 0]
                  came == World(Instead(station, x, Stranger), tired)
                  left == World(Instead(gone, x, Stranger), tired)
              IN Evaluate(left).mood[Stranger] >= Evaluate(came).mood[Stranger]

\* Two operators who read what the others of their room provide read it from
\* the others' own skills, so that it makes no difference who sits first.
SeatsDoNotMatter ==
  \A r \in RoomsOf("factory") \cup RoomsOf("trading") : \A i, j \in DOMAIN station[r] :
    LET st == [station EXCEPT ![r][i] = station[r][j], ![r][j] = station[r][i]] IN
    Evaluate(World(st, mood)).stats = Evaluate(Now).stats
=============================================================================
