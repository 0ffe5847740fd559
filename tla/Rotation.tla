------------------------------- MODULE Rotation -------------------------------
(***************************************************************************)
(* The two-shift rotation of the simulator: the policy MoodThreshold of    *)
(* ak-eval/src/rotation.rs, asked after every tick, and Sim::apply of      *)
(* sim.rs, which carries its actions out.                                  *)
(*                                                                         *)
(* next_actions works on a plan, a copy of the assignment, in two passes:  *)
(* rested operators go back to the slot they left, then tired workers go   *)
(* to rest and a substitute takes over.  An action of this module is one   *)
(* turn of one of the two loops.  The code takes the turns in the order of *)
(* the operators' and the slots' names; names are arbitrary, so the model  *)
(* takes them in every order, and takes any free bed and any of the best   *)
(* rested substitutes.  Morale is whatever the tick made of it.            *)
(***************************************************************************)
EXTENDS Assignment, Naturals, Sequences

CONSTANTS Dorms,     \* the Dormitories
          RoomOf,    \* the room of each slot
          Bench,     \* the operators the request names as substitutes
          MaxMood,   \* the highest morale of each operator
          SwapOut,   \* a worker at or below it goes to rest
          SwapIn,    \* a rested operator is at or above it
          Supporting \* who may turn out to support the others of a room

ASSUME RotationAssumption ==
  /\ DOMAIN RoomOf = Slots
  /\ Bench \subseteq Operators
  /\ MaxMood \in [Operators -> Nat]
  /\ SwapOut \in Nat /\ SwapIn \in Nat
  /\ Supporting \subseteq Operators

Beds == {s \in Slots : RoomOf[s] \in Dorms}
Work == Slots \ Beds

Moods == {m \in [Operators -> UNION {0 .. MaxMood[op] : op \in Operators}] :
            \A op \in Operators : m[op] <= MaxMood[op]}

VARIABLES crew,       \* the assignment at the start of the run
          assignment, \* Sim::assignment
          mood,       \* OpState::mood
          supports,   \* OpState::supported_in, as pairs
          home,       \* MoodThreshold::home
          covering,   \* MoodThreshold::covering
          pc,         \* where next_actions and its caller are
          plan,       \* the plan of next_actions
          queue,      \* the turns of the loop that are to come
          actions     \* the actions asked for and not yet applied

view == <<crew, mood, supports>>
vars == <<crew, assignment, mood, supports, home, covering, pc, plan, queue,
          actions>>

-----------------------------------------------------------------------------
(* What the policy sees.                                                   *)

Resting == DOMAIN home

IsFull(op) == mood[op] = MaxMood[op]
IsRested(op) == mood[op] >= SwapIn \/ IsFull(op)
IsTired(op) == mood[op] <= SwapOut

\* Mutant: any bed will do, slept in or not.
VacantBeds_Any(a) == Beds

VacantBeds(a) == Vacancies(a) \cap Beds
Sleeps(a, op) == At(a, op) # {} /\ At(a, op) \subseteq Beds

\* MoodThreshold::substitute: the bench off the base or in a bed, and who else
\* sleeps in a bed, but for the Dormitory's support and those with a slot to
\* return to.
BenchPool(a, inDorm) ==
  {op \in Bench : Sleeps(a, op) \/ (~inDorm /\ At(a, op) = {})}

Residents(a) ==
  {op \in Operators \ (Bench \cup Resting) :
     /\ Sleeps(a, op)
     /\ \A s \in At(a, op) : <<op, RoomOf[s]>> \notin supports}

\* The best-rested of them at or above swap_in; ties go to those in a bed.
Substitutes(a, inDorm) ==
  LET fit == {op \in BenchPool(a, inDorm) \cup Residents(a) : mood[op] >= SwapIn}
      best == {op \in fit : \A other \in fit : mood[other] <= mood[op]}
      abed == {op \in best : Sleeps(a, op)}
  IN IF abed # {} THEN abed ELSE best

-----------------------------------------------------------------------------
(* The actions a policy asks for, and what Sim::apply makes of one.        *)

Move(op, s) == [kind |-> "move", operator |-> op, to |-> s]
Leave(op) == [kind |-> "bench", operator |-> op]
Trade(s, t) == [kind |-> "swap", a |-> s, b |-> t]

\* Mutant: a swap moves one of the two, and benches the other.
Applied_OneWay(a, act) ==
  CASE act.kind = "bench" -> Lifted(a, act.operator)
    [] act.kind = "move" -> Moved(a, act.operator, act.to)
    [] act.kind = "swap" -> Moved(a, a[act.b], act.a)

Applied(a, act) ==
  CASE act.kind = "move" -> Moved(a, act.operator, act.to)
    [] act.kind = "bench" -> Lifted(a, act.operator)
    [] act.kind = "swap" -> Swapped(a, act.a, act.b)

-----------------------------------------------------------------------------
(* A tick of the simulator: morale moves, support shows, and the policy is *)
(* asked.                                                                  *)

Init ==
  /\ crew \in {a \in Assignments : NoDuplicates(a)}
  /\ assignment = crew
  /\ mood = MaxMood
  /\ supports = {}
  /\ home = [op \in {} |-> Nobody]
  /\ covering = {}
  /\ pc = "tick"
  /\ plan = crew
  /\ queue = {}
  /\ actions = <<>>

Tick ==
  /\ pc = "tick"
  /\ mood' \in Moods
  /\ \E more \in SUBSET {s \in Slots : assignment[s] \in Supporting} :
       supports' = supports \cup {<<assignment[s], RoomOf[s]>> : s \in more}
  /\ pc' = "ask"
  /\ UNCHANGED <<crew, assignment, home, covering, plan, queue, actions>>

\* next_actions begins with a copy of the assignment.  Who has not rested
\* enough is passed over in the loop over home.
Ask ==
  /\ pc = "ask"
  /\ pc' = "return"
  /\ plan' = assignment
  /\ queue' = {op \in Resting : IsRested(op)}
  /\ UNCHANGED <<view, assignment, home, covering, actions>>

-----------------------------------------------------------------------------
(* First pass: rested operators go home.                                   *)

Without(op) == [r \in Resting \ {op} |-> home[r]]

Turn(op) ==
  /\ pc = "return"
  /\ op \in queue
  /\ queue' = queue \ {op}
  /\ home' = Without(op)
  /\ UNCHANGED <<view, assignment, pc>>

\* They trade places with whoever covers their slot.
TradeBack(op) ==
  /\ Turn(op)
  /\ LET slot == home[op]
         sub == plan[slot]
     IN /\ sub \notin {Nobody, op}
        /\ \E bed \in At(plan, op) :
             /\ plan' = Swapped(plan, slot, bed)
             /\ actions' = Append(actions, Trade(slot, bed))
        /\ covering' = covering \ {sub}

\* Nobody covers it, or the operator is not on the base: then whoever stands
\* in the way is sent to a free bed, or off the base.  An operator who is
\* at their slot already is only forgotten.
TakeBack(op) ==
  /\ Turn(op)
  /\ LET slot == home[op]
         sub == plan[slot]
         bed == CHOOSE b \in VacantBeds(plan) : TRUE
         evict == VacantBeds(plan) # {}
     IN /\ sub \in {Nobody, op} \/ At(plan, op) = {}
        /\ IF sub = op
           THEN UNCHANGED <<plan, covering, actions>>
           ELSE /\ covering' = covering \ {sub}
                /\ plan' = Moved(IF sub = Nobody THEN plan
                                 ELSE IF evict THEN Moved(plan, sub, bed)
                                 ELSE Lifted(plan, sub), op, slot)
                /\ actions' =
                     actions
                       \o (IF sub = Nobody THEN <<>>
                           ELSE <<IF evict THEN Move(sub, bed) ELSE Leave(sub)>>)
                       \o <<Move(op, slot)>>

BeginRest ==
  /\ pc = "return" /\ queue = {}
  /\ pc' = "rest"
  /\ queue' = {p \in Work \X Operators : plan[p[1]] = p[2] /\ IsTired(p[2])}
  /\ UNCHANGED <<view, assignment, home, covering, plan, actions>>

-----------------------------------------------------------------------------
(* Second pass: tired workers rest, and a substitute takes over.           *)

\* Mutant: a substitute who tires is to return to the slot they covered.
Relieved_CoverReturns(op, s, covers) ==
  /\ covering' = covers \ {op}
  /\ home' = IF op \in Bench THEN home
             ELSE [r \in Resting \cup {op} |-> IF r = op THEN s ELSE home[r]]

\* The worker op leaves the slot s while the operators of covers are covering.
\* A substitute who tires has no slot of their own to return to.
Relieved(op, s, covers) ==
  /\ covering' = covers \ {op}
  /\ home' = IF op \in covers \cup Bench THEN home
             ELSE [r \in Resting \cup {op} |-> IF r = op THEN s ELSE home[r]]

NextTired(op, s) ==
  /\ pc = "rest"
  /\ <<s, op>> \in queue
  /\ UNCHANGED <<view, assignment, pc>>

\* A vacant bed, and a substitute if there is one.
RestInBed(op, s) ==
  /\ NextTired(op, s)
  /\ queue' = queue \ {<<s, op>>}
  /\ \E bed \in VacantBeds(plan) :
       LET asleep == Moved(plan, op, bed)
           subs == Substitutes(plan, FALSE)
       IN \/ /\ subs = {}
             /\ plan' = asleep
             /\ actions' = Append(actions, Move(op, bed))
             /\ Relieved(op, s, covering)
          \/ \E sub \in subs :
               /\ plan' = Moved(asleep, sub, s)
               /\ actions' = actions \o <<Move(op, bed), Move(sub, s)>>
               /\ Relieved(op, s, covering \cup {sub})

\* No bed: the worker trades places with a substitute resting in one.
RestInTrade(op, s) ==
  /\ NextTired(op, s)
  /\ queue' = queue \ {<<s, op>>}
  /\ VacantBeds(plan) = {}
  /\ \E sub \in Substitutes(plan, TRUE) : \E bed \in At(plan, sub) :
       /\ plan' = Swapped(plan, s, bed)
       /\ actions' = Append(actions, Trade(s, bed))
       /\ Relieved(op, s, covering \cup {sub})

\* Mutant: the loop ends at the first worker for whom there is no free bed.
NowhereToRest_NoBed(op, s) ==
  /\ NextTired(op, s)
  /\ VacantBeds(plan) = {}
  /\ queue' = {}
  /\ UNCHANGED <<home, covering, plan, actions>>

\* Nowhere to rest: the same is taken to hold for every worker still to come.
NowhereToRest(op, s) ==
  /\ NextTired(op, s)
  /\ VacantBeds(plan) = {} /\ Substitutes(plan, TRUE) = {}
  /\ queue' = {}
  /\ UNCHANGED <<home, covering, plan, actions>>

EndRest ==
  /\ pc = "rest" /\ queue = {}
  /\ pc' = "apply"
  /\ UNCHANGED <<view, assignment, home, covering, plan, queue, actions>>

-----------------------------------------------------------------------------
(* Sim::apply carries the actions out, one after the other.                *)

Apply ==
  /\ pc = "apply" /\ actions # <<>>
  /\ assignment' = Applied(assignment, Head(actions))
  /\ actions' = Tail(actions)
  /\ UNCHANGED <<view, home, covering, pc, plan, queue>>

EndTick ==
  /\ pc = "apply" /\ actions = <<>>
  /\ pc' = "tick"
  /\ UNCHANGED <<view, assignment, home, covering, plan, queue, actions>>

Next ==
  \/ Tick \/ Ask \/ BeginRest \/ EndRest \/ Apply \/ EndTick
  \/ \E op \in Operators :
       \/ TradeBack(op) \/ TakeBack(op)
       \/ \E s \in Work :
            RestInBed(op, s) \/ RestInTrade(op, s) \/ NowhereToRest(op, s)

Spec == Init /\ [][Next]_vars

-----------------------------------------------------------------------------
(* What the rotation promises.                                             *)

\* Every variable keeps its type.
TypeOK ==
  /\ crew \in Assignments /\ assignment \in Assignments /\ plan \in Assignments
  /\ mood \in Moods
  /\ supports \subseteq Operators \X {RoomOf[s] : s \in Slots}
  /\ Resting \subseteq Operators /\ \A op \in Resting : home[op] \in Work
  /\ covering \subseteq Operators
  /\ pc \in {"tick", "ask", "return", "rest", "apply"}
  /\ queue \subseteq IF pc = "return" THEN Operators ELSE Work \X Operators

\* The owner of a work slot is who worked there at the start, unless the
\* request named them as a substitute.
IsOwner(op, s) == s \in Work /\ crew[s] = op /\ op \notin Bench \cup {Nobody}

\* However many shifts are relieved by substitutes who are relieved in turn,
\* an owner works at their slot or is on record to return to it, and nobody
\* else is ever on record for it.
OwnersKeepTheirSlots ==
  /\ \A s \in Work : IsOwner(crew[s], s) =>
       plan[s] = crew[s] \/ (crew[s] \in Resting /\ home[crew[s]] = s)
  /\ \A op \in Resting : IsOwner(op, home[op])

\* Who stands at another's slot counts as covering it (but for an operator of
\* the bench, who has no slot either way), and who is covering works.
CoversAreKnown ==
  /\ \A s \in Work : plan[s] \in covering \cup Bench \cup {Nobody, crew[s]}
  /\ \A op \in covering : At(plan, op) # {} /\ At(plan, op) \subseteq Work

\* Nobody on the base at the start is ever sent off it, and nobody is in two
\* places: the branch of next_actions that benches a substitute is never taken.
NobodyIsLost ==
  /\ Stationed(crew) \subseteq Stationed(plan)
  /\ NoDuplicates(plan) /\ NoDuplicates(assignment)

\* Who is on record to return sleeps in a bed until then.
RestersSleep == \A op \in Resting : Sleeps(plan, op)

\* The base ends up as the policy planned it: next_actions records an action
\* for each change it makes to its plan, in an order in which Sim::apply, which
\* skips what it is refused, carries out every one.
PlanIsFollowed == pc = "tick" => assignment = plan

\* When next_actions returns, who has rested is back (unless so low that they
\* were sent to rest again), and a tired worker, owner or cover, still works only
\* if there is neither a bed nor a substitute for them: the break in the second
\* loop gives up on nobody who could have been relieved.  (If the thresholds
\* overlap, SwapIn <= SwapOut, a substitute may be tired when they take over.)
ShiftsAreChanged ==
  pc = "apply" =>
    /\ \A op \in Resting : IsRested(op) => IsTired(op)
    /\ \A s \in Work : plan[s] # Nobody /\ IsTired(plan[s]) =>
         \/ VacantBeds(plan) = {} /\ Substitutes(plan, TRUE) = {}
         \/ mood[plan[s]] >= SwapIn

\* No worker who is not tired is taken off their slot, but for its rested owner.
OnlyShiftsMove ==
  [][\A s \in Work :
       plan[s] # Nobody /\ plan'[s] # plan[s] =>
         \/ IsTired(plan[s])
         \/ plan'[s] = crew[s] /\ IsRested(crew[s])]_vars

=============================================================================
