---------------------------- MODULE MCSimulation ----------------------------
(* Five bases: a gold Factory before two Trading Posts, without and with
   collections; two Factories that share their input before a Training Room and
   an Office, or a Power Plant; a Dormitory and a Training Room with two
   operators.                                                              *)
EXTENDS Simulation, TLC

CONSTANTS bed, desk, seat, ash, bob

Room(k) == [kind |-> k, item |-> "none", cost |-> 0, weight |-> 1, input |-> 1, cap |-> 3, target |-> 3, instant |-> FALSE]
Gold(f) == [f EXCEPT !.item = "gold"]
Shards(w) == [Room("factory") EXCEPT !.item = "shards", !.cost = 1, !.weight = w]
Post(n) == [Room("trading") EXCEPT !.item = "gold", !.input = n]

Empty == [s \in Slots |-> Nobody]
Base(rooms, every, gold, rock) ==
  [rooms |-> rooms, every |-> every, depot |-> [gold |-> gold, shards |-> 0],
   stock |-> [tracked |-> rock > 0, left |-> rock], crew |-> Empty, slots |-> {}]

Shop == <<Gold(Room("factory")), Post(1), Post(2)>>
Works == <<Shards(1), Shards(2), Room("training"), Room("office")>>
Plant == <<Shards(1), Shards(2), Room("training"), Room("power")>>
Home == <<Room("dorm"), Room("training")>>
Crew == [Empty EXCEPT ![bed] = ash, ![seat] = bob]

MCBases == {Base(Shop, 0, 3, 0), Base(Shop, 3, 3, 0), Base(Works, 3, 0, 4), Base(Plant, 0, 0, 2),
            [Base(Home, 0, 0, 0) EXCEPT !.crew = Crew, !.slots = Slots]}

\* Specialisation ends within a tick, and then the orders come.
TraineeShop == {Base(<<Post(1), Room("training")>>, 0, 0, 0)}

MCFeelings == {-1, 0, 1}
MCSlots == {bed, desk, seat}
MCRoomAt == (bed :> 1) @@ (desk :> 2) @@ (seat :> 2)
=============================================================================
