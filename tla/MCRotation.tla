----------------------------- MODULE MCRotation ------------------------------
(* Two work slots and two beds in one Dormitory; two workers, a resident and
   a substitute of the bench, but any of them may be anywhere at the start.  *)
EXTENDS Rotation, TLC

CONSTANTS w1, w2, b1, b2, ash, bob, cat, dog

MCSlots == {w1, w2, b1, b2}
OneDorm == (w1 :> "factory") @@ (w2 :> "factory") @@ (b1 :> "dorm") @@ (b2 :> "dorm")

\* Morale 0 .. 2, but ash and bob never have more than 1, the way operators
\* whose highest morale is below swap_in can only return when full.
MCMaxMood == [op \in Operators |-> IF op \in {ash, bob} THEN 1 ELSE 2]

\* Slots of one room differ by nothing but their names, and so do ash and bob.
SameRoom ==
  Permutations({w1, w2}) \cup Permutations({b1, b2}) \cup Permutations({ash, bob})

=============================================================================
