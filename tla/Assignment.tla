------------------------------ MODULE Assignment ------------------------------
(***************************************************************************)
(* Who is stationed where: the type Assignment of ak-domain and the four   *)
(* mutators through which the solver and the simulator change one.         *)
(*                                                                         *)
(* An assignment is a function from the slots of the base (every room has  *)
(* as many as its level allows) to an operator or Nobody.  A mutator is an *)
(* operator that gives the assignment it leaves behind; where the code can *)
(* refuse, a predicate Can... says when it does not.                       *)
(***************************************************************************)

CONSTANTS Operators,   \* the operators
          Slots,       \* the slots of the base, over all rooms
          Nobody       \* what an empty slot holds

ASSUME NobodyAssumption == Nobody \notin Operators

\* Assignment::with_capacities fixes the slots of each room for good.
Assignments == [Slots -> Operators \cup {Nobody}]

Occupied(a, s) == s \in Slots /\ a[s] # Nobody
Vacancies(a) == {s \in Slots : a[s] = Nobody}

\* Assignment::operators and Assignment::locate.  A set: that it has one
\* element at most is what NoDuplicates says.
Stationed(a) == {a[s] : s \in Slots} \ {Nobody}
At(a, op) == {s \in Slots : a[s] = op}

\* Assignment::check_duplicates: no operator appears in two slots.
NoDuplicates(a) ==
  \A s, t \in Slots : a[s] # Nobody /\ a[s] = a[t] => s = t

-----------------------------------------------------------------------------
(* The mutators.                                                           *)

\* Assignment::place refuses who is stationed at another slot, and a slot
\* that does not exist; whoever was at the slot is displaced.
CanPlace(a, s, op) ==
  /\ At(a, op) \subseteq {s}
  /\ s \in Slots

Placed(a, s, op) == IF CanPlace(a, s, op) THEN [a EXCEPT ![s] = op] ELSE a

\* Assignment::remove leaves a slot that does not exist alone.
Removed(a, s) == IF s \in Slots THEN [a EXCEPT ![s] = Nobody] ELSE a

\* Assignment::move_to: the slot is checked before op leaves the one they
\* are at, so that a refused move changes nothing.
Lifted(a, op) == [s \in Slots |-> IF a[s] = op THEN Nobody ELSE a[s]]

CanMove(s) == s \in Slots

Moved(a, op, s) == IF CanMove(s) THEN Placed(Lifted(a, op), s, op) ELSE a

\* Assignment::swap: both slots are checked, then both are emptied, then the
\* occupants are placed one after the other.
CanSwap(s, t) == s \in Slots /\ t \in Slots

Seated(a, s, who) == IF who = Nobody THEN a ELSE Placed(a, s, who)

Swapped(a, s, t) ==
  IF CanSwap(s, t) /\ s # t
  THEN Seated(Seated(Removed(Removed(a, s), t), s, a[t]), t, a[s])
  ELSE a

=============================================================================
