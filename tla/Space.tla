-------------------------------- MODULE Space --------------------------------
(***************************************************************************)
(* The search space of the solver and the moves of the annealing search    *)
(* (ak-solver/src/space.rs): which slots may change, who may fill them,    *)
(* and the neighbours of an assignment.                                    *)
(*                                                                         *)
(* The random draws are nondeterministic choices.  Whether the search      *)
(* accepts a proposal depends on its score, which this module leaves open: *)
(* every proposal may become the current assignment.                       *)
(***************************************************************************)
EXTENDS Assignment

CONSTANTS Rooms,      \* the rooms of the base
          RoomOf,     \* the room of each slot
          Training,   \* the rooms where the order of the slots matters
          Preceding,  \* Preceding[s]: the slots the list Space::slots has before s
          Locked,     \* the slots the request or the trainee holds fixed
          Candidates  \* the operators of the request's pool, or of the roster

ASSUME SpaceAssumption ==
  /\ RoomOf \in [Slots -> Rooms]
  /\ Training \subseteq Rooms
  /\ Preceding \in [Slots -> SUBSET Slots]
  /\ \A s, t \in Slots :
       IF s = t THEN s \notin Preceding[t]
                ELSE s \in Preceding[t] <=> t \notin Preceding[s]
  /\ Locked \subseteq Slots /\ Locked # Slots
  /\ Candidates \subseteq Operators

VARIABLES initial,  \* the assignment the request starts from
          pool,     \* Space::pool
          current   \* the assignment the search is at

vars == <<initial, pool, current>>

-----------------------------------------------------------------------------
(* Space::new                                                              *)

\* Space::slots: the slots the solver may change.
Free == Slots \ Locked

\* The operators of locked slots leave the pool; those of free slots join it.
\* Mutant: who stands in a locked slot stays in the pool.
FixedOps_None(a) == {}

FixedOps(a) == {a[s] : s \in Locked} \ {Nobody}

PoolOf(a) == (Candidates \ FixedOps(a)) \cup ({a[s] : s \in Free} \ {Nobody})

Init ==
  /\ initial \in {a \in Assignments : NoDuplicates(a)}
  /\ pool = PoolOf(initial)
  /\ current = initial

\* Space::unassigned: the bench.
Unassigned(a) == {op \in pool : At(a, op) = {}}

\* Slots of one room are interchangeable but for the Training Room's.
Interchangeable(s, t) == RoomOf[s] = RoomOf[t] /\ RoomOf[s] \notin Training

\* Space::canonical: equal for assignments that differ by the order within
\* a room only.  The names of a room, sorted, stand for the bag of who is in
\* it; nobody is in two slots, so the set of them and the number of empty
\* slots, which the capacity fixes, say the same.
Canonical(a) ==
  [r \in Rooms |->
     LET here == {s \in Slots : RoomOf[s] = r}
     IN IF r \in Training THEN [s \in here |-> a[s]]
                          ELSE {a[s] : s \in here} \ {Nobody}]

-----------------------------------------------------------------------------
(* The moves of Space::propose, each with the draws that change something. *)

SwapMoves(a) ==
  {Swapped(a, p[1], p[2]) :
     p \in {q \in Free \X Free :
              /\ q[1] # q[2]
              /\ ~Interchangeable(q[1], q[2])
              /\ Occupied(a, q[1]) \/ Occupied(a, q[2])}}

ReplaceMoves(a) ==
  {Moved(a, p[1], p[2]) :
     p \in Unassigned(a) \X {s \in Free : Occupied(a, s)}}

FillMoves(a) ==
  {Placed(a, p[2], p[1]) :
     p \in {q \in Unassigned(a) \X {s \in Free : ~Occupied(a, s)} :
              CanPlace(a, q[2], q[1])}}

ClearMoves(a) == {Removed(a, s) : s \in {t \in Free : Occupied(a, t)}}

\* Space::neighbours, from which propose draws when 24 draws of a move have
\* changed nothing.  The swaps: each slot with those that follow it in the
\* list, passing over a pair of one room unless its slots are ordered.
\* Mutant: a pair with one empty slot is passed over too.
SwapsListed_Both(a) ==
  UNION {{Swapped(a, s, t) :
            t \in {u \in Free :
                    /\ s \in Preceding[u]
                    /\ RoomOf[s] # RoomOf[u] \/ RoomOf[s] \in Training
                    /\ Occupied(a, s) /\ Occupied(a, u)}} : s \in Free}

SwapsListed(a) ==
  UNION {{Swapped(a, s, t) :
            t \in {u \in Free :
                    /\ s \in Preceding[u]
                    /\ RoomOf[s] # RoomOf[u] \/ RoomOf[s] \in Training
                    /\ Occupied(a, s) \/ Occupied(a, u)}} : s \in Free}

\* The swaps of each pair, then for each slot every bench operator who could
\* take it, and the slot cleared.
Neighbours(a) ==
  LET takes(s) ==
        IF Occupied(a, s)
        THEN {Moved(a, op, s) : op \in Unassigned(a)} \cup {Removed(a, s)}
        ELSE {Placed(a, s, op) : op \in Unassigned(a)}
  IN SwapsListed(a) \cup UNION {takes(s) : s \in Free}

Stay == UNCHANGED <<initial, pool>>

Swap == current' \in SwapMoves(current) /\ Stay
Replace == current' \in ReplaceMoves(current) /\ Stay
Fill == current' \in FillMoves(current) /\ Stay
Clear == current' \in ClearMoves(current) /\ Stay
Fallback == current' \in Neighbours(current) /\ Stay

\* Every restart of the annealing begins with the initial assignment.
Restart == current' = initial /\ Stay

\* The exhaustive walk begins with every free slot empty
\* (Space::clear_variable).
ClearAll ==
  /\ current' = [s \in Slots |-> IF s \in Free THEN Nobody ELSE initial[s]]
  /\ Stay

Next == Swap \/ Replace \/ Fill \/ Clear \/ Fallback \/ Restart \/ ClearAll

Spec == Init /\ [][Next]_vars

-----------------------------------------------------------------------------
(* What the search relies on.                                              *)

\* Every variable keeps its type.
TypeOK ==
  /\ initial \in Assignments
  /\ pool \subseteq Operators
  /\ current \in Assignments

\* The search never produces an operator in two places, never touches a
\* locked slot, and puts in a free slot nobody but the operators of the pool,
\* none of whom stands in a locked slot: the head of space.rs, and why no
\* place in the exhaustive walk is ever refused.
Valid ==
  /\ NoDuplicates(current)
  /\ \A s \in Locked : current[s] = initial[s]
  /\ \A s \in Free : current[s] \in pool \cup {Nobody}
  /\ \A s \in Locked : initial[s] \notin pool

\* Assignment::swap empties both slots before it fills them and could fail
\* between the two (the ? after each place), losing an operator.  It never
\* does: it exchanges the occupants of any two slots.
SwapsExchange ==
  \A s, t \in Slots :
     Swapped(current, s, t)
       = [current EXCEPT ![s] = current[t], ![t] = current[s]]

\* Space::propose falls back on Space::neighbours, a second listing of the
\* moves: it has every move the draws can make and no other.  A draw takes the
\* two slots of a swap in either order, the listing each pair once.
FallbackIsComplete ==
  Neighbours(current)
    = SwapMoves(current) \cup ReplaceMoves(current)
        \cup FillMoves(current) \cup ClearMoves(current)

\* Whatever a move does, a move undoes: the search cannot walk into a part of
\* the space it has no way out of.  It rests on the pool having taken in who
\* stood in the free slots at the start (Space::new).
MovesAreReversible ==
  \A b \in Neighbours(current) : current \in Neighbours(b)

\* No proposal is spent on a rearrangement that canonical takes for the
\* assignment the search is already at.
MovesChangeTheKey ==
  \A b \in Neighbours(current) : Canonical(b) # Canonical(current)

=============================================================================
